SPECIFICATION Spec
CONSTANTS
    item1 = item1
    item2 = item2
    document = document
    dialog = dialog
    Window = {document, dialog}
    Modal = {dialog}
    Desktop = desktop
    Item = {item1, item2}
    Lists <- SmallLists
    Startup <- WindowOpen
    Deadline = 0
    Timeout = 1
    MaxPending = 1
    MaxChanges = 1
    MaxAsks = 2
INVARIANTS TypeOK ActsOnNamed 
PROPERTIES   AllAnswered
CHECK_DEADLOCK FALSE
