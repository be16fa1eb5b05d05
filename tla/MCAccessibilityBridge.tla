------------------------ MODULE MCAccessibilityBridge ------------------------
(* A window that is open, a modal one that may open; lists that lose an item. *)
EXTENDS AccessibilityBridge

CONSTANTS item1, item2, document, dialog

SmallLists == {<<item1>>, <<item2, item1>>}
WindowOpen == {<< <<document>>, <<item2, item1>>, TRUE >>}
=============================================================================
