SPECIFICATION Spec
CONSTANTS
    Sid = {i1, i2}
    Own = {i2}
    Reader = {preview}
    Workers = 1
    MaxStarts = 2
    MaxAsks = 2
INVARIANTS EndsConfirmed ReceiptTruthful 
 
CHECK_DEADLOCK FALSE
