CONSTANTS
    IntModulus = 64
    Messages <- AllMessages
    ReadSizes = {1, 2}
    DataBufSize = 2
    MaxContentLength = 3
    MaxErrors = 1
SPECIFICATION Spec
INVARIANTS EntityDelivered ArrivalIndependent
CHECK_DEADLOCK FALSE
