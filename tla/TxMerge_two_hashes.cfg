CONSTANTS
    Shards = {0, 1}
    BlockIds <- TwoBlockIds
    Block <- TwoBlock
    Hashes = {"x", "n"}
    Statuses = {"pending", "success", "fail"}
    Fees = {"F1", "F2"}
    Absent = Absent
    NoWriter = NoWriter
    NoFee = NoFee
    MaxRedeliveries = 3
SPECIFICATION Spec
INVARIANTS TypeOK NoPendingAfterExecution
PROPERTIES EventuallyConverges
CHECK_DEADLOCK FALSE
