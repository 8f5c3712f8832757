CONSTANTS
    Shards = {0, 1}
    BlockIds <- CrossBlockIds
    Block <- CrossBlock
    Hashes = {"x"}
    Statuses = {"pending", "success", "fail"}
    Fees = {"F1", "F2"}
    Absent = Absent
    NoWriter = NoWriter
    NoFee = NoFee
    MaxRedeliveries = 3
SPECIFICATION Spec
INVARIANT Convergence
CHECK_DEADLOCK FALSE
