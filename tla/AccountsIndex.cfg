CONSTANTS
    Shards = {"s1", "s2"}
    Addrs = {"A", "B"}
    ShardOf <- MCShardOf
    Tokens = {"T", "N"}
    Balances = {"1", "2"}
    Rounds = {1, 2}
    AccountChoices <- MCAccountChoices
    NoRow = NoRow
    MaxBlocks = 5
    MaxRollbacks = 2
SPECIFICATION Spec
CHECK_DEADLOCK FALSE
INVARIANTS TypeOK DCDTRowsMatchChain AccountRowsMatchChain
