---------------------------- MODULE MC_TxMerge ----------------------------
(***************************************************************************)
(* Scenarios for TxMerge: the blocks that write the documents of one or    *)
(* two transaction hashes.                                                 *)
(***************************************************************************)
EXTENDS TxMerge

\* A cross-shard smart-contract call x from shard 0 to shard 1.  Shard 0
\* indexes it as "pending" (src); shard 1 executes it (dst).  Both write
\* the log of x, each with its own block's timestamp.
CrossTx(status) ==
    [senderShard |-> 0, receiverShard |-> 1, nftTransfer |-> FALSE,
     status |-> status, fee |-> "F2"]

SrcOps == << [type |-> "tx", hash |-> "x", tx |-> [CrossTx("pending") EXCEPT !.fee = "F1"]],
             [type |-> "log", hash |-> "x"] >>

DstOps == << [type |-> "tx", hash |-> "x", tx |-> CrossTx("success")],
             [type |-> "log", hash |-> "x"] >>

\* A failed call: a later block of shard 0 carries the callback, whose
\* signalError log turns x into "fail", and the gas refund (cb).
CrossBlockIds == {"src", "dst", "cb"}

CrossBlock ==
    [b \in CrossBlockIds |->
        CASE b = "src" -> [shard |-> 0, ts |-> 1, ops |-> SrcOps]
          [] b = "dst" -> [shard |-> 1, ts |-> 2, ops |-> DstOps]
          [] b = "cb"  -> [shard |-> 0, ts |-> 3,
                           ops |-> << [type |-> "status", hash |-> "x",
                                       info |-> [status |-> "fail", errorEvent |-> TRUE,
                                                 completedEvent |-> FALSE]],
                                      [type |-> "fee", hash |-> "x", fee |-> "F2"] >>]]

\* Next to a successful call x, an NFT transfer n: the transaction is sent
\* by an address of shard 0 to itself (DCDTNFTTransfer@token@nonce@value@
\* receiver) in the same block as x; the token goes to a contract of shard 1
\* whose execution fails, and shard 1's signalError log marks n "fail" in
\* the block that executes x (dst); the refund of n comes back to shard 0
\* in a later block (refund).
NFTTx ==
    [senderShard |-> 0, receiverShard |-> 0, nftTransfer |-> TRUE,
     status |-> "success", fee |-> "F1"]

TwoBlockIds == {"src", "dst", "refund"}

TwoBlock ==
    [b \in TwoBlockIds |->
        CASE b = "src"    -> [shard |-> 0, ts |-> 1,
                              ops |-> SrcOps \o << [type |-> "tx", hash |-> "n", tx |-> NFTTx] >>]
          [] b = "dst"    -> [shard |-> 1, ts |-> 2,
                              ops |-> DstOps \o
                                      << [type |-> "status", hash |-> "n",
                                          info |-> [status |-> "fail", errorEvent |-> TRUE,
                                                    completedEvent |-> FALSE]] >>]
          [] b = "refund" -> [shard |-> 0, ts |-> 3,
                              ops |-> << [type |-> "fee", hash |-> "n", fee |-> "F2"] >>]]

=============================================================================
