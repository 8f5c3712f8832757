------------------------------ MODULE TxMerge ------------------------------
(***************************************************************************)
(* The merge protocol of the transactions and logs indexes: the bulk       *)
(* mutations that SerializeTransactions, serializeTxHashStatus and          *)
(* SerializeTransactionsFeeData (process/elasticproc/transactions/         *)
(* serialize.go) emit for a transaction hash, and the log document that     *)
(* PrepareLogsForDB builds and SerializeLogs writes with its last-writer-  *)
(* wins script, applied by the document store to the documents with that   *)
(* hash as _id.                                                            *)
(*                                                                         *)
(* Every shard runs its own indexer.  Each indexer receives the blocks of  *)
(* its shard in chain order and sends, per block, one bulk request whose   *)
(* items the store applies one at a time.  Indexers of different shards    *)
(* are independent, so their items interleave arbitrarily, and the node    *)
(* re-sends a block whose bulk request failed or was not acknowledged.     *)
(*                                                                         *)
(* Data abstraction: the transaction fields that every writer fills in the *)
(* same way (hash, sender, value, data...) are represented by "writer",    *)
(* the block whose transaction document last replaced the source; status,  *)
(* fee and the two event flags are kept, since the scripts treat them      *)
(* differently.  A log document is represented by the block that wrote it  *)
(* and its timestamp: its events are a function of the block.              *)
(***************************************************************************)
EXTENDS Naturals, Sequences, SequencesExt, TLC

CONSTANTS
    Shards,          \* shards whose indexers write to the store
    BlockIds,        \* the blocks of the scenario
    Block,           \* BlockIds -> [shard, ts, ops]: a block's shard, timestamp, bulk items
    Hashes,          \* transaction hashes the blocks write
    Statuses,        \* non-empty transaction statuses ("pending", "success", "fail")
    Fees,            \* fee values
    Absent,          \* model value: no document with this _id
    NoWriter,        \* model value: document created without transaction fields
    NoFee,           \* model value: document without a fee field
    MaxRedeliveries  \* bound on blocks re-sent by the node

ASSUME Absent \notin BlockIds /\ NoWriter \notin BlockIds /\ NoFee \notin Fees
ASSUME MaxRedeliveries \in Nat

VARIABLES
    doc,           \* doc[id]: the stored document with _id id, or Absent
    next,          \* next[s]: position in Queue(s) of the block indexer s sends
    item,          \* item[s]: position of the next item of that block's bulk request
    redeliveries,  \* number of blocks re-sent so far
    appliedOps     \* history: <<block, item>> pairs the store has applied at least once

vars == <<doc, next, item, redeliveries, appliedOps>>

StatusVal == Statuses \cup {""}

TxRec == [senderShard: Shards, receiverShard: Shards, nftTransfer: BOOLEAN,
          status: Statuses, fee: Fees]

StatusInfoRec == [status: StatusVal, errorEvent: BOOLEAN, completedEvent: BOOLEAN]

Op == [type: {"tx"}, hash: Hashes, tx: TxRec] \cup [type: {"status"}, hash: Hashes, info: StatusInfoRec]
        \cup [type: {"fee"}, hash: Hashes, fee: Fees] \cup [type: {"log"}, hash: Hashes]

Doc == [writer: BlockIds \cup {NoWriter}, status: StatusVal, fee: Fees \cup {NoFee},
        errorEvent: BOOLEAN, completedEvent: BOOLEAN]

LogDocVal == [writer: BlockIds, ts: Nat]

\* the _id an item writes: the hash, in the logs index for a log
DocId(op) == IF op.type = "log" THEN <<"logs", op.hash>> ELSE <<"transactions", op.hash>>

DocIds == {"transactions", "logs"} \X Hashes

ASSUME \A b \in BlockIds : Block[b].shard \in Shards /\ Block[b].ts \in Nat
                           /\ Block[b].ops \in Seq(Op) /\ Block[b].ops # <<>>

(***************************************************************************)
(* Per-shard delivery: the blocks of shard s in chain (timestamp) order.   *)
(***************************************************************************)
EarlierBlock(a, c) == Block[a].ts < Block[c].ts

Queue(s) == SetToSortSeq({b \in BlockIds : Block[b].shard = s}, EarlierBlock)

(***************************************************************************)
(* The document prepareTransaction builds for a transaction of block b:    *)
(* errorEvent and completedEvent are false, hence omitted from the JSON.   *)
(***************************************************************************)
TxDoc(b, tx) ==
    [writer |-> b, status |-> tx.status, fee |-> tx.fee,
     errorEvent |-> FALSE, completedEvent |-> FALSE]

(***************************************************************************)
(* Classification of a transaction by prepareSerializedDataForATransaction.*)
(***************************************************************************)
IsCrossShardOnSourceShard(tx, selfShard) ==
    tx.senderShard # tx.receiverShard /\ tx.senderShard = selfShard

\* data is DCDTNFTTransfer@... or MultiDCDTNFTTransfer@... with enough
\* arguments (nftTransfer) and the sender and receiver shards are equal
IsNFTTransferOrMultiTransfer(tx) ==
    /\ tx.senderShard = tx.receiverShard
    /\ tx.nftTransfer

\* Variant: the upsert is sent as a scripted upsert, so "return" also runs on
\* a missing document and nothing is created.
SourceShardUpsertScripted(d, new) == d

\* Variant: the source shard's write is a plain "index", like the others.
SourceShardUpsertIndex(d, new) == new

\* upsert with script "return": insert if missing, leave an existing document
SourceShardUpsert(d, new) == IF d = Absent THEN new ELSE d

\* Variant: the script replaces the document without keeping status and events.
NFTTransferUpsertNoPreserve(d, new) == new

\* scripted upsert: on create the new document, otherwise the new document
\* with the stored status (if non-empty) and the stored events (if present)
NFTTransferUpsert(d, new) ==
    IF d = Absent THEN new
    ELSE [new EXCEPT !.status = IF d.status # "" THEN d.status ELSE @,
                     !.errorEvent = IF d.errorEvent THEN TRUE ELSE @,
                     !.completedEvent = IF d.completedEvent THEN TRUE ELSE @]

\* the mutation of one transaction document as the store applies it
TxWrite(d, b, tx) ==
    IF IsCrossShardOnSourceShard(tx, Block[b].shard)
    THEN SourceShardUpsert(d, TxDoc(b, tx))
    ELSE IF IsNFTTransferOrMultiTransfer(tx)
         THEN NFTTransferUpsert(d, TxDoc(b, tx))
         ELSE TxDoc(b, tx)  \* "index": intra-shard, invalid or destination shard

\* Variant: the upsert body omits the event flags of the status info.
StatusUpdateShortUpsert(d, info) ==
    IF d = Absent
    THEN [writer |-> NoWriter, status |-> info.status, fee |-> NoFee]
    ELSE [d EXCEPT !.status = IF info.status # "" THEN info.status ELSE @,
                   !.completedEvent = IF info.completedEvent THEN TRUE ELSE @,
                   !.errorEvent = IF info.errorEvent THEN TRUE ELSE @]

\* serializeTxHashStatus: the script overrides status and sets the events;
\* a missing document is created from the upsert {status, events}
StatusUpdate(d, info) ==
    IF d = Absent
    THEN [writer |-> NoWriter, status |-> info.status, fee |-> NoFee,
          errorEvent |-> info.errorEvent, completedEvent |-> info.completedEvent]
    ELSE [d EXCEPT !.status = IF info.status # "" THEN info.status ELSE @,
                   !.completedEvent = IF info.completedEvent THEN TRUE ELSE @,
                   !.errorEvent = IF info.errorEvent THEN TRUE ELSE @]

\* SerializeTransactionsFeeData: scripted upsert that turns 'create' into a
\* noop and otherwise overwrites the fee fields
FeeUpdate(d, fee) == IF d = Absent THEN d ELSE [d EXCEPT !.fee = fee]

(***************************************************************************)
(* The logs index.                                                         *)
(***************************************************************************)
\* prepareLogsForDB: the log of a transaction in block b, _id the hash, with
\* the block's timestamp and the events of the log
LogDoc(b) == [writer |-> b, ts |-> Block[b].ts]

\* scripted upsert: on create the log; otherwise the log replaces a stored
\* one without timestamp or with a timestamp not above its own
LogUpsert(d, new) ==
    IF d = Absent THEN new
    ELSE IF d.ts <= new.ts THEN new ELSE d

ApplyOp(d, b, op) ==
    CASE op.type = "tx"     -> TxWrite(d, b, op.tx)
      [] op.type = "status" -> StatusUpdate(d, op.info)
      [] op.type = "fee"    -> FeeUpdate(d, op.fee)
      [] op.type = "log"    -> LogUpsert(d, LogDoc(b))

(***************************************************************************)
(* The documents the blocks produce when their bulk requests are applied   *)
(* once each, in chain order: what every delivery order should converge to.*)
(***************************************************************************)
ChainOrder == SetToSortSeq(BlockIds, EarlierBlock)

ApplyBlock(ds, b) ==
    FoldLeft(LAMBDA dd, op : [dd EXCEPT ![DocId(op)] = ApplyOp(@, b, op)], ds, Block[b].ops)

ChainOrderDocs == FoldLeft(ApplyBlock, [id \in DocIds |-> Absent], ChainOrder)

-----------------------------------------------------------------------------

Init ==
    /\ doc = [id \in DocIds |-> Absent]
    /\ next = [s \in Shards |-> 1]
    /\ item = [s \in Shards |-> 1]
    /\ redeliveries = 0
    /\ appliedOps = {}

\* the store applies the next item of the bulk request indexer s is sending
ApplyItem(s) ==
    /\ next[s] <= Len(Queue(s))
    /\ LET b    == Queue(s)[next[s]]
           last == item[s] = Len(Block[b].ops)
           op   == Block[b].ops[item[s]]
       IN /\ doc' = [doc EXCEPT ![DocId(op)] = ApplyOp(@, b, op)]
          /\ appliedOps' = appliedOps \cup {<<b, item[s]>>}
          /\ item' = [item EXCEPT ![s] = IF last THEN 1 ELSE @ + 1]
          /\ next' = [next EXCEPT ![s] = IF last THEN @ + 1 ELSE @]
    /\ UNCHANGED redeliveries

\* the node re-sends a block: the one whose bulk request failed part-way, or
\* the last one, whose acknowledgement it did not get
Redeliver(s) ==
    /\ redeliveries < MaxRedeliveries
    /\ \/ /\ item[s] > 1
          /\ item' = [item EXCEPT ![s] = 1]
          /\ UNCHANGED next
       \/ /\ item[s] = 1
          /\ next[s] > 1
          /\ next' = [next EXCEPT ![s] = @ - 1]
          /\ UNCHANGED item
    /\ redeliveries' = redeliveries + 1
    /\ UNCHANGED <<doc, appliedOps>>

Next == \E s \in Shards : ApplyItem(s) \/ Redeliver(s)

Fairness == \A s \in Shards : WF_vars(ApplyItem(s))

Spec == Init /\ [][Next]_vars /\ Fairness

Done == \A s \in Shards : next[s] > Len(Queue(s))

-----------------------------------------------------------------------------
(* Properties                                                              *)

TypeOK ==
    /\ doc \in [DocIds -> Doc \cup LogDocVal \cup {Absent}]
    /\ \A h \in Hashes : doc[<<"logs", h>>] \in LogDocVal \cup {Absent}
    /\ next \in [Shards -> Nat] /\ item \in [Shards -> Nat \ {0}]
    /\ redeliveries \in 0..MaxRedeliveries

\* Order independence (spec section 8): once every block has been indexed,
\* whatever the interleaving of the shards' bulk items and the re-sent
\* blocks, every document is the one chain-order indexing produces.
Convergence == Done => doc = ChainOrderDocs

\* The same, as liveness: the indexers, which keep sending the blocks they
\* are given, reach the chain-order documents and keep them.
EventuallyConverges == <>[](Done /\ doc = ChainOrderDocs)

\* A source shard's write of a cross-shard transaction (status "pending")
\* never replaces a result already written by another block: when a
\* transaction document says "pending", no item of that hash carrying
\* another status has reached it.
NoPendingAfterExecution ==
    \A h \in Hashes :
        LET d == doc[<<"transactions", h>>] IN
        (d # Absent /\ d.status = "pending") =>
            \A p \in appliedOps :
                LET op == Block[p[1]].ops[p[2]]
                IN op.hash = h =>
                   /\ op.type = "tx" => op.tx.status = "pending"
                   /\ op.type = "status" => op.info.status \in {"", "pending"}

=============================================================================
