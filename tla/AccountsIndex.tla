---------------------------- MODULE AccountsIndex ----------------------------
(***************************************************************************)
(* The account rows of the store as the indexers of several shards write   *)
(* them and roll them back.  For every block, GetAccounts splits the       *)
(* block's altered accounts (splitAlteredAccounts), PrepareRegularAccounts- *)
(* Map and PrepareAccountsMapDCDT (process/elasticproc/accounts/           *)
(* accountsProcessor.go) turn them into the rows of the accounts index and *)
(* of the accountsdcdt index, and the rows are written: a token row with a *)
(* zero balance is deleted.  When the chain reverts the head block of a    *)
(* shard, RemoveAccountsDCDT deletes the rows whose timestamp and shard    *)
(* are the reverted block's.                                               *)
(*                                                                         *)
(* Data abstraction: a balance is a value of a small set, "0" the zero     *)
(* balance; balances are canonical decimal strings, so they always parse.  *)
(* A token is its identifier with its nonce.  Float projections, metadata, *)
(* properties and the developer-reward fields are left out: no property    *)
(* tells them apart.                                                       *)
(***************************************************************************)
EXTENDS Naturals, Sequences, SequencesExt, FiniteSets

CONSTANTS
    Shards,          \* shards whose indexers write account rows
    Addrs,           \* addresses
    ShardOf,         \* Addrs -> Shards: the shard an address lives in
    Tokens,          \* token identifiers with their nonce
    Balances,        \* non-zero balance values
    Rounds,          \* block timestamps (one round, one timestamp, in every shard)
    AccountChoices,  \* what a block can do to an account: [balance, isSender, tokens]
    NoRow,           \* model value: no row with this _id
    MaxBlocks,       \* bound on the blocks the chain produces
    MaxRollbacks     \* bound on the blocks the chain reverts

Bal == Balances \cup {"0"}
Keys == Addrs \X Tokens
Row == [balance: Bal, ts: Rounds, shard: Shards]

ASSUME ShardOf \in [Addrs -> Shards]
ASSUME \A c \in AccountChoices : c.balance \in Bal /\ c.isSender \in BOOLEAN
                                 /\ \E T \in SUBSET Tokens : c.tokens \in [T -> Bal]

VARIABLES
    chain,       \* chain[s]: the blocks of shard s, oldest first
    indexed,     \* indexed[s]: how many of them the indexer of s has indexed
    accounts,    \* accounts[a]: the row of the accounts index
    accountsdcdt,\* accountsdcdt[<<a, t>>]: the row of the accountsdcdt index
    produced,    \* blocks produced so far (the next block's id)
    rollbacks,
    lastWriter,  \* history: the id of the block whose row a key holds
    lost,        \* history: keys the reverted block wrote over a non-zero balance, not written since
    accWriter,   \* history: the id of the block whose row an address holds
    reverted     \* history: addresses whose row a reverted block wrote, not written since

vars == <<chain, indexed, accounts, accountsdcdt, produced, rollbacks, lastWriter, lost,
          accWriter, reverted>>

(***************************************************************************)
(* The chain                                                               *)
(***************************************************************************)
\* a value of address a after the first n blocks of its shard: the one the
\* last block that altered it (Alters) gave it (F), "0" before any
Latest(a, n, Alters(_), F(_)) ==
    FoldLeft(LAMBDA v, blk : IF \E acc \in blk.accounts : acc.address = a /\ Alters(acc)
                             THEN F(CHOOSE acc \in blk.accounts : acc.address = a)
                             ELSE v,
             "0", SubSeq(chain[ShardOf[a]], 1, n))

ChainBalance(a, n) == Latest(a, n, LAMBDA acc : TRUE, LAMBDA acc : acc.balance)

ChainTokenBalance(k, n) ==
    Latest(k[1], n, LAMBDA acc : k[2] \in DOMAIN acc.tokens, LAMBDA acc : acc.tokens[k[2]])

LastTs(s) == IF chain[s] = <<>> THEN 0 ELSE Last(chain[s]).ts

(***************************************************************************)
(* accountsProcessor                                                       *)
(***************************************************************************)
\* len(balance) > 0 && balance != "0"
NotZeroBalance(b) == b # "0"

\* Variant: the heuristic ignores every non-sender with a balance, changed or not.
IgnoreAddressNoChangeCheck(acc) == NotZeroBalance(acc.balance) /\ ~acc.isSender

\* a non-zero balance that did not change, of an account that is not the
\* sender: a pass-through receiver of a token operation, not indexed
IgnoreAddress(acc) == ~acc.balanceChanged /\ NotZeroBalance(acc.balance) /\ ~acc.isSender

\* Variant: the tokens of an ignored address are skipped with it.
TokenEntriesSkipIgnored(acc) == IF IgnoreAddress(acc) THEN {} ELSE DOMAIN acc.tokens

\* every token entry of the account yields one token record
TokenEntries(acc) == DOMAIN acc.tokens

\* splitAlteredAccounts: the regular record unless ignored, and the token records
SplitAlteredAccounts(acc) ==
    [regular |-> IF IgnoreAddress(acc) THEN {} ELSE {acc},
     dcdt    |-> {[account |-> acc, token |-> t] : t \in TokenEntries(acc)}]

\* GetAccounts: the records of every altered account
GetAccounts(alt) ==
    [regular |-> UNION {SplitAlteredAccounts(acc).regular : acc \in alt},
     dcdt    |-> UNION {SplitAlteredAccounts(acc).dcdt : acc \in alt}]

\* PrepareRegularAccountsMap: one row per address
PrepareRegularAccountsMap(ts, regular, s) ==
    [a \in {acc.address : acc \in regular} |->
        [balance |-> (CHOOSE acc \in regular : acc.address = a).balance, ts |-> ts, shard |-> s]]

\* getDCDTInfo: the balance of the entry matching identifier and nonce
GetDCDTInfo(rec) == rec.account.tokens[rec.token]

\* Variant: the map key leaves out the address.
DCDTKeyNoAddress(rec) == <<"", rec.token>>

\* keyInMap: address-token-nonce
DCDTKey(rec) == <<rec.account.address, rec.token>>

\* PrepareAccountsMapDCDT: one row per key, zero balances included
PrepareAccountsMapDCDT(ts, dcdt, s) ==
    [k \in {DCDTKey(r) : r \in dcdt} |->
        [balance |-> GetDCDTInfo(CHOOSE r \in dcdt : DCDTKey(r) = k), ts |-> ts, shard |-> s]]

(***************************************************************************)
(* The store                                                               *)
(***************************************************************************)
\* the accountsdcdt rows of a block: a zero balance deletes the row
WriteDCDTRows(rows, store) ==
    [k \in DOMAIN rows |-> IF rows[k].balance = "0" THEN NoRow ELSE rows[k]] @@ store

\* Variant: a row is removed when its timestamp is the reverted block's.
RemoveMatchesTimestampOnly(row, ts, s) == row # NoRow /\ row.ts = ts

\* RemoveAccountsDCDT(timestamp, shardID): the rows of the reverted block
RemoveMatches(row, ts, s) == row # NoRow /\ row.ts = ts /\ row.shard = s

-----------------------------------------------------------------------------

Init ==
    /\ chain = [s \in Shards |-> <<>>]
    /\ indexed = [s \in Shards |-> 0]
    /\ accounts = [a \in Addrs |-> NoRow]
    /\ accountsdcdt = [k \in Keys |-> NoRow]
    /\ produced = 0
    /\ rollbacks = 0
    /\ lastWriter = [k \in Keys |-> 0]
    /\ lost = {}
    /\ accWriter = [a \in Addrs |-> 0]
    /\ reverted = {}

\* the chain produces a block of shard s that alters one of its accounts;
\* the node marks the balance changed when it differs from the last one
ProduceBlock(s) ==
    /\ produced < MaxBlocks
    /\ \E a \in {x \in Addrs : ShardOf[x] = s}, c \in AccountChoices, ts \in Rounds :
          /\ ts > LastTs(s)
          /\ LET acc == [address |-> a, balance |-> c.balance, isSender |-> c.isSender,
                         tokens |-> c.tokens,
                         balanceChanged |-> c.balance # ChainBalance(a, Len(chain[s]))]
             IN chain' = [chain EXCEPT ![s] = Append(@, [id |-> produced + 1, ts |-> ts,
                                                         accounts |-> {acc}])]
    /\ produced' = produced + 1
    /\ UNCHANGED <<indexed, accounts, accountsdcdt, rollbacks, lastWriter, lost, accWriter, reverted>>

\* the indexer of s indexes its next block: GetAccounts, the two maps, the writes
IndexBlock(s) ==
    /\ indexed[s] < Len(chain[s])
    /\ LET b    == chain[s][indexed[s] + 1]
           recs == GetAccounts(b.accounts)
           regs == PrepareRegularAccountsMap(b.ts, recs.regular, s)
           dcdt == PrepareAccountsMapDCDT(b.ts, recs.dcdt, s)
       IN /\ accounts' = regs @@ accounts
          /\ accountsdcdt' = WriteDCDTRows(dcdt, accountsdcdt)
          /\ lastWriter' = [k \in DOMAIN dcdt |-> b.id] @@ lastWriter
          /\ lost' = lost \ DOMAIN dcdt
          /\ accWriter' = [a \in DOMAIN regs |-> b.id] @@ accWriter
          /\ reverted' = reverted \ DOMAIN regs
    /\ indexed' = [indexed EXCEPT ![s] = @ + 1]
    /\ UNCHANGED <<chain, produced, rollbacks>>

\* the chain reverts the head block of s, which the indexer has indexed:
\* RemoveAccountsDCDT deletes the accountsdcdt rows of that block; the
\* accounts index is not touched
Rollback(s) ==
    /\ rollbacks < MaxRollbacks
    /\ chain[s] # <<>> /\ indexed[s] = Len(chain[s])
    /\ LET b   == Last(chain[s])
           del == {k \in Keys : RemoveMatches(accountsdcdt[k], b.ts, s)}
       IN /\ accountsdcdt' = [k \in Keys |-> IF k \in del THEN NoRow ELSE accountsdcdt[k]]
          /\ reverted' = reverted \cup {a \in Addrs : accWriter[a] = b.id}
          /\ lost' = lost \cup {k \in Keys : lastWriter[k] = b.id
                                             /\ ChainTokenBalance(k, Len(chain[s]) - 1) # "0"}
    /\ chain' = [chain EXCEPT ![s] = Front(@)]
    /\ indexed' = [indexed EXCEPT ![s] = @ - 1]
    /\ rollbacks' = rollbacks + 1
    /\ UNCHANGED <<produced, lastWriter, accounts, accWriter>>

Next == \E s \in Shards : ProduceBlock(s) \/ IndexBlock(s) \/ Rollback(s)

Spec == Init /\ [][Next]_vars

-----------------------------------------------------------------------------
(* Properties                                                              *)

TypeOK ==
    /\ accounts \in [Addrs -> Row \cup {NoRow}]
    /\ accountsdcdt \in [Keys -> Row \cup {NoRow}]
    /\ indexed \in [Shards -> Nat] /\ \A s \in Shards : indexed[s] <= Len(chain[s])
    /\ lost \subseteq Keys /\ reverted \subseteq Addrs

RowBalance(row) == IF row = NoRow THEN "0" ELSE row.balance

\* Every token row says what the indexed blocks say: its balance is the one
\* the last indexed block that altered the key gave it, and a zero balance
\* has no row.  Excepted are only the keys a reverted block wrote over an
\* older non-zero balance, until a block writes them again: the rollback is
\* a hard delete and cannot bring the older balance back.
DCDTRowsMatchChain ==
    \A k \in Keys \ lost :
        RowBalance(accountsdcdt[k]) = ChainTokenBalance(k, indexed[ShardOf[k[1]]])

\* The accounts index says what the indexed blocks say: every address has
\* the balance the last indexed block that altered it gave it ("0", no row,
\* before any), although splitAlteredAccounts skips a receiver whose
\* balance it deems unchanged and trusts its row instead.  Excepted are the
\* addresses whose row a reverted block wrote, until a block writes them
\* again: the rollback leaves that row in place.
AccountRowsMatchChain ==
    \A a \in Addrs \ reverted :
        RowBalance(accounts[a]) = ChainBalance(a, indexed[ShardOf[a]])

=============================================================================
