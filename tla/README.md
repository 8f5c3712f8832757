# TLA+ models of the k-chain Elasticsearch indexer

This directory holds TLA+ models of the parts of the indexer in `src/` where
order, repetition and concurrency decide the result. The indexer turns
blocks into bulk requests for Elasticsearch. It models:

- the merge protocol that lets independent per-shard indexers write the same
  documents: transactions, NFT transfers and their logs;
- the NFT-update serializer, composed with the metachain's writes of the
  same token documents (issue, ownership transfer) and the shards' role
  changes;
- the event classifier;
- the account splitter and the account rows it writes, with rollbacks;
- the balance-checker tool running against a live store, shown to implement
  an abstract specification of what it promises.

Every module is written from the Go source, except the abstract
specification `CheckAll`, which states what the spec promises of the
balance checker. The only other exception is code that
is not in this repository: those definitions are modelled from `spec.md` and
are marked `spec_modelled` in `PROJECT.json`, which also maps each
definition to the lines it models.

## The system

Each shard runs its own indexer. An indexer receives its shard's blocks in
chain order and, for every block:

1. **classifies** the logs' events into facts (`logsevents/`):
   `ExtractDataFromLogs` walks an ordered chain of seven handlers.
2. **splits** the altered accounts into account rows and token-balance rows
   (`accounts/accountsProcessor.go`).
3. **serializes** everything into one bulk request (`transactions/serialize.go`,
   `converters/tokenMetaData.go`, ...). Documents several writers share are
   written with `update` and a painless script that merges, not with `index`.

The store applies a bulk request's items one by one. Indexers of different
shards are independent, so their items interleave arbitrarily. The node
re-sends a block whose request failed or was not acknowledged, so every item
must be safe to apply twice. A separate tool,
`tools/accounts-balance-checker`, compares the token balances in the store
with a proxy's. It runs a bounded pool of goroutines and deletes or
overwrites the rows it finds wrong while the indexers keep writing.

### Inventory

| Part | State | Operations | Hard behaviour |
|---|---|---|---|
| Transaction merge (`serialize.go`, `transactionDBBuilder.go`) | one document per tx hash: fields, status, fee, errorEvent, completedEvent | source-shard upsert (`return` script), NFT-transfer scripted upsert, plain index, status override, fee update | cross-shard writes from two indexers, callback status from a third block, re-delivery |
| NFT updates (`tokenMetaData.go`) | NFT documents in `tokens` and `accountsdcdt`: attributes, uris, frozen, paused | `PrepareNFTUpdateData`; attributes, AddURI, freeze and pause scripts with `upsert: {}` | early `return` inside the loop, index-dependent branches, re-sent scripts |
| Event classifier (`logsAndEventsProcessor.go` and three handlers) | the block's accumulator of facts, HasLogs and HasOperations flags | handler chain per event, `continue` for known hashes, first claim ends the chain otherwise | topic counts read without checks (panics), nonce-zero events passed on |
| Account splitter (`accountsProcessor.go`) | account rows and token-balance rows of a block | `splitAlteredAccounts`, `PrepareAccountsMapDCDT`, `getDCDTInfo` | undecodable balance treated as zero, ignored accounts |
| Logs and events (`PrepareLogsForDB`, scripts in `serialize_test.go`) | log document per tx hash, event documents | last-writer-wins by timestamp, rollback by timestamp | source and destination shard both write a log, equal timestamps |
| Tokens, delegators, deploys (scripts in `serialize_test.go`) | token document with roles, ownersHistory; deploy upgrades | scripted upserts that keep roles, append histories | pause or freeze before issue, appends repeated on re-delivery |

| Balance checker (`checker_balance_dcdt.go`, `main.go`) | ES balances, proxy balances, semaphore, counter | per-address compare twice, delete extra, fix wrong | proxy error, stale proxy read racing the indexer, bounded pool, early returns and the close at the end of `startCheck` |

Logs are modelled in TxMerge (the log document, not the event documents or
the rollback). Tokens are modelled in NFTUpdates (issue, roles, ownership
transfer); delegators and deploys are not modelled.

Not modelled, and why:

- Block serializer (`block/serialize.go`): a plain index with no merge.
- HTTP transport, web server and API: I/O plumbing.
- Index templates and data types: static.
- The balance checker's `main()`: it declares the flags and runs
  `startCheck`, which is modelled in BalanceChecker.
- The balance checker's repairs (`deleteExtraBalance`, `fixWrongBalance`),
  `CheckREWABalances` and `CreateBalanceChecker` are not in this
  repository. The model repairs as `--repair` would have it; the `--repair`
  flag is only handed to `CreateBalanceChecker`. `getLasTimeWhenBalanceWasChanged`
  only looks up the timestamp those repairs are given and a log line.
- The event documents and `RemoveTransactions` (the rollback of transactions,
  logs and events): their serializer and the rollback are not in this
  repository.

## Modules

### TxMerge (`TxMerge.tla`, `MC_TxMerge.tla`)

The documents of a set of transaction hashes (`Hashes`): for each hash, its
document in the transactions index and its log document in the logs index
(`DocId`). They are written by the blocks of a scenario, each with a shard,
a timestamp and a sequence of bulk items.

| Definition | Code |
|---|---|
| `TxWrite` | `prepareSerializedDataForATransaction` |
| `SourceShardUpsert` | the `"return"` script with the transaction as upsert |
| `NFTTransferUpsert` | `prepareNFTDCDTTransferOrMultiDCDTTransfer` |
| `TxDoc` | `prepareTransaction` |
| `StatusUpdate` | `serializeTxHashStatus` |
| `FeeUpdate` | `SerializeTransactionsFeeData` |
| `LogDoc` | `PrepareLogsForDB`: the log with its block's timestamp |
| `LogUpsert` | the logs script (from `serialize_test.go`): the stored log is replaced when its timestamp is not later than the incoming one |

Variables:

- `next[s]` and `item[s]`: where indexer `s` is in its queue (the shard's
  blocks by timestamp) and in the current block's request.
- `doc[id]`: the document with id `id`.
- `redeliveries`: how many blocks have been re-sent.
- `appliedOps`: which items the store has applied.

Actions:

- `ApplyItem(s)`: the store applies the next item from indexer `s`.
- `Redeliver(s)`: the node re-sends the block that failed part-way, or the
  last block. Bounded by `MaxRedeliveries`.

`ChainOrderDocs` folds every block's items in timestamp order. It is the
reference an order-independent merge must reach.

The scenario of the passing run has a cross-shard call `x`, whose log both
shards write (the source at timestamp 1, the destination at 2), and an
intra-shard NFT transfer `n` in the same source block, whose status the
destination block overrides and whose fee a later block refunds.

### NFTUpdates (`NFTUpdates.tla`, `MC_NFTUpdates.tla`)

`PrepareNFTUpdateData` is the recursive operator `PrepareLoop`. It keeps the
`return` after a freeze or pause item for the tokens index.
`PrepareNFTUpdateDataAll` is the loop without that return, one item per
update.

`ApplyNFTItem` is the store running a script with `upsert: {}`. A missing
document becomes an empty one, and the script does not run.

The token document of a collection has two more writers. The metachain's
indexer issues the token (`IssueScript`: the script acts only on a document
that has roles, keeps them and replaces the rest; a missing document is
created from the upsert) and later transfers its ownership
(`TransferScript`: append to `ownersHistory`, with no check for the
owner already being there). The scripts come from
`serialize_test.go`, since `SerializeTokens` is not in this repository. A
shard's indexer writes the role changes (`RolesScript`, modelled from the
spec) and the pauses. The two indexers are independent.

Actions:

- `Prepare`: serialize a block's updates and role changes for one index.
- `Apply`: the store applies the next item.
- `Redeliver`: the block's request is sent again.
- `IssueBlock`, `TransferBlock`: the metachain's indexer sends its issue
  block, then, once that succeeded, its transfer block.
- `ApplyMeta`, `RedeliverMeta`: the store applies the metachain's next item;
  the node re-sends the metachain's last block.

The scenario:

- one NFT `TKN-01` held by `A`, in both indexes, with the data `PrepareTokenMetaData` gives it at creation, without URIs;
- its collection `TKN`, whose tokens document has no data;
- the six update kinds, two AddURI updates (`<<"u2">>` and `<<"u1", "u2">>`), and a role change of `TKN`;
- the issue of `TKN` and a transfer of its ownership;
- two blocks of up to two updates each.

`uris` is a sequence, as in the stored document. `AddURIScript` follows
the painless loop: with no URIs stored it sets the incoming list; otherwise
`AddMissingURIs` folds over the incoming URIs and appends each one it does
not find in the list as it stands. An empty stored list stands for the
missing `uris` key.

### EventClassifier (`EventClassifier.tla`, `MC_EventClassifier.tla`)

One block's `ExtractDataFromLogs`, step by step. The actions are:

- `ProcessEvent`: one handler of the chain runs on the current event;
- `SkipNilLog` and `SkipNilEvent`: nil logs and events are skipped;
- `EndLog`: sets HasLogs.

The handler operators abstract an event to what they branch on:

- the number of topics;
- whether the nonce is zero;
- whether the caller is empty;
- whether the sender and the receiver are in this shard;
- whether the roles are letters;
- whether the token data decodes.

A handler that indexes past the topics is a `Panic` result that stops the
block. The four handlers whose code is not in this repository (`SpecHandle`)
claim the identifiers the spec gives them. Init enumerates every block of
two logs: the first log names `t1`, `s1` or an unknown hash `x` and has up
to two events; the second log is nil or has one event. The events include
a fungible AddURI and a fungible NFT burn (nonce zero), which the NFT
handlers must pass on without a fact.

### BalanceChecker (`BalanceChecker.tla`, `MC_BalanceChecker.tla`)

`CheckDCDTBalances` and `compareBalancesFromES` in
`tools/accounts-balance-checker/pkg/check/checker_balance_dcdt.go`, run by
`startCheck` in `cmd/balance-checker/main.go`. Meanwhile the chain changes
balances and the indexer writes them.

| Definition | Code |
|---|---|
| `flags` in `Init` | `--log-save`, `--check-balance-rewa`, `--check-balance-dcdt`, all eight combinations |
| `InitializeLogger` | `initializeLogger`: a nil closer without `--log-save`; any of its steps may fail |
| `ReadConfig`, `CreateBalanceChecker`, `CheckREWABalances` (`Step`) | each goes on or fails, is logged, and `startCheck` returns; the REWA check runs only with its flag |
| `ReadAllBalances` / `AddrsOf` | `getAccountsByQuery(matchAllQuery)`: the scroll that reads every row, or fails; skipped without `--check-balance-dcdt` |
| `CloseLogs` / `IfNilReflect` | the end of `startCheck`: `if checkNil.IfNilReflect(fileLogging) { fileLogging.Close() }` |
| `StartGoroutine(a)` | the loop: `done <- struct{}{}`, `wg.Add(1)`, `countTotalCompared`, `go` |
| `Wait` | `wg.Wait()` and the return |
| `ReadProxy(a)` | `getBalancesFromProxy`; an error is logged and the map is nil |
| `FirstCompare(a)` / `CompareFirst` | the first `compareBalances` with the rows read at the start |
| `SecondCompare(a)` / `CompareSecond` | `getFromESAndCompare`: `getDCDTBalancesFromES`, then `deleteExtraBalance` and `fixWrongBalance`; a failed read repairs nothing |
| `Exit(a)` | the deferred `<-done` and `wg.Done()` |
| `ChainStep`, `IndexerWrite` | the chain and the indexer's balance writes (a zero balance deletes the row) |

The scenario has three addresses and two tokens, and the pool holds two
goroutines. In the store, A1 has an extra row, A2 a wrong balance and A3 a
missing row. The flags are chosen freely, so the runs include every order of
early return. The chain changes at most one balance while the checker runs,
at most one proxy request fails, and at most one second read of the store
fails.

### CheckAll (`CheckAll.tla`): the abstract balance checker

`CheckAll` states what `CheckDCDTBalances` promises, apart from any code.
The addresses are those one read of the store returns (`Read`, which may
never happen: the caller may stop before it, or it may fail). Every listed
address is compared exactly once, and at most `MaxGoroutines` comparisons
are in progress at any time. The call returns only after every comparison
has finished, and under fairness it always returns once the read is made.
Its variables are `read`, `listed`, `started`, `finished` and `returned`.

`BalanceChecker` maps its state onto these variables:

- `read` is `scrolled`, and `listed` is `AddrsOf(balancesFromEs)`, the
  addresses the scroll returned;
- `started` is the set of addresses the loop has handed out
  (`AddrsOf(balancesFromEs) \ toStart`);
- `finished` is the set of goroutines that have run their deferred exit
  (`pc[a] = "finished"`);
- `returned` holds once the scroll is made and `startCheck` has left the
  loop (`scrolled /\ main # "loop"`).

`CheckAllRefined == Abstract!Spec` is checked as a temporal property. It
includes the abstract fairness, so it covers termination too. It replaces
the two separate properties the run checked before. A `Wait` that returned
when every goroutine had *started*, not finished, breaks the refinement at
the first step.

### AccountsIndex (`AccountsIndex.tla`, `MC_AccountsIndex.tla`)

The account rows that the indexers of two shards write and roll back.

| Definition | Code |
|---|---|
| `IgnoreAddress`, `NotZeroBalance` | `splitAlteredAccounts`: a non-sender whose balance did not change and is not zero is skipped |
| `TokenEntries`, `SplitAlteredAccounts`, `GetAccounts` | every token entry yields a token record, even for an ignored address |
| `PrepareRegularAccountsMap` | one account row per address, with the block's timestamp and shard |
| `DCDTKey`, `GetDCDTInfo`, `PrepareAccountsMapDCDT` | one token row per address-token-nonce key, zero balances included |
| `WriteDCDTRows` | a zero balance deletes the row (spec-modelled) |
| `RemoveMatches`, `Rollback` | `RemoveAccountsDCDT(timestamp, shardID)`: delete the accountsdcdt rows with the reverted block's timestamp and shard; the accounts index is not touched (spec-modelled, from its test) |
| `ProduceBlock`, `IndexBlock` | the chain, and the indexer applying the whole pipeline to its next block |

The chain is one sequence of blocks per shard. All shards share a round's
timestamp, so a rollback that matched on the timestamp alone would delete
another shard's rows. The scenario has the following:

- address A in shard s1 and address B in shard s2;
- two tokens;
- three ways a block can alter an account: a sender gaining a token, a zero
  token balance, and an ignored receiver of another token;
- up to five blocks and two rollbacks, so that a shard can revert two blocks in a row, or each shard one.

The reference balance of a key is a fold over the indexed blocks
(`ChainTokenBalance`). A rollback is a hard delete, so it cannot restore the
balance a key had before the reverted block. The history variable `lost`
records those keys until a later block writes them again.
`DCDTRowsMatchChain` excepts them. Spec §4.5 describes the deletion as
intended, so it is not a finding. The loss of the older balance is listed as
a hazard in `PROJECT.json`.

The accounts index has no rollback: the account row a reverted block wrote
keeps its balance. The history variables `accWriter` (the block whose row
an address holds) and `reverted` (addresses whose row a reverted block
wrote and no block has written since) track those rows.
`AccountRowsMatchChain` checks every other account row; without the
exception TLC finds it violated, because the ignore heuristic then skips an
account whose canonical balance did not change and the stale row stays.
That divergence from spec §4.5 is listed as a hazard.

## Runs

Bounds are chosen so that every branch the properties are about is reached,
and every run finishes in seconds.

| Run | Expect | What it shows |
|---|---|---|
| `tx_two_hashes` | pass | The two-hash scenario, up to 3 re-deliveries, 403 states. The source upsert never hides a result (`NoPendingAfterExecution`). Under weak fairness of each indexer, all documents reach and keep the chain-order documents (`EventuallyConverges`); the log document included, which the logs script must keep by timestamp while the source shard's older log arrives last. |
| `tx_cross_converge` | violation | A cross-shard call with a source block (pending, shard 0), a destination block (success, shard 1) and a callback block (fail status and refund, shard 0). The destination's plain `index` applied after the callback status replaces fail with success (`Convergence`). |
| `nft_updates_safety` | pass | 280 077 states. No URI is ever stored twice in an NFT's data, however often the AddURI items are re-sent (`NoDuplicateURIs`). Neither the token's fields nor its roles are erased by a later write, in any order of issue, roles and pauses (`TokenFieldsKept`). |
| `token_pause_before_issue` | violation | A shard's pause creates the token document before the metachain's issue; the issue script finds no roles and does nothing, so the token never gets its fields (`IssuedTokenHasMetadata`). |
| `nft_updates_serialized` | violation | A freeze or pause for the tokens index drops the later updates of the block (`EveryUpdateSerialized`). |
| `nft_updates_attributes` | violation | A freeze for the accountsdcdt index wipes the attributes (`AttributesOnlyByUpdateAttributes`). |
| `classifier_fungible` | pass | 184 626 states over 9 240 blocks. No event whose nonce topic is zero yields an NFT data update, creation or supply change, through the whole handler chain, for known hashes (every handler runs) and unknown ones (`FungibleEventsSkipped`). |
| `classifier_malformed` | violation | Blocks carrying an NFT create with one topic, or `upgradeProperties` with five topics. A handler indexes past the topics and the block stops (`NoPanic`). TLC reports the odd-properties panic in `extractTokenProperties` first. |
| `checker_pool` | pass | 191 954 states, every combination of the three flags and every early return of `startCheck`, with a proxy error and a failed second store read. At most two comparisons run at once, and the channel holds one token each (`PoolBounded`). The checker implements `CheckAll` (`CheckAllRefined`): each address is compared once, at most two at a time, and it returns, always, and only after every comparison. |
| `accounts_rows` | pass | 416 757 states. Two shards, rollbacks, ignored receivers. Every token row holds the balance of the last indexed block that altered it, except the keys a rollback hard-deleted (`DCDTRowsMatchChain`). Every account row that no reverted block wrote holds the account's balance on the indexed chain, although the ignore heuristic skips unchanged receivers (`AccountRowsMatchChain`). |
| `checker_proxy_error` | violation | A proxy error yields an empty map, and the second compare deletes every row of the address (`SoundRepair`). |
| `checker_stale_proxy` | violation | No proxy errors. The proxy is read, then the chain changes a balance and the indexer writes it. The second compare then "repairs" the fresh row back to the stale proxy balance, and no later write restores it (`SoundRepair`). |

Every property of a passing run has a mutant in `PROJECT.json`. A mutant is
a variant of a mapped definition written the way a plausible bug would be,
and TLC finds the property violated under it.

### Fairness and deadlock

- **TxMerge** assumes weak fairness of each indexer's `ApplyItem`. An indexer
  keeps sending the blocks it has been given. Re-delivery is not fair: the
  node may stop re-sending at any time.
- **NFTUpdates, EventClassifier and AccountsIndex** check only safety, so they have no
  fairness.
- **BalanceChecker** assumes weak fairness of each goroutine, of the main
  goroutine's loop (one thread: some address is always handed out next), of `Wait` and of the other steps of `startCheck`, and of the indexer's writes. The Go scheduler
  runs every runnable goroutine. The indexer keeps applying the writes it has
  been given. Chain steps and proxy errors are not fair.

All runs set `CHECK_DEADLOCK FALSE`. The indexers do stop when there are no
more blocks: an end state with every queue consumed is where the system
really rests.

## Findings

- Cross-shard status regression (`tx_cross_converge`).
- Dropped NFT updates after a freeze or pause (`nft_updates_serialized`).
- Attributes wiped by a freeze on accountsdcdt (`nft_updates_attributes`).
- A pause before the issue leaves the token document without its fields
  (`token_pause_before_issue`).
- Panics on malformed topics (`classifier_malformed`). The NFT-create panic
  in `nftsProcessor` is reachable in the same run; it is listed as a hazard.
- The balance checker deletes every row of an address when the proxy request
  fails (`checker_proxy_error`).
- The balance checker writes a stale proxy balance over a fresher indexer
  write (`checker_stale_proxy`).

See `findings` in `PROJECT.json`.

## Plan

The project keeps at most twelve runs, and all twelve are in use. Each new
module has to share a run or replace a weaker one. What remains, in order of
importance:

1. The rollback of transactions and logs (`RemoveTransactions`, not in this
   repository): the destination's rollback deletes a log the source also
   wrote (`logsCrossShard_test.go:185`).
2. The delegators script and the deploys' upgrades append.
3. The rest of `accountsProcessor.go`: `PrepareAccountsHistory`,
   `PutTokenMedataDataInTokens` and the frozen flag, added to AccountsIndex.
4. An abstract specification of one merged document ("the stored document is
   a function of the set of items applied"), with TxMerge's NFT path and
   NFTUpdates' AddURI path shown to refine it.

Known hazards without a failing run (see `hazards` in `PROJECT.json`): the
issue script drops a paused flag when it replaces a document with roles, and
a re-sent transfer block appends the same owner twice; the accounts rows of
a reverted block are never rolled back; and an event's
document id hashes the shard ID, so the source and the destination shard
write one logical event under two ids (`logsAndEventsProcessor.go:281`,
against spec §3). The balance checker's `startCheck` closes the log file only
when the closer is nil (`main.go:138`): without `--log-save` it calls `Close`
on a nil interface and panics after every check has run, and with it the
file is never closed. `CloseLogs` reaches the `"panicked"` end in
`checker_pool`.
