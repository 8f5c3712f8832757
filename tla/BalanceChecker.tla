--------------------------- MODULE BalanceChecker ---------------------------
(***************************************************************************)
(* The DCDT balance checker (tools/accounts-balance-checker/pkg/check/     *)
(* checker_balance_dcdt.go) running against a live store.                  *)
(*                                                                         *)
(* CheckDCDTBalances reads every token-balance row of the store once, then *)
(* starts one goroutine per address, at most maxGoroutines at a time (the  *)
(* buffered channel "done"), and waits for all of them (the WaitGroup).    *)
(* Each goroutine reads the address's balances from the proxy, compares    *)
(* them with the rows read at the start, and if they differ reads the rows *)
(* again and repairs them: a row the proxy does not list is deleted, a row *)
(* whose balance differs gets the proxy's balance.  Meanwhile the indexer  *)
(* keeps writing the balances the chain produces.                          *)
(*                                                                         *)
(* startCheck (cmd/balance-checker/main.go) runs it: it sets the logger  *)
(* up, reads the configuration, creates the checker, runs the REWA check  *)
(* and then the DCDT check if their flags are set, and closes the log     *)
(* file; every error before the end is logged and returns.  The REWA      *)
(* check and the checker's construction are not in this repository: each *)
(* is a step that succeeds or fails.                                      *)
(*                                                                         *)
(* Data abstraction: a balance is a value of a small set; "0" is a zero    *)
(* balance, which has no row in the store and is not listed by the proxy.  *)
(* Smart contract addresses (checkBalancesSC) and undecodable addresses    *)
(* are left out.                                                           *)
(***************************************************************************)
EXTENDS Naturals, Sequences, FiniteSets

CONSTANTS
    Addrs,            \* addresses holding tokens
    Tokens,           \* token identifiers
    Balances,         \* non-zero balance values
    InitChain,        \* the chain's balances when the checker starts
    InitStore,        \* the store's rows when the checker starts
    NoRow,            \* model value: no row / not listed
    MaxGoroutines,    \* maxNumberOfParallelRequests
    MaxChainSteps,    \* bound on balance changes the chain makes meanwhile
    MaxProxyErrors,   \* bound on proxy requests that fail
    MaxEsErrors       \* bound on second reads of the store that fail

Keys == Addrs \X Tokens
Bal == Balances \cup {"0"}
RowVal == Balances \cup {NoRow}

\* the row a balance gives: none for a zero balance
Row(v) == IF v = "0" THEN NoRow ELSE v

ASSUME InitChain \in [Keys -> Bal] /\ InitStore \in [Keys -> RowVal]

VARIABLES
    chain,       \* the chain's balances, what the proxy answers
    store,       \* the store's token-balance rows
    pending,     \* balance writes the indexer has still to apply, in order
    chainSteps,
    balancesFromEs, \* the rows CheckDCDTBalances read at the start
    toStart,     \* addresses whose goroutine has not been started
    done,        \* number of tokens in the channel "done"
    wg,          \* the WaitGroup's counter
    compared,    \* countTotalCompared
    pc,          \* pc[a]: where address a's goroutine is
    proxyBal,    \* proxyBal[a]: the proxy's balances it read (NoRow: not listed)
    proxyErrors,
    esErrors,
    flags,       \* the command line: --log-save, --check-balance-rewa/-dcdt
    main,        \* where startCheck is
    fileLogging, \* the closer initializeLogger returned: "nil" or "open"
    scrolled     \* getAccountsByQuery has read the rows

vars == <<chain, store, pending, chainSteps, balancesFromEs, toStart, done, wg, compared,
          pc, proxyBal, proxyErrors, esErrors, flags, main, fileLogging, scrolled>>

Phases == {"idle", "proxy", "compare", "second", "exit", "finished"}

MainPhases == {"logger", "config", "create", "rewa", "dcdt", "loop", "close",
               "returned", "panicked"}

\* the addresses of a set of rows, as the keys of balancesDCDT
AddrsOf(rows) == {a \in Addrs : \E t \in Tokens : rows[<<a, t>>] # NoRow}

\* the rows of one address, as a map from token to balance
RowsOf(rows, a) == [t \in Tokens |-> rows[<<a, t>>]]

(***************************************************************************)
(* compareBalances                                                         *)
(***************************************************************************)
\* first compare: try again as soon as a row is not listed by the proxy, has
\* another balance, or the proxy lists a token with no row
CompareFirst(es, proxy) == es # proxy

\* second compare: a row the proxy does not list is deleted
\* (deleteExtraBalance), a row with another balance gets the proxy's
\* (fixWrongBalance); a token the proxy lists with no row is only logged
CompareSecond(es, proxy) ==
    [t \in Tokens |-> IF es[t] = NoRow THEN NoRow ELSE proxy[t]]

-----------------------------------------------------------------------------

Init ==
    /\ chain = InitChain
    /\ store = InitStore
    /\ pending = <<>>
    /\ chainSteps = 0
    /\ balancesFromEs = [k \in Keys |-> NoRow]
    /\ toStart = {}
    /\ done = 0
    /\ wg = 0
    /\ compared = 0
    /\ pc = [a \in Addrs |-> "idle"]
    /\ proxyBal = [a \in Addrs |-> [t \in Tokens |-> NoRow]]
    /\ proxyErrors = 0
    /\ esErrors = 0
    /\ flags \in [{"logSave", "rewa", "dcdt"} -> BOOLEAN]
    /\ main = "logger"
    /\ fileLogging = "nil"
    /\ scrolled = FALSE

MainVars == <<flags, main, fileLogging, scrolled>>

CheckerVars == <<balancesFromEs, toStart, done, wg, compared, pc, proxyBal, proxyErrors, esErrors,
                 MainVars>>

(***************************************************************************)
(* The chain and the indexer                                               *)
(***************************************************************************)
\* a transaction changes a balance; the indexer will write it
ChainStep(k, v) ==
    /\ chainSteps < MaxChainSteps
    /\ v # chain[k]
    /\ chain' = [chain EXCEPT ![k] = v]
    /\ pending' = Append(pending, <<k, v>>)
    /\ chainSteps' = chainSteps + 1
    /\ UNCHANGED <<store>>
    /\ UNCHANGED CheckerVars

\* the indexer writes the next balance: a zero balance deletes the row
IndexerWrite ==
    /\ pending # <<>>
    /\ store' = [store EXCEPT ![Head(pending)[1]] = Row(Head(pending)[2])]
    /\ pending' = Tail(pending)
    /\ UNCHANGED <<chain, chainSteps>>
    /\ UNCHANGED CheckerVars

(***************************************************************************)
(* startCheck                                                              *)
(***************************************************************************)
\* a step of startCheck that either goes on to next or fails and returns
Step(from, next) ==
    /\ main = from
    /\ main' \in {next, "returned"}
    /\ UNCHANGED <<flags, fileLogging, scrolled>>
    /\ UNCHANGED <<balancesFromEs, toStart, done, wg, compared, pc, proxyBal, proxyErrors, esErrors>>
    /\ UNCHANGED <<chain, store, pending, chainSteps>>

\* initializeLogger: without --log-save it returns a nil closer; setting
\* the level, or creating or configuring the file, may fail
InitializeLogger ==
    /\ main = "logger"
    /\ \/ /\ main' = "config"
          /\ fileLogging' = IF flags["logSave"] THEN "open" ELSE "nil"
       \/ /\ main' = "returned"
          /\ UNCHANGED fileLogging
    /\ UNCHANGED <<flags, scrolled>>
    /\ UNCHANGED <<balancesFromEs, toStart, done, wg, compared, pc, proxyBal, proxyErrors, esErrors>>
    /\ UNCHANGED <<chain, store, pending, chainSteps>>

\* readConfig and check.CreateBalanceChecker
ReadConfig == Step("config", "create")

CreateBalanceChecker == Step("create", "rewa")

\* CheckREWABalances, when --check-balance-rewa is set
CheckREWABalances ==
    \/ flags["rewa"] /\ Step("rewa", "dcdt")
    \/ /\ ~flags["rewa"] /\ main = "rewa"
       /\ main' = "dcdt"
       /\ UNCHANGED <<flags, fileLogging, scrolled>>
       /\ UNCHANGED <<balancesFromEs, toStart, done, wg, compared, pc, proxyBal, proxyErrors, esErrors>>
       /\ UNCHANGED <<chain, store, pending, chainSteps>>

\* checkNil.IfNilReflect(fileLogging): true for the nil closer
IfNilReflect(f) == f = "nil"

\* the end of startCheck: the closer is closed only when it is nil, and a
\* method call on a nil interface panics; an open file is left open
CloseLogs ==
    /\ main = "close"
    /\ main' = IF IfNilReflect(fileLogging) THEN "panicked" ELSE "returned"
    /\ UNCHANGED <<flags, fileLogging, scrolled>>
    /\ UNCHANGED <<balancesFromEs, toStart, done, wg, compared, pc, proxyBal, proxyErrors, esErrors>>
    /\ UNCHANGED <<chain, store, pending, chainSteps>>

(***************************************************************************)
(* CheckDCDTBalances                                                       *)
(***************************************************************************)
\* getAccountsByQuery(matchAllQuery): a scroll over every row of the
\* store; its failure is returned and startCheck returns.  Without
\* --check-balance-dcdt startCheck goes to its end.
ReadAllBalances ==
    /\ main = "dcdt"
    /\ \/ /\ flags["dcdt"]
          /\ balancesFromEs' = store
          /\ toStart' = AddrsOf(store)
          /\ scrolled' = TRUE
          /\ main' = "loop"
       \/ /\ flags["dcdt"]
          /\ main' = "returned"
          /\ UNCHANGED <<balancesFromEs, toStart, scrolled>>
       \/ /\ ~flags["dcdt"]
          /\ main' = "close"
          /\ UNCHANGED <<balancesFromEs, toStart, scrolled>>
    /\ UNCHANGED <<flags, fileLogging>>
    /\ UNCHANGED <<done, wg, compared, pc, proxyBal, proxyErrors, esErrors>>
    /\ UNCHANGED <<chain, store, pending, chainSteps>>

\* Variant: one goroutine more than the channel's capacity may start.
ChannelHasRoomOffByOne(n) == n <= MaxGoroutines

\* done <- struct{}{} does not block
ChannelHasRoom(n) == n < MaxGoroutines

\* the loop: take a token of the channel, wg.Add(1), count, start the goroutine
StartGoroutine(a) ==
    /\ a \in toStart
    /\ ChannelHasRoom(done)
    /\ toStart' = toStart \ {a}
    /\ done' = done + 1
    /\ wg' = wg + 1
    /\ compared' = compared + 1
    /\ pc' = [pc EXCEPT ![a] = "proxy"]
    /\ main = "loop"
    /\ UNCHANGED <<balancesFromEs, proxyBal, proxyErrors, esErrors, MainVars>>
    /\ UNCHANGED <<chain, store, pending, chainSteps>>

\* Variant: CheckDCDTBalances returns when every goroutine has been started.
WaitReturnsWhenStarted(n) == toStart = {}

\* wg.Wait() returns
WaitReturns(n) == toStart = {} /\ n = 0

Wait ==
    /\ main = "loop"
    /\ WaitReturns(wg)
    /\ main' = "close"
    /\ UNCHANGED <<balancesFromEs, toStart, done, wg, compared, pc, proxyBal, proxyErrors, esErrors>>
    /\ UNCHANGED <<flags, fileLogging, scrolled>>
    /\ UNCHANGED <<chain, store, pending, chainSteps>>

(***************************************************************************)
(* compareBalancesFromES, one goroutine per address                        *)
(***************************************************************************)
\* getBalancesFromProxy: the tokens the gateway lists for the address, with
\* the balances the chain has now
GetBalancesFromProxy(a) == [t \in Tokens |-> Row(chain[<<a, t>>])]

\* the proxy read of compareBalancesFromES; on an error (the request fails
\* or the gateway answers an error) the map is nil, the error is logged and the comparison goes on
ReadProxy(a) ==
    /\ pc[a] = "proxy"
    /\ \/ proxyBal' = [proxyBal EXCEPT ![a] = GetBalancesFromProxy(a)]
          /\ UNCHANGED proxyErrors
       \/ /\ proxyErrors < MaxProxyErrors
          /\ proxyBal' = [proxyBal EXCEPT ![a] = [t \in Tokens |-> NoRow]]
          /\ proxyErrors' = proxyErrors + 1
    /\ pc' = [pc EXCEPT ![a] = "compare"]
    /\ UNCHANGED <<balancesFromEs, toStart, done, wg, compared, esErrors, MainVars>>
    /\ UNCHANGED <<chain, store, pending, chainSteps>>

\* the first compare, with the rows read at the start
FirstCompare(a) ==
    /\ pc[a] = "compare"
    /\ pc' = [pc EXCEPT ![a] = IF CompareFirst(RowsOf(balancesFromEs, a), proxyBal[a])
                                THEN "second" ELSE "exit"]
    /\ UNCHANGED <<balancesFromEs, toStart, done, wg, compared, proxyBal, proxyErrors, esErrors, MainVars>>
    /\ UNCHANGED <<chain, store, pending, chainSteps>>

\* getFromESAndCompare: the rows are read again (getDCDTBalancesFromES)
\* and repaired from the proxy's balances read before; when the read
\* fails, the error is logged and nothing is repaired
SecondCompare(a) ==
    /\ pc[a] = "second"
    /\ \/ /\ LET fixed == CompareSecond(RowsOf(store, a), proxyBal[a])
             IN store' = [k \in Keys |-> IF k[1] = a THEN fixed[k[2]] ELSE store[k]]
          /\ UNCHANGED esErrors
       \/ /\ esErrors < MaxEsErrors
          /\ esErrors' = esErrors + 1
          /\ UNCHANGED store
    /\ pc' = [pc EXCEPT ![a] = "exit"]
    /\ UNCHANGED <<balancesFromEs, toStart, done, wg, compared, proxyBal, proxyErrors, MainVars>>
    /\ UNCHANGED <<chain, pending, chainSteps>>

\* Variant: the deferred function does not take the token back.
ReleaseMissing(n) == n

\* the deferred <-done
Release(n) == n - 1

\* wg.Done()
WgDone(n) == n - 1

\* the deferred function: <-done and wg.Done()
Exit(a) ==
    /\ pc[a] = "exit"
    /\ done' = Release(done)
    /\ wg' = WgDone(wg)
    /\ pc' = [pc EXCEPT ![a] = "finished"]
    /\ UNCHANGED <<balancesFromEs, toStart, compared, proxyBal, proxyErrors, esErrors, MainVars>>
    /\ UNCHANGED <<chain, store, pending, chainSteps>>

Goroutine(a) == ReadProxy(a) \/ FirstCompare(a) \/ SecondCompare(a) \/ Exit(a)

Next ==
    \/ \E k \in Keys, v \in Bal : ChainStep(k, v)
    \/ IndexerWrite
    \/ \E a \in Addrs : StartGoroutine(a) \/ Goroutine(a)
    \/ Wait
    \/ InitializeLogger \/ ReadConfig \/ CreateBalanceChecker \/ CheckREWABalances
    \/ ReadAllBalances \/ CloseLogs

\* the Go scheduler runs every runnable goroutine: the main one, which starts
\* the goroutines one after the other and then waits, and every comparison;
\* the indexer keeps writing; startCheck runs to its end
Fairness ==
    /\ WF_vars(IndexerWrite)
    /\ WF_vars(\E a \in Addrs : StartGoroutine(a))
    /\ WF_vars(Wait)
    /\ WF_vars(InitializeLogger \/ ReadConfig \/ CreateBalanceChecker \/ CheckREWABalances
                \/ ReadAllBalances \/ CloseLogs)
    /\ \A a \in Addrs : WF_vars(Goroutine(a))

Spec == Init /\ [][Next]_vars /\ Fairness

-----------------------------------------------------------------------------
(* Properties                                                              *)

TypeOK ==
    /\ store \in [Keys -> RowVal] /\ chain \in [Keys -> Bal]
    /\ pc \in [Addrs -> Phases] /\ main \in MainPhases
    /\ fileLogging \in {"nil", "open"}
    /\ done \in 0..MaxGoroutines /\ wg \in 0..Cardinality(Addrs)

Running == {a \in Addrs : pc[a] \in {"proxy", "compare", "second", "exit"}}

\* The channel bounds the pool: never more than maxGoroutines comparisons
\* run at once, and the channel holds one token per running goroutine.
PoolBounded == Cardinality(Running) <= MaxGoroutines /\ done = Cardinality(Running)

\* The refinement mapping: an address's comparison has begun once its
\* goroutine is started and has ended once the deferred function has run.
Abstract == INSTANCE CheckAll WITH
    read     <- scrolled,
    listed   <- AddrsOf(balancesFromEs),
    started  <- AddrsOf(balancesFromEs) \ toStart,
    finished <- {a \in Addrs : pc[a] = "finished"},
    returned <- scrolled /\ main # "loop"

\* CheckDCDTBalances implements CheckAll: each address is compared once, at
\* most maxGoroutines at a time, and the call returns, only after every
\* goroutine has finished.  The channel, the WaitGroup and the deferred
\* function together must give all three.
CheckAllRefined == Abstract!Spec

\* the indexer has a write of key k still to apply
IndexerWillWrite(k) == \E i \in 1..Len(pending) : pending[i][1] = k

\* A repair is sound: a row the second compare deletes or rewrites gets the
\* balance the chain holds at that moment, unless the indexer is still to
\* write that row and will overwrite the repair.
SoundRepair ==
    [][\A a \in Addrs :
          (pc[a] = "second" /\ pc'[a] = "exit") =>
              \A t \in Tokens : store'[<<a, t>>] # store[<<a, t>>] =>
                                    \/ store'[<<a, t>>] = Row(chain[<<a, t>>])
                                    \/ IndexerWillWrite(<<a, t>>)]_vars

=============================================================================
