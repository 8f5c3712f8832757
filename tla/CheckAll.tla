------------------------------ MODULE CheckAll ------------------------------
(***************************************************************************)
(* What CheckDCDTBalances promises, without the channel, the WaitGroup and *)
(* the comparisons: every address read from the store is compared once,   *)
(* at most MaxGoroutines comparisons are in progress at any time, and the  *)
(* call returns, only once every comparison has finished.                  *)
(***************************************************************************)
EXTENDS Naturals, FiniteSets

CONSTANTS Addrs, MaxGoroutines

VARIABLES
    read,      \* the store has been read
    listed,    \* the addresses the read returned
    started,   \* addresses whose comparison has begun
    finished,  \* addresses whose comparison has ended
    returned   \* the call has returned

vars == <<read, listed, started, finished, returned>>

InProgress == started \ finished

Init ==
    /\ read = FALSE /\ listed = {}
    /\ started = {} /\ finished = {} /\ returned = FALSE

Read ==
    /\ ~read
    /\ read' = TRUE
    /\ listed' \in SUBSET Addrs
    /\ UNCHANGED <<started, finished, returned>>

\* a comparison begins while fewer than MaxGoroutines are in progress
Start(a) ==
    /\ a \in listed \ started
    /\ Cardinality(InProgress) < MaxGoroutines
    /\ started' = started \cup {a}
    /\ UNCHANGED <<read, listed, finished, returned>>

Finish(a) ==
    /\ a \in InProgress
    /\ finished' = finished \cup {a}
    /\ UNCHANGED <<read, listed, started, returned>>

Return ==
    /\ read /\ ~returned
    /\ finished = listed
    /\ returned' = TRUE
    /\ UNCHANGED <<read, listed, started, finished>>

Next == Read \/ (\E a \in Addrs : Start(a) \/ Finish(a)) \/ Return

\* the loop starting comparisons is one thread: it keeps going while it can;
\* every comparison in progress ends; nothing forces the read
Spec ==
    /\ Init /\ [][Next]_vars
    /\ WF_vars(\E a \in Addrs : Start(a))
    /\ \A a \in Addrs : WF_vars(Finish(a))
    /\ WF_vars(Return)

=============================================================================
