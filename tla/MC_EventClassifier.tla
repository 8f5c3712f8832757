------------------------- MODULE MC_EventClassifier -------------------------
(* A block with one transaction t1 and one result s1; its logs name t1, s1   *)
(* or a hash x of neither.  The first log carries up to two events, the     *)
(* second is nil or carries one.                                            *)
EXTENDS EventClassifier

Ev(id, n, nonceZero, callerEmpty, senderSelf, receiverSelf, rolesLetters, decodes) ==
    [identifier |-> id, ntopics |-> n, nonceZero |-> nonceZero, callerEmpty |-> callerEmpty,
     senderSelf |-> senderSelf, receiverSelf |-> receiverSelf, rolesLetters |-> rolesLetters,
     decodes |-> decodes]

\* well-formed events of every handler, with their early returns
WellFormed ==
    { Ev("DCDTNFTUpdateAttributes", 4, FALSE, FALSE, TRUE, TRUE, TRUE, TRUE),
      Ev("DCDTPause", 1, FALSE, FALSE, TRUE, TRUE, TRUE, TRUE),
      Ev("DCDTNFTAddURI", 4, TRUE, FALSE, TRUE, TRUE, TRUE, TRUE),
      Ev("DCDTSetRole", 4, FALSE, FALSE, TRUE, TRUE, FALSE, TRUE),
      Ev("upgradeProperties", 6, FALSE, FALSE, TRUE, TRUE, TRUE, TRUE),
      Ev("DCDTNFTCreate", 4, FALSE, FALSE, TRUE, TRUE, TRUE, TRUE),
      Ev("DCDTWipe", 4, FALSE, FALSE, FALSE, TRUE, TRUE, TRUE),
      Ev("DCDTNFTBurn", 4, TRUE, FALSE, TRUE, TRUE, TRUE, TRUE),
      Ev("SCDeploy", 3, FALSE, FALSE, TRUE, TRUE, TRUE, TRUE) }

\* an NFT create event truncated to its token topic
ShortNFTCreate == { Ev("DCDTNFTCreate", 1, FALSE, FALSE, TRUE, TRUE, TRUE, TRUE) }

\* an upgradeProperties event with a property name and no value
OddProperties == { Ev("upgradeProperties", 5, FALSE, FALSE, TRUE, TRUE, TRUE, TRUE) }

Hashes == {"t1", "s1", "x"}

Logs(evs) ==
    LET first  == [tx: Hashes, events: UNION {[1..n -> evs \cup {NilEvent}] : n \in 1..2}]
        second == {NilLog} \cup [tx: Hashes, events: [1..1 -> evs]]
    IN {<<a, b>> : a \in first, b \in second}

PassLogs == Logs(WellFormed)
MalformedLogs == Logs(ShortNFTCreate \cup OddProperties)

MCSpecHandlerIds ==
    [h \in {"scDeploys", "informative", "dcdtIssue", "delegators"} |->
        CASE h = "scDeploys"   -> {"SCDeploy", "SCUpgrade"}
          [] h = "informative" -> {"writeLog", "signalError", "completedTxEvent"}
          [] h = "dcdtIssue"   -> {"issue", "transferOwnership"}
          [] h = "delegators"  -> {"delegate", "unDelegate"}]
=============================================================================
