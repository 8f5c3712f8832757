--------------------------- MODULE EventClassifier ---------------------------
(***************************************************************************)
(* The classification of a block's logs and events into facts:             *)
(* ExtractDataFromLogs, processEvents and processEvent                     *)
(* (process/elasticproc/logsevents/logsAndEventsProcessor.go) walking the  *)
(* ordered handler chain of createEventsProcessors, with the handlers      *)
(* nftsPropertiesProc, dcdtPropertiesProc and nftsProcessor.               *)
(*                                                                         *)
(* Data abstraction: an event is its identifier and the few facts about    *)
(* its topics and addresses the handlers branch on (number of topics,      *)
(* nonce zero, empty caller, sender and receiver in this shard, roles made *)
(* of letters, token data that decodes).  A fact is the kind of record a   *)
(* handler adds to the block's accumulator.  A handler that panics (an     *)
(* index out of range on the topics) stops the whole block.                *)
(***************************************************************************)
EXTENDS Naturals, Sequences, FiniteSets

CONSTANTS
    LogChoices,      \* the sequences of logs a block can carry
    BlockTxs,        \* hashes of the block's transactions (txsMap)
    BlockScrs,       \* hashes of the block's smart contract results (scrsMap)
    SpecHandlerIds,  \* identifiers claimed by the scDeploys, informative, issue, delegators handlers
    NilLog, NilEvent \* model values: a nil log, a nil event

\* createEventsProcessors: the handlers in the order processEvent tries them
Handlers == <<"scDeploys", "informative", "updateNFT", "dcdtProp", "dcdtIssue",
              "delegators", "nfts">>

NumHandlers == Len(Handlers)

\* nftsPropertiesProc.propertiesChangeOperations
UpdateNFTIds == {"DCDTNFTAddURI", "DCDTNFTUpdateAttributes", "DCDTFreeze", "DCDTUnFreeze",
                 "DCDTPause", "DCDTUnPause"}

\* dcdtPropertiesProc.rolesOperationsIdentifiers
RolesIds == {"DCDTSetRole", "DCDTUnSetRole", "DCDTNFTCreateRoleTransfer", "upgradeProperties",
             "DCDTUnSetBurnRoleForAll", "DCDTSetBurnRoleForAll"}

\* nftsProcessor.nftOperationsIdentifiers
NFTOpIds == {"DCDTNFTBurn", "DCDTNFTCreate", "DCDTWipe"}

FactKinds == {"nftUpdate", "role", "properties", "supply", "tokenCreate", "other"}

NotMine == [processed |-> FALSE, facts |-> {}, panic |-> FALSE]
Claimed(fs) == [processed |-> TRUE, facts |-> fs, panic |-> FALSE]
Panic == [processed |-> FALSE, facts |-> {}, panic |-> TRUE]

(***************************************************************************)
(* The handlers                                                            *)
(***************************************************************************)
\* nftsPropertiesProc.processEvent and processPauseAndUnPauseEvent: a pause
\* or unpause with one topic gives an update; any other event with one topic
\* gives none (updatePropNFT is nil); a fungible token (nonce 0) is not mine
UpdateNFTHandle(e) ==
    CASE e.identifier \notin UpdateNFTIds -> NotMine
      [] e.callerEmpty                   -> Claimed({})
      [] e.ntopics = 1                   ->
            Claimed(IF e.identifier \in {"DCDTPause", "DCDTUnPause"} THEN {"nftUpdate"} ELSE {})
      [] e.ntopics < 4                   -> Claimed({})
      [] e.nonceZero                     -> NotMine
      [] OTHER                           -> Claimed({"nftUpdate"})

\* dcdtPropertiesProc.extractTokenProperties: the pairs after topic 2; an odd
\* number of them reads properties[i+1] past the end
ExtractTokenProperties(e) ==
    IF (e.ntopics - 2) % 2 = 1 THEN Panic ELSE Claimed({"properties"})

\* dcdtPropertiesProc.processEvent
DcdtPropHandle(e) ==
    CASE e.identifier \notin RolesIds                     -> NotMine
      [] e.ntopics < 4                                    -> Claimed({})
      [] e.identifier = "upgradeProperties"               -> ExtractTokenProperties(e)
      [] e.identifier = "DCDTNFTCreateRoleTransfer"       -> Claimed({"role"})
      [] ~e.rolesLetters                                  -> Claimed({})  \* checkRolesBytes
      [] OTHER                                            -> Claimed({"role"})

\* nftsProcessor.processNFTEventOnSender: burn and wipe change the supply;
\* a create with its token data adds the token
OnSenderFacts(e) ==
    (IF e.identifier \in {"DCDTNFTBurn", "DCDTWipe"} THEN {"supply"} ELSE {})
    \cup (IF e.identifier = "DCDTNFTCreate" /\ e.ntopics >= 4 /\ e.decodes
          THEN {"tokenCreate"} ELSE {})

\* nftsProcessor.shouldAddReceiverData
ShouldAddReceiverData(e) ==
    /\ e.identifier \in {"DCDTNFTTransfer", "MultiDCDTNFTTransfer", "DCDTWipe"}
    /\ e.ntopics >= 4

\* Variant: the nonce topic is not looked at.
NFTsHandleNoNonceCheck(e) ==
    CASE e.identifier \notin NFTOpIds -> NotMine
      [] e.ntopics < 2               -> Panic
      [] OTHER ->
            LET sender   == IF e.senderSelf THEN OnSenderFacts(e) ELSE {}
                receiver == IF ShouldAddReceiverData(e) /\ e.receiverSelf
                               /\ e.identifier = "DCDTWipe"
                            THEN {"supply"} ELSE {}
            IN Claimed(sender \cup receiver)

\* nftsProcessor.processEvent: topics[1] is read before any length check;
\* a nonce of zero is a fungible token, not claimed
NFTsHandle(e) ==
    CASE e.identifier \notin NFTOpIds -> NotMine
      [] e.ntopics < 2               -> Panic
      [] e.nonceZero                 -> NotMine
      [] OTHER ->
            LET sender   == IF e.senderSelf THEN OnSenderFacts(e) ELSE {}
                receiver == IF ShouldAddReceiverData(e) /\ e.receiverSelf
                               /\ e.identifier = "DCDTWipe"
                            THEN {"supply"} ELSE {}
            IN Claimed(sender \cup receiver)

\* the handlers whose code is not part of this repository: they claim the
\* identifiers they recognise
SpecHandle(h, e) ==
    IF e.identifier \in SpecHandlerIds[h] THEN Claimed({"other"}) ELSE NotMine

Handle(h, e) ==
    CASE h = "updateNFT" -> UpdateNFTHandle(e)
      [] h = "dcdtProp"  -> DcdtPropHandle(e)
      [] h = "nfts"      -> NFTsHandle(e)
      [] OTHER           -> SpecHandle(h, e)

-----------------------------------------------------------------------------

VARIABLES
    logs,     \* the block's logs
    li,       \* index of the log being processed
    ei,       \* index of the event being processed in it
    hi,       \* index of the handler being tried on it
    facts,    \* <<li, ei, kind>>: the facts added to the accumulator
    hasLogs,  \* hashes whose transaction or result got HasLogs
    hasOps,   \* hashes whose transaction or result got HasOperations
    panicked  \* a handler panicked: the block's processing stopped

vars == <<logs, li, ei, hi, facts, hasLogs, hasOps, panicked>>

Known == BlockTxs \cup BlockScrs

CurLog == logs[li]
CurEvent == CurLog.events[ei]

Running == ~panicked /\ li <= Len(logs)

Init ==
    /\ logs \in LogChoices
    /\ li = 1 /\ ei = 1 /\ hi = 1
    /\ facts = {}
    /\ hasLogs = {} /\ hasOps = {}
    /\ panicked = FALSE

\* ExtractDataFromLogs: a nil log is skipped
SkipNilLog ==
    /\ Running
    /\ CurLog = NilLog
    /\ li' = li + 1
    /\ UNCHANGED <<logs, ei, hi, facts, hasLogs, hasOps, panicked>>

\* processEvents: a nil event is skipped
SkipNilEvent ==
    /\ Running
    /\ CurLog # NilLog
    /\ ei <= Len(CurLog.events)
    /\ CurEvent = NilEvent
    /\ ei' = ei + 1
    /\ UNCHANGED <<logs, li, hi, facts, hasLogs, hasOps, panicked>>

NextEvent == ei' = ei + 1 /\ hi' = 1

\* Variant: the HasOperations flag is set whenever the handler returns,
\* without the lookup of the hash in the block's maps.
MarksOperationsUnchecked(known, res) == TRUE

\* the hash is in txsMap or scrsMap: HasOperations is set
MarksOperations(known, res) == known

\* processEvent: one handler of the chain runs on the event; its facts are
\* added; an event of a known transaction or result marks HasOperations and
\* goes on to the next handler; otherwise a claimed event ends the chain
ProcessEvent ==
    /\ Running
    /\ CurLog # NilLog
    /\ ei <= Len(CurLog.events)
    /\ CurEvent # NilEvent
    /\ LET res   == Handle(Handlers[hi], CurEvent)
           known == CurLog.tx \in Known
           last  == hi = NumHandlers
       IN IF res.panic
          THEN /\ panicked' = TRUE
               /\ UNCHANGED <<logs, li, ei, hi, facts, hasLogs, hasOps>>
          ELSE /\ facts' = facts \cup {<<li, ei, f>> : f \in res.facts}
               /\ hasOps' = IF MarksOperations(known, res) THEN hasOps \cup {CurLog.tx} ELSE hasOps
               /\ IF last \/ (~known /\ res.processed)
                  THEN NextEvent
                  ELSE hi' = hi + 1 /\ UNCHANGED ei
               /\ UNCHANGED <<logs, li, hasLogs, panicked>>

\* the log's hash is in txsMap, else in scrsMap: HasLogs is set
MarksLogs(h) == h \in BlockTxs \/ h \in BlockScrs

\* ExtractDataFromLogs: after its events, the log marks HasLogs on its
\* transaction or result
EndLog ==
    /\ Running
    /\ CurLog # NilLog
    /\ ei > Len(CurLog.events)
    /\ hasLogs' = IF MarksLogs(CurLog.tx) THEN hasLogs \cup {CurLog.tx} ELSE hasLogs
    /\ li' = li + 1 /\ ei' = 1 /\ hi' = 1
    /\ UNCHANGED <<logs, facts, hasOps, panicked>>

Next == SkipNilLog \/ SkipNilEvent \/ ProcessEvent \/ EndLog

Spec == Init /\ [][Next]_vars

Done == li > Len(logs)

-----------------------------------------------------------------------------
(* Properties                                                              *)

TypeOK ==
    /\ facts \subseteq (Nat \X Nat \X FactKinds)
    /\ hasLogs \subseteq Known /\ hasOps \subseteq Known
    /\ hi \in 1..NumHandlers

\* Malformed chain data never stops a block (spec section 4.1 and 7): no
\* handler panics on too few topics or an odd number of property topics.
NoPanic == ~panicked

\* Fungible tokens are skipped by the NFT handler family (spec sections 2
\* and 8): an event whose nonce topic decodes to zero never yields an NFT
\* data update, an NFT creation or a supply change, whichever of the
\* handlers the chain of processEvent offers it to, the ones after a
\* handler that did not claim it included.
FungibleEventsSkipped ==
    \A f \in facts :
        LET e == logs[f[1]].events[f[2]]
        IN (e.nonceZero /\ e.ntopics >= 2) => f[3] \notin {"nftUpdate", "tokenCreate", "supply"}

=============================================================================
