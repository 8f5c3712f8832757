----------------------------- MODULE NFTUpdates -----------------------------
(***************************************************************************)
(* The NFT data updates of a block (UpdateAttributes, AddURI, Freeze,      *)
(* UnFreeze, Pause, UnPause, as nftsPropertiesProc.processEvent produces   *)
(* them) turned into bulk items by PrepareNFTUpdateData                    *)
(* (process/elasticproc/converters/tokenMetaData.go) and applied by the    *)
(* document store to the tokens index and the accountsdcdt index.          *)
(*                                                                         *)
(* The token document of a collection is written by two indexers: the     *)
(* metachain's writes the token's issue (SerializeTokens, from its test),  *)
(* a shard's writes the pause updates and the role changes of the token's  *)
(* accounts.  The two indexers are independent, so their items reach the   *)
(* document in any order.                                                  *)
(*                                                                         *)
(* Data abstraction: attributes, URIs and identifiers are small sets of    *)
(* values; base64 encoding and truncation are injective on them and left   *)
(* out; tags and metadata are derived from the attributes and move with    *)
(* them.                                                                   *)
(***************************************************************************)
EXTENDS Naturals, Sequences, SequencesExt, FiniteSets

CONSTANTS
    Updates,      \* the NFT data updates a block can carry
    Attributes,   \* attribute values ("" is the empty attributes parameter)
    URIs,         \* URI values
    TokenKeys,    \* _ids of the tokens index
    AccountKeys,  \* _ids of the accountsdcdt index
    StoredDocs,   \* the documents the store holds before the blocks
    Absent,       \* model value: no document with this _id
    MaxBatch,     \* bound on the number of updates in one block
    MaxBlocks,    \* bound on the blocks indexed
    MaxRedeliveries,
    IssuedKeys,   \* _ids of the tokens index whose issue the metachain indexes
    Issuer,       \* the issuer, the token's first owner
    NewOwner      \* the owner a later transfer of ownership names

UpdateKinds == {"attributes", "addURI", "freeze", "unfreeze", "pause", "unpause", "setRole"}

Flag == {"unset", "true", "false"}

\* token: the fields of the issue (name, ticker, type, issuer, owner);
\* roles: the roles map of the role changes; owners: ownersHistory
DocVal == [hasData: BOOLEAN, attributes: Attributes, uris: Seq(URIs),
           nonEmptyURIs: BOOLEAN, frozen: Flag, paused: Flag, token: BOOLEAN, roles: BOOLEAN,
           owners: Seq({Issuer, NewOwner})]

Keys == ({"tokens"} \X TokenKeys) \cup ({"accountsdcdt"} \X AccountKeys)

\* one bulk item: target _id, the script it runs, and the update whose fields
\* are its parameters
Item == [key: Keys, script: {"frozen", "paused", "attributes", "uris"}, upd: Updates]
        \cup [key: Keys, script: {"issue", "roles", "transfer"}]

ASSUME \A u \in Updates : u.kind \in UpdateKinds
ASSUME StoredDocs \in [Keys -> DocVal \cup {Absent}]
ASSUME IssuedKeys \subseteq TokenKeys

VARIABLES
    docs,          \* docs[k]: the stored document with key k, or Absent
    batch,         \* the updates of the block being indexed
    isAccountsIdx, \* whether this call writes the accountsdcdt index
    buffer,        \* bulk items not yet applied by the store
    blocks,        \* number of blocks indexed
    redeliveries,
    metaBuffer,    \* items of the metachain indexer's block not yet applied
    metaBlocks,    \* blocks the metachain's indexer has sent: 1 the issue, 2 the transfer
    issueApplied   \* history: _ids the store has applied an issue item to

shardVars == <<batch, isAccountsIdx, buffer, blocks>>
metaVars == <<metaBuffer, metaBlocks, issueApplied>>
vars == <<docs, shardVars, redeliveries, metaVars>>

(***************************************************************************)
(* PrepareNFTUpdateData                                                    *)
(***************************************************************************)
\* the _id: the identifier, or address-identifier in accountsdcdt
ItemKey(u, isAcc) ==
    IF isAcc THEN <<"accountsdcdt", u.address \o "-" \o u.id>> ELSE <<"tokens", u.id>>

\* the attributes script, or the AddURI script when URIsToAdd is not empty
AttributesOrURIsItem(u, isAcc) ==
    IF u.uris # <<>>
    THEN [key |-> ItemKey(u, isAcc), script |-> "uris", upd |-> u]
    ELSE [key |-> ItemKey(u, isAcc), script |-> "attributes", upd |-> u]

\* Variant (the intended loop): every update gets its item, the freeze and
\* pause ones included.
PrepareNFTUpdateDataAll(updates, isAcc) ==
    [k \in 1..Len(updates) |->
        LET u == updates[k] IN
        CASE u.kind \in {"freeze", "unfreeze"} /\ ~isAcc ->
                [key |-> ItemKey(u, isAcc), script |-> "frozen", upd |-> u]
          [] u.kind \in {"pause", "unpause"} /\ ~isAcc ->
                [key |-> ItemKey(u, isAcc), script |-> "paused", upd |-> u]
          [] OTHER -> AttributesOrURIsItem(u, isAcc)]

\* the loop over the updates: a freeze/unfreeze or pause/unpause update of
\* the tokens index puts its item and returns from the function
RECURSIVE PrepareLoop(_, _, _, _)
PrepareLoop(updates, isAcc, k, buf) ==
    IF k > Len(updates) THEN buf
    ELSE LET u    == updates[k]
             item == PrepareNFTUpdateDataAll(updates, isAcc)[k]
         IN IF u.kind \in {"freeze", "unfreeze", "pause", "unpause"} /\ ~isAcc
            THEN Append(buf, item)
            ELSE PrepareLoop(updates, isAcc, k + 1, Append(buf, item))

PrepareNFTUpdateData(updates, isAcc) == PrepareLoop(updates, isAcc, 1, <<>>)

(***************************************************************************)
(* The scripts, as the store runs them.  Every item has "upsert": {}, so   *)
(* on a missing document an empty document is created and the script is   *)
(* not run.                                                                *)
(***************************************************************************)
EmptyDoc == [hasData |-> FALSE, attributes |-> "", uris |-> <<>>, nonEmptyURIs |-> FALSE,
             frozen |-> "unset", paused |-> "unset", token |-> FALSE, roles |-> FALSE,
             owners |-> <<>>]

\* nonEmptyURIs: some URI is not empty
NonEmptyURIs(uris) == \E i \in DOMAIN uris : uris[i] # ""

\* PrepareTokenMetaData: the data an NFT's creation stores, from the
\* metadata of the altered account's token
PrepareTokenMetaData(md) ==
    [EmptyDoc EXCEPT !.hasData = TRUE, !.attributes = md.attributes, !.uris = md.uris,
                     !.nonEmptyURIs = NonEmptyURIs(md.uris)]

BoolText(b) == IF b THEN "true" ELSE "false"

\* Variant: the frozen field gets the kind of update instead of the boolean.
FreezeScriptRaw(d, it) == [d EXCEPT !.frozen = it.upd.kind]

\* ctx._source.frozen = params.frozen, params.frozen being the Freeze flag
FreezeScript(d, it) == [d EXCEPT !.frozen = BoolText(it.upd.kind = "freeze")]

\* ctx._source.paused = params.paused, params.paused being the Pause flag
PauseScript(d, it) == [d EXCEPT !.paused = BoolText(it.upd.kind = "pause")]

\* if the document has data: replace attributes (with metadata and tags)
AttributesScript(d, it) ==
    IF d.hasData THEN [d EXCEPT !.attributes = it.upd.attributes] ELSE d

\* the loop over params.uris: add each one not found in the list as it
\* stands, the ones the loop already added included
AddMissingURIs(stored, params) ==
    FoldLeft(LAMBDA acc, u : IF u \in ToSet(acc) THEN acc ELSE Append(acc, u), stored, params)

\* Variant: every incoming URI is added, without looking for it.
AddURIScriptAppend(d, it) ==
    IF d.hasData
    THEN [d EXCEPT !.uris = IF @ = <<>> THEN it.upd.uris ELSE @ \o it.upd.uris,
                   !.nonEmptyURIs = TRUE]
    ELSE d

\* if the document has data: with no uris stored, set params.uris; else
\* add every incoming URI not found; then set nonEmptyURIs.  An empty
\* stored list stands for the missing uris key.
AddURIScript(d, it) ==
    IF d.hasData
    THEN [d EXCEPT !.uris = IF @ = <<>> THEN it.upd.uris ELSE AddMissingURIs(@, it.upd.uris),
                   !.nonEmptyURIs = TRUE]
    ELSE d

ApplyNFTItem(d, it) ==
    IF d = Absent THEN EmptyDoc
    ELSE CASE it.script = "frozen"     -> FreezeScript(d, it)
           [] it.script = "paused"     -> PauseScript(d, it)
           [] it.script = "attributes" -> AttributesScript(d, it)
           [] it.script = "uris"       -> AddURIScript(d, it)

(***************************************************************************)
(* The token document's other writers                                      *)
(***************************************************************************)
\* the upsert of the issue: the token's fields, no roles, the issuer as
\* the only owner of the history
TokenDoc == [EmptyDoc EXCEPT !.token = TRUE, !.owners = <<Issuer>>]

\* Variant: the script replaces the document and does not put the roles back.
IssueScriptDropRoles(d) ==
    IF d = Absent THEN TokenDoc ELSE IF d.roles THEN TokenDoc ELSE d

\* SerializeTokens, issue: if the document has roles, keep them, replace the
\* document by the token and put them back; otherwise do nothing.  A missing
\* document is created from the upsert.
IssueScript(d) ==
    IF d = Absent THEN TokenDoc
    ELSE IF d.roles THEN [TokenDoc EXCEPT !.roles = TRUE] ELSE d

\* Variant: the roles document replaces the stored one.
RolesScriptReplace(d) == [EmptyDoc EXCEPT !.roles = TRUE]

\* the role changes of a token: set the roles map, keep the other fields;
\* a missing document is created with the roles only
RolesScript(d) ==
    IF d = Absent THEN [EmptyDoc EXCEPT !.roles = TRUE] ELSE [d EXCEPT !.roles = TRUE]

\* SerializeTokens, transfer of ownership: initialize ownersHistory or add
\* the new element to it, set currentOwner; a missing document is created
\* from the upsert, the token with the new owner as its history
TransferScript(d) ==
    IF d = Absent THEN [TokenDoc EXCEPT !.owners = <<NewOwner>>]
    ELSE [d EXCEPT !.owners = Append(@, NewOwner)]

ApplyItem(d, it) ==
    CASE it.script = "issue" -> IssueScript(d)
      [] it.script = "transfer" -> TransferScript(d)
      [] it.script = "roles" -> RolesScript(d)
      [] it.script \in {"frozen", "paused", "attributes", "uris"} -> ApplyNFTItem(d, it)

-----------------------------------------------------------------------------

Batches == UNION {[1..n -> Updates] : n \in 1..MaxBatch}

Init ==
    /\ docs = StoredDocs
    /\ batch = <<>>
    /\ isAccountsIdx = FALSE
    /\ buffer = <<>>
    /\ blocks = 0
    /\ redeliveries = 0
    /\ metaBuffer = <<>>
    /\ metaBlocks = 0
    /\ issueApplied = {}

\* the role changes of a block for the tokens index: one item per token
RolesItems(b, isAcc) ==
    IF isAcc THEN <<>>
    ELSE SetToSeq({[key |-> <<"tokens", b[k].id>>, script |-> "roles"] :
                   k \in {j \in DOMAIN b : b[j].kind = "setRole"}})

\* the updates of a block that are NFT data updates
NFTUpdatesOf(b) == SelectSeq(b, LAMBDA u : u.kind # "setRole")

\* the bulk items of a block: NFT data updates, then role changes
BlockItems(b, isAcc) == PrepareNFTUpdateData(NFTUpdatesOf(b), isAcc) \o RolesItems(b, isAcc)

\* the shard's indexer serializes a block's NFT updates and role changes
\* for one of the two indexes
Prepare ==
    /\ buffer = <<>>
    /\ blocks < MaxBlocks
    /\ \E b \in Batches, acc \in BOOLEAN :
          /\ batch' = b
          /\ isAccountsIdx' = acc
          /\ buffer' = BlockItems(b, acc)
    /\ blocks' = blocks + 1
    /\ UNCHANGED <<docs, redeliveries, metaVars>>

\* the store applies the next item of the bulk request
Apply ==
    /\ buffer # <<>>
    /\ LET it == Head(buffer)
       IN docs' = [docs EXCEPT ![it.key] = ApplyItem(@, it)]
    /\ buffer' = Tail(buffer)
    /\ UNCHANGED <<batch, isAccountsIdx, blocks, redeliveries, metaVars>>

\* the node re-sends the block: its bulk request is sent again from the start
Redeliver ==
    /\ batch # <<>>
    /\ redeliveries < MaxRedeliveries
    /\ buffer' = BlockItems(batch, isAccountsIdx)
    /\ redeliveries' = redeliveries + 1
    /\ UNCHANGED <<docs, batch, isAccountsIdx, blocks, metaVars>>

\* the tokens items of the metachain's n-th block: the issue of the tokens,
\* then the transfer of their ownership
MetaItems(n) ==
    SetToSeq({[key |-> <<"tokens", t>>, script |-> IF n = 1 THEN "issue" ELSE "transfer"] :
              t \in IssuedKeys})

\* the metachain's indexer serializes the block that issues the tokens
IssueBlock ==
    /\ metaBlocks = 0
    /\ metaBuffer' = MetaItems(1)
    /\ metaBlocks' = 1
    /\ UNCHANGED <<docs, shardVars, redeliveries, issueApplied>>

\* once the issue block's request has succeeded, the metachain's indexer
\* serializes a later block that transfers the tokens' ownership
TransferBlock ==
    /\ metaBlocks = 1 /\ metaBuffer = <<>>
    /\ metaBuffer' = MetaItems(2)
    /\ metaBlocks' = 2
    /\ UNCHANGED <<docs, shardVars, redeliveries, issueApplied>>

\* the store applies the next item of the metachain's bulk request
ApplyMeta ==
    /\ metaBuffer # <<>>
    /\ LET it == Head(metaBuffer)
       IN /\ docs' = [docs EXCEPT ![it.key] = ApplyItem(@, it)]
          /\ issueApplied' = IF it.script = "issue" THEN issueApplied \cup {it.key}
                                                    ELSE issueApplied
    /\ metaBuffer' = Tail(metaBuffer)
    /\ UNCHANGED <<shardVars, redeliveries, metaBlocks>>

\* the node re-sends the metachain's last block
RedeliverMeta ==
    /\ metaBlocks > 0
    /\ redeliveries < MaxRedeliveries
    /\ metaBuffer' = MetaItems(metaBlocks)
    /\ redeliveries' = redeliveries + 1
    /\ UNCHANGED <<docs, shardVars, metaBlocks, issueApplied>>

Next == Prepare \/ Apply \/ Redeliver \/ IssueBlock \/ TransferBlock \/ ApplyMeta \/ RedeliverMeta

Spec == Init /\ [][Next]_vars

-----------------------------------------------------------------------------
(* Properties                                                              *)

TypeOK ==
    /\ docs \in [Keys -> DocVal \cup {Absent}]
    /\ buffer \in Seq(Item)
    /\ blocks \in 0..MaxBlocks
    /\ metaBuffer \in Seq(Item)
    /\ issueApplied \subseteq Keys
    /\ metaBlocks \in 0..2

\* Every NFT update of a block reaches the bulk request: the items
\* PrepareNFTUpdateData puts are one per update, in the updates' order.
EveryUpdateSerialized ==
    LET nft == NFTUpdatesOf(batch)
    IN PrepareNFTUpdateData(nft, isAccountsIdx) = PrepareNFTUpdateDataAll(nft, isAccountsIdx)

\* No URI is stored twice in an NFT's data: the node re-sends a block whose
\* bulk request was not acknowledged, and spec section 8 asks that indexing
\* an event twice give the document once; the AddURI script
\* (PrepareNFTUpdateData) adds only the URIs it does not find, in the
\* tokens and in the accountsdcdt index alike.
NoDuplicateURIs ==
    \A k \in Keys : docs[k] # Absent => IsInjective(docs[k].uris)

\* The stored attributes of an NFT change only through an UpdateAttributes
\* update: freezing, pausing or adding URIs leaves them as they are.
AttributesOnlyByUpdateAttributes ==
    [][\A k \in Keys :
          (docs[k] # Absent /\ docs'[k] # Absent /\ docs'[k].attributes # docs[k].attributes)
              => Head(buffer).upd.kind = "attributes"]_docs

\* Role preservation (spec section 8): a token's metadata, once stored, is
\* never erased by a later write, the roles included, and its roles never
\* by a metadata write, whatever the order in which the metachain's issue
\* and the shard's role changes and pauses reach the token document.
TokenFieldsKept ==
    [][\A k \in Keys :
          (docs[k] # Absent /\ docs'[k] # Absent) =>
              /\ docs[k].token => docs'[k].token
              /\ docs[k].roles => docs'[k].roles]_docs

\* The document of an issued token has the token's fields once the issue
\* has reached it: independent indexers may deliver in any order (spec
\* sections 4.4 and 5), and the merge seeds or overwrites the document.
IssuedTokenHasMetadata ==
    \A k \in issueApplied : docs[k] # Absent /\ docs[k].token

=============================================================================
