--------------------------- MODULE MC_NFTUpdates ---------------------------
(* One NFT TKN-01 of collection TKN, held by account A.  The updates are the *)
(* six kinds nftsPropertiesProc produces for it and a role change of TKN     *)
(* for A.  The stored documents are those present once a shard's indexer     *)
(* indexed the NFT's creation: its tokens document and its accountsdcdt      *)
(* document carry data, with no URIs.  The collection's tokens document   *)
(* is missing: the metachain's indexer has not yet indexed the issue of   *)
(* TKN.                                                                     *)
EXTENDS NFTUpdates

NFTUpdate(kind, attrs, uris) ==
    [kind |-> kind, id |-> "TKN-01", address |-> "A", attributes |-> attrs, uris |-> uris]

\* pause events carry only the token: no address, no data
PauseUpdate(kind) ==
    [kind |-> kind, id |-> "TKN", address |-> "", attributes |-> "", uris |-> <<>>]

MCUpdates ==
    { NFTUpdate("attributes", "a1", <<>>), NFTUpdate("addURI", "", <<"u2">>),
      NFTUpdate("addURI", "", <<"u1", "u2">>),
      NFTUpdate("freeze", "", <<>>), NFTUpdate("unfreeze", "", <<>>),
      PauseUpdate("pause"), PauseUpdate("unpause"),
      [kind |-> "setRole", id |-> "TKN", address |-> "A", attributes |-> "", uris |-> <<>>] }

\* the NFT's documents as its creation wrote them
NFTDoc == PrepareTokenMetaData([attributes |-> "a0", uris |-> <<>>])

MCStoredDocs ==
    [k \in ({"tokens"} \X {"TKN-01", "TKN"}) \cup ({"accountsdcdt"} \X {"A-TKN-01", "-TKN"}) |->
        CASE k \in {<<"tokens", "TKN">>, <<"accountsdcdt", "-TKN">>} -> Absent
          [] OTHER                          -> NFTDoc]
=============================================================================
