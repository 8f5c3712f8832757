------------------------- MODULE MC_AccountsIndex -------------------------
(* Two shards with one address each, a fungible token and an NFT.  A      *)
(* block either makes its account the sender with a balance of 1 and a    *)
(* token, moves the balance to 2 and empties the token, or leaves the     *)
(* balance at 1 for a receiver of the NFT, whose balance may then be      *)
(* unchanged: the case the heuristic of splitAlteredAccounts is about.    *)
EXTENDS AccountsIndex, TLC

MCShardOf == [a \in {"A", "B"} |-> IF a = "A" THEN "s1" ELSE "s2"]

MCAccountChoices ==
    { [balance |-> "1", isSender |-> TRUE,  tokens |-> "T" :> "1"],
      [balance |-> "2", isSender |-> FALSE, tokens |-> "T" :> "0"],
      [balance |-> "1", isSender |-> FALSE, tokens |-> "N" :> "1"] }
=============================================================================
