------------------------- MODULE MC_BalanceChecker -------------------------
(* Three addresses and two tokens.  When the checker starts the store has   *)
(* drifted from the chain in the three ways compareBalances tells apart:    *)
(* A1 has an extra row, A2 a wrong balance, A3 a missing row.               *)
EXTENDS BalanceChecker

Bals(a1, a2, a3) ==
    [k \in {"A1", "A2", "A3"} \X {"T1", "T2"} |->
        LET b == CASE k[1] = "A1" -> a1 [] k[1] = "A2" -> a2 [] k[1] = "A3" -> a3
        IN IF k[2] = "T1" THEN b[1] ELSE b[2]]

MCInitChain == Bals(<<"1", "0">>, <<"1", "2">>, <<"2", "1">>)

MCInitStore == Bals(<<"1", "2">>, <<"1", "1">>, <<"2", NoRow>>)
=============================================================================
