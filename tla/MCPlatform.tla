----------------------------- MODULE MCPlatform -----------------------------
(* One account for two guides, and the terms of promotions.               *)
EXTENDS Platform, TLC

MCAccountOf == [g \in Guide |-> "account"]

\* Two providers, and a percentage that does not come out in cents, an amount larger
\* than the smaller subtotal, and a percentage with a cap and a smallest order.
MCTypeOf == "hotelier" :> "HOTEL" @@ "guide" :> "TOUR"
MCDeal == {[percent |-> TRUE, value |-> 5010, cap |-> NoCap, min |-> 0],
           [percent |-> FALSE, value |-> 500, cap |-> NoCap, min |-> 0],
           [percent |-> TRUE, value |-> 1250, cap |-> 30, min |-> 301]}
=============================================================================
