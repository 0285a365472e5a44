-------------------------- MODULE MCCerebrasBudget --------------------------
(* A small instance of CerebrasBudget: two callers, a minute of two ticks   *)
(* and a day of four, and a provider that may say that nothing is left.     *)
EXTENDS CerebrasBudget, TLC

Widths == "minute" :> 2 @@ "day" :> 4
Ceilings == "minute" :> ("requests" :> 1 @@ "tokens" :> 3)
            @@ "day" :> ("requests" :> 2 @@ "tokens" :> 4)
Headers == {<<>>, <<"day", "requests">> :> 1}
=============================================================================
