----------------------------- MODULE MCInflation -----------------------------
(* A day of one tick beside a longer timer; a curve that dies out. *)
EXTENDS Inflation

MCIds == {"day", "week"}
MCDuration == [id \in MCIds |-> IF id = "day" THEN 1 ELSE 3]
MCCurves == {<<6, 1, -2, 1, 1, 1>>}
MCCurveFns == {[p \in 0..5 |-> c[p + 1]] : c \in MCCurves}
MCDistributions == {[staking |-> 1, community |-> 1, strategic |-> 1]}
=============================================================================
