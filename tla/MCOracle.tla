------------------------------ MODULE MCOracle ------------------------------
(***************************************************************************)
(* Four chains.  On one, two validators of which one has most of the power  *)
(* vote in periods of two blocks, and one other thing happens.  On two       *)
(* others two or three validators of one unit of power each vote in every    *)
(* block.  The last starts from an export in which one of two validators    *)
(* is jailed, with misses, before the slash window ends.  Ballots agree,    *)
(* deviate, abstain or leave a pair out, and half of a ballot's power is    *)
(* an integer or has to be rounded, to nothing in the smallest chain.       *)
(***************************************************************************)
EXTENDS Oracle, TLC

CONSTANTS v1, v2, v3, feeder

MCPairs == {"eth", "btc"}
MCBallots == {[eth |-> 1], [eth |-> 9], [eth |-> 0, btc |-> 9]}
MCFunds == {<<7, 1>>, <<7, 2>>}

MCParams ==
    [whitelist |-> {"eth", "btc"}, votePeriod |-> 2, slashWindow |-> 4, minVoters |-> 1,
     voteThreshold |-> <<1, 2>>, rewardBand |-> <<1, 50>>, minValidPerWindow |-> <<3, 4>>,
     twapLookback |-> 3]
MCUnequal == [height |-> 0, params |-> MCParams, power |-> (v1 :> 2 @@ v2 :> 3),
              misses |-> (v1 :> 0 @@ v2 :> 0), jailed |-> {}, budget |-> 1]
MCEqual ==
    [height |-> 2, params |-> [MCParams EXCEPT !.votePeriod = 1, !.slashWindow = 1,
                                               !.minValidPerWindow = <<9, 10>>],
     power |-> (v1 :> 1 @@ v2 :> 1 @@ v3 :> 1), misses |-> (v1 :> 0 @@ v2 :> 0 @@ v3 :> 0),
     jailed |-> {}, budget |-> 0]
MCSmallest == [MCEqual EXCEPT !.power = (v1 :> 1 @@ v2 :> 1), !.misses = (v1 :> 0 @@ v2 :> 0)]
MCExported ==
    [MCUnequal EXCEPT !.height = 2, !.params.minValidPerWindow = <<1, 2>>,
                      !.misses = (v1 :> 2 @@ v2 :> 0), !.jailed = {v1}]
MCGeneses == {MCUnequal, MCEqual, MCSmallest, MCExported}

\* A pair leaves the whitelist, the one whose ballot may fail for abstentions or the
\* other; the window becomes shorter than the period; the period becomes one block.
MCEdits ==
    {[whitelist |-> {"btc"}], [whitelist |-> {"eth"}], [slashWindow |-> 1], [votePeriod |-> 1]}
=============================================================================
