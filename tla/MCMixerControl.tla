--------------------------- MODULE MCMixerControl ---------------------------
(* Three and four inputs, two groups.  MonoMap is the shipped kind of map,  *)
(* one mono source per input in order; MixedMap has a pair and lists its    *)
(* sources in another order than that of their inputs.                      *)
EXTENDS MixerControl

MCGroups == {"drums", "vocals"}
MCGroup(n) == IF n = 1 THEN "vocals" ELSE "drums"

MonoMap ==
    [n \in Inputs |-> [id |-> <<n>>, left |-> n, right |-> None, group |-> MCGroup(n)]]

MixedMap ==
    <<[id |-> <<1>>, left |-> 3, right |-> 2, group |-> "drums"],
      [id |-> <<2>>, left |-> 1, right |-> None, group |-> "vocals"]>>
    \o [i \in 1..NInputs - 3 |-> [id |-> <<i + 2>>, left |-> i + 3, right |-> None,
                                  group |-> "drums"]]

MCTrim == [n \in Inputs |-> IF n = 2 THEN 0 ELSE 1]
=============================================================================
