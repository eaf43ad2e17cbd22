---------------------------- MODULE InputMapping ----------------------------
(***************************************************************************)
(* What the runtime mapping edits do, seen from the physical inputs: the   *)
(* view every client has of the map, inputNGroup, inputNPartner and        *)
(* inputNOrientation, with no sources, IDs or DSP nodes in it.             *)
(*                                                                         *)
(* An edit leaves at most one pair behind, the one it names.  That is what *)
(* the code does (mixer/mixerctl.py, _runtime_source_entries); see         *)
(* PairsStay in MixerControl for what its documentation says.         *)
(***************************************************************************)
EXTENDS Naturals

CONSTANTS
    Inputs,         \* physical inputs, positive numbers
    Groups,         \* destination groups
    Start           \* the mapping of the configuration file

VARIABLE
    input           \* per physical input: group, partner (0: none), orientation

(* p and q are the left and right side of a pair in group g, or p is mono   *)
(* when q is 0; every other input is mono in the group it was in.           *)
Leave(p, q, g) ==
    [n \in Inputs |->
        IF n = p
        THEN [group |-> g, partner |-> q,
              orientation |-> IF q = 0 THEN "mono" ELSE "left"]
        ELSE IF n = q
        THEN [group |-> g, partner |-> p, orientation |-> "right"]
        ELSE [group |-> input[n].group, partner |-> 0, orientation |-> "mono"]]

(* inputNPartner: an input that belongs to another pair cannot be taken.    *)
Pair(p, q) ==
    /\ p # q
    /\ input[q].partner \in {0, p}
    /\ input' = Leave(p, q, input[p].group)

Unpair(p) == input' = Leave(p, 0, input[p].group)

(* inputNGroup: the partner moves along, and p becomes the left side.       *)
Regroup(p, g) == input' = Leave(p, input[p].partner, g)

MapNext ==
    \E p \in Inputs :
        \/ \E q \in Inputs : Pair(p, q)
        \/ Unpair(p)
        \/ \E g \in Groups : Regroup(p, g)

MapSpec == input = Start /\ [][MapNext]_input
=============================================================================
