----------------------------- MODULE SourceMap -----------------------------
(***************************************************************************)
(* The source map of the mixer: which physical inputs form a mono or a     *)
(* stereo source, and which group each source feeds (mixer/source_map.py), *)
(* with the edits a client may make to it while the mixer runs             *)
(* (mixer/mixerctl.py).                                                    *)
(*                                                                         *)
(* A source is a record.  left is its first input, right its second one,   *)
(* or None for a mono source, so that the mode is not a field of its own.  *)
(* An ID is the sequence of its parts: <<1>> is a configured ID and        *)
(* <<1, 2>> the ID "<that>_2" which input 2 gets when it leaves the pair   *)
(* (no shipped ID is another one followed by "_" and a number).            *)
(* Names are left out: they are text for people.                           *)
(***************************************************************************)
EXTENDS Naturals, Sequences, FiniteSets

CONSTANTS
    NInputs,        \* physical inputs; 16 in the code
    Groups          \* destination groups; eight in the code

ASSUME NInputsAssumption == NInputs \in Nat \ {0}

Inputs == 1..NInputs
None == 0

Source == [id: Seq(Nat), left: Inputs, right: Inputs \cup {None}, group: Groups]

Stereo(s) == s.right # None
InputsOf(s) == {s.left, s.right} \ {None}

(* Whether the list S uses every physical input in exactly one place. *)
Covers(S) ==
    /\ \A s \in S : s.left # s.right
    /\ \A n \in Inputs : \E s \in S : n \in InputsOf(s)
    /\ \A s, t \in S : InputsOf(s) \cap InputsOf(t) # {} => s = t

UniqueIds(S) == \A s, t \in S : s.id = t.id => s = t

(* What validate_source_map accepts. *)
ValidSourceMap(S) ==
    /\ UniqueIds(S)
    /\ Covers(S)
    /\ \A s \in S : s.group \in Groups

-----------------------------------------------------------------------------
(* One edit: input p becomes the left side of a pair with q, or mono when   *)
(* q is None, in group g.                                                   *)

Holder(S, n) == CHOOSE s \in S : n \in InputsOf(s)

(* The stereo partner of n, as the clients see it and as a group edit keeps *)
(* it.                                                                      *)
PartnerOf(S, n) ==
    LET s == Holder(S, n)
    IN  IF ~Stereo(s) THEN None ELSE IF n = s.left THEN s.right ELSE s.left

(* Slip: a partner is taken out of another pair.                            *)
AnyPartner(S, p, q) == q # p

(* The early returns of _runtime_source_entries: an input is not its own    *)
(* partner, and a partner that is paired already can only be p's.           *)
EditAllowed(S, p, q) ==
    /\ q # p
    /\ q # None /\ Stereo(Holder(S, q)) => p \in InputsOf(Holder(S, q))

(* Every input the edit does not name becomes a mono entry: one that leaves *)
(* a pair, whether the edit is about that pair or not, gets an ID of its    *)
(* own.                                                                     *)
Split(s, n) ==
    [id    |-> IF Stereo(s) THEN Append(s.id, n) ELSE s.id,
     left  |-> n,
     right |-> None,
     group |-> s.group]

Edited(S, p, q, g) ==
    [id |-> Holder(S, p).id, left |-> p, right |-> q, group |-> g]

(* Slip: q is not taken out of its old place.                               *)
EntriesLeavingPartner(S, p, q, g) ==
    {Split(Holder(S, n), n) : n \in Inputs \ {p}} \cup {Edited(S, p, q, g)}

RuntimeSourceEntries(S, p, q, g) ==
    {Split(Holder(S, n), n) : n \in Inputs \ {p, q}} \cup {Edited(S, p, q, g)}

(* A list of entries in the order of their first inputs.                    *)
InOrder(E) ==
    {seq \in [1..Cardinality(E) -> E] :
        /\ \A e \in E : \E i \in DOMAIN seq : seq[i] = e
        /\ \A i, j \in DOMAIN seq : i < j => seq[i].left < seq[j].left}

(* What a client sees of the map: inputNGroup, inputNPartner and            *)
(* inputNOrientation (inputNMode tells mono from the other two).            *)
MappingState(S) ==
    [n \in Inputs |->
        LET s == Holder(S, n)
        IN  [group       |-> s.group,
             partner     |-> PartnerOf(S, n),
             orientation |-> IF ~Stereo(s) THEN "mono"
                             ELSE IF n = s.left THEN "left" ELSE "right"]]
=============================================================================
