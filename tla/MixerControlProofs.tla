------------------------- MODULE MixerControlProofs -------------------------
(***************************************************************************)
(* For every number of inputs, every set of groups and every configured    *)
(* map: the map stays one that uses each input exactly once, no edit that  *)
(* passes the early returns proposes another one, and what the clients see *)
(* of it changes as InputMapping says.  The router nodes follow: at any    *)
(* point of any number of rebuilds no input is heard twice, no write meets *)
(* an empty slot, and what is left when nothing is on its way is the map.  *)
(***************************************************************************)
EXTENDS MixerControl, FiniteSetTheorems, TLAPS

Sound(S) == S \subseteq Source /\ Covers(S)

MapInv == Sound(Map)

-----------------------------------------------------------------------------
(* In a sound map the source that holds an input is there, and unique. *)
LEMMA HolderFact ==
    ASSUME NEW S, Sound(S), NEW n \in Inputs
    PROVE  /\ Holder(S, n) \in S
           /\ n \in InputsOf(Holder(S, n))
           /\ \A s \in S : n \in InputsOf(s) => s = Holder(S, n)
<1>1. \E s \in S : n \in InputsOf(s)
  BY DEF Sound, Covers
<1>2. Holder(S, n) \in S /\ n \in InputsOf(Holder(S, n))
  BY <1>1 DEF Holder
<1>3. ASSUME NEW s \in S, n \in InputsOf(s)
      PROVE  s = Holder(S, n)
  BY <1>2, <1>3 DEF Sound, Covers
<1> QED
  BY <1>2, <1>3

(* The inputs of a source, its left one first. *)
LEMMA SourceFact ==
    ASSUME NEW s \in Source
    PROVE  /\ s.left \in Inputs /\ s.left \in InputsOf(s)
           /\ s.right \in Inputs \cup {None} /\ s.group \in Groups /\ s.id \in Seq(Nat)
           /\ InputsOf(s) \subseteq Inputs
           /\ \A n \in Inputs : n \in InputsOf(s) <=> n = s.left \/ n = s.right
           /\ None \notin Inputs
BY NInputsAssumption DEF Source, InputsOf, Inputs, None

(* The partner of an input is another input, of the same source, or none. *)
LEMMA PartnerFact ==
    ASSUME NEW S, Sound(S), NEW n \in Inputs
    PROVE  /\ PartnerOf(S, n) \in Inputs \cup {None}
           /\ PartnerOf(S, n) # n
           /\ PartnerOf(S, n) # None =>
                Holder(S, PartnerOf(S, n)) = Holder(S, n)
           /\ PartnerOf(S, n) = None <=> ~Stereo(Holder(S, n))
<1> DEFINE s == Holder(S, n)
<1>1. s \in S /\ n \in InputsOf(s) /\ s \in Source /\ s.left # s.right
  BY HolderFact DEF Sound, Covers
<1>2. s.left \in Inputs /\ s.right \in Inputs \cup {None} /\ None \notin Inputs
      /\ (\A k \in Inputs : k \in InputsOf(s) <=> k = s.left \/ k = s.right)
  BY <1>1, SourceFact
<1>3. PartnerOf(S, n) = IF ~Stereo(s) THEN None ELSE IF n = s.left THEN s.right ELSE s.left
  BY DEF PartnerOf
<1>4. \A k \in Inputs : k \in InputsOf(s) => Holder(S, k) = s
  BY <1>1, HolderFact
<1> HIDE DEF s
<1>5. /\ PartnerOf(S, n) \in Inputs \cup {None}
      /\ PartnerOf(S, n) # n
      /\ PartnerOf(S, n) # None => Holder(S, PartnerOf(S, n)) = s
      /\ PartnerOf(S, n) = None <=> ~Stereo(s)
  BY <1>1, <1>2, <1>3, <1>4 DEF Stereo
<1> QED
  BY <1>5 DEF s

-----------------------------------------------------------------------------
(* The proposed entries of one edit. *)

(* An entry for an input the edit does not name. *)
LEMMA SplitFact ==
    ASSUME NEW S, Sound(S), NEW n \in Inputs
    PROVE  LET e == Split(Holder(S, n), n)
           IN  /\ e \in Source
               /\ InputsOf(e) = {n}
               /\ e.left = n /\ e.right = None
               /\ e.group = Holder(S, n).group
<1> DEFINE s == Holder(S, n)
           e == Split(s, n)
<1>1. s \in Source /\ s.id \in Seq(Nat) /\ s.group \in Groups
  BY HolderFact, SourceFact DEF Sound
<1>2. n \in Nat /\ n # None
  BY NInputsAssumption DEF Inputs, None
<1>3. Append(s.id, n) \in Seq(Nat)
  BY <1>1, <1>2
<1>4. e \in Source
  BY <1>1, <1>3 DEF Split, Source
<1>5. e.left = n /\ e.right = None /\ e.group = s.group
  BY DEF Split
<1>6. InputsOf(e) = {n}
  BY <1>2, <1>5 DEF InputsOf
<1> QED
  BY <1>4, <1>5, <1>6

(* The entry for the inputs the edit names. *)
LEMMA EditedFact ==
    ASSUME NEW S, Sound(S), NEW p \in Inputs, NEW q \in Inputs \cup {None}, NEW g \in Groups
    PROVE  LET e == Edited(S, p, q, g)
           IN  /\ e \in Source
               /\ InputsOf(e) = {p, q} \ {None}
               /\ e.left = p /\ e.right = q /\ e.group = g
<1> DEFINE e == Edited(S, p, q, g)
<1>1. Holder(S, p).id \in Seq(Nat)
  BY HolderFact, SourceFact DEF Sound
<1>2. e \in Source
  BY <1>1 DEF Edited, Source
<1>3. e.left = p /\ e.right = q /\ e.group = g
  BY DEF Edited
<1>4. InputsOf(e) = {p, q} \ {None}
  BY <1>3 DEF InputsOf
<1> QED
  BY <1>2, <1>3, <1>4

(* An edit of two different inputs, or of one, proposes a sound map, and    *)
(* says for every input which entry holds it.                               *)
LEMMA EntriesFact ==
    ASSUME NEW S, Sound(S), NEW p \in Inputs, NEW q \in Inputs \cup {None}, q # p,
           NEW g \in Groups
    PROVE  LET E == RuntimeSourceEntries(S, p, q, g)
           IN  /\ Sound(E)
               /\ \A n \in Inputs :
                     Holder(E, n) = IF n \in {p, q} THEN Edited(S, p, q, g)
                                    ELSE Split(Holder(S, n), n)
<1> DEFINE E == RuntimeSourceEntries(S, p, q, g)
           e == Edited(S, p, q, g)
           f(n) == Split(Holder(S, n), n)
<1>0. None \notin Inputs
  BY NInputsAssumption DEF Inputs, None
<1>1. E = {f(n) : n \in Inputs \ {p, q}} \cup {e}
  BY DEF RuntimeSourceEntries
<1>2. e \in Source /\ InputsOf(e) = {p, q} \ {None} /\ e.left = p /\ e.right = q
  BY EditedFact
<1>3. \A n \in Inputs : f(n) \in Source /\ InputsOf(f(n)) = {n}
                          /\ f(n).left = n /\ f(n).right = None
  BY SplitFact
<1> HIDE DEF e, f, E
<1>4. E \subseteq Source
  BY <1>1, <1>2, <1>3
<1>5. \A s \in E : s.left # s.right
  BY <1>0, <1>1, <1>2, <1>3
<1>6. \A n \in Inputs : \E s \in E : n \in InputsOf(s)
  <2> TAKE n \in Inputs
  <2>1. CASE n \in {p, q}
    BY <2>1, <1>0, <1>1, <1>2
  <2>2. CASE n \notin {p, q}
    BY <2>2, <1>1, <1>3
  <2> QED
    BY <2>1, <2>2
<1>7. \A s, t \in E : InputsOf(s) \cap InputsOf(t) # {} => s = t
  BY <1>1, <1>2, <1>3
<1>8. Sound(E)
  BY <1>4, <1>5, <1>6, <1>7 DEF Sound, Covers
<1>9. \A n \in Inputs : Holder(E, n) = IF n \in {p, q} THEN e ELSE f(n)
  <2> TAKE n \in Inputs
  <2>1. \A s \in E : n \in InputsOf(s) => s = Holder(E, n)
    BY <1>8, HolderFact
  <2>2. CASE n \in {p, q}
    BY <2>1, <2>2, <1>0, <1>1, <1>2
  <2>3. CASE n \notin {p, q}
    BY <2>1, <2>3, <1>1, <1>3
  <2> QED
    BY <2>2, <2>3
<1> QED
  BY <1>8, <1>9 DEF E, e, f

(* What an edit does to the view of the clients. *)
LEMMA ViewFact ==
    ASSUME NEW S, Sound(S), NEW p \in Inputs, NEW q \in Inputs \cup {None}, q # p,
           NEW g \in Groups, NEW n \in Inputs
    PROVE  MappingState(RuntimeSourceEntries(S, p, q, g))[n] =
             IF n = p
             THEN [group |-> g, partner |-> q,
                   orientation |-> IF q = 0 THEN "mono" ELSE "left"]
             ELSE IF n = q
             THEN [group |-> g, partner |-> p, orientation |-> "right"]
             ELSE [group |-> MappingState(S)[n].group, partner |-> 0, orientation |-> "mono"]
<1> DEFINE E == RuntimeSourceEntries(S, p, q, g)
           h == Holder(E, n)
<1>1. MappingState(E)[n] =
        [group |-> h.group, partner |-> PartnerOf(E, n),
         orientation |-> IF ~Stereo(h) THEN "mono" ELSE IF n = h.left THEN "left" ELSE "right"]
  BY DEF MappingState
<1>2. PartnerOf(E, n) = IF ~Stereo(h) THEN None ELSE IF n = h.left THEN h.right ELSE h.left
  BY DEF PartnerOf
<1>3. MappingState(S)[n].group = Holder(S, n).group
  BY DEF MappingState
<1>4. CASE n \in {p, q}
  <2>1. h = Edited(S, p, q, g)
    BY <1>4, EntriesFact
  <2>2. h.left = p /\ h.right = q /\ h.group = g
    BY <2>1, EditedFact
  <2>3. n # None
    BY NInputsAssumption DEF Inputs, None
  <2> HIDE DEF h, E
  <2> QED
    BY <1>1, <1>2, <1>4, <2>2, <2>3 DEF Stereo, None, E
<1>5. CASE n \notin {p, q}
  <2>1. h = Split(Holder(S, n), n)
    BY <1>5, EntriesFact
  <2>2. h.left = n /\ h.right = None /\ h.group = Holder(S, n).group
    BY <2>1, SplitFact
  <2> HIDE DEF h, E
  <2> QED
    BY <1>1, <1>2, <1>3, <1>5, <2>2 DEF Stereo, None, E
<1> QED
  BY <1>4, <1>5

-----------------------------------------------------------------------------
(* The steps of the controller. *)

(* Sorting the entries neither loses nor adds one. *)
LEMMA OrderFact ==
    ASSUME NEW E, NEW seq \in InOrder(E)
    PROVE  ListOf(seq) = E
BY DEF InOrder, ListOf

(* What an accepted edit makes of the map. *)
LEMMA EditFact ==
    ASSUME MapInv, NEW p \in Inputs, NEW q \in Inputs \cup {None}, NEW g \in Groups,
           Edit(p, q, g)
    PROVE  /\ q # p
           /\ Map' = RuntimeSourceEntries(Map, p, q, g)
           /\ MapInv'
<1>1. q # p
  BY DEF Edit, Accepted, EditAllowed
<1>2. sources' \in InOrder(RuntimeSourceEntries(Map, p, q, g))
  BY DEF Edit
<1>3. Map' = RuntimeSourceEntries(Map, p, q, g)
  BY <1>2, OrderFact DEF Map
<1>4. Sound(RuntimeSourceEntries(Map, p, q, g))
  BY <1>1, EntriesFact DEF MapInv
<1> QED
  BY <1>1, <1>3, <1>4 DEF MapInv

(* The two kinds of edit a client can ask for are edits in this sense. *)
LEMMA RequestFact ==
    ASSUME MapInv, NEW p \in Inputs
    PROVE  /\ Holder(Map, p).group \in Groups
           /\ PartnerOf(Map, p) \in Inputs \cup {None}
BY HolderFact, SourceFact, PartnerFact DEF MapInv, Sound

(* The configured map is a sound one. *)
LEMMA MapInit == Init => MapInv
<1> SUFFICES ASSUME Init PROVE MapInv
  OBVIOUS
<1>1. Map = ListOf(Configured)
  BY DEF Init, Map
<1>2. ListOf(Configured) \subseteq Source
  BY ConfiguredAssumption DEF ListOf
<1> QED
  BY <1>1, <1>2, ConfiguredAssumption DEF MapInv, Sound, ValidSourceMap

(* The steps that leave the map alone. *)
OtherStep ==
    \/ \E i \in Slots, v \in Values : \E c \in {"Trim", "Pan", "Width"} : SetSource(i, c, v)
    \/ \E n \in Inputs, v \in Values : SetTrim(n, v)
    \/ \E v \in {0, 1} : SetPanic(v)
    \/ RecordStart
    \/ Scsynth
    \/ UNCHANGED vars

(* Nothing but an edit touches the map. *)
LEMMA OtherFact == OtherStep => UNCHANGED sources
<1> SUFFICES ASSUME OtherStep PROVE UNCHANGED sources
  OBVIOUS
<1>1. CASE \E i \in Slots, v \in Values : \E c \in {"Trim", "Pan", "Width"} : SetSource(i, c, v)
  BY <1>1 DEF SetSource, Write
<1>2. CASE \E n \in Inputs, v \in Values : SetTrim(n, v)
  BY <1>2 DEF SetTrim, Write
<1>3. CASE \E v \in {0, 1} : SetPanic(v)
  BY <1>3 DEF SetPanic, Write
<1>4. CASE RecordStart
  BY <1>4 DEF RecordStart
<1>5. CASE Scsynth
  BY <1>5 DEF Scsynth
<1>6. CASE UNCHANGED vars
  BY <1>6 DEF vars
<1> QED
  BY <1>1, <1>2, <1>3, <1>4, <1>5, <1>6 DEF OtherStep

(* Every step is one of the two edits or leaves the map alone. *)
LEMMA StepCases ==
    [Next]_vars =>
        \/ \E p \in Inputs, q \in Inputs \cup {None} : SetPartner(p, q)
        \/ \E p \in Inputs, g \in Groups : SetGroup(p, g)
        \/ OtherStep
BY Zenon DEF Next, OtherStep

(* MapInv is inductive by itself. *)
LEMMA MapStep == MapInv /\ [Next]_vars => MapInv'
<1> SUFFICES ASSUME MapInv, [Next]_vars PROVE MapInv'
  OBVIOUS
<1>1. ASSUME NEW p \in Inputs, NEW q \in Inputs \cup {None}, SetPartner(p, q)
      PROVE  MapInv'
  BY <1>1, RequestFact, EditFact DEF SetPartner
<1>2. ASSUME NEW p \in Inputs, NEW g \in Groups, SetGroup(p, g)
      PROVE  MapInv'
  BY <1>2, RequestFact, EditFact DEF SetGroup
<1>3. CASE OtherStep
  BY <1>3, OtherFact DEF MapInv, Map
<1> QED
  BY <1>1, <1>2, <1>3, StepCases

(* The map uses every input exactly once, for ever. *)
THEOREM MapInvariance == Spec => []MapInv
<1>1. Init => MapInv
  BY MapInit
<1>2. MapInv /\ [Next]_vars => MapInv'
  BY MapStep
<1> QED
  BY <1>1, <1>2, PTL DEF Spec

(* No edit that passes the early returns is refused for the inputs it       *)
(* covers, in any map the controller gets into.                             *)
THEOREM EditsCover == Spec => []ProposalsCover
<1>1. MapInv => ProposalsCover
  <2> SUFFICES ASSUME MapInv, NEW p \in Inputs, NEW q \in Inputs \cup {None}, NEW g \in Groups,
                      EditAllowed(Map, p, q)
               PROVE  Covers(RuntimeSourceEntries(Map, p, q, g))
    BY DEF ProposalsCover
  <2>1. q # p
    BY DEF EditAllowed
  <2> QED
    BY <2>1, EntriesFact DEF MapInv, Sound
<1> QED
  BY <1>1, MapInvariance, PTL

-----------------------------------------------------------------------------
(* Every edit is a step of InputMapping. *)

(* An accepted edit is a Leave of the abstract map. *)
LEMMA EditIsLeave ==
    ASSUME MapInv, NEW p \in Inputs, NEW q \in Inputs \cup {None}, NEW g \in Groups,
           Edit(p, q, g)
    PROVE  MappingState(Map') = M!Leave(p, q, g)
<1>1. q # p /\ Map' = RuntimeSourceEntries(Map, p, q, g)
  BY EditFact
<1>2. ASSUME NEW n \in Inputs
      PROVE  MappingState(Map')[n] = M!Leave(p, q, g)[n]
  BY <1>1, ViewFact DEF MapInv, M!Leave
<1>3. MappingState(Map') = [n \in Inputs |-> MappingState(Map')[n]]
  BY DEF MappingState
<1>4. M!Leave(p, q, g) = [n \in Inputs |-> M!Leave(p, q, g)[n]]
  BY DEF M!Leave
<1> QED
  BY <1>2, <1>3, <1>4

(* A pairing edit is Pair or Unpair. *)
LEMMA PartnerStep ==
    ASSUME MapInv, NEW p \in Inputs, NEW q \in Inputs \cup {None}, SetPartner(p, q)
    PROVE  M!MapNext
<1> DEFINE in == MappingState(Map)
<1>1. Edit(p, q, Holder(Map, p).group) /\ Holder(Map, p).group \in Groups
  BY RequestFact DEF SetPartner
<1>2. MappingState(Map') = M!Leave(p, q, Holder(Map, p).group)
  BY <1>1, EditIsLeave
<1>3. in[p].group = Holder(Map, p).group
  BY DEF MappingState
<1>4. CASE q = None
  <2>1. M!Unpair(p)
    BY <1>2, <1>3, <1>4 DEF M!Unpair, None
  <2> QED
    BY <2>1 DEF M!MapNext
<1>5. CASE q \in Inputs
  <2>1. p # q /\ (q # None /\ Stereo(Holder(Map, q)) => p \in InputsOf(Holder(Map, q)))
    BY <1>1 DEF Edit, Accepted, EditAllowed
  <2>2. q # None
    BY <1>5, NInputsAssumption DEF Inputs, None
  <2>3. in[q].partner = PartnerOf(Map, q)
    BY <1>5 DEF MappingState
  <2>4. in[q].partner \in {0, p}
    <3> DEFINE s == Holder(Map, q)
    <3>1. CASE ~Stereo(s)
      BY <2>3, <3>1, <1>5, PartnerFact DEF MapInv, None
    <3>2. CASE Stereo(s)
      <4>1. p \in InputsOf(s) /\ q \in InputsOf(s)
        BY <2>1, <2>2, <3>2, <1>5, HolderFact DEF MapInv
      <4>2. p \in {s.left, s.right} /\ q \in {s.left, s.right}
        BY <4>1 DEF InputsOf
      <4>3. PartnerOf(Map, q) = IF q = s.left THEN s.right ELSE s.left
        BY <3>2 DEF PartnerOf
      <4> HIDE DEF s
      <4> QED
        BY <2>1, <2>3, <4>2, <4>3
    <3> QED
      BY <3>1, <3>2
  <2>5. M!Pair(p, q)
    BY <1>2, <1>3, <2>1, <2>4 DEF M!Pair
  <2> QED
    BY <1>5, <2>5 DEF M!MapNext
<1> QED
  BY <1>4, <1>5

(* A group edit is Regroup. *)
LEMMA GroupStep ==
    ASSUME MapInv, NEW p \in Inputs, NEW g \in Groups, SetGroup(p, g)
    PROVE  M!MapNext
<1>1. Edit(p, PartnerOf(Map, p), g) /\ PartnerOf(Map, p) \in Inputs \cup {None}
  BY RequestFact DEF SetGroup
<1>2. MappingState(Map') = M!Leave(p, PartnerOf(Map, p), g)
  BY <1>1, EditIsLeave
<1>3. MappingState(Map)[p].partner = PartnerOf(Map, p)
  BY DEF MappingState
<1>4. M!Regroup(p, g)
  BY <1>2, <1>3 DEF M!Regroup
<1> QED
  BY <1>4 DEF M!MapNext

(* What the clients see of the map changes by the edits of InputMapping     *)
(* alone: whatever values are written, however scsynth lags behind.         *)
THEOREM MappingRefines == Spec => ImplementsInputMapping
<1>1. Init => MappingState(Map) = MappingState(ListOf(Configured))
  BY DEF Init, Map
<1>2. MapInv /\ [Next]_vars => [M!MapNext]_(MappingState(Map))
  <2> SUFFICES ASSUME MapInv, [Next]_vars
               PROVE  M!MapNext \/ MappingState(Map)' = MappingState(Map)
    OBVIOUS
  <2>1. ASSUME NEW p \in Inputs, NEW q \in Inputs \cup {None}, SetPartner(p, q)
        PROVE  M!MapNext
    BY <2>1, PartnerStep
  <2>2. ASSUME NEW p \in Inputs, NEW g \in Groups, SetGroup(p, g)
        PROVE  M!MapNext
    BY <2>2, GroupStep
  <2>3. CASE OtherStep
    BY <2>3, OtherFact DEF Map, MappingState
  <2> QED
    BY <2>1, <2>2, <2>3, StepCases
<1> QED
  BY <1>1, <1>2, MapInvariance, PTL DEF Spec, ImplementsInputMapping, M!MapSpec
-----------------------------------------------------------------------------
(* The graph.  What scsynth will have done after each message that is still *)
(* on its way is written down as a function h: h[k] are the routers when    *)
(* the first k messages have been handled.  A message that is sent extends  *)
(* h, one that is handled shortens it; so no induction over the messages is *)
(* needed.                                                                  *)

Graph == [Slots -> Router \cup {NoNode}]
Knobs == {"Trim", "Pan", "Width"}
Messages ==
    [op: {"n_free"}, node: Slots] \cup [op: {"s_new"}, node: Slots, args: Router]
        \cup [op: {"n_set"}, node: Slots, control: Knobs, value: Values]
        \cup [op: {"master"}, value: {0, 1}]

(* The routers after one message. *)
Then(r, message) ==
    LET i == message.node
    IN  CASE message.op = "n_free" -> [r EXCEPT ![i] = NoNode]
          [] message.op = "s_new" /\ r[i] = NoNode -> [r EXCEPT ![i] = message.args]
          [] message.op = "n_set" /\ r[i] # NoNode ->
                [r EXCEPT ![i].level[message.control] = message.value]
          [] OTHER -> r

Lands(r, message) == message.op = "n_set" => r[message.node] # NoNode

Sides(router) == {router.left, router.right}

Single(r) ==
    \A i, j \in Slots :
        r[i] # NoNode /\ r[j] # NoNode /\ Sides(r[i]) \cap Sides(r[j]) # {} => i = j

(* The routers are those of a list of sources. *)
Plays(router, s) ==
    /\ router # NoNode
    /\ router.left = s.left
    /\ InputsOf(s) = Sides(router)
    /\ router.group = s.group

Routed(r, list) ==
    \A i \in Slots : IF i \in DOMAIN list THEN Plays(r[i], list[i]) ELSE r[i] = NoNode

Future(h, r, q) ==
    /\ h \in [0..Len(q) -> Graph]
    /\ h[0] = r
    /\ \A k \in 1..Len(q) : h[k] = Then(h[k - 1], q[k]) /\ Lands(h[k - 1], q[k])
    /\ \A k \in 0..Len(q) : Single(h[k])

(* The messages q take the routers from r to s. *)
Leads(r, q, s) == \E h : Future(h, r, q) /\ h[Len(q)] = s

(* A list of sources that is a sound map, each source in one place. *)
Listed(list) ==
    /\ list \in Seq(Source)
    /\ Sound(ListOf(list))
    /\ \A i, j \in DOMAIN list : list[i] = list[j] => i = j

GraphInv ==
    /\ Listed(sources)
    /\ osc \in Seq(Messages)
    /\ \E s : Leads(routers, osc, s) /\ Routed(s, sources)

(* There are at most as many sources as inputs, so each has a slot.         *)
LEMMA ListedFact ==
    ASSUME NEW list, Listed(list)
    PROVE  /\ Len(list) \in 0..NInputs /\ DOMAIN list = 1..Len(list)
           /\ DOMAIN list \subseteq Slots
           /\ \A i \in DOMAIN list : list[i] \in Source /\ list[i] \in ListOf(list)
           /\ \A i, j \in DOMAIN list :
                 InputsOf(list[i]) \cap InputsOf(list[j]) # {} => i = j
<1> DEFINE f == [i \in 1..Len(list) |-> list[i].left]
<1>1. Len(list) \in Nat /\ DOMAIN list = 1..Len(list)
  BY DEF Listed
<1>2. \A i \in DOMAIN list : list[i] \in Source /\ list[i] \in ListOf(list)
  BY DEF Listed, ListOf
<1>3. \A i, j \in DOMAIN list : InputsOf(list[i]) \cap InputsOf(list[j]) # {} => i = j
  <2> SUFFICES ASSUME NEW i \in DOMAIN list, NEW j \in DOMAIN list,
                      InputsOf(list[i]) \cap InputsOf(list[j]) # {}
               PROVE  i = j
    OBVIOUS
  <2>1. list[i] = list[j]
    BY <1>2 DEF Listed, Sound, Covers
  <2> QED
    BY <2>1 DEF Listed
<1>4. f \in Injection(1..Len(list), Inputs)
  <2>1. f \in [1..Len(list) -> Inputs]
    BY <1>1, <1>2, SourceFact
  <2>2. ASSUME NEW i \in 1..Len(list), NEW j \in 1..Len(list), f[i] = f[j]
        PROVE  i = j
    <3>1. list[i].left \in InputsOf(list[i]) /\ list[j].left \in InputsOf(list[j])
      BY <1>1, <1>2, SourceFact
    <3>2. list[i].left = list[j].left
      BY <2>2
    <3> QED
      BY <1>1, <1>3, <3>1, <3>2
  <2> QED
    BY <2>1, <2>2 DEF Injection, IsInjective
<1>5. IsFiniteSet(Inputs) /\ Cardinality(Inputs) = NInputs
  BY FS_Interval, NInputsAssumption DEF Inputs
<1>6. Cardinality(1..Len(list)) <= NInputs
  <2> HIDE DEF f
  <2> QED
    BY <1>4, <1>5, FS_Injection
<1>7. Cardinality(1..Len(list)) = Len(list)
  <2> DEFINE n == Len(list)
  <2>1. n \in Nat
    BY <1>1
  <2> HIDE DEF n
  <2>2. Cardinality(1..n) = IF 1 > n THEN 0 ELSE n - 1 + 1
    BY <2>1, FS_Interval
  <2>3. Cardinality(1..n) = n
    BY <2>1, <2>2
  <2> QED
    BY <2>3 DEF n
<1>8. Len(list) \in 0..NInputs
  BY <1>1, <1>6, <1>7, NInputsAssumption
<1>9. DOMAIN list \subseteq Slots
  BY <1>1, <1>8, NInputsAssumption DEF Slots, Inputs
<1> QED
  BY <1>1, <1>2, <1>3, <1>8, <1>9

(* A sorted list of the entries of a sound map is such a list.              *)
LEMMA SortedListed ==
    ASSUME NEW E, Sound(E), NEW seq \in InOrder(E)
    PROVE  Listed(seq)
<1> DEFINE f == [s \in E |-> s.left]
<1>1. f \in Injection(E, Inputs)
  <2>1. f \in [E -> Inputs]
    BY SourceFact DEF Sound
  <2>2. ASSUME NEW s \in E, NEW t \in E, f[s] = f[t]
        PROVE  s = t
    <3>1. s.left \in InputsOf(s) /\ t.left \in InputsOf(t) /\ s.left = t.left
      BY <2>2, SourceFact DEF Sound
    <3> QED
      BY <3>1 DEF Sound, Covers
  <2> QED
    BY <2>1, <2>2 DEF Injection, IsInjective
<1>2. IsFiniteSet(Inputs)
  BY FS_Interval, NInputsAssumption DEF Inputs
<1>3. Cardinality(E) \in Nat
  BY <1>1, <1>2, FS_Injection, FS_CardinalityType
<1>4. seq \in [1..Cardinality(E) -> E] /\ E \subseteq Source
  BY DEF InOrder, Sound
<1>5. seq \in Seq(Source)
  BY <1>3, <1>4
<1>6. Sound(ListOf(seq))
  BY OrderFact
<1>7. ASSUME NEW i \in DOMAIN seq, NEW j \in DOMAIN seq, seq[i] = seq[j]
      PROVE  i = j
  <2>1. seq[i] \in E /\ seq[i].left \in Inputs /\ i \in Nat /\ j \in Nat
    BY <1>3, <1>4, SourceFact
  <2>2. ~(i < j) /\ ~(j < i)
    BY <1>7, <2>1, NInputsAssumption DEF InOrder, Inputs
  <2> QED
    BY <2>1, <2>2
<1> QED
  BY <1>5, <1>6, <1>7 DEF Listed
(* What a source makes of its slot. *)
LEMMA NodeFact ==
    ASSUME NEW s \in Source
    PROVE  /\ NodeControls(s) \in Router
           /\ Plays(NodeControls(s), s)
           /\ Sides(NodeControls(s)) = InputsOf(s)
<1>1. /\ s.left \in Inputs /\ s.right \in Inputs \cup {None} /\ s.group \in Groups
      /\ None \notin Inputs
  BY SourceFact
<1>2. Default(s, "Trim") \in Values /\ Default(s, "Pan") \in Values /\ Default(s, "Width") \in Values
  BY <1>1, TrimAssumption, ValuesAssumption DEF Default
<1> DEFINE n == NodeControls(s)
<1>3. n.level \in [Knobs -> Values]
  <2>1. \A c \in Knobs : (IF c \in ControlsOf(s) THEN Default(s, c)
                          ELSE IF c = "Width" THEN 1 ELSE 0) \in Values
    BY <1>2, ValuesAssumption DEF Knobs
  <2> QED
    BY <2>1 DEF NodeControls, Knobs
<1>4. n.left = s.left /\ n.group = s.group
      /\ n.right = IF Stereo(s) THEN s.right ELSE s.left
  BY DEF NodeControls
<1>5. n.left \in Inputs /\ n.right \in Inputs /\ n.group \in Groups
  BY <1>1, <1>4 DEF Stereo
<1>6. n = [left |-> n.left, right |-> n.right, group |-> n.group, level |-> n.level]
  BY DEF NodeControls
<1>7. n \in Router
  <2> HIDE DEF n
  <2> QED
    BY <1>3, <1>5, <1>6 DEF Router, Knobs
<1>8. Sides(n) = InputsOf(s)
  BY <1>1, <1>4 DEF Sides, InputsOf, Stereo
<1> QED
  BY <1>4, <1>7, <1>8, NoNodeAssumption DEF Plays

(* The effect of each kind of message.                                      *)
LEMMA ThenFact ==
    ASSUME NEW r \in Graph, NEW i \in Slots
    PROVE  /\ Then(r, Free(i)) = [r EXCEPT ![i] = NoNode]
           /\ \A s : r[i] = NoNode => Then(r, New(i, s)) = [r EXCEPT ![i] = NodeControls(s)]
           /\ \A c, v : r[i] # NoNode => Then(r, Set(i, c, v)) = [r EXCEPT ![i].level[c] = v]
           /\ \A v : Then(r, SetMaster(v)) = r
BY DEF Then, Free, New, Set, SetMaster

(* A control that is set leaves the inputs, the sides and the group.        *)
LEMMA SetFact ==
    ASSUME NEW r \in Graph, NEW i \in Slots, NEW c \in Knobs, NEW v \in Values, r[i] # NoNode,
           NEW t, t = [r EXCEPT ![i].level[c] = v]
    PROVE  /\ t \in Graph
           /\ \A j \in Slots :
                 /\ t[j] = NoNode <=> r[j] = NoNode
                 /\ t[j] # NoNode => /\ t[j].left = r[j].left /\ t[j].right = r[j].right
                                     /\ t[j].group = r[j].group
<1> DEFINE n == [r[i] EXCEPT !.level[c] = v]
<1>1. r[i] \in Router
  BY DEF Graph
<1>2. n \in Router /\ n.left = r[i].left /\ n.right = r[i].right /\ n.group = r[i].group
  BY <1>1 DEF Router, Knobs
<1>3. n # NoNode
  BY <1>2, NoNodeAssumption
<1>4. t = [r EXCEPT ![i] = n]
  BY DEF Graph
<1> HIDE DEF n
<1>5. t \in Graph /\ (\A j \in Slots : t[j] = IF j = i THEN n ELSE r[j])
  BY <1>2, <1>4 DEF Graph
<1>6. \A j \in Slots :
         /\ t[j] = NoNode <=> r[j] = NoNode
         /\ t[j] # NoNode => /\ t[j].left = r[j].left /\ t[j].right = r[j].right
                             /\ t[j].group = r[j].group
  BY <1>2, <1>3, <1>5
<1> QED
  BY <1>5, <1>6

(* The messages of a rebuild and of a write are messages.                   *)
LEMMA MessageFact ==
    ASSUME NEW i \in Slots
    PROVE  /\ Free(i) \in Messages
           /\ \A s \in Source : New(i, s) \in Messages
           /\ \A c \in Knobs, v \in Values : Set(i, c, v) \in Messages
           /\ \A v \in {0, 1} : SetMaster(v) \in Messages
<1>1. Free(i) \in Messages
  BY DEF Free, Messages
<1>2. \A s \in Source : New(i, s) \in Messages
  BY NodeFact DEF New, Messages
<1>3. \A c \in Knobs, v \in Values : Set(i, c, v) \in Messages
  BY DEF Set, Messages
<1>4. \A v \in {0, 1} : SetMaster(v) \in Messages
  BY DEF SetMaster, Messages
<1> QED
  BY <1>1, <1>2, <1>3, <1>4

(* Two futures follow one another. *)
LEMMA FutureConcat ==
    ASSUME NEW p \in Seq(Messages), NEW q \in Seq(Messages), NEW r, NEW g, NEW h,
           Future(g, r, p), Future(h, g[Len(p)], q)
    PROVE  \E f : Future(f, r, p \o q) /\ f[Len(p \o q)] = h[Len(q)]
<1> DEFINE m == Len(p)
           n == Len(q)
           f == [k \in 0..m + n |-> IF k <= m THEN g[k] ELSE h[k - m]]
<1>1. m \in Nat /\ n \in Nat /\ Len(p \o q) = m + n
  OBVIOUS
<1>2. /\ \A k \in 1..m : (p \o q)[k] = p[k]
      /\ \A k \in m + 1..m + n : (p \o q)[k] = q[k - m]
  OBVIOUS
<1>3. /\ g \in [0..m -> Graph] /\ g[0] = r /\ (\A k \in 0..m : Single(g[k]))
      /\ \A k \in 1..m : g[k] = Then(g[k - 1], p[k]) /\ Lands(g[k - 1], p[k])
  BY DEF Future
<1>4. /\ h \in [0..n -> Graph] /\ h[0] = g[m] /\ (\A k \in 0..n : Single(h[k]))
      /\ \A k \in 1..n : h[k] = Then(h[k - 1], q[k]) /\ Lands(h[k - 1], q[k])
  BY DEF Future
<1> HIDE DEF m, n
<1>5. \A k \in 0..m : k \in 0..m + n /\ f[k] = g[k]
  BY <1>1
<1>6. \A k \in m..m + n : k \in 0..m + n /\ k - m \in 0..n /\ f[k] = h[k - m]
  <2> SUFFICES ASSUME NEW k \in m..m + n
               PROVE  k \in 0..m + n /\ k - m \in 0..n /\ f[k] = h[k - m]
    OBVIOUS
  <2>1. k \in 0..m + n /\ k - m \in 0..n /\ k \in Int
    BY <1>1
  <2>2. CASE k = m
    <3>1. m \in 0..m /\ m - m = 0
      BY <1>1
    <3> QED
      BY <1>4, <1>5, <2>1, <2>2, <3>1
  <2>3. CASE k # m
    <3>1. ~(k <= m)
      BY <1>1, <2>1, <2>3
    <3> QED
      BY <2>1, <3>1
  <2> QED
    BY <2>2, <2>3
<1>7. \A k \in 0..m + n : k \in 0..m \/ k \in m..m + n
  BY <1>1
<1> DEFINE u == m + n
<1>8. f = [k \in 0..u |-> f[k]]
  OBVIOUS
<1> HIDE DEF f
<1>9. \A k \in 0..u : f[k] \in Graph /\ Single(f[k])
  BY <1>3, <1>4, <1>5, <1>6, <1>7
<1>10. ASSUME NEW k \in 1..u
       PROVE  /\ f[k] = Then(f[k - 1], (p \o q)[k])
              /\ Lands(f[k - 1], (p \o q)[k])
  <2>1. CASE k <= m
    <3>1. k \in 1..m /\ k \in 0..m /\ k - 1 \in 0..m
      BY <1>1, <2>1
    <3>2. f[k] = g[k] /\ f[k - 1] = g[k - 1] /\ (p \o q)[k] = p[k]
      BY <1>2, <1>5, <3>1
    <3> QED
      BY <1>3, <3>1, <3>2
  <2>2. CASE ~(k <= m)
    <3>1. k \in m..m + n /\ k - 1 \in m..m + n /\ (k - 1) - m = (k - m) - 1
          /\ k \in m + 1..m + n /\ k - m \in 1..n
      BY <1>1, <2>2
    <3>2. f[k] = h[k - m] /\ f[k - 1] = h[(k - m) - 1] /\ (p \o q)[k] = q[k - m]
      BY <1>2, <1>6, <3>1
    <3> QED
      BY <1>4, <3>1, <3>2
  <2> QED
    BY <2>1, <2>2
<1>11. f[0] = r /\ f[u] = h[n]
  <2>1. 0 \in 0..m /\ m + n \in m..m + n /\ (m + n) - m = n
    BY <1>1
  <2> QED
    BY <1>3, <1>5, <1>6, <2>1
<1> HIDE DEF u
<1>12. Future(f, r, p \o q)
  <2>1. Len(p \o q) = u
    BY <1>1 DEF u
  <2>2. f \in [0..u -> Graph]
    BY <1>8, <1>9
  <2> QED
    BY <1>9, <1>10, <1>11, <2>1, <2>2 DEF Future
<1> QED
  BY <1>1, <1>11, <1>12 DEF n, u

(* The first message is handled. *)
LEMMA FutureTail ==
    ASSUME NEW q \in Seq(Messages), q # <<>>, NEW r, NEW h, Future(h, r, q)
    PROVE  \E f : Future(f, Then(r, Head(q)), Tail(q)) /\ f[Len(Tail(q))] = h[Len(q)]
<1> DEFINE n == Len(Tail(q))
           f == [k \in 0..Len(Tail(q)) |-> h[k + 1]]
<1>1. n \in Nat /\ Len(q) = n + 1 /\ (\A k \in 1..n : Tail(q)[k] = q[k + 1]) /\ Head(q) = q[1]
  OBVIOUS
<1>2. \A k \in 0..n : f[k] = h[k + 1] /\ h[k + 1] \in Graph /\ Single(h[k + 1])
  BY <1>1 DEF Future
<1>3. f[0] = Then(r, Head(q))
  BY <1>1, <1>2 DEF Future
<1>4. ASSUME NEW k \in 1..n
      PROVE  f[k] = Then(f[k - 1], Tail(q)[k]) /\ Lands(f[k - 1], Tail(q)[k])
  <2>1. k + 1 \in 1..Len(q) /\ (k - 1) + 1 = (k + 1) - 1 /\ k - 1 \in 0..n /\ k \in 0..n
    BY <1>1
  <2>2. f[k] = h[k + 1] /\ f[k - 1] = h[(k + 1) - 1] /\ Tail(q)[k] = q[k + 1]
    BY <1>1, <1>2, <2>1
  <2> QED
    BY <2>1, <2>2 DEF Future
<1>5. f \in [0..n -> Graph]
  BY <1>2
<1>6. f[n] = h[Len(q)]
  BY <1>1, <1>2
<1> HIDE DEF f
<1>7. Future(f, Then(r, Head(q)), Tail(q))
  BY <1>2, <1>3, <1>4, <1>5 DEF Future
<1> QED
  BY <1>6, <1>7

Frees == [i \in Slots |-> Free(i)]
News(list) == [i \in DOMAIN list |-> New(i, list[i])]
Silent == [i \in Slots |-> NoNode]

(* All slots are freed, one after the other. *)
LEMMA FreesFuture ==
    ASSUME NEW r \in Graph, Single(r)
    PROVE  /\ Frees \in Seq(Messages)
           /\ Leads(r, Frees, Silent)
<1> DEFINE state_(k) == [i \in Slots |-> IF i <= k THEN NoNode ELSE r[i]]
           g == [k \in 0..NInputs |-> state_(k)]
<1>1. NInputs \in Nat /\ Slots = 1..NInputs
  BY NInputsAssumption DEF Slots, Inputs
<1>2. Frees \in Seq(Messages) /\ Len(Frees) = NInputs /\ (\A k \in 1..NInputs : Frees[k] = Free(k))
  BY <1>1, MessageFact DEF Frees
<1>3. \A k \in 0..NInputs : state_(k) \in Graph
  BY DEF Graph
<1>4. state_(0) = r
  BY <1>1 DEF Graph
<1>5. state_(NInputs) = Silent
  BY <1>1 DEF Silent
<1>6. ASSUME NEW k \in 0..NInputs PROVE Single(state_(k))
  BY DEF Single
<1>7. ASSUME NEW k \in 1..NInputs
      PROVE  state_(k) = Then(state_(k - 1), Frees[k]) /\ Lands(state_(k - 1), Frees[k])
  <2>1. k \in Slots /\ k - 1 \in 0..NInputs /\ state_(k - 1) \in Graph /\ Frees[k] = Free(k)
    BY <1>1, <1>2, <1>3
  <2>2. Then(state_(k - 1), Free(k)) = [state_(k - 1) EXCEPT ![k] = NoNode]
    BY <2>1, ThenFact
  <2>3. state_(k) = [state_(k - 1) EXCEPT ![k] = NoNode]
    BY <1>1, <2>1
  <2>4. Lands(state_(k - 1), Free(k))
    BY DEF Lands, Free
  <2> QED
    BY <2>1, <2>2, <2>3, <2>4
<1> HIDE DEF state_
<1>8. \A k \in 0..NInputs : g[k] = state_(k)
  OBVIOUS
<1>9. \A k \in 1..NInputs : k \in 0..NInputs /\ k - 1 \in 0..NInputs
  BY <1>1
<1>10. g \in [0..NInputs -> Graph] /\ g[0] = r /\ g[NInputs] = Silent
  BY <1>1, <1>3, <1>4, <1>5, <1>8
<1>11. Future(g, r, Frees)
  <2>1. \A k \in 1..NInputs : g[k] = Then(g[k - 1], Frees[k]) /\ Lands(g[k - 1], Frees[k])
    BY <1>7, <1>8, <1>9
  <2>2. \A k \in 0..NInputs : Single(g[k])
    BY <1>6, <1>8
  <2> HIDE DEF g
  <2> QED
    BY <1>2, <1>10, <2>1, <2>2 DEF Future
<1> HIDE DEF g
<1> QED
  BY <1>2, <1>10, <1>11 DEF Leads

(* The routers of a list are made, one after the other. *)
LEMMA NewsFuture ==
    ASSUME NEW list, Listed(list)
    PROVE  /\ News(list) \in Seq(Messages)
           /\ \E s : Leads(Silent, News(list), s) /\ Routed(s, list)
<1> DEFINE n == Len(list)
           state_(k) == [i \in Slots |-> IF i <= k THEN NodeControls(list[i]) ELSE NoNode]
           h == [k \in 0..n |-> state_(k)]
<1>1. /\ n \in 0..NInputs /\ DOMAIN list = 1..n /\ NInputs \in Nat /\ Slots = 1..NInputs
      /\ \A i \in 1..n : list[i] \in Source
      /\ \A i, j \in 1..n : InputsOf(list[i]) \cap InputsOf(list[j]) # {} => i = j
  BY ListedFact, NInputsAssumption DEF Slots, Inputs
<1> HIDE DEF n
<1>2. News(list) \in Seq(Messages) /\ Len(News(list)) = n
      /\ (\A k \in 1..n : News(list)[k] = New(k, list[k]))
  <2>1. \A k \in 1..n : New(k, list[k]) \in Messages
    BY <1>1, MessageFact
  <2> QED
    BY <1>1, <2>1 DEF News
<1>3. \A i \in 1..n : NodeControls(list[i]) \in Router /\ Plays(NodeControls(list[i]), list[i])
                     /\ Sides(NodeControls(list[i])) = InputsOf(list[i])
  BY <1>1, NodeFact
<1>4. ASSUME NEW k \in 0..n PROVE state_(k) \in Graph
  <2>1. \A i \in Slots : i <= k => i \in 1..n
    BY <1>1
  <2> QED
    BY <1>3, <2>1 DEF Graph
<1>5. state_(0) = Silent
  BY <1>1 DEF Silent
<1>6. ASSUME NEW k \in 0..n PROVE Single(state_(k))
  <2> SUFFICES ASSUME NEW i \in Slots, NEW j \in Slots, state_(k)[i] # NoNode, state_(k)[j] # NoNode,
                      Sides(state_(k)[i]) \cap Sides(state_(k)[j]) # {}
               PROVE  i = j
    BY DEF Single
  <2>1. i <= k /\ j <= k
    OBVIOUS
  <2>2. i \in 1..n /\ j \in 1..n
    BY <1>1, <2>1
  <2>3. state_(k)[i] = NodeControls(list[i]) /\ state_(k)[j] = NodeControls(list[j])
    BY <2>1
  <2> HIDE DEF state_
  <2> QED
    BY <1>1, <1>3, <2>2, <2>3
<1>7. ASSUME NEW k \in 1..n
      PROVE  /\ state_(k) = Then(state_(k - 1), News(list)[k])
             /\ Lands(state_(k - 1), News(list)[k])
  <2>0. k \in Slots /\ k - 1 \in 0..n /\ News(list)[k] = New(k, list[k])
    BY <1>1, <1>2
  <2>1. k \in Slots /\ k - 1 \in 0..n /\ state_(k - 1) \in Graph /\ News(list)[k] = New(k, list[k])
    <3> HIDE DEF state_
    <3> QED
      BY <2>0, <1>4
  <2>2. state_(k - 1)[k] = NoNode
    BY <1>1, <2>1
  <2>3. Then(state_(k - 1), New(k, list[k])) = [state_(k - 1) EXCEPT ![k] = NodeControls(list[k])]
    <3> HIDE DEF state_
    <3> QED
      BY <2>1, <2>2, ThenFact
  <2>4. state_(k) = [state_(k - 1) EXCEPT ![k] = NodeControls(list[k])]
    BY <1>1, <2>1
  <2>5. Lands(state_(k - 1), New(k, list[k]))
    BY DEF Lands, New
  <2> QED
    BY <2>1, <2>3, <2>4, <2>5
<1>8. Routed(state_(n), list)
  <2>1. \A i \in Slots : i \in DOMAIN list <=> i <= n
    BY <1>1
  <2>2. \A i \in Slots : state_(n)[i] = IF i <= n THEN NodeControls(list[i]) ELSE NoNode
    OBVIOUS
  <2> HIDE DEF state_
  <2> QED
    BY <1>1, <1>3, <2>1, <2>2 DEF Routed
<1> HIDE DEF state_
<1>9. \A k \in 0..n : h[k] = state_(k)
  OBVIOUS
<1>10. n \in 0..n /\ 0 \in 0..n /\ (\A k \in 1..n : k \in 0..n /\ k - 1 \in 0..n)
  BY <1>1
<1>11. h \in [0..n -> Graph] /\ h[0] = Silent /\ Routed(h[n], list)
  BY <1>4, <1>5, <1>8, <1>9, <1>10
<1>12. Future(h, Silent, News(list))
  <2>1. \A k \in 1..n : h[k] = Then(h[k - 1], News(list)[k]) /\ Lands(h[k - 1], News(list)[k])
    BY <1>7, <1>9, <1>10
  <2>2. \A k \in 0..n : Single(h[k])
    BY <1>6, <1>9
  <2> HIDE DEF h
  <2> QED
    BY <1>2, <1>11, <2>1, <2>2 DEF Future
<1> HIDE DEF h
<1>13. Leads(Silent, News(list), h[n])
  BY <1>2, <1>12 DEF Leads
<1> QED
  BY <1>2, <1>11, <1>13

(* Messages that lead somewhere, and more of them. *)
LEMMA LeadsOn ==
    ASSUME NEW p \in Seq(Messages), NEW q \in Seq(Messages), NEW r, NEW s, NEW t,
           Leads(r, p, s), Leads(s, q, t)
    PROVE  p \o q \in Seq(Messages) /\ Leads(r, p \o q, t)
<1>1. PICK g : Future(g, r, p) /\ g[Len(p)] = s
  BY DEF Leads
<1>2. PICK h : Future(h, s, q) /\ h[Len(q)] = t
  BY DEF Leads
<1>3. Future(h, g[Len(p)], q)
  BY <1>1, <1>2
<1>4. \E f : Future(f, r, p \o q) /\ f[Len(p \o q)] = h[Len(q)]
  BY <1>1, <1>3, FutureConcat
<1> QED
  BY <1>2, <1>4 DEF Leads

(* Where the messages start and where they end. *)
LEMMA LeadsFact ==
    ASSUME NEW q \in Seq(Messages), NEW r, NEW s, Leads(r, q, s)
    PROVE  /\ {r, s} \subseteq Graph /\ Single(r) /\ Single(s)
           /\ q = <<>> => r = s
           /\ q # <<>> => /\ Lands(r, Head(q))
                          /\ Tail(q) \in Seq(Messages)
                          /\ Leads(Then(r, Head(q)), Tail(q), s)
<1>1. PICK h : Future(h, r, q) /\ h[Len(q)] = s
  BY DEF Leads
<1>2. Len(q) \in 0..Len(q) /\ 0 \in 0..Len(q) /\ Len(q) \in Nat
  OBVIOUS
<1>3. {r, s} \subseteq Graph /\ Single(r) /\ Single(s)
  BY <1>1, <1>2 DEF Future
<1>4. q = <<>> => r = s
  BY <1>1 DEF Future
<1>5. ASSUME q # <<>>
      PROVE  /\ Lands(r, Head(q))
             /\ Tail(q) \in Seq(Messages)
             /\ Leads(Then(r, Head(q)), Tail(q), s)
  <2>1. 1 \in 1..Len(q) /\ Head(q) = q[1] /\ 1 - 1 = 0 /\ Tail(q) \in Seq(Messages)
    BY <1>5
  <2>2. Lands(r, Head(q))
    BY <1>1, <2>1 DEF Future
  <2>3. \E f : Future(f, Then(r, Head(q)), Tail(q)) /\ f[Len(Tail(q))] = h[Len(q)]
    BY <1>1, <1>5, FutureTail
  <2>4. Leads(Then(r, Head(q)), Tail(q), s)
    BY <1>1, <2>3 DEF Leads
  <2> QED
    BY <2>1, <2>2, <2>4
<1> QED
  BY <1>3, <1>4, <1>5

(* A rebuild from any graph ends with the routers of the list. *)
LEMMA RebuildLeads ==
    ASSUME NEW q \in Seq(Messages), NEW r, NEW s, Leads(r, q, s), NEW list, Listed(list)
    PROVE  /\ q \o Rebuild(list) \in Seq(Messages)
           /\ \E t : Leads(r, q \o Rebuild(list), t) /\ Routed(t, list)
<1>1. Rebuild(list) = Frees \o News(list)
  BY DEF Rebuild, Frees, News
<1>2. Frees \in Seq(Messages) /\ Leads(s, Frees, Silent)
  BY LeadsFact, FreesFuture
<1>3. PICK t : Leads(Silent, News(list), t) /\ Routed(t, list)
  BY NewsFuture
<1>4. News(list) \in Seq(Messages)
  BY NewsFuture
<1>5. Frees \o News(list) \in Seq(Messages) /\ Leads(s, Frees \o News(list), t)
  BY <1>2, <1>3, <1>4, LeadsOn
<1>6. q \o (Frees \o News(list)) \in Seq(Messages) /\ Leads(r, q \o (Frees \o News(list)), t)
  BY <1>5, LeadsOn
<1> QED
  BY <1>1, <1>3, <1>6

(* One more message, of a write. *)
LEMMA SendLeads ==
    ASSUME NEW q \in Seq(Messages), NEW r, NEW s, Leads(r, q, s), NEW m \in Messages,
           Then(s, m) \in Graph, Single(Then(s, m)), Lands(s, m)
    PROVE  Append(q, m) \in Seq(Messages) /\ Leads(r, Append(q, m), Then(s, m))
<1> DEFINE g == [k \in 0..1 |-> IF k = 0 THEN s ELSE Then(s, m)]
<1>1. Append(q, m) = q \o <<m>> /\ <<m>> \in Seq(Messages) /\ Len(<<m>>) = 1 /\ <<m>>[1] = m
  OBVIOUS
<1>2. s \in Graph /\ Single(s)
  BY LeadsFact
<1>3. g[0] = s /\ g[1] = Then(s, m)
  OBVIOUS
<1>4. g \in [0..1 -> Graph]
  BY <1>2
<1> HIDE DEF g
<1>5. Future(g, s, <<m>>)
  <2>1. \A k \in 1..1 : g[k] = Then(g[k - 1], <<m>>[k]) /\ Lands(g[k - 1], <<m>>[k])
    BY <1>1, <1>3
  <2>2. \A k \in 0..1 : Single(g[k])
    BY <1>2, <1>3
  <2> QED
    BY <1>1, <1>3, <1>4, <2>1, <2>2 DEF Future
<1>6. Leads(s, <<m>>, Then(s, m))
  BY <1>1, <1>3, <1>5 DEF Leads
<1>7. <<m>> \in Seq(Messages)
  OBVIOUS
<1>8. q \o <<m>> \in Seq(Messages) /\ Leads(r, q \o <<m>>, Then(s, m))
  BY <1>6, <1>7, LeadsOn
<1>9. Append(q, m) = q \o <<m>>
  OBVIOUS
<1> QED
  BY <1>8, <1>9

(* The controller starts with an empty queue and the routers of the map.    *)
LEMMA GraphInit == Init => GraphInv
<1> SUFFICES ASSUME Init PROVE GraphInv
  OBVIOUS
<1>1. sources = Configured /\ osc = <<>>
      /\ routers = [i \in Slots |-> IF i \in DOMAIN Configured
                                    THEN NodeControls(Configured[i]) ELSE NoNode]
  BY DEF Init
<1>2. Listed(sources)
  <2>1. Sound(ListOf(Configured))
    BY <1>1, MapInit DEF MapInv, Map
  <2> QED
    BY <1>1, <2>1, ConfiguredAssumption DEF Listed
<1>3. \A i \in DOMAIN sources :
         /\ i \in Slots
         /\ NodeControls(sources[i]) \in Router
         /\ Plays(NodeControls(sources[i]), sources[i])
         /\ Sides(NodeControls(sources[i])) = InputsOf(sources[i])
  BY <1>2, ListedFact, NodeFact
<1>4. \A i \in Slots : routers[i] = IF i \in DOMAIN sources THEN NodeControls(sources[i]) ELSE NoNode
  BY <1>1
<1>5. routers \in Graph
  BY <1>1, <1>3 DEF Graph
<1>6. Single(routers)
  <2> SUFFICES ASSUME NEW i \in Slots, NEW j \in Slots, routers[i] # NoNode, routers[j] # NoNode,
                      Sides(routers[i]) \cap Sides(routers[j]) # {}
               PROVE  i = j
    BY DEF Single
  <2>1. i \in DOMAIN sources /\ j \in DOMAIN sources
    BY <1>4
  <2>2. Sides(routers[i]) = InputsOf(sources[i]) /\ Sides(routers[j]) = InputsOf(sources[j])
    BY <1>3, <1>4, <2>1
  <2> QED
    BY <1>2, <2>1, <2>2, ListedFact
<1>7. Routed(routers, sources)
  BY <1>3, <1>4 DEF Routed
<1>8. osc \in Seq(Messages) /\ Leads(routers, osc, routers)
  <2> DEFINE h == [k \in 0..0 |-> routers]
  <2>1. osc \in Seq(Messages) /\ Len(osc) = 0
    BY <1>1
  <2>2. h \in [0..0 -> Graph] /\ h[0] = routers /\ (\A k \in 0..0 : h[k] = routers)
    BY <1>5
  <2> HIDE DEF h
  <2>3. Future(h, routers, osc)
    BY <1>6, <2>1, <2>2 DEF Future
  <2> QED
    BY <2>1, <2>2, <2>3 DEF Leads
<1> QED
  BY <1>2, <1>7, <1>8 DEF GraphInv

(* An edit sends the rebuild of the map it makes. *)
LEMMA GraphEdit ==
    ASSUME GraphInv, NEW p \in Inputs, NEW q \in Inputs \cup {None}, NEW g \in Groups,
           Edit(p, q, g)
    PROVE  GraphInv'
<1>1. MapInv
  BY DEF GraphInv, Listed, MapInv, Map
<1>2. MapInv' /\ Map' = RuntimeSourceEntries(Map, p, q, g)
  BY <1>1, EditFact
<1>3. Sound(RuntimeSourceEntries(Map, p, q, g))
  BY <1>2 DEF MapInv
<1>4. /\ sources' \in InOrder(RuntimeSourceEntries(Map, p, q, g))
      /\ osc' = osc \o Rebuild(sources') /\ routers' = routers
  BY DEF Edit
<1>5. Listed(sources')
  BY <1>3, <1>4, SortedListed
<1>6. PICK s : Leads(routers, osc, s)
  BY DEF GraphInv
<1>7. osc \in Seq(Messages)
  BY DEF GraphInv
<1>8. /\ osc \o Rebuild(sources') \in Seq(Messages)
      /\ \E t : Leads(routers, osc \o Rebuild(sources'), t) /\ Routed(t, sources')
  BY <1>5, <1>6, <1>7, RebuildLeads
<1> QED
  BY <1>4, <1>5, <1>8 DEF GraphInv

(* A write sends one message to a router of the map, or to the master.      *)
LEMMA GraphWrite ==
    ASSUME GraphInv, NEW m \in Messages, osc' = Append(osc, m),
           UNCHANGED <<sources, routers>>,
           \/ \E i \in DOMAIN sources, c \in Knobs, v \in Values : m = Set(i, c, v)
           \/ \E v \in {0, 1} : m = SetMaster(v)
    PROVE  GraphInv'
<1>1. PICK s : Leads(routers, osc, s) /\ Routed(s, sources)
  BY DEF GraphInv
<1>2. osc \in Seq(Messages) /\ Listed(sources)
  BY DEF GraphInv
<1>3. s \in Graph /\ Single(s)
  BY <1>1, <1>2, LeadsFact
<1>4. /\ Then(s, m) \in Graph /\ Single(Then(s, m)) /\ Lands(s, m)
      /\ Routed(Then(s, m), sources)
  <2>1. ASSUME NEW i \in DOMAIN sources, NEW c \in Knobs, NEW v \in Values, m = Set(i, c, v)
        PROVE  /\ Then(s, m) \in Graph /\ Single(Then(s, m)) /\ Lands(s, m)
               /\ Routed(Then(s, m), sources)
    <3>1. i \in Slots /\ s[i] # NoNode
      BY <1>1, <1>2, ListedFact DEF Routed, Plays
    <3> DEFINE t == [s EXCEPT ![i].level[c] = v]
    <3>2. Then(s, m) = t
      BY <1>3, <2>1, <3>1, ThenFact
    <3>3. /\ t \in Graph
          /\ \A j \in Slots :
                /\ t[j] = NoNode <=> s[j] = NoNode
                /\ t[j] # NoNode => /\ t[j].left = s[j].left /\ t[j].right = s[j].right
                                    /\ t[j].group = s[j].group
      BY <1>3, <3>1, SetFact
    <3> HIDE DEF t
    <3>4. Single(t)
      BY <1>3, <3>3 DEF Single, Sides
    <3>5. Lands(s, m)
      BY <2>1, <3>1 DEF Lands, Set
    <3>6. Routed(t, sources)
      BY <1>1, <3>3 DEF Routed, Plays, Sides
    <3> QED
      BY <3>2, <3>3, <3>4, <3>5, <3>6
  <2>2. ASSUME NEW v \in {0, 1}, m = SetMaster(v)
        PROVE  /\ Then(s, m) \in Graph /\ Single(Then(s, m)) /\ Lands(s, m)
               /\ Routed(Then(s, m), sources)
    <3>1. Then(s, m) = s /\ Lands(s, m)
      BY <2>2 DEF Then, Lands, SetMaster
    <3> QED
      BY <1>1, <1>3, <3>1
  <2> QED
    BY <2>1, <2>2
<1>5. Append(osc, m) \in Seq(Messages) /\ Leads(routers, Append(osc, m), Then(s, m))
  BY <1>1, <1>2, <1>4, SendLeads
<1> QED
  BY <1>2, <1>4, <1>5 DEF GraphInv

(* scsynth handles the first message. *)
LEMMA GraphHandle == GraphInv /\ Scsynth => GraphInv'
<1> SUFFICES ASSUME GraphInv, Scsynth PROVE GraphInv'
  OBVIOUS
<1>1. PICK s : Leads(routers, osc, s) /\ Routed(s, sources)
  BY DEF GraphInv
<1>2. osc \in Seq(Messages) /\ Listed(sources)
  BY DEF GraphInv
<1>3. osc # <<>> /\ osc' = Tail(osc) /\ sources' = sources
  BY DEF Scsynth
<1>4. routers' = Then(routers, Head(osc))
  <2>1. CASE Head(osc).op = "master"
    BY <2>1 DEF Scsynth, Then
  <2>2. CASE Head(osc).op # "master"
    BY <2>2 DEF Scsynth, After, Then
  <2> QED
    BY <2>1, <2>2
<1>5. Tail(osc) \in Seq(Messages) /\ Leads(Then(routers, Head(osc)), Tail(osc), s)
  BY <1>1, <1>2, <1>3, LeadsFact
<1> QED
  BY <1>1, <1>2, <1>3, <1>4, <1>5 DEF GraphInv

(* GraphInv is inductive. *)
LEMMA GraphStep == GraphInv /\ [Next]_vars => GraphInv'
<1> SUFFICES ASSUME GraphInv, [Next]_vars PROVE GraphInv'
  OBVIOUS
<1>0. MapInv
  BY DEF GraphInv, Listed, MapInv, Map
<1>1. ASSUME NEW p \in Inputs, NEW q \in Inputs \cup {None}, SetPartner(p, q)
      PROVE  GraphInv'
  BY <1>0, <1>1, RequestFact, GraphEdit DEF SetPartner
<1>2. ASSUME NEW p \in Inputs, NEW g \in Groups, SetGroup(p, g)
      PROVE  GraphInv'
  BY <1>0, <1>2, RequestFact, GraphEdit DEF SetGroup
<1>3. ASSUME NEW i \in Slots, NEW v \in Values, NEW c \in Knobs, SetSource(i, c, v)
      PROVE  GraphInv'
  <2>1. i \in DOMAIN sources /\ osc' = Append(osc, Set(i, c, v)) /\ UNCHANGED <<sources, routers>>
    BY <1>3 DEF SetSource, Write
  <2>2. Set(i, c, v) \in Messages
    BY MessageFact
  <2> QED
    BY <2>1, <2>2, GraphWrite
<1>4. ASSUME NEW n \in Inputs, NEW v \in Values, SetTrim(n, v)
      PROVE  GraphInv'
  <2> DEFINE i == CHOOSE k \in DOMAIN sources : sources[k] = Holder(Map, n)
  <2>1. Holder(Map, n) \in Map
    BY <1>0, HolderFact DEF MapInv
  <2>2. i \in DOMAIN sources
    BY <2>1 DEF Map, ListOf
  <2>3. osc' = Append(osc, Set(i, "Trim", v)) /\ UNCHANGED <<sources, routers>>
    BY <1>4 DEF SetTrim, Write
  <2>4. i \in Slots
    BY <2>2, ListedFact DEF GraphInv
  <2> HIDE DEF i
  <2>5. "Trim" \in Knobs
    BY DEF Knobs
  <2>6. Set(i, "Trim", v) \in Messages
    BY <2>4, <2>5, MessageFact
  <2> QED
    BY <2>2, <2>3, <2>5, <2>6, GraphWrite
<1>5. ASSUME NEW v \in {0, 1}, SetPanic(v)
      PROVE  GraphInv'
  <2>1. osc' = Append(osc, SetMaster(v)) /\ UNCHANGED <<sources, routers>>
    BY <1>5 DEF SetPanic, Write
  <2>2. SetMaster(v) \in Messages
    BY DEF SetMaster, Messages
  <2> QED
    BY <2>1, <2>2, GraphWrite
<1>6. CASE Scsynth
  BY <1>6, GraphHandle
<1>7. CASE RecordStart \/ UNCHANGED vars
  <2>1. UNCHANGED <<sources, osc, routers>>
    BY <1>7 DEF RecordStart, vars
  <2> QED
    BY <2>1 DEF GraphInv
<1> QED
  BY <1>1, <1>2, <1>3, <1>4, <1>5, <1>6, <1>7, Zenon DEF Next, Knobs

(* Whatever is still on its way, the routers end as those of the map.       *)
THEOREM GraphInvariance == Spec => []GraphInv
<1>1. Init => GraphInv
  BY GraphInit
<1>2. GraphInv /\ [Next]_vars => GraphInv'
  BY GraphStep
<1> QED
  BY <1>1, <1>2, PTL DEF Spec

(* No input is heard through two routers, at any point of any rebuild.      *)
THEOREM RoutedOnce == Spec => []NeverDoubleRouted
<1>1. GraphInv => NeverDoubleRouted
  <2> SUFFICES ASSUME GraphInv PROVE NeverDoubleRouted
    OBVIOUS
  <2>1. PICK s : Leads(routers, osc, s)
    BY DEF GraphInv
  <2>2. osc \in Seq(Messages)
    BY DEF GraphInv
  <2>3. Single(routers)
    BY <2>1, <2>2, LeadsFact
  <2> QED
    BY <2>3 DEF Single, Sides, NeverDoubleRouted
<1> QED
  BY <1>1, GraphInvariance, PTL

(* A router graph with nothing on its way is that of the map.               *)
THEOREM DrainedIsRouted == Spec => []RoutedWhenDrained
<1>1. GraphInv => RoutedWhenDrained
  <2> SUFFICES ASSUME GraphInv, osc = <<>> PROVE Routed(routers, sources)
    BY DEF RoutedWhenDrained, Routed, Plays, Sides
  <2>1. PICK s : Leads(routers, osc, s) /\ Routed(s, sources)
    BY DEF GraphInv
  <2>2. osc \in Seq(Messages)
    BY DEF GraphInv
  <2>3. routers = s
    BY <2>1, <2>2, LeadsFact
  <2> QED
    BY <2>1, <2>3
<1> QED
  BY <1>1, GraphInvariance, PTL

(* No write is lost for want of a node, whatever was sent before it.        *)
THEOREM WritesLand == Spec => []SetsLand
<1>1. GraphInv => SetsLand
  <2> SUFFICES ASSUME GraphInv, osc # <<>> PROVE Lands(routers, Head(osc))
    BY DEF SetsLand, Lands
  <2>1. PICK s : Leads(routers, osc, s)
    BY DEF GraphInv
  <2>2. osc \in Seq(Messages)
    BY DEF GraphInv
  <2> QED
    BY <2>1, <2>2, LeadsFact
<1> QED
  BY <1>1, GraphInvariance, PTL

-----------------------------------------------------------------------------
(* Types.  MxTypeOK says nothing of the shape of the dictionary, which an   *)
(* EXCEPT needs.                                                            *)
Shaped(s) ==
    /\ s = [source |-> s.source, trim |-> s.trim, panic |-> s.panic]
    /\ s.source = [i \in DOMAIN s.source |-> s.source[i]]

(* Values are carried over by ID, so IDs must tell the sources apart.       *)
Named(list) == \A i, j \in DOMAIN list : list[i].id = list[j].id => i = j

TypeInv == MxTypeOK /\ Shaped(state) /\ Named(sources)

Published(list, s) ==
    /\ Shaped(s)
    /\ DOMAIN s.source = DOMAIN list
    /\ \A i \in DOMAIN list : s.source[i] \in [ControlsOf(list[i]) -> Values]
    /\ s.trim \in [Inputs -> Values]
    /\ s.panic \in {0, 1}

(* The controls of a source begin with values. *)
LEMMA DefaultFact ==
    ASSUME NEW s \in Source, NEW c \in ControlsOf(s)
    PROVE  Default(s, c) \in Values
<1>1. c \in {"Trim", "Pan", "Width"}
  BY DEF ControlsOf
<1>2. s.left \in Inputs
  BY SourceFact
<1> QED
  BY <1>1, <1>2, TrimAssumption, ValuesAssumption DEF Default

(* What is published after the start. *)
LEMMA ControlsFact ==
    ASSUME NEW list, \A i \in DOMAIN list : list[i] \in Source
    PROVE  Published(list, Controls(list))
<1>1. \A i \in DOMAIN list :
         [c \in ControlsOf(list[i]) |-> Default(list[i], c)] \in [ControlsOf(list[i]) -> Values]
  BY DefaultFact
<1> QED
  BY <1>1, TrimAssumption DEF Published, Shaped, Controls

(* What is published after an edit. *)
LEMMA RefreshedFact ==
    ASSUME Published(sources, state), Named(sources),
           NEW list, \A i \in DOMAIN list : list[i] \in Source
    PROVE  Published(list, Refreshed(list))
<1> DEFINE Has(i, c) == \E j \in DOMAIN sources :
                          sources[j].id = list[i].id /\ c \in ControlsOf(sources[j])
           Kept(i, c) == LET j == CHOOSE k \in DOMAIN sources : sources[k].id = list[i].id
                         IN  state.source[j][c]
           row == [i \in DOMAIN list |->
                     [c \in ControlsOf(list[i]) |->
                        IF Has(i, c) THEN Kept(i, c) ELSE Default(list[i], c)]]
<1>1. Refreshed(list) = [source |-> row, trim |-> ConfigTrim, panic |-> 0]
  <2>1. Refreshed(list) = [Controls(list) EXCEPT !.source = row]
    BY Zenon DEF Refreshed
  <2> HIDE DEF row
  <2> QED
    BY <2>1 DEF Controls
<1>2. ASSUME NEW i \in DOMAIN list, NEW c \in ControlsOf(list[i]), Has(i, c)
      PROVE  Kept(i, c) \in Values
  <2>1. PICK j \in DOMAIN sources : sources[j].id = list[i].id /\ c \in ControlsOf(sources[j])
    BY <1>2
  <2> DEFINE k == CHOOSE m \in DOMAIN sources : sources[m].id = list[i].id
  <2>2. k \in DOMAIN sources /\ sources[k].id = list[i].id
    BY <2>1
  <2>3. Kept(i, c) = state.source[k][c]
    OBVIOUS
  <2> HIDE DEF k
  <2>4. k = j
    BY <2>1, <2>2 DEF Named
  <2>5. state.source[j] \in [ControlsOf(sources[j]) -> Values]
    BY DEF Published
  <2> HIDE DEF Kept
  <2> QED
    BY <2>1, <2>3, <2>4, <2>5
<1>3. ASSUME NEW i \in DOMAIN list
      PROVE  row[i] \in [ControlsOf(list[i]) -> Values]
  <2>1. \A c \in ControlsOf(list[i]) : Default(list[i], c) \in Values
    BY DefaultFact
  <2>2. row[i] = [c \in ControlsOf(list[i]) |->
                    IF Has(i, c) THEN Kept(i, c) ELSE Default(list[i], c)]
    OBVIOUS
  <2> HIDE DEF Has, Kept, row
  <2> QED
    BY <1>2, <2>1, <2>2
<1>4. DOMAIN row = DOMAIN list /\ row = [i \in DOMAIN row |-> row[i]]
  OBVIOUS
<1> HIDE DEF row
<1> QED
  BY <1>1, <1>3, <1>4, TrimAssumption DEF Published, Shaped

(* The type invariant is that the published values fit the map, and the     *)
(* rest.                                                                    *)
LEMMA TypeParts ==
    TypeInv <=> /\ sources \in Seq(Source)
                /\ Published(sources, state)
                /\ Named(sources)
                /\ master \in {0, 1}
                /\ routers \in Graph
BY DEF TypeInv, MxTypeOK, Published, Shaped, Graph

(* The first types. *)
LEMMA TypeInit == Init => TypeInv
<1> SUFFICES ASSUME Init PROVE TypeInv
  OBVIOUS
<1>1. GraphInv
  BY GraphInit
<1>2. sources = Configured /\ state = Controls(Configured) /\ master = 0
  BY DEF Init
<1>3. sources \in Seq(Source)
  BY <1>1 DEF GraphInv, Listed
<1>4. \A i \in DOMAIN sources : sources[i] \in Source /\ sources[i] \in ListOf(sources)
  BY <1>3 DEF ListOf
<1>5. Published(sources, state)
  BY <1>2, <1>4, ControlsFact
<1>6. Named(sources)
  <2>1. UniqueIds(ListOf(sources))
    BY <1>2, ConfiguredAssumption DEF ValidSourceMap
  <2> QED
    BY <1>2, <1>4, <2>1, ConfiguredAssumption DEF UniqueIds, Named
<1>7. routers \in Graph
  <2>1. osc \in Seq(Messages) /\ \E s : Leads(routers, osc, s)
    BY <1>1 DEF GraphInv
  <2> QED
    BY <2>1, LeadsFact
<1> QED
  BY <1>2, <1>3, <1>5, <1>6, <1>7, TypeParts

(* A write of one published value. *)
LEMMA WriteTypes ==
    ASSUME Published(sources, state)
    PROVE  /\ \A i \in DOMAIN sources, v \in Values : \A c \in ControlsOf(sources[i]) :
                Published(sources, [state EXCEPT !.source[i][c] = v])
           /\ \A n \in Inputs, v \in Values : Published(sources, [state EXCEPT !.trim[n] = v])
           /\ \A v \in {0, 1} : Published(sources, [state EXCEPT !.panic = v])
<1> DEFINE rows == state.source
<1>0. /\ state = [source |-> rows, trim |-> state.trim, panic |-> state.panic]
      /\ rows = [i \in DOMAIN rows |-> rows[i]] /\ DOMAIN rows = DOMAIN sources
      /\ \A i \in DOMAIN sources : rows[i] \in [ControlsOf(sources[i]) -> Values]
      /\ state.trim \in [Inputs -> Values] /\ state.panic \in {0, 1}
  BY DEF Published, Shaped
<1> HIDE DEF rows
<1>1. ASSUME NEW i \in DOMAIN sources, NEW v \in Values, NEW c \in ControlsOf(sources[i])
      PROVE  Published(sources, [state EXCEPT !.source[i][c] = v])
  <2> DEFINE new == [rows EXCEPT ![i] = [rows[i] EXCEPT ![c] = v]]
  <2>1. [state EXCEPT !.source[i][c] = v] =
          [source |-> new, trim |-> state.trim, panic |-> state.panic]
    BY <1>0
  <2>2. [rows[i] EXCEPT ![c] = v] \in [ControlsOf(sources[i]) -> Values]
    BY <1>0
  <2>3. /\ DOMAIN new = DOMAIN sources /\ new = [j \in DOMAIN new |-> new[j]]
        /\ \A j \in DOMAIN sources : new[j] \in [ControlsOf(sources[j]) -> Values]
    BY <1>0, <2>2
  <2> HIDE DEF new
  <2> QED
    BY <1>0, <2>1, <2>3 DEF Published, Shaped
<1>2. ASSUME NEW n \in Inputs, NEW v \in Values
      PROVE  Published(sources, [state EXCEPT !.trim[n] = v])
  <2>1. [state EXCEPT !.trim[n] = v] =
          [source |-> rows, trim |-> [state.trim EXCEPT ![n] = v], panic |-> state.panic]
    BY <1>0
  <2>2. [state.trim EXCEPT ![n] = v] \in [Inputs -> Values]
    BY <1>0
  <2> QED
    BY <1>0, <2>1, <2>2 DEF Published, Shaped
<1>3. ASSUME NEW v \in {0, 1}
      PROVE  Published(sources, [state EXCEPT !.panic = v])
  <2>1. [state EXCEPT !.panic = v] = [source |-> rows, trim |-> state.trim, panic |-> v]
    BY <1>0
  <2> QED
    BY <1>0, <2>1 DEF Published, Shaped
<1> QED
  BY <1>1, <1>2, <1>3

(* An edit publishes values for the sources it makes. *)
LEMMA TypeEdit ==
    ASSUME GraphInv, GraphInv', TypeInv,
           NEW p \in Inputs, NEW q \in Inputs \cup {None}, NEW g \in Groups, Edit(p, q, g)
    PROVE  TypeInv'
<1>1. /\ state' = Refreshed(sources') /\ UNCHANGED <<routers, master>>
      /\ sources' \in InOrder(RuntimeSourceEntries(Map, p, q, g))
      /\ UniqueIds(RuntimeSourceEntries(Map, p, q, g))
  BY DEF Edit, Accepted, ValidSourceMap
<1>2. Listed(sources')
  BY DEF GraphInv
<1>3. sources' \in Seq(Source)
  BY <1>2 DEF Listed
<1>4. \A i \in DOMAIN sources' : sources'[i] \in Source /\ sources'[i] \in ListOf(sources')
  BY <1>3 DEF ListOf
<1>5. ListOf(sources') = RuntimeSourceEntries(Map, p, q, g)
  BY <1>1, OrderFact
<1>6. Named(sources')
  BY <1>1, <1>2, <1>4, <1>5 DEF UniqueIds, Named, Listed
<1>7. Published(sources', state')
  BY <1>1, <1>4, RefreshedFact, TypeParts
<1>8. master \in {0, 1} /\ routers \in Graph
  BY TypeParts
<1> QED
  BY <1>1, <1>3, <1>6, <1>7, <1>8 DEF TypeInv, MxTypeOK, Published, Graph

(* Every step keeps the types. *)
LEMMA TypeStep == GraphInv /\ GraphInv' /\ TypeInv /\ [Next]_vars => TypeInv'
<1> SUFFICES ASSUME GraphInv, GraphInv', TypeInv, [Next]_vars PROVE TypeInv'
  OBVIOUS
<1>0. MapInv
  BY DEF GraphInv, Listed, MapInv, Map
<1>1. /\ sources \in Seq(Source) /\ Published(sources, state) /\ Named(sources)
      /\ master \in {0, 1} /\ routers \in Graph
  BY TypeParts
<1>2. routers' \in Graph
  <2>1. osc' \in Seq(Messages) /\ \E s : Leads(routers', osc', s)
    BY DEF GraphInv
  <2> QED
    BY <2>1, LeadsFact
<1>3. ASSUME UNCHANGED sources, Published(sources, state'), master' \in {0, 1}
      PROVE  TypeInv'
  BY <1>1, <1>2, <1>3 DEF TypeInv, MxTypeOK, Published, Graph, Named
<1>4. ASSUME NEW p \in Inputs, NEW q \in Inputs \cup {None}, SetPartner(p, q)
      PROVE  TypeInv'
  BY <1>0, <1>4, RequestFact, TypeEdit DEF SetPartner
<1>5. ASSUME NEW p \in Inputs, NEW g \in Groups, SetGroup(p, g)
      PROVE  TypeInv'
  BY <1>0, <1>5, RequestFact, TypeEdit DEF SetGroup
<1>6. ASSUME NEW i \in Slots, NEW v \in Values, NEW c \in Knobs, SetSource(i, c, v)
      PROVE  TypeInv'
  <2>1. /\ i \in DOMAIN sources /\ c \in ControlsOf(sources[i])
        /\ state' = [state EXCEPT !.source[i][c] = v] /\ UNCHANGED <<sources, master>>
    BY <1>6 DEF SetSource, Write
  <2> QED
    BY <1>1, <1>3, <2>1, WriteTypes
<1>7. ASSUME NEW n \in Inputs, NEW v \in Values, SetTrim(n, v)
      PROVE  TypeInv'
  <2>1. state' = [state EXCEPT !.trim[n] = v] /\ UNCHANGED <<sources, master>>
    BY <1>7 DEF SetTrim, Write
  <2> QED
    BY <1>1, <1>3, <2>1, WriteTypes
<1>8. ASSUME NEW v \in {0, 1}, SetPanic(v)
      PROVE  TypeInv'
  <2>1. state' = [state EXCEPT !.panic = v] /\ UNCHANGED <<sources, master>>
    BY <1>8 DEF SetPanic, Write
  <2> QED
    BY <1>1, <1>3, <2>1, WriteTypes
<1>9. CASE Scsynth
  <2>1. osc # <<>> /\ UNCHANGED <<sources, state>>
        /\ IF Head(osc).op = "master" THEN master' = Head(osc).value ELSE UNCHANGED master
    BY <1>9 DEF Scsynth
  <2>2. Head(osc) \in Messages
    BY <2>1 DEF GraphInv
  <2>3. Head(osc).op = "master" => Head(osc).value \in {0, 1}
    BY <2>2 DEF Messages
  <2> QED
    BY <1>1, <1>3, <2>1, <2>3
<1>10. CASE RecordStart \/ UNCHANGED vars
  <2>1. UNCHANGED <<sources, state, master>>
    BY <1>10 DEF RecordStart, vars
  <2> QED
    BY <1>1, <1>3, <2>1
<1> QED
  BY <1>4, <1>5, <1>6, <1>7, <1>8, <1>9, <1>10, Zenon DEF Next, Knobs

(* The dictionary has for each source the controls of its mode, with values *)
(* of the range, whatever became of the map.                                *)
THEOREM MixerTypes == Spec => []MxTypeOK
<1>1. Init => GraphInv /\ TypeInv
  BY GraphInit, TypeInit
<1>2. GraphInv /\ TypeInv /\ [Next]_vars => (GraphInv /\ TypeInv)'
  BY GraphStep, TypeStep
<1>3. TypeInv => MxTypeOK
  BY DEF TypeInv
<1> QED
  BY <1>1, <1>2, <1>3, PTL DEF Spec

-----------------------------------------------------------------------------
(* The values that move with their source.                                  *)

(* The number of the source an input belongs to.                            *)
LEMMA NumberFact ==
    ASSUME NEW list, Listed(list), NEW n \in Inputs
    PROVE  /\ NumberOf(list, n) \in DOMAIN list
           /\ list[NumberOf(list, n)] = Holder(ListOf(list), n)
<1>1. Holder(ListOf(list), n) \in ListOf(list)
  BY HolderFact DEF Listed
<1>2. \E i \in DOMAIN list : n \in InputsOf(list[i])
  BY <1>1, HolderFact DEF Listed, ListOf
<1>3. NumberOf(list, n) \in DOMAIN list /\ n \in InputsOf(list[NumberOf(list, n)])
  BY <1>2, Zenon DEF NumberOf
<1>4. list[NumberOf(list, n)] \in ListOf(list)
  BY <1>3 DEF ListOf
<1> QED
  BY <1>3, <1>4, HolderFact DEF Listed

(* A source that an edit leaves with its inputs has its ID, and its mode.   *)
LEMMA SameSource ==
    ASSUME NEW S, Sound(S), NEW p \in Inputs, NEW q \in Inputs \cup {None}, q # p,
           NEW g \in Groups, NEW n \in Inputs,
           InputsOf(Holder(RuntimeSourceEntries(S, p, q, g), n)) = InputsOf(Holder(S, n))
    PROVE  /\ Holder(RuntimeSourceEntries(S, p, q, g), n).id = Holder(S, n).id
           /\ ControlsOf(Holder(RuntimeSourceEntries(S, p, q, g), n)) = ControlsOf(Holder(S, n))
<1> DEFINE e == Holder(RuntimeSourceEntries(S, p, q, g), n)
           s == Holder(S, n)
<1>1. s \in S /\ s \in Source /\ n \in InputsOf(s) /\ s.left # s.right
  BY HolderFact DEF Sound, Covers
<1>2. e = IF n \in {p, q} THEN Edited(S, p, q, g) ELSE Split(s, n)
  BY EntriesFact
<1>3. InputsOf(e) = InputsOf(s)
  OBVIOUS
<1>4. p # None /\ n # None /\ None \notin Inputs
  BY NInputsAssumption DEF Inputs, None
<1>5. /\ s.left \in Inputs /\ s.right \in Inputs \cup {None}
      /\ \A k \in Inputs : k \in InputsOf(s) <=> k = s.left \/ k = s.right
  BY <1>1, SourceFact
<1> HIDE DEF e
<1>6. CASE n \in {p, q}
  <2>1. e = Edited(S, p, q, g)
    BY <1>2, <1>6
  <2>2. e.id = Holder(S, p).id /\ e.left = p /\ e.right = q /\ InputsOf(e) = {p, q} \ {None}
    BY <2>1, EditedFact DEF Edited
  <2>3. Holder(S, p) = s
    <3>1. p \in InputsOf(s)
      BY <1>3, <1>4, <2>2
    <3> QED
      BY <1>1, <3>1, HolderFact
  <2> HIDE DEF s
  <2>4. Stereo(e) <=> Stereo(s)
    <3>1. \A k \in Inputs : (k = s.left \/ k = s.right) <=> (k = p \/ k = q)
      BY <1>3, <1>4, <1>5, <2>2
    <3> QED
      BY <1>1, <1>4, <1>5, <2>2, <3>1 DEF Stereo
  <2>5. ControlsOf(e) = ControlsOf(s)
    BY <2>4, Zenon DEF ControlsOf
  <2> QED
    BY <2>2, <2>3, <2>5 DEF e, s
<1>7. CASE n \notin {p, q}
  <2>1. e = Split(s, n) /\ InputsOf(e) = {n} /\ e.right = None
    BY <1>2, <1>7, SplitFact
  <2> HIDE DEF s
  <2>2. ~Stereo(e) /\ ~Stereo(s)
    <3>1. \A k \in Inputs : (k = s.left \/ k = s.right) <=> k = n
      BY <1>3, <1>5, <2>1
    <3> QED
      BY <1>1, <1>4, <1>5, <2>1, <3>1 DEF Stereo
  <2>3. e.id = s.id
    BY <2>1, <2>2 DEF Split
  <2>4. ControlsOf(e) = ControlsOf(s)
    BY <2>2, Zenon DEF ControlsOf
  <2> QED
    BY <2>3, <2>4 DEF e, s
<1> QED
  BY <1>6, <1>7

(* What is published for a source of the new list that the old list has.    *)
LEMMA CarriedOver ==
    ASSUME Published(sources, state), Named(sources),
           NEW list, NEW i \in DOMAIN list, NEW j \in DOMAIN sources,
           list[i].id = sources[j].id, ControlsOf(list[i]) = ControlsOf(sources[j])
    PROVE  Refreshed(list).source[i] = state.source[j]
<1> DEFINE Has(m, c) == \E k \in DOMAIN sources :
                          sources[k].id = list[m].id /\ c \in ControlsOf(sources[k])
           Kept(m, c) == LET k == CHOOSE x \in DOMAIN sources : sources[x].id = list[m].id
                         IN  state.source[k][c]
           row == [m \in DOMAIN list |->
                     [c \in ControlsOf(list[m]) |->
                        IF Has(m, c) THEN Kept(m, c) ELSE Default(list[m], c)]]
<1>1. Refreshed(list).source = row
  <2>1. Refreshed(list) = [Controls(list) EXCEPT !.source = row]
    BY Zenon DEF Refreshed
  <2> HIDE DEF row
  <2> QED
    BY <2>1 DEF Controls
<1>2. \A c \in ControlsOf(list[i]) : Has(i, c)
  OBVIOUS
<1>3. \A c \in ControlsOf(list[i]) : Kept(i, c) = state.source[j][c]
  <2> DEFINE k == CHOOSE x \in DOMAIN sources : sources[x].id = list[i].id
  <2>1. k \in DOMAIN sources /\ sources[k].id = list[i].id
    <3>1. \E x \in DOMAIN sources : sources[x].id = list[i].id
      OBVIOUS
    <3> QED
      BY <3>1
  <2> HIDE DEF k
  <2>2. k = j
    BY <2>1 DEF Named
  <2> QED
    BY <2>2 DEF k
<1>4. row[i] = [c \in ControlsOf(list[i]) |->
                  IF Has(i, c) THEN Kept(i, c) ELSE Default(list[i], c)]
  OBVIOUS
<1> HIDE DEF Has, Kept, row
<1>5. row[i] = [c \in ControlsOf(list[i]) |-> state.source[j][c]]
  BY <1>2, <1>3, <1>4
<1>6. state.source[j] = [c \in ControlsOf(sources[j]) |-> state.source[j][c]]
  BY DEF Published
<1> QED
  BY <1>1, <1>5, <1>6, Zenon

(* ValuesFollowSource.  A client that pairs two inputs, splits a pair or    *)
(* moves one to another group finds the trim, pan and width of every source *)
(* that keeps its inputs as they were, whatever number it has now.          *)
THEOREM ValuesMove == Spec => ValuesFollowSource
<1>1. Init => GraphInv /\ TypeInv
  BY GraphInit, TypeInit
<1>2. GraphInv /\ TypeInv /\ [Next]_vars => (GraphInv /\ TypeInv)'
  BY GraphStep, TypeStep
<1>3. GraphInv /\ GraphInv' /\ TypeInv /\ [Next]_vars =>
        (edits' # edits =>
            \A n \in Inputs :
                InputsOf(Holder(Map, n)) = InputsOf(Holder(Map', n)) =>
                    state'.source[NumberOf(sources', n)] = state.source[NumberOf(sources, n)])
  <2> SUFFICES ASSUME GraphInv, GraphInv', TypeInv, [Next]_vars, edits' # edits,
                      NEW n \in Inputs, InputsOf(Holder(Map, n)) = InputsOf(Holder(Map', n))
               PROVE  state'.source[NumberOf(sources', n)] = state.source[NumberOf(sources, n)]
    OBVIOUS
  <2>1. Listed(sources) /\ Listed(sources') /\ MapInv
    BY DEF GraphInv, Listed, MapInv, Map
  <2>2. ASSUME NEW p \in Inputs, NEW q \in Inputs \cup {None}, NEW g \in Groups, Edit(p, q, g)
        PROVE  state'.source[NumberOf(sources', n)] = state.source[NumberOf(sources, n)]
    <3> DEFINE i == NumberOf(sources', n)
               j == NumberOf(sources, n)
    <3>1. /\ q # p /\ Map' = RuntimeSourceEntries(Map, p, q, g)
          /\ state' = Refreshed(sources')
      BY <2>1, <2>2, EditFact DEF Edit
    <3>2. i \in DOMAIN sources' /\ sources'[i] = Holder(Map', n)
      BY <2>1, NumberFact DEF Map
    <3>3. j \in DOMAIN sources /\ sources[j] = Holder(Map, n)
      BY <2>1, NumberFact DEF Map
    <3>4. sources'[i].id = sources[j].id /\ ControlsOf(sources'[i]) = ControlsOf(sources[j])
      BY <2>1, <3>1, <3>2, <3>3, SameSource DEF MapInv
    <3>5. Published(sources, state) /\ Named(sources)
      BY TypeParts
    <3> HIDE DEF i, j
    <3>6. state'.source[i] = state.source[j]
      BY <3>1, <3>2, <3>3, <3>4, <3>5, CarriedOver
    <3> QED
      BY <3>6 DEF i, j
  <2>3. ASSUME NEW p \in Inputs, NEW q \in Inputs \cup {None}, SetPartner(p, q)
        PROVE  state'.source[NumberOf(sources', n)] = state.source[NumberOf(sources, n)]
    BY <2>1, <2>2, <2>3, RequestFact DEF SetPartner
  <2>4. ASSUME NEW p \in Inputs, NEW g \in Groups, SetGroup(p, g)
        PROVE  state'.source[NumberOf(sources', n)] = state.source[NumberOf(sources, n)]
    BY <2>1, <2>2, <2>4, RequestFact DEF SetGroup
  <2>5. OtherStep => UNCHANGED edits
    BY DEF OtherStep, SetSource, SetTrim, SetPanic, Write, RecordStart, Scsynth, vars
  <2> QED
    BY <2>3, <2>4, <2>5, StepCases
<1> QED
  BY <1>1, <1>2, <1>3, PTL DEF Spec, ValuesFollowSource
=============================================================================
