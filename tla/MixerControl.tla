---------------------------- MODULE MixerControl ----------------------------
(***************************************************************************)
(* The mixer controller (mixer/mixerctl.py, serve) as the owner of the     *)
(* source map: the map itself, the dictionary of published values that     *)
(* /mixer/get and /mixer/get-all answer from, and the synthesis nodes on   *)
(* scsynth, which follow through OSC messages that are still in flight     *)
(* when the client has its /mixer/ok.                                      *)
(*                                                                         *)
(* Of the controls three kinds are told apart: those of a source (Trim,    *)
(* Pan and Width stand for the eight), the older per-input trimN, and the  *)
(* panic mute of the master, which stands for every control that has       *)
(* nothing to do with sources.                                             *)
(***************************************************************************)
EXTENDS SourceMap

CONSTANTS
    Values,         \* values of a control; 0 and 1 among them
    Configured,     \* the source map of the configuration file, a sequence
    ConfigTrim,     \* channel.N.trim_db of the configuration file
    NoNode,         \* scsynth has no node in a slot
    MaxEdits,       \* bound on the mapping edits of a behaviour
    MaxWrites,      \* bound on the other writes of a behaviour
    MaxBacklog      \* a client request is handled with at most so many
                    \* messages still on their way to scsynth

ListOf(seq) == {seq[i] : i \in DOMAIN seq}

ASSUME ValuesAssumption == {0, 1} \subseteq Values
ASSUME ConfiguredAssumption ==
    /\ Configured \in Seq(Source)
    /\ \A i, j \in DOMAIN Configured : Configured[i] = Configured[j] => i = j
    /\ ValidSourceMap(ListOf(Configured))
ASSUME TrimAssumption == ConfigTrim \in [Inputs -> Values]

(* A router node of scsynth, as far as its controls matter here. *)
Router == [left: Inputs, right: Inputs, group: Groups,
           level: [{"Trim", "Pan", "Width"} -> Values]]

ASSUME NoNodeAssumption == NoNode \notin Router

VARIABLES
    sources,        \* values["_sources"], in the order that numbers them
    state,          \* the dictionary of published values
    routers,        \* scsynth: the router nodes 3900.., NoNode where there is none
    master,         \* scsynth: panicMute of the master node
    osc,            \* messages sent to scsynth and not handled yet
    session,        \* source map of the recording started last, <<>> before one
    edits, writes   \* what is used of MaxEdits and MaxWrites

vars == <<sources, state, routers, master, osc, session, edits, writes>>

Map == ListOf(sources)
Slots == Inputs

-----------------------------------------------------------------------------
(* Controls *)

ControlsOf(s) == IF Stereo(s) THEN {"Trim", "Width"} ELSE {"Trim", "Pan"}

(* source_controls: the trim comes from the row of the first input. *)
Default(s, c) ==
    CASE c = "Trim"  -> ConfigTrim[s.left]
      [] c = "Pan"   -> 0
      [] c = "Width" -> 1

(* The published values that matter here, as after the start. *)
Controls(list) ==
    [source |-> [i \in DOMAIN list |->
                    [c \in ControlsOf(list[i]) |-> Default(list[i], c)]],
     trim   |-> ConfigTrim,
     panic  |-> 0]

(* source_node_controls: what a router node is created with. *)
NodeControls(s) ==
    [left  |-> s.left,
     right |-> IF Stereo(s) THEN s.right ELSE s.left,
     group |-> s.group,
     level |-> [c \in {"Trim", "Pan", "Width"} |->
                   IF c \in ControlsOf(s) THEN Default(s, c)
                   ELSE IF c = "Width" THEN 1 ELSE 0]]

-----------------------------------------------------------------------------
(* Messages to scsynth *)

Free(i) == [op |-> "n_free", node |-> i]
New(i, s) == [op |-> "s_new", node |-> i, args |-> NodeControls(s)]
Set(i, c, v) == [op |-> "n_set", node |-> i, control |-> c, value |-> v]
SetMaster(v) == [op |-> "master", value |-> v]

(* Slips: only the slots of the new map are freed; the freeing comes last;  *)
(* the last source is forgotten.                                            *)
RebuildActive(list) ==
    [i \in DOMAIN list |-> Free(i)] \o [i \in DOMAIN list |-> New(i, list[i])]
RebuildFreeLast(list) ==
    [i \in DOMAIN list |-> New(i, list[i])] \o [i \in Slots |-> Free(i)]
RebuildButLast(list) ==
    [i \in Slots |-> Free(i)] \o [i \in 1..Len(list) - 1 |-> New(i, list[i])]

(* The messages of a mapping edit: every slot is freed before one is made. *)
Rebuild(list) ==
    [i \in Slots |-> Free(i)] \o [i \in DOMAIN list |-> New(i, list[i])]

-----------------------------------------------------------------------------
(* Start: start_graph has acknowledged the graph of the configured map. *)

Init ==
    /\ sources = Configured
    /\ state = Controls(Configured)
    /\ routers = [i \in Slots |-> IF i \in DOMAIN Configured
                                  THEN NodeControls(Configured[i]) ELSE NoNode]
    /\ master = 0
    /\ osc = <<>>
    /\ session = <<>>
    /\ edits = 0
    /\ writes = 0

Write ==
    /\ writes < MaxWrites
    /\ Len(osc) <= MaxBacklog
    /\ writes' = writes + 1
    /\ UNCHANGED <<sources, routers, master, session, edits>>

(* /mixer/set source<i>Trim, Pan or Width; a control of the other mode is   *)
(* refused.                                                                 *)
SetSource(i, c, v) ==
    /\ Write
    /\ i \in DOMAIN sources /\ c \in ControlsOf(sources[i])
    /\ state' = [state EXCEPT !.source[i][c] = v]
    /\ osc' = Append(osc, Set(i, c, v))

(* /mixer/set trim<n>: refused for an input of a stereo source, and sent to *)
(* the node of the source otherwise.                                        *)
SetTrim(n, v) ==
    /\ Write
    /\ ~Stereo(Holder(Map, n))
    /\ state' = [state EXCEPT !.trim[n] = v]
    /\ osc' = Append(osc, Set(CHOOSE i \in DOMAIN sources : sources[i] = Holder(Map, n),
                              "Trim", v))

SetPanic(v) ==
    /\ Write
    /\ state' = [state EXCEPT !.panic = v]
    /\ osc' = Append(osc, SetMaster(v))

-----------------------------------------------------------------------------
(* Mapping edits: validate, commit, send, publish, with no wait in between. *)

(* Slip: values are carried over by number. *)
RefreshedByNumber(list) ==
    [Controls(list) EXCEPT !.source =
        [i \in DOMAIN list |-> [c \in ControlsOf(list[i]) |->
            IF i \in DOMAIN sources /\ c \in ControlsOf(sources[i])
            THEN state.source[i][c] ELSE Default(list[i], c)]]]

(* Values are carried over by source ID; every other entry is as after the  *)
(* start.                                                                   *)
Refreshed(list) ==
    [Controls(list) EXCEPT !.source =
        [i \in DOMAIN list |-> [c \in ControlsOf(list[i]) |->
            IF \E j \in DOMAIN sources : sources[j].id = list[i].id /\ c \in ControlsOf(sources[j])
            THEN LET j == CHOOSE k \in DOMAIN sources : sources[k].id = list[i].id
                 IN  state.source[j][c]
            ELSE Default(list[i], c)]]]

Accepted(p, q, g) ==
    /\ EditAllowed(Map, p, q)
    /\ ValidSourceMap(RuntimeSourceEntries(Map, p, q, g))

Edit(p, q, g) ==
    /\ edits < MaxEdits
    /\ Len(osc) <= MaxBacklog
    /\ Accepted(p, q, g)
    /\ sources' \in InOrder(RuntimeSourceEntries(Map, p, q, g))
    /\ state' = Refreshed(sources')
    /\ osc' = osc \o Rebuild(sources')
    /\ edits' = edits + 1
    /\ UNCHANGED <<routers, master, session, writes>>

(* /mixer/set input<p>Partner, with 0 to leave a pair. *)
SetPartner(p, q) == Edit(p, q, Holder(Map, p).group)

(* /mixer/set input<p>Group: proposed with p as the left side. *)
SetGroup(p, g) == Edit(p, PartnerOf(Map, p), g)

(* /mixer/set recordStart, as far as the map goes: the recorder manager has *)
(* the sources it was made with.                                            *)
RecorderSources == Configured

RecordStart ==
    /\ session' = RecorderSources
    /\ UNCHANGED <<sources, state, routers, master, osc, edits, writes>>

-----------------------------------------------------------------------------
(* scsynth handles its messages in the order they were sent.  A node that   *)
(* is made twice, freed or set while absent is an error reply nobody reads. *)

After(message) ==
    LET i == message.node
    IN  CASE message.op = "n_free" -> [routers EXCEPT ![i] = NoNode]
          [] message.op = "s_new" /\ routers[i] = NoNode ->
                [routers EXCEPT ![i] = message.args]
          [] message.op = "n_set" /\ routers[i] # NoNode ->
                [routers EXCEPT ![i].level[message.control] = message.value]
          [] OTHER -> routers

Scsynth ==
    /\ osc # <<>>
    /\ osc' = Tail(osc)
    /\ IF Head(osc).op = "master"
       THEN master' = Head(osc).value /\ UNCHANGED routers
       ELSE routers' = After(Head(osc)) /\ UNCHANGED master
    /\ UNCHANGED <<sources, state, session, edits, writes>>

Next ==
    \/ \E i \in Slots, v \in Values : \E c \in {"Trim", "Pan", "Width"} : SetSource(i, c, v)
    \/ \E n \in Inputs, v \in Values : SetTrim(n, v)
    \/ \E v \in {0, 1} : SetPanic(v)
    \/ \E p \in Inputs, q \in Inputs \cup {None} : SetPartner(p, q)
    \/ \E p \in Inputs, g \in Groups : SetGroup(p, g)
    \/ RecordStart
    \/ Scsynth

Spec == Init /\ [][Next]_vars

-----------------------------------------------------------------------------
(* Properties *)

(* Types, and the published controls of a source are those of its mode: an  *)
(* edit that turns a mono source into a pair drops Pan and brings Width.    *)
MxTypeOK ==
    /\ sources \in Seq(Source)
    /\ DOMAIN state.source = DOMAIN sources
    /\ \A i \in DOMAIN sources :
          state.source[i] \in [ControlsOf(sources[i]) -> Values]
    /\ state.trim \in [Inputs -> Values]
    /\ {state.panic, master} \subseteq {0, 1}
    /\ routers \in [Slots -> Router \cup {NoNode}]

(* Whatever the map has become, every edit the early returns let through    *)
(* proposes a list that has each input in exactly one place: the last check *)
(* of validate_source_map never refuses one.                                *)
ProposalsCover ==
    \A p \in Inputs, q \in Inputs \cup {None} : \A g \in Groups :
        EditAllowed(Map, p, q) => Covers(RuntimeSourceEntries(Map, p, q, g))

(* While the nodes are rebuilt one message at a time, no input is heard     *)
(* through two routers.                                                     *)
NeverDoubleRouted ==
    \A i, j \in Slots :
        /\ routers[i] # NoNode /\ routers[j] # NoNode
        /\ {routers[i].left, routers[i].right} \cap {routers[j].left, routers[j].right} # {}
        => i = j

(* When scsynth has caught up its routers are those of the map, slot by     *)
(* slot, with the same inputs, sides and group, and no others.              *)
RoutedWhenDrained ==
    osc = <<>> =>
        \A i \in Slots :
            IF i \in DOMAIN sources
            THEN /\ routers[i] # NoNode
                 /\ routers[i].left = sources[i].left
                 /\ InputsOf(sources[i]) = {routers[i].left, routers[i].right}
                 /\ routers[i].group = sources[i].group
            ELSE routers[i] = NoNode

(* A control message never reaches a slot whose node is gone, however many  *)
(* rebuilds are under way when the client writes.                           *)
SetsLand ==
    osc # <<>> /\ Head(osc).op = "n_set" => routers[Head(osc).node] # NoNode

NumberOf(list, n) == CHOOSE i \in DOMAIN list : n \in InputsOf(list[i])

(* When an edit leaves the inputs of a source together, the published       *)
(* values of the source move with it to its new number.                     *)
ValuesFollowSource ==
    [][edits' # edits =>
         \A n \in Inputs :
            InputsOf(Holder(Map, n)) = InputsOf(Holder(Map', n)) =>
                state'.source[NumberOf(sources', n)] = state.source[NumberOf(sources, n)]]_vars

(* What the clients see of the map changes by the edits of InputMapping     *)
(* alone.                                                                   *)
M == INSTANCE InputMapping WITH
        input <- MappingState(Map),
        Start <- MappingState(ListOf(Configured))
ImplementsInputMapping == M!MapSpec

-----------------------------------------------------------------------------
(* What the documentation says and the code does not do *)

(* "Stereo sources ... preserve the ordered left/right pair": a pairing     *)
(* edit leaves the pairs it does not name as they are, and a group edit     *)
(* leaves every pair and its sides.                                         *)
PairStays(s) == \E t \in Map' : t.left = s.left /\ t.right = s.right

PairsStay ==
    [][/\ \A p \in Inputs, q \in Inputs \cup {None} :
            SetPartner(p, q) =>
                \A s \in Map : Stereo(s) /\ InputsOf(s) \cap {p, q} = {} => PairStays(s)
       /\ \A p \in Inputs, g \in Groups :
            SetGroup(p, g) => \A s \in Map : Stereo(s) => PairStays(s)]_vars

(* "Commit a validated map and refresh all dependent state atomically":     *)
(* once scsynth has caught up, the published values are those of the nodes. *)
(* The trim is left out: two published entries set it.                      *)
PublishedIsHeard ==
    osc = <<>> =>
        /\ \A i \in DOMAIN sources : \A c \in ControlsOf(sources[i]) \ {"Trim"} :
              state.source[i][c] = routers[i].level[c]
        /\ state.panic = master

(* "The authoritative source_map generates one mono WAV per mono source and *)
(* one interleaved stereo WAV per ordered stereo pair": a recording starts  *)
(* with the map in force.                                                   *)
SessionFollowsMap == [][session' # session => session' = sources]_vars
=============================================================================
