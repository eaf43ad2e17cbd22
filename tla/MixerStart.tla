----------------------------- MODULE MixerStart -----------------------------
(***************************************************************************)
(* How mixerctl builds its graph in scsynth (start_graph), takes it down   *)
(* (shutdown), and finds what an earlier life of it has left there.        *)
(* Commands and replies are datagrams on the loopback interface: neither   *)
(* lost nor reordered, but as late as scsynth makes them, and a socket     *)
(* opened on the same port gets the replies to its predecessor.            *)
(***************************************************************************)
EXTENDS Naturals, Sequences, FiniteSets, SequencesExt

CONSTANTS
    Routers,      \* the node numbers 3900..3915, all freed before each attempt
    Used,         \* those the source map needs
    Groups,       \* the eight group nodes
    Master,       \* the master node
    Generator,    \* the test generator, which a serving mixerctl may create
    Routing, Spatial, Output,    \* the three containers, in graph order
    MaxAttempts,  \* 20 in the code
    MaxLives      \* bound: starts of mixerctl

ASSUME UsedAssumption == Used \subseteq Routers
ASSUME FiniteAssumption == IsFiniteSet(Routers) /\ IsFiniteSet(Groups)
(* No two nodes have the same number. *)
ASSUME NodesAssumption ==
    /\ Routers \cap Groups = {}
    /\ {Master, Generator, Routing, Spatial, Output} \cap (Routers \cup Groups) = {}
    /\ {Master, Generator} \cap {Routing, Spatial, Output} = {} /\ Master # Generator
    /\ Routing # Spatial /\ Routing # Output /\ Spatial # Output
ASSUME AttemptsAssumption == MaxAttempts \in Nat \ {0}

VARIABLES
    nodes,     \* in scsynth
    assigned,  \* groups whose output bus was assigned again
    defs,      \* whether the SynthDefs are there
    toSc,      \* commands on the way
    toCtl,     \* replies on the way or in the socket
    pc,        \* where mixerctl is
    attempt,   \* of the graph, in this life
    lives,     \* starts so far
    inherited  \* this life began with commands or replies of an earlier one under way

vars == <<nodes, assigned, defs, toSc, toCtl, pc, attempt, lives, inherited>>

Containers == {Routing, Spatial, Output}
Wanted == Containers \cup Used \cup Groups \cup {Master}
Home(n) == CASE n \in Routers \cup {Generator} -> Routing
             [] n \in Groups -> Spatial
             [] n = Master -> Output

Starting == {"first sync", "load", "graph", "buses"}
Ended == {"unsynced", "missing", "rejected", "unacknowledged", "killed", "stopped"}

Free(n) == [op |-> "n_free", node |-> n]
New(n) == [op |-> "new", node |-> n]
SetBus(g) == [op |-> "n_set", node |-> g]
Sync(k) == [op |-> "sync", number |-> k]
Each(Op(_), S) == [i \in DOMAIN SetToSeq(S) |-> Op(SetToSeq(S)[i])]

-----------------------------------------------------------------------------
(* Commands *)

Freed == Routers \cup {Master} \cup Containers

(* One attempt: free what may be there, then containers, routers, groups    *)
(* and master, and a sync.                                                  *)
Graph ==
    Each(Free, Freed) \o <<New(Routing), New(Spatial), New(Output)>>
        \o Each(New, Used) \o Each(New, Groups) \o <<New(Master), Sync(2)>>

Buses == Each(SetBus, Groups) \o <<Sync(3)>>

(* Slip: the containers are left to the next start. *)
RoutersDown == Each(Free, Routers)

(* The master and the groups go with their containers. *)
TearDown == Each(Free, Routers \cup Containers)

-----------------------------------------------------------------------------
(* mixerctl *)

Init ==
    /\ nodes \in {{}, Wanted \cup Routers \cup {Generator}}
    /\ assigned = {}
    /\ defs \in BOOLEAN
    /\ toSc = <<Sync(1)>> /\ toCtl = <<>>
    /\ pc = "first sync"
    /\ attempt = 0 /\ lives = 1 /\ inherited = FALSE

Sends(commands) == toSc' = toSc \o commands
Here == UNCHANGED <<nodes, assigned, defs, lives, inherited>>

(* A reply is taken from the socket. *)
Receives(kind) == toCtl # <<>> /\ Head(toCtl).kind = kind /\ toCtl' = Tail(toCtl)

Attempt == attempt' = attempt + 1 /\ Sends(Graph) /\ pc' = "graph"

(* Any /synced will do.  In the stereo mode two SynthDefs are loaded first, *)
(* when their files are there.                                              *)
FirstSynced ==
    /\ pc = "first sync" /\ Receives("synced")
    /\ \/ pc' = "load" /\ Sends(<<Sync(4)>>)
       \/ pc' = "missing" /\ ~defs /\ UNCHANGED toSc
    /\ UNCHANGED attempt /\ Here

(* The quad mode of the configuration has nothing to load. *)
QuadSynced ==
    /\ pc = "first sync" /\ Receives("synced")
    /\ Attempt /\ Here

Loaded ==
    /\ pc = "load" /\ Receives("synced")
    /\ Attempt /\ Here

(* Slip: the buses are not waited for. *)
ReturnAtOnce ==
    /\ pc = "graph" /\ Receives("synced")
    /\ Sends(Buses) /\ pc' = "serving"
    /\ UNCHANGED attempt /\ Here

GraphSynced ==
    /\ pc = "graph" /\ Receives("synced")
    /\ Sends(Buses) /\ pc' = "buses"
    /\ UNCHANGED attempt /\ Here

(* Slip: every failure ends the start. *)
AnyFailure == toCtl # <<>> /\ Head(toCtl).kind = "fail"

(* A node that was not there to be freed is no failure. *)
Failure == toCtl # <<>> /\ Head(toCtl).kind = "fail" /\ Head(toCtl).of # "n_free"

GraphRejected ==
    /\ pc = "graph" /\ Failure
    /\ toCtl' = Tail(toCtl) /\ pc' = "rejected"
    /\ UNCHANGED <<toSc, attempt>> /\ Here

BusesSynced ==
    /\ pc = "buses" /\ Receives("synced")
    /\ pc' = "serving"
    /\ UNCHANGED <<toSc, attempt>> /\ Here

(* All other replies are read and dropped, while it starts and later. *)
Ignore ==
    /\ pc \in Starting \cup {"serving"}
    /\ toCtl # <<>>
    /\ IF pc = "graph" THEN Head(toCtl).kind = "fail" /\ ~Failure
       ELSE Head(toCtl).kind = "fail" \/ pc = "serving"
    /\ toCtl' = Tail(toCtl)
    /\ UNCHANGED <<toSc, pc, attempt>> /\ Here

(* Two seconds without /synced end a start, except that of the graph: a     *)
(* quarter of a second without any datagram begins the next attempt.        *)
NoSync ==
    /\ pc \in {"first sync", "load", "buses"}
    /\ pc' = "unsynced"
    /\ UNCHANGED <<toSc, toCtl, attempt>> /\ Here

Retry ==
    /\ pc = "graph"
    /\ IF attempt < MaxAttempts THEN Attempt
       ELSE pc' = "unacknowledged" /\ UNCHANGED <<attempt, toSc>>
    /\ UNCHANGED toCtl /\ Here

(* SIGTERM, once the handler is set; before that, and for SIGKILL, the      *)
(* process is gone and its graph stays.                                     *)
Shutdown ==
    /\ pc = "serving"
    /\ Sends(TearDown) /\ pc' = "stopped"
    /\ UNCHANGED <<toCtl, attempt>> /\ Here

Kill ==
    /\ pc \in Starting \cup {"serving"}
    /\ pc' = "killed"
    /\ UNCHANGED <<toSc, toCtl, attempt>> /\ Here

(* The socket of the last life takes its unread replies with it. *)
Restart ==
    /\ pc \in Ended /\ lives < MaxLives
    /\ lives' = lives + 1
    /\ pc' = "first sync" /\ attempt' = 0
    /\ toCtl' = <<>> /\ Sends(<<Sync(1)>>)
    /\ inherited' = (toSc # <<>>)
    /\ UNCHANGED <<nodes, assigned, defs>>

(* A client has the test generator started; the bound is that it is asked   *)
(* for only when no reply is waiting.                                       *)
StartGenerator ==
    /\ pc = "serving" /\ Generator \notin nodes
    /\ toCtl = <<>> /\ ~Contains(toSc, New(Generator))
    /\ Sends(<<New(Generator)>>)
    /\ UNCHANGED <<nodes, assigned, defs, toCtl, pc, attempt, lives, inherited>>

-----------------------------------------------------------------------------
(* scsynth *)

Reply(r) == toCtl' = IF pc \in Ended THEN toCtl ELSE Append(toCtl, r)
NoReply == UNCHANGED toCtl
Fail(c) == Reply([kind |-> "fail", of |-> c.op]) /\ UNCHANGED <<nodes, assigned>>

Within(n) == {n} \cup {m \in nodes \ Containers : Home(m) = n}

ScFree(c) ==
    /\ c.op = "n_free"
    /\ IF c.node \in nodes
       THEN /\ nodes' = nodes \ Within(c.node)
            /\ assigned' = assigned \ Within(c.node) /\ NoReply
       ELSE Fail(c)

Makes(n) ==
    /\ n \notin nodes
    /\ n \notin Containers => Home(n) \in nodes /\ defs

ScNew(c) ==
    /\ c.op = "new"
    /\ IF Makes(c.node)
       THEN nodes' = nodes \cup {c.node} /\ UNCHANGED assigned /\ NoReply
       ELSE Fail(c)

ScSet(c) ==
    /\ c.op = "n_set"
    /\ IF c.node \in nodes
       THEN assigned' = assigned \cup {c.node} /\ UNCHANGED nodes /\ NoReply
       ELSE Fail(c)

ScSync(c) ==
    /\ c.op = "sync"
    /\ Reply([kind |-> "synced", number |-> c.number])
    /\ UNCHANGED <<nodes, assigned>>

Scsynth ==
    /\ toSc # <<>>
    /\ toSc' = Tail(toSc)
    /\ LET c == Head(toSc) IN ScFree(c) \/ ScNew(c) \/ ScSet(c) \/ ScSync(c)
    /\ UNCHANGED <<defs, pc, attempt, lives, inherited>>

Mixerctl ==
    \/ FirstSynced \/ QuadSynced \/ Loaded \/ GraphSynced \/ GraphRejected \/ BusesSynced
    \/ Ignore \/ NoSync \/ Retry

Next ==
    \/ Mixerctl
    \/ Shutdown \/ Kill \/ Restart \/ StartGenerator
    \/ Scsynth

Spec == Init /\ [][Next]_vars

-----------------------------------------------------------------------------
(* Whatever an earlier life left, and however many attempts it took: when   *)
(* scsynth has handled everything, a serving mixerctl has its nodes and no  *)
(* other, with their buses, and one that was shut down has none.  Only a    *)
(* missing SynthDef can go unnoticed, behind a reply to an earlier life.    *)
GraphOwned ==
    toSc = <<>> =>
        /\ pc = "serving" /\ (defs \/ ~inherited) =>
              nodes \ {Generator} = Wanted /\ assigned = Groups
        /\ pc = "stopped" => nodes = {}

(* With at most two attempts the graph is there when start_graph returns,   *)
(* not only some time later: then no write of a client comes too early.     *)
(* With one the buses are assigned too.  A start that meets what an earlier *)
(* life has under way can take its replies for its own.                     *)
GraphOnReturn ==
    pc = "serving" /\ ~inherited =>
        /\ attempt <= 2 => Wanted \subseteq nodes
        /\ attempt = 1 => assigned = Groups

(* The start says that scsynth rejected the graph only when a SynthDef is   *)
(* missing, not because of what was or was not there before.                *)
NoFalseRejection == pc = "rejected" => ~defs

(* The claim that any number of attempts returns with a complete graph.     *)
CompleteOnReturn == pc = "serving" => Wanted \subseteq nodes
=============================================================================
