--------------------------- MODULE TestGenerator ---------------------------
(***************************************************************************)
(* The test generator of the mixer: a client arms it, enables it within    *)
(* ArmSeconds, and it sounds for at most RunSeconds (mixer/mixerctl.py,    *)
(* serve).  The controller keeps two deadlines and two published values;   *)
(* scsynth keeps a node that frees itself when its own timeout ends        *)
(* (sc_adat_test_generator).  Kind, destination and level of the signal    *)
(* are left out.                                                           *)
(*                                                                         *)
(* A deadline is the number of seconds left.  The controller looks at its  *)
(* deadlines when a client writes, and when its socket has been quiet for  *)
(* a quarter of a second, if it ever times out: start_graph leaves the     *)
(* socket blocking, so it does so only when the graph was left to others   *)
(* (--no-node).                                                            *)
(***************************************************************************)
EXTENDS Naturals

CONSTANTS
    ArmSeconds,     \* 10 in the code
    RunSeconds,     \* 30 in the code, for the controller and for the node
    None            \* no deadline

ASSUME TimesAssumption == ArmSeconds \in Nat \ {0} /\ RunSeconds \in Nat \ {0}
ASSUME NoneAssumption == None \notin Nat

VARIABLES
    blocking,       \* serve started the graph, and the socket blocks since
    arm, enable,    \* published: testGeneratorArm and testGeneratorEnable
    armLeft,        \* test_generator_arm_deadline, None when there is none
    runLeft,        \* test_generator_deadline, None when there is none
    node,           \* seconds the node on scsynth has left, 0: no node
    armed, sinceArm \* history: an arm not used yet, and the seconds since

published == <<arm, enable>>
history == <<armed, sinceArm>>
gvars == <<blocking, published, armLeft, runLeft, node, history>>

GInit ==
    /\ blocking \in BOOLEAN
    /\ arm = 0 /\ enable = 0
    /\ armLeft = None /\ runLeft = None
    /\ node = 0
    /\ armed = FALSE /\ sinceArm = 0

(* /mixer/set testGeneratorArm *)
Arm(v) ==
    /\ arm' = v
    /\ armLeft' = IF v = 1 THEN ArmSeconds ELSE None
    /\ armed' = (v = 1) /\ sinceArm' = 0
    /\ UNCHANGED <<blocking, enable, runLeft, node>>

Fresh == armLeft # None /\ armLeft # 0

(* Slip: a second node of the same number replaces the first. *)
Restarted == RunSeconds

(* scsynth refuses a second node of the same number. *)
NewNode == IF node = 0 THEN RunSeconds ELSE node

(* Slips: the arm stays in force; the controller's deadline is forgotten. *)
EnableKeepingArm ==
    /\ Fresh
    /\ enable' = 1 /\ arm' = 0
    /\ runLeft' = RunSeconds
    /\ node' = NewNode
    /\ armed' = FALSE
    /\ UNCHANGED <<blocking, armLeft, sinceArm>>

EnableForEver ==
    /\ Fresh
    /\ enable' = 1 /\ arm' = 0
    /\ armLeft' = None
    /\ node' = NewNode
    /\ armed' = FALSE
    /\ UNCHANGED <<blocking, runLeft, sinceArm>>

(* /mixer/set testGeneratorEnable with 1. *)
Enable ==
    /\ Fresh
    /\ enable' = 1 /\ arm' = 0
    /\ armLeft' = None /\ runLeft' = RunSeconds
    /\ node' = NewNode
    /\ armed' = FALSE
    /\ UNCHANGED <<blocking, sinceArm>>

EnableRefused ==
    /\ ~Fresh
    /\ enable' = 0
    /\ UNCHANGED <<blocking, arm, armLeft, runLeft, node, history>>

(* /mixer/set testGeneratorEnable with 0. *)
Disable ==
    /\ enable' = 0
    /\ runLeft' = None
    /\ node' = 0
    /\ UNCHANGED <<blocking, arm, armLeft, history>>

(* A mapping edit sets every published value back (apply_runtime_mapping); *)
(* the deadlines and the node are not touched.                             *)
MappingEdit ==
    /\ arm' = 0 /\ enable' = 0
    /\ UNCHANGED <<blocking, armLeft, runLeft, node, history>>

-----------------------------------------------------------------------------
Expired == armLeft = 0 \/ runLeft = 0

(* The socket times out. *)
Poll ==
    /\ ~blocking /\ Expired
    /\ enable' = IF runLeft = 0 THEN 0 ELSE enable
    /\ runLeft' = IF runLeft = 0 THEN None ELSE runLeft
    /\ arm' = IF armLeft = 0 THEN 0 ELSE arm
    /\ armLeft' = IF armLeft = 0 THEN None ELSE armLeft
    /\ UNCHANGED <<blocking, node, history>>

(* A second passes, for both deadlines and the node. *)
Less(left) == IF left \in {None, 0} THEN left ELSE left - 1

Second ==
    /\ armLeft' = Less(armLeft) /\ runLeft' = Less(runLeft) /\ node' = Less(node)
    /\ sinceArm' = IF sinceArm < ArmSeconds THEN sinceArm + 1 ELSE sinceArm
    /\ UNCHANGED <<blocking, published, armed>>

GNext ==
    \/ \E v \in {0, 1} : Arm(v)
    \/ Enable \/ EnableRefused \/ Disable
    \/ MappingEdit
    \/ Poll
    \/ Second

(* Time passes, and a socket that can time out is quiet now and then; no   *)
(* client has to do anything.                                              *)
GSpec == GInit /\ [][GNext]_gvars /\ WF_gvars(Second) /\ WF_gvars(Poll)

-----------------------------------------------------------------------------
(* Properties *)

(* Types; a generator that is shown to run has a deadline. *)
GTypeOK ==
    /\ blocking \in BOOLEAN
    /\ {arm, enable} \subseteq {0, 1}
    /\ armLeft \in 0..ArmSeconds \cup {None}
    /\ runLeft \in 0..RunSeconds \cup {None}
    /\ enable = 1 => runLeft # None
    /\ node \in 0..RunSeconds
    /\ armed \in BOOLEAN /\ sinceArm \in 0..ArmSeconds

(* "An explicit 10-second arm": every sound begins with an arm of the last *)
(* ArmSeconds that began no other sound and was not taken back, whatever   *)
(* edits of the map set the published arm to.                              *)
SoundNeedsArm ==
    [][node = 0 /\ node' # 0 => armed /\ sinceArm < ArmSeconds]_gvars

(* "A 30-second auto-stop": every sound ends, however often the client     *)
(* arms and enables again, and whether or not the socket blocks.           *)
SoundEnds == node # 0 ~> node = 0

(* Unless the client arms again, a generator that is shown to run is shown *)
(* to have stopped some time, provided that the socket can time out.       *)
AutoStopShown ==
    ~blocking => [](enable = 1 /\ [](~armed) => <>(enable = 0))
=============================================================================
