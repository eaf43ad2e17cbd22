---------------------------- MODULE MixerConsole ----------------------------
(***************************************************************************)
(* The console (console.py) and the server it talks to (the get, set,      *)
(* meters and get-all handlers of mixerctl.py) over UDP.  A request may be *)
(* lost, a reply lost, repeated, overtaken, or later than the time-out of  *)
(* the console; other clients write too.  Each such fault is counted.      *)
(***************************************************************************)
EXTENDS Naturals, Sequences, FiniteSets, SequencesExt, Functions

CONSTANTS
    Keys,          \* published controls, one to a chunk of a bulk answer
    Master,        \* the one whose increase must be confirmed
    Values,        \* of a control
    Retries,       \* STATE_RETRIES, attempts of one get_all
    MaxCalls,      \* bound: calls of the operator
    MaxWrites,     \* bound: writes of other clients
    MaxFaults      \* bound: faults of the network

ASSUME KeysAssumption == IsFiniteSet(Keys)
ASSUME MasterAssumption == Master \in Keys
ASSUME ValuesAssumption == Values \subseteq Nat
ASSUME RetriesAssumption == Retries \in Nat \ {0}

VARIABLES
    server,     \* the published values
    snapshots,  \* the state of each bulk answer; its length is snapshot_id
    toServer,   \* requests on the way
    toClient,   \* replies on the way or in the socket
    pc,         \* what the console waits for
    call,       \* locals of the call: key, value, attempt, snap, chunks, complete
    console,    \* ConsoleModel.state; << >> before start
    outcome,    \* how the last call ended
    calls,      \* begun so far
    foreign,    \* writes of other clients so far
    faults,     \* so far
    odd,        \* a reply was late, repeated or overtaken: never, before the call, or now
    seen        \* of the call: clean begin, lost datagrams, past values of the key;
                \* of the session: a write failed, the master was raised unconfirmed

vars == <<server, snapshots, toServer, toClient, pc, call, console, outcome, calls,
          foreign, faults, odd, seen>>

None == 0
NoCall == [key |-> Master, value |-> 0, attempt |-> 0, snap |-> None,
           chunks |-> << >>, complete |-> FALSE]
NoOutcome == [of |-> "none", ok |-> FALSE, snap |-> None]

Quiet == toServer = <<>> /\ toClient = <<>>

-----------------------------------------------------------------------------
(* The server *)

Chunk(k, n) == [kind |-> "chunk", snap |-> n, key |-> k, value |-> server[k]]
Complete(n) == [kind |-> "complete", snap |-> n]
State(k) == [kind |-> "state", key |-> k, value |-> server[k]]
EachKey(Op(_)) == [i \in DOMAIN SetToSeq(Keys) |-> Op(SetToSeq(Keys)[i])]

(* Chunks, then the older stream of single values, then the completion.     *)
Bulk(n) == EachKey(LAMBDA k : Chunk(k, n)) \o EachKey(State) \o <<Complete(n)>>

Request == Head(toServer)
Replies(rs) == toServer' = Tail(toServer) /\ toClient' = toClient \o rs
Asked(kind) == toServer # <<>> /\ Request.kind = kind
Aside == UNCHANGED <<pc, call, console, outcome, calls, foreign, faults, odd>>

GetAll ==
    /\ Asked("get-all")
    /\ snapshots' = Append(snapshots, server)
    /\ Replies(Bulk(Len(snapshots) + 1))
    /\ UNCHANGED <<server, seen>> /\ Aside

(* Slip: a single value is answered from the last snapshot. *)
GetFromSnapshot ==
    /\ Asked("get")
    /\ Replies(<<[State(Request.key) EXCEPT !.value =
                    IF snapshots = <<>> THEN @ ELSE Last(snapshots)[Request.key]]>>)
    /\ UNCHANGED <<server, snapshots, seen>> /\ Aside

Get ==
    /\ Asked("get")
    /\ Replies(<<State(Request.key)>>)
    /\ UNCHANGED <<server, snapshots, seen>> /\ Aside

Meters ==
    /\ Asked("meters")
    /\ Replies(<<[kind |-> "meters"]>>)
    /\ UNCHANGED <<server, snapshots, seen>> /\ Aside

(* An accepted write, or one that a rule of the server refuses.             *)
Set ==
    /\ Asked("set")
    /\ \/ /\ server' = [server EXCEPT ![Request.key] = Request.value]
          /\ seen' = [seen EXCEPT !.past = IF Request.key = call.key THEN @ \cup {Request.value} ELSE @,
                                  !.raised = @ \/ (/\ Request.key = Master /\ ~Request.confirmed
                                                   /\ Request.value > server[Master])]
          /\ Replies(<<[kind |-> "ok", key |-> Request.key]>>)
       \/ Replies(<<[kind |-> "error"]>>) /\ UNCHANGED <<server, seen>>
    /\ UNCHANGED snapshots /\ Aside

-----------------------------------------------------------------------------
(* OscClient *)

Init ==
    /\ server \in [Keys -> Values]
    /\ snapshots = <<>> /\ toServer = <<>> /\ toClient = <<>>
    /\ pc = "idle" /\ call = NoCall
    /\ console = << >> /\ outcome = NoOutcome
    /\ calls = 0 /\ foreign = 0 /\ faults = 0
    /\ odd = "never"
    /\ seen = [clean |-> TRUE, lost |-> 0, past |-> {}, failed |-> FALSE, raised |-> FALSE]

Unserved == UNCHANGED <<server, snapshots, calls, foreign, faults, odd>>
Sends(r) == toServer' = Append(toServer, r)

Begin(key, stale) ==
    /\ pc = "idle" /\ calls < MaxCalls
    /\ calls' = calls + 1
    /\ outcome' = NoOutcome
    /\ odd' = IF odd = "now" THEN "before" ELSE odd
    /\ seen' = [seen EXCEPT !.lost = 0, !.past = {server[key]},
                            !.clean = /\ toServer = <<>>
                                      /\ \A i \in DOMAIN toClient : toClient[i].kind \notin stale]
    /\ UNCHANGED <<server, snapshots, toClient, console, foreign, faults>>

(* start() and the refresh key: a whole state is asked for. *)
BeginGetAll ==
    /\ Begin(Master, {"chunk", "complete"})
    /\ pc' = "all"
    /\ call' = [NoCall EXCEPT !.attempt = 1]
    /\ Sends([kind |-> "get-all"])

(* Slip: a decrease is confirmed. *)
Decreases(k, v) == k = Master /\ v < console[Master]

(* write(): only an increase of the master is confirmed, against the value  *)
(* the console shows.                                                       *)
Increases(k, v) == k = Master /\ v > console[Master]

BeginWrite(k, v) ==
    /\ console # << >>
    /\ Begin(k, {"state", "ok", "error"})
    /\ pc' = "ack"
    /\ call' = [NoCall EXCEPT !.key = k, !.value = v]
    /\ Sends([kind |-> "set", key |-> k, value |-> v,
              confirmed |-> Increases(k, v)])

(* One step up or down from the value shown, the other value of a switch,   *)
(* or the same value where the range ends.                                  *)
Adjust(k) ==
    /\ console # << >>
    /\ \E v \in Values : v <= console[k] + 1 /\ console[k] <= v + 1 /\ BeginWrite(k, v)

(* Any number typed in that the range of the control allows. *)
Enter(k) == \E v \in Values : BeginWrite(k, v)

BeginMeters ==
    /\ console # << >>
    /\ Begin(Master, {})
    /\ pc' = "meters" /\ call' = NoCall
    /\ Sends([kind |-> "meters"])

Ends(what, ok, n) ==
    /\ pc' = "idle" /\ call' = NoCall
    /\ outcome' = [of |-> what, ok |-> ok, snap |-> n]
    /\ seen' = [seen EXCEPT !.failed = @ \/ (what = "write" /\ ~ok)]

Takes(kind) == toClient # <<>> /\ Head(toClient).kind = kind /\ toClient' = Tail(toClient)
Message == Head(toClient)

(* Slip: the chunks of the attempt before are kept. *)
KeptAttempt == [call EXCEPT !.attempt = @ + 1]

NextAttempt == [NoCall EXCEPT !.attempt = call.attempt + 1]

(* An attempt that fails is followed by another at once; what is still in   *)
(* the socket stays there.                                                  *)
AttemptFails ==
    /\ IF call.attempt < Retries
       THEN pc' = "all" /\ call' = NextAttempt /\ Sends([kind |-> "get-all"])
                        /\ UNCHANGED <<outcome, seen>>
       ELSE Ends("all", FALSE, None) /\ UNCHANGED toServer
    /\ UNCHANGED console

(* Slip: the snapshot is taken from the last datagram. *)
FitsAnything == TRUE

Fits == call.snap \in {None, Message.snap}

With(c) ==
    IF c.complete /\ DOMAIN c.chunks = Keys
    THEN Ends("all", TRUE, c.snap) /\ console' = c.chunks
    ELSE call' = c /\ UNCHANGED <<pc, outcome, console, seen>>

TakeChunk ==
    /\ pc = "all" /\ Takes("chunk")
    /\ \/ /\ Fits
          /\ With([call EXCEPT !.snap = Message.snap,
                       !.chunks = [k \in DOMAIN @ \cup {Message.key} |->
                                      IF k = Message.key THEN Message.value ELSE @[k]]])
          /\ UNCHANGED toServer
       \/ ~Fits /\ AttemptFails
    /\ Unserved

TakeComplete ==
    /\ pc = "all" /\ Takes("complete")
    /\ \/ Fits /\ With([call EXCEPT !.snap = Message.snap, !.complete = TRUE])
               /\ UNCHANGED toServer
       \/ ~Fits /\ AttemptFails
    /\ Unserved

(* The acknowledgement of the key, then a get; an error tells no key.       *)
TakeAck ==
    /\ pc = "ack"
    /\ \/ /\ Takes("ok") /\ Message.key = call.key
          /\ pc' = "read" /\ Sends([kind |-> "get", key |-> call.key])
          /\ UNCHANGED <<call, outcome, seen>>
       \/ Takes("ok") /\ Message.key # call.key /\ Ends("write", FALSE, None) /\ UNCHANGED toServer
       \/ Takes("error") /\ Ends("write", FALSE, None) /\ UNCHANGED toServer
    /\ UNCHANGED console /\ Unserved

Shown(v) == console' = [console EXCEPT ![call.key] = v]

(* The first /mixer/state is the answer, whatever its key.                  *)
TakeReadback ==
    /\ pc = "read"
    /\ \/ Takes("state") /\ Shown(Message.value) /\ Ends("write", TRUE, None)
       \/ Takes("error") /\ Ends("write", FALSE, None) /\ UNCHANGED console
    /\ UNCHANGED toServer /\ Unserved

TakeMeters ==
    /\ pc = "meters" /\ Takes("meters")
    /\ Ends("meters", TRUE, None)
    /\ UNCHANGED <<toServer, console>> /\ Unserved

Awaited ==
    CASE pc = "all" -> {"chunk", "complete"}
      [] pc = "ack" -> {"ok", "error"}
      [] pc = "read" -> {"state", "error"}
      [] pc = "meters" -> {"meters"}
      [] OTHER -> {}

(* Other datagrams are dropped, but only while something is awaited. *)
Drop ==
    /\ pc # "idle" /\ toClient # <<>> /\ Message.kind \notin Awaited
    /\ toClient' = Tail(toClient)
    /\ UNCHANGED <<server, snapshots, toServer, pc, call, console, outcome, calls,
                   foreign, faults, odd, seen>>

(* 0.75 s: nothing will come any more, or what comes is late.               *)
Timeout ==
    /\ pc # "idle"
    /\ \/ Quiet /\ UNCHANGED <<faults, odd>>
       \/ ~Quiet /\ faults < MaxFaults /\ faults' = faults + 1 /\ odd' = "now"
    /\ CASE pc = "all" -> AttemptFails
         [] pc \in {"ack", "read"} -> Ends("write", FALSE, None) /\ UNCHANGED <<toServer, console>>
         [] pc = "meters" -> Ends("meters", FALSE, None) /\ UNCHANGED <<toServer, console>>
    /\ UNCHANGED <<server, snapshots, toClient, calls, foreign>>

-----------------------------------------------------------------------------
(* Other clients and the network *)

OtherWrite ==
    /\ foreign < MaxWrites /\ foreign' = foreign + 1
    /\ \E k \in Keys, v \in Values :
          /\ server' = [server EXCEPT ![k] = v]
          /\ seen' = [seen EXCEPT !.past = IF k = call.key THEN @ \cup {v} ELSE @]
    /\ UNCHANGED <<snapshots, toServer, toClient, pc, call, console, outcome, calls, faults, odd>>

Fault ==
    /\ faults < MaxFaults /\ faults' = faults + 1
    /\ UNCHANGED <<server, snapshots, pc, call, console, outcome, calls, foreign>>

Lose ==
    /\ Fault
    /\ \/ \E i \in DOMAIN toServer : toServer' = RemoveAt(toServer, i) /\ UNCHANGED toClient
       \/ \E i \in DOMAIN toClient : toClient' = RemoveAt(toClient, i) /\ UNCHANGED toServer
    /\ seen' = [seen EXCEPT !.lost = @ + 1] /\ UNCHANGED odd

(* A reply comes again, later, or is overtaken by all that follow. *)
Repeat ==
    /\ Fault
    /\ \E i \in DOMAIN toClient : toClient' = Append(toClient, toClient[i])
    /\ odd' = "now"
    /\ UNCHANGED <<toServer, seen>>

Delay ==
    /\ Fault
    /\ \E i \in DOMAIN toClient : toClient' = Append(RemoveAt(toClient, i), toClient[i])
    /\ odd' = "now"
    /\ UNCHANGED <<toServer, seen>>

Server == GetAll \/ Get \/ Meters \/ Set

(* A key of the keyboard that makes a call.  The page, the row, the focus   *)
(* and the text of an edit choose k and v and are left out.                 *)
Operator ==
    \/ BeginGetAll
    \/ \E k \in Keys : Adjust(k) \/ Enter(k)

Client ==
    \/ Operator \/ BeginMeters
    \/ TakeChunk \/ TakeComplete \/ TakeAck \/ TakeReadback \/ TakeMeters
    \/ Drop \/ Timeout

Next ==
    \/ Server \/ Client
    \/ OtherWrite \/ Lose \/ Repeat \/ Delay

Spec == Init /\ [][Next]_vars

-----------------------------------------------------------------------------
(* A whole state that get_all returns is what the server held when it made  *)
(* one bulk answer, never parts of two, whatever is lost, repeated, late or *)
(* out of order while other clients write.                                  *)
SnapshotIsServerState ==
    outcome.of = "all" /\ outcome.ok => console = snapshots[outcome.snap]

(* Losses alone are recovered from: when nothing was under way at its begin *)
(* and nothing came late or twice, get_all gives up only after as many      *)
(* datagrams were lost as it makes attempts.                                *)
RecoversLosses ==
    outcome.of = "all" /\ ~outcome.ok /\ seen.clean /\ odd # "now" => seen.lost >= Retries

(* What a write reads back is a value of its key since the write began,     *)
(* unless an answer to an earlier call was under way then.                  *)
ReadbackIsOfKey ==
    [][outcome' # outcome /\ outcome'.of = "write" /\ outcome'.ok /\ seen.clean
          => console'[call.key] \in seen.past]_vars

(* The master is never raised without confirmation, although the console    *)
(* compares with what it shows and not with what the server has: also when  *)
(* datagrams are lost, unless another client or a failed write changed the  *)
(* master unseen, or a late or repeated reply was taken for a new one.      *)
RaiseConfirmed == seen.raised => foreign > 0 \/ seen.failed \/ odd # "never"

(* "write failed; audio untouched" *)
AudioUntouched ==
    [][outcome' # outcome /\ outcome'.of = "write" /\ ~outcome'.ok /\ foreign = 0
          => seen.past = {console[call.key]}]_vars
=============================================================================
