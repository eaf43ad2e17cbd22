------------------------ MODULE MixerConsoleProofs ------------------------
(***************************************************************************)
(* Proofs about the console and the server, for any set of controls, any   *)
(* number of attempts, calls, writes of other clients and faults of the    *)
(* network.                                                                *)
(***************************************************************************)
EXTENDS MixerConsole, FiniteSetTheorems, SequenceTheorems, TLAPS

-----------------------------------------------------------------------------
(* Sequences.  What is on the way is described by the set that its messages *)
(* are from; these lemmas say which set that is after a step.               *)

(* A queue whose messages are all of another set is a queue of that set.    *)
LEMMA SeqElements ==
    ASSUME NEW S, NEW T, NEW s \in Seq(S), \A i \in 1..Len(s) : s[i] \in T
    PROVE  s \in Seq(T)
<1>1. Len(s) \in Nat /\ s \in [1..Len(s) -> S]
  BY LenProperties
<1>2. s \in [1..Len(s) -> T]
  BY <1>1
<1>. QED
  BY <1>1, <1>2

(* What the receiver takes is of the set, and so is what remains.           *)
LEMMA Taken ==
    ASSUME NEW S, NEW s \in Seq(S), s # <<>>
    PROVE  /\ Head(s) \in S
           /\ Tail(s) \in Seq(S)
           /\ Head(s) = s[1]
           /\ Len(Tail(s)) = Len(s) - 1
           /\ Len(s) >= 1
           /\ \A i \in 1..Len(Tail(s)) : i + 1 \in 1..Len(s) /\ Tail(s)[i] = s[i + 1]
<1>1. Len(s) \in Nat /\ Len(s) >= 1
  BY EmptySeq
<1>. QED
  BY <1>1, HeadTailProperties

(* Replies go to the end of the queue, in their order.                      *)
LEMMA Joined ==
    ASSUME NEW S, NEW s \in Seq(S), NEW t \in Seq(S)
    PROVE  /\ s \o t \in Seq(S)
           /\ Len(s \o t) = Len(s) + Len(t)
           /\ \A i \in 1..Len(s) : (s \o t)[i] = s[i]
           /\ \A i \in 1..Len(t) : (s \o t)[Len(s) + i] = t[i]
           /\ \A i \in 1..Len(s \o t) :
                 \/ i \in 1..Len(s) /\ (s \o t)[i] = s[i]
                 \/ i - Len(s) \in 1..Len(t) /\ (s \o t)[i] = t[i - Len(s)]
  OBVIOUS

(* A lost datagram leaves the others in their order.                        *)
LEMMA Removed ==
    ASSUME NEW S, NEW s \in Seq(S), NEW i \in DOMAIN s
    PROVE  /\ RemoveAt(s, i) \in Seq(S)
           /\ Len(RemoveAt(s, i)) = Len(s) - 1
           /\ \A j \in 1..Len(s) - 1 :
                 RemoveAt(s, i)[j] = IF j < i THEN s[j] ELSE s[j + 1]
<1>1. Len(s) \in Nat /\ DOMAIN s = 1..Len(s) /\ i \in 1..Len(s)
  BY LenProperties
<1>. DEFINE a == SubSeq(s, 1, i - 1)
            b == SubSeq(s, i + 1, Len(s))
<1>2. a \in Seq(S) /\ Len(a) = i - 1 /\ \A j \in 1..i - 1 : a[j] = s[j]
  <2>1. \A j \in 1..i - 1 : s[j] \in S
    BY <1>1
  <2>. QED
    BY <1>1, <2>1, SubSeqProperties
<1>3. b \in Seq(S) /\ Len(b) = Len(s) - i /\ \A j \in 1..Len(s) - i : b[j] = s[i + j]
  <2>1. \A j \in i + 1..Len(s) : s[j] \in S
    BY <1>1
  <2>. QED
    BY <1>1, <2>1, SubSeqProperties
<1>4. RemoveAt(s, i) = a \o b
  BY DEF RemoveAt
<1>. HIDE DEF a, b
<1>5. Len(a) \in Nat /\ Len(b) \in Nat
  BY <1>1, <1>2, <1>3
<1>6. a \o b \in Seq(S) /\ Len(a \o b) = Len(s) - 1
  <2>1. a \o b \in Seq(S) /\ Len(a \o b) = Len(a) + Len(b)
    BY <1>2, <1>3, Joined
  <2>. QED
    BY <1>1, <1>2, <1>3, <2>1
<1>7. ASSUME NEW j \in 1..Len(s) - 1
      PROVE  (a \o b)[j] = IF j < i THEN s[j] ELSE s[j + 1]
  <2>1. CASE j < i
    <3>1. j \in 1..Len(a)
      BY <1>1, <1>2, <2>1
    <3>2. (a \o b)[j] = a[j]
      BY <1>2, <1>3, <3>1, Joined
    <3>. QED
      BY <1>1, <1>2, <2>1, <3>1, <3>2
  <2>2. CASE j >= i
    <3>1. PICK q \in 1..Len(b) : j = Len(a) + q
      <4>1. j - (i - 1) \in 1..Len(b) /\ j = Len(a) + (j - (i - 1))
        BY <1>1, <1>2, <1>3, <2>2
      <4>. QED
        BY <4>1
    <3>2. (a \o b)[Len(a) + q] = b[q]
      <4>1. a \in Seq(S) /\ b \in Seq(S)
        BY <1>2, <1>3
      <4>2. \A k \in 1..Len(b) : (a \o b)[Len(a) + k] = b[k]
        BY <4>1, Joined
      <4>. QED
        BY <4>2
    <3>3. b[q] = s[i + q]
      BY <1>3
    <3>4. i + q = j + 1
      BY <1>1, <1>2, <1>5, <3>1
    <3>. QED
      BY <2>2, <3>1, <3>2, <3>3, <3>4
  <2>3. j < i \/ j >= i
    BY <1>1
  <2>. QED
    BY <2>1, <2>2, <2>3
<1>. QED
  BY <1>4, <1>6, <1>7

(* The keys in the order of a bulk answer: each of them is there.           *)
LEMMA KeyOrder ==
    /\ Cardinality(Keys) \in Nat
    /\ SetToSeq(Keys) \in [1..Cardinality(Keys) -> Keys]
    /\ \A k \in Keys : \E i \in 1..Cardinality(Keys) : SetToSeq(Keys)[i] = k
<1>. DEFINE n == Cardinality(Keys)
<1>1. n \in Nat /\ ExistsBijection(1..n, Keys)
  BY KeysAssumption, FS_CardinalityType
<1>2. IsFiniteSet(1..n) /\ Cardinality(1..n) = n
  BY <1>1, FS_Interval
<1>3. PICK f : f \in [1..n -> Keys] /\ IsInjective(f)
  BY <1>1 DEF ExistsBijection, Bijection, Injection
<1>4. SetToSeq(Keys) \in [1..n -> Keys] /\ IsInjective(SetToSeq(Keys))
  BY <1>3 DEF SetToSeq
<1>5. SetToSeq(Keys) \in Injection(1..n, Keys)
  BY <1>4 DEF Injection
<1>6. SetToSeq(Keys) \in Surjection(1..n, Keys)
  BY <1>1, <1>2, <1>5, KeysAssumption, FS_Injection
<1>. QED
  BY <1>1, <1>4, <1>6 DEF Surjection

(* A bulk answer has a chunk for each key, a single value for each key and  *)
(* ends with its only completion.                                           *)
LEMMA BulkFact ==
    ASSUME NEW n, NEW S,
           \A k \in Keys : Chunk(k, n) \in S /\ State(k) \in S, Complete(n) \in S
    PROVE  /\ Bulk(n) \in Seq(S)
           /\ \A k \in Keys : \E i \in 1..Len(Bulk(n)) : Bulk(n)[i] = Chunk(k, n)
           /\ Len(Bulk(n)) >= 1 /\ Bulk(n)[Len(Bulk(n))] = Complete(n)
           /\ \A i \in 1..Len(Bulk(n)) :
                 Bulk(n)[i].kind = "complete" => i = Len(Bulk(n))
<1>. DEFINE m == Cardinality(Keys)
            a == [i \in 1..m |-> Chunk(SetToSeq(Keys)[i], n)]
            b == [i \in 1..m |-> State(SetToSeq(Keys)[i])]
            c == <<Complete(n)>>
<1>1. m \in Nat /\ DOMAIN SetToSeq(Keys) = 1..m /\ \A i \in 1..m : SetToSeq(Keys)[i] \in Keys
  BY KeyOrder
<1>2. Bulk(n) = (a \o b) \o c
  BY <1>1 DEF Bulk, EachKey
<1>3. a \in Seq(S) /\ Len(a) = m /\ \A i \in 1..m : a[i] = Chunk(SetToSeq(Keys)[i], n)
  <2>1. a \in [1..m -> S]
    BY <1>1
  <2>. QED
    BY <1>1, <2>1
<1>4. b \in Seq(S) /\ Len(b) = m /\ \A i \in 1..m : b[i] = State(SetToSeq(Keys)[i])
  <2>1. b \in [1..m -> S]
    BY <1>1
  <2>. QED
    BY <1>1, <2>1
<1>5. c \in Seq(S) /\ Len(c) = 1 /\ c[1] = Complete(n)
  OBVIOUS
<1>. HIDE DEF a, b, c, m
<1>. DEFINE d == a \o b
            w == d \o c
<1>6. /\ d \in Seq(S) /\ Len(d) = m + m
      /\ \A i \in 1..m : d[i] = a[i]
      /\ \A i \in 1..m : d[m + i] = b[i]
  <2>1. /\ d \in Seq(S) /\ Len(d) = Len(a) + Len(b)
        /\ \A i \in 1..Len(a) : d[i] = a[i]
        /\ \A i \in 1..Len(b) : d[Len(a) + i] = b[i]
    BY <1>3, <1>4
  <2>. HIDE DEF d
  <2>. QED
    BY <1>3, <1>4, <2>1
<1>. HIDE DEF d
<1>7. /\ w \in Seq(S) /\ Len(w) = m + m + 1
      /\ \A i \in 1..m + m : w[i] = d[i]
      /\ \A i \in 1..1 : w[m + m + i] = c[i]
  <2>1. /\ w \in Seq(S) /\ Len(w) = Len(d) + Len(c)
        /\ \A i \in 1..Len(d) : w[i] = d[i]
        /\ \A i \in 1..Len(c) : w[Len(d) + i] = c[i]
    BY <1>5, <1>6, Joined
  <2>. HIDE DEF w
  <2>. QED
    BY <1>5, <1>6, <2>1
<1>. HIDE DEF w
<1>8. \A i \in 1..m : i \in 1..m + m /\ m + i \in 1..m + m
  BY <1>1
<1>10. w \in Seq(S) /\ Len(w) = m + m + 1
  BY <1>7
<1>11. \A i \in 1..m : w[i] = Chunk(SetToSeq(Keys)[i], n)
  BY <1>3, <1>6, <1>7, <1>8
<1>12. \A i \in 1..m : w[m + i] = State(SetToSeq(Keys)[i])
  BY <1>4, <1>6, <1>7, <1>8
<1>13. w[m + m + 1] = Complete(n)
  BY <1>5, <1>7
<1>14. \A k \in Keys : \E i \in 1..Len(w) : w[i] = Chunk(k, n)
  BY <1>1, <1>10, <1>11, KeyOrder DEF m
<1>15. ASSUME NEW i \in 1..Len(w), w[i].kind = "complete" PROVE i = Len(w)
  <2>1. ASSUME NEW q \in 1..m, i = q PROVE FALSE
    <3>1. w[q] = Chunk(SetToSeq(Keys)[q], n)
      BY <1>11
    <3>2. w[q].kind = "chunk"
      BY <3>1 DEF Chunk
    <3>. QED
      BY <1>15, <2>1, <3>2
  <2>2. ASSUME NEW q \in 1..m, i = m + q PROVE FALSE
    <3>1. w[m + q] = State(SetToSeq(Keys)[q])
      BY <1>12
    <3>2. w[m + q].kind = "state"
      BY <3>1 DEF State
    <3>. QED
      BY <1>15, <2>2, <3>2
  <2>3. i = m + m + 1 \/ i \in 1..m \/ (i - m \in 1..m /\ i = m + (i - m))
    BY <1>1, <1>10
  <2>. QED
    BY <1>10, <2>1, <2>2, <2>3
<1>16. Len(w) >= 1 /\ w[Len(w)] = Complete(n)
  BY <1>1, <1>10, <1>13
<1>. QED
  BY <1>2, <1>10, <1>14, <1>15, <1>16 DEF w, d

-----------------------------------------------------------------------------
(* The datagrams that exist.  A chunk says what its snapshot says; this is  *)
(* why no check of values is needed to gather a whole one.                  *)
Requests ==
    [kind : {"get-all", "meters"}] \cup [kind : {"get"}, key : Keys]
    \cup [kind : {"set"}, key : Keys, value : Values, confirmed : BOOLEAN]

Answers ==
    [kind : {"meters", "error"}] \cup [kind : {"ok"}, key : Keys]
    \cup [kind : {"state"}, key : Keys, value : Values]
    \cup [kind : {"complete"}, snap : 1..Len(snapshots)]
    \cup {m \in [kind : {"chunk"}, snap : 1..Len(snapshots), key : Keys, value : Values] :
             m.value = snapshots[m.snap][m.key]}

(* A part of a state. *)
Partial == UNION {[S -> Values] : S \in SUBSET Keys}

(* The values every variable takes, faults or not.                          *)
TypeInv ==
    /\ server \in [Keys -> Values]
    /\ snapshots \in Seq([Keys -> Values])
    /\ toServer \in Seq(Requests)
    /\ toClient \in Seq(Answers)
    /\ pc \in {"idle", "all", "ack", "read", "meters"}
    /\ call \in [key : Keys, value : Nat, attempt : Nat, snap : 0..Len(snapshots),
                 chunks : Partial \cup {<< >>}, complete : BOOLEAN]
    /\ console \in [Keys -> Values] \cup {<< >>}
    /\ outcome \in [of : {"none", "all", "write", "meters"}, ok : BOOLEAN,
                    snap : 0..Len(snapshots)]
    /\ foreign \in Nat
    /\ odd \in {"never", "before", "now"}
    /\ seen \in [clean : BOOLEAN, lost : Nat, past : SUBSET Values, failed : BOOLEAN,
                 raised : BOOLEAN]
    /\ pc # "idle" => console # << >> \/ pc = "all"

(* What an attempt has gathered is part of the one snapshot it names.       *)
Gathered ==
    call.chunks # << >> =>
        /\ call.snap # None
        /\ call.chunks = [k \in DOMAIN call.chunks |-> snapshots[call.snap][k]]

(* What get_all returned is a whole snapshot, also after later snapshots.   *)
Reported ==
    outcome.of = "all" /\ outcome.ok => outcome.snap # None /\ console = snapshots[outcome.snap]

Base == TypeInv /\ Gathered /\ Reported

(* At the start nothing was asked, gathered or reported.                    *)
LEMMA InitBase == Init => Base
<1>. SUFFICES ASSUME Init PROVE Base
  OBVIOUS
<1>1. TypeInv
  BY MasterAssumption DEF Init, TypeInv, NoCall, NoOutcome, None
<1>2. Gathered /\ Reported
  BY DEF Init, Gathered, Reported, NoCall, NoOutcome
<1>. QED
  BY <1>1, <1>2 DEF Base

(* The steps of the system, the choices of the operator resolved.           *)
LEMMA StepCases ==
    ASSUME [Next]_vars
    PROVE  \/ GetAll \/ Get \/ Meters \/ Set
           \/ BeginGetAll \/ BeginMeters
           \/ \E k \in Keys, v \in Values : BeginWrite(k, v)
           \/ TakeChunk \/ TakeComplete \/ TakeAck \/ TakeReadback \/ TakeMeters
           \/ Drop \/ Timeout \/ OtherWrite \/ Lose \/ Repeat \/ Delay
           \/ UNCHANGED vars
BY DEF Next, Server, Client, Operator, Adjust, Enter

(* What an answer may say depends only on the snapshots.                    *)
LEMMA AnswersSame == snapshots' = snapshots => Answers' = Answers
BY DEF Answers

(* A new snapshot leaves the answers of older ones as they are, and makes   *)
(* those that get-all sends possible.                                       *)
LEMMA AnswersGrow ==
    ASSUME snapshots \in Seq([Keys -> Values]), server \in [Keys -> Values],
           snapshots' = Append(snapshots, server)
    PROVE  /\ Len(snapshots') = Len(snapshots) + 1
           /\ snapshots' \in Seq([Keys -> Values])
           /\ \A i \in 1..Len(snapshots) : snapshots'[i] = snapshots[i]
           /\ Answers \subseteq Answers'
           /\ \A k \in Keys : /\ Chunk(k, Len(snapshots) + 1) \in Answers'
                              /\ State(k) \in Answers'
           /\ Complete(Len(snapshots) + 1) \in Answers'
<1>1. /\ Len(snapshots) \in Nat
      /\ Len(snapshots') = Len(snapshots) + 1
      /\ snapshots' \in Seq([Keys -> Values])
      /\ \A i \in 1..Len(snapshots) : snapshots'[i] = snapshots[i]
      /\ snapshots'[Len(snapshots) + 1] = server
  OBVIOUS
<1>2. 1..Len(snapshots) \subseteq 1..Len(snapshots')
  BY <1>1
<1>3. Answers \subseteq Answers'
  BY <1>1, <1>2 DEF Answers
<1>4. Len(snapshots) + 1 \in 1..Len(snapshots')
  BY <1>1
<1>5. \A k \in Keys : /\ Chunk(k, Len(snapshots) + 1) \in Answers'
                      /\ State(k) \in Answers'
  BY <1>1, <1>4 DEF Answers, Chunk, State
<1>6. Complete(Len(snapshots) + 1) \in Answers'
  BY <1>4 DEF Answers, Complete
<1>. QED
  BY <1>1, <1>3, <1>5, <1>6

(* A datagram that is sent goes to the end of the queue.                    *)
LEMMA Sent ==
    ASSUME NEW S, NEW s \in Seq(S), NEW x \in S
    PROVE  Append(s, x) \in Seq(S) /\ Len(Append(s, x)) = Len(s) + 1 /\ Len(s) \in Nat
  OBVIOUS

(* What the server handles is a request of the kind it handles.             *)
LEMMA HeadRequest ==
    ASSUME Base, NEW kind, Asked(kind)
    PROVE  /\ Request \in Requests /\ Request.kind = kind
           /\ Tail(toServer) \in Seq(Requests)
<1>1. toServer \in Seq(Requests) /\ toServer # <<>>
  BY DEF Base, TypeInv, Asked
<1>2. Request \in Requests /\ Tail(toServer) \in Seq(Requests)
  BY <1>1, Taken DEF Request
<1>. QED
  BY <1>2 DEF Asked

(* A step that touches neither the snapshots nor the call, its outcome and  *)
(* the console keeps what was gathered and reported.                        *)
LEMMA SameGathered ==
    ASSUME Gathered, Reported, UNCHANGED <<snapshots, call, console, outcome>>
    PROVE  Gathered' /\ Reported'
BY DEF Gathered, Reported

(* No handler of the server disturbs the types, what is gathered or what    *)
(* was reported.                                                            *)
LEMMA ServerBase ==
    ASSUME Base, GetAll \/ Get \/ Meters \/ Set
    PROVE  Base'
<1>. USE DEF Base
<1>1. CASE GetAll
  <2>1. /\ snapshots' = Append(snapshots, server)
        /\ UNCHANGED <<server, seen, pc, call, console, outcome, foreign, odd>>
        /\ toServer' = Tail(toServer)
        /\ toClient' = toClient \o Bulk(Len(snapshots) + 1)
        /\ Asked("get-all")
    BY <1>1 DEF GetAll, Replies, Aside
  <2>2. snapshots \in Seq([Keys -> Values]) /\ server \in [Keys -> Values]
    BY DEF TypeInv
  <2>3. /\ Len(snapshots) \in Nat /\ Len(snapshots') = Len(snapshots) + 1
        /\ snapshots' \in Seq([Keys -> Values])
        /\ \A i \in 1..Len(snapshots) : snapshots'[i] = snapshots[i]
    BY <2>1, <2>2, AnswersGrow
  <2>4. toClient' \in Seq(Answers')
    <3>1. \A i \in 1..Len(toClient) : toClient[i] \in Answers'
      BY <2>1, <2>2, AnswersGrow DEF TypeInv
    <3>2. toClient \in Seq(Answers')
      BY <3>1, SeqElements DEF TypeInv
    <3>3. Bulk(Len(snapshots) + 1) \in Seq(Answers')
      BY <2>1, <2>2, AnswersGrow, BulkFact
    <3>. QED
      BY <2>1, <3>2, <3>3, Joined
  <2>5. toServer' \in Seq(Requests)
    BY <2>1, HeadRequest
  <2>6. 0..Len(snapshots) \subseteq 0..Len(snapshots')
    BY <2>3
  <2>7. TypeInv'
    <3>1. /\ call' \in [key : Keys, value : Nat, attempt : Nat, snap : 0..Len(snapshots'),
                        chunks : Partial \cup {<< >>}, complete : BOOLEAN]
          /\ outcome' \in [of : {"none", "all", "write", "meters"}, ok : BOOLEAN,
                           snap : 0..Len(snapshots')]
      BY <2>1, <2>6 DEF TypeInv
    <3>. QED
      BY <2>1, <2>3, <2>4, <2>5, <3>1 DEF TypeInv
  <2>8. call.snap \in 0..Len(snapshots) /\ outcome.snap \in 0..Len(snapshots)
    BY DEF TypeInv
  <2>9. Gathered'
    <3>1. call.snap # None => snapshots'[call.snap] = snapshots[call.snap]
      BY <2>3, <2>8 DEF None
    <3>. QED
      BY <2>1, <3>1 DEF Gathered
  <2>10. Reported'
    <3>1. outcome.snap # None => snapshots'[outcome.snap] = snapshots[outcome.snap]
      BY <2>3, <2>8 DEF None
    <3>. QED
      BY <2>1, <3>1 DEF Reported
  <2>. QED
    BY <2>7, <2>9, <2>10
<1>2. ASSUME NEW rs \in Seq(Answers), Replies(rs), UNCHANGED <<snapshots, server, seen>>, Aside,
             NEW kind, Asked(kind)
      PROVE  Base'
  <2>1. toServer' \in Seq(Requests)
    BY <1>2, HeadRequest DEF Replies
  <2>2. toClient' \in Seq(Answers')
    BY <1>2, Joined, AnswersSame DEF Replies, TypeInv
  <2>3. TypeInv'
    BY <1>2, <2>1, <2>2 DEF Aside, TypeInv
  <2>. QED
    BY <1>2, <2>3, SameGathered DEF Aside
<1>3. CASE Get
  <2>1. Request \in Requests /\ Request.kind = "get"
    BY <1>3, HeadRequest DEF Get
  <2>2. Request.key \in Keys
    BY <2>1 DEF Requests
  <2>3. State(Request.key) \in Answers
    BY <2>2 DEF State, Answers, TypeInv
  <2>4. <<State(Request.key)>> \in Seq(Answers)
    BY <2>3
  <2>. QED
    BY <1>2, <1>3, <2>4 DEF Get
<1>4. CASE Meters
  <2>1. <<[kind |-> "meters"]>> \in Seq(Answers)
    BY DEF Answers
  <2>. QED
    BY <1>2, <1>4, <2>1 DEF Meters
<1>5. CASE Set
  <2>1. Request \in Requests /\ Request.kind = "set" /\ Tail(toServer) \in Seq(Requests)
    BY <1>5, HeadRequest DEF Set
  <2>2. Request.key \in Keys /\ Request.value \in Values
    BY <2>1 DEF Requests
  <2>3. CASE Replies(<<[kind |-> "error"]>>) /\ UNCHANGED <<server, seen>>
    <3>1. <<[kind |-> "error"]>> \in Seq(Answers)
      BY DEF Answers
    <3>. QED
      BY <1>2, <1>5, <2>3, <3>1 DEF Set
  <2>4. CASE /\ server' = [server EXCEPT ![Request.key] = Request.value]
             /\ seen' = [seen EXCEPT !.past = IF Request.key = call.key THEN @ \cup {Request.value} ELSE @,
                                     !.raised = @ \/ (/\ Request.key = Master /\ ~Request.confirmed
                                                      /\ Request.value > server[Master])]
             /\ Replies(<<[kind |-> "ok", key |-> Request.key]>>)
    <3>1. <<[kind |-> "ok", key |-> Request.key]>> \in Seq(Answers)
      BY <2>2 DEF Answers
    <3>2. toServer' \in Seq(Requests)
      BY <2>1, <2>4 DEF Replies
    <3>3. snapshots' = snapshots /\ Aside
      BY <1>5 DEF Set
    <3>4. toClient' \in Seq(Answers')
      BY <2>4, <3>1, <3>3, Joined, AnswersSame DEF Replies, TypeInv
    <3>5. server' \in [Keys -> Values]
      BY <2>2, <2>4 DEF TypeInv
    <3>6. seen' \in [clean : BOOLEAN, lost : Nat, past : SUBSET Values, failed : BOOLEAN,
                     raised : BOOLEAN]
      BY <2>2, <2>4 DEF TypeInv
    <3>7. TypeInv'
      BY <3>2, <3>3, <3>4, <3>5, <3>6 DEF Aside, TypeInv
    <3>. QED
      BY <3>3, <3>7, SameGathered DEF Aside
  <2>. QED
    BY <1>5, <2>3, <2>4 DEF Set
<1>. QED
  BY <1>1, <1>3, <1>4, <1>5

(* The request of a write is a request.                                     *)
LEMMA SetRequest ==
    ASSUME NEW k \in Keys, NEW v \in Values
    PROVE  [kind |-> "set", key |-> k, value |-> v, confirmed |-> Increases(k, v)] \in Requests
<1>1. ASSUME NEW b \in BOOLEAN
      PROVE  [kind |-> "set", key |-> k, value |-> v, confirmed |-> b] \in Requests
  BY DEF Requests
<1>2. Increases(k, v) \in BOOLEAN
  BY DEF Increases
<1>. QED
  BY <1>1, <1>2

(* Nor does the begin of a call.                                            *)
LEMMA BeginBase ==
    ASSUME Base, \/ BeginGetAll \/ BeginMeters
                 \/ \E k \in Keys, v \in Values : BeginWrite(k, v)
    PROVE  Base'
<1>. USE DEF Base
<1>1. ASSUME NEW key \in Keys, NEW stale, Begin(key, stale),
             NEW r \in Requests, Sends(r),
             call' \in [key : Keys, value : Nat, attempt : Nat, snap : {None},
                        chunks : {<< >>}, complete : {FALSE}],
             pc' \in {"all", "ack", "meters"}, pc' = "all" \/ console # << >>
      PROVE  Base'
  <2>1. toServer' \in Seq(Requests)
    BY <1>1, Sent DEF Sends, TypeInv
  <2>2. snapshots' = snapshots /\ toClient' \in Seq(Answers')
    BY <1>1, AnswersSame DEF Begin, TypeInv
  <2>3. Len(snapshots) \in Nat
    BY DEF TypeInv
  <2>4. call' \in [key : Keys, value : Nat, attempt : Nat, snap : 0..Len(snapshots'),
                   chunks : Partial \cup {<< >>}, complete : BOOLEAN]
    <3>1. {None} \subseteq 0..Len(snapshots') /\ FALSE \in BOOLEAN
      BY <2>2, <2>3 DEF None
    <3>. QED
      BY <1>1, <3>1
  <2>5. outcome' \in [of : {"none", "all", "write", "meters"}, ok : BOOLEAN,
                      snap : 0..Len(snapshots')]
    BY <1>1, <2>2, <2>3 DEF Begin, NoOutcome, None
  <2>6. seen' \in [clean : BOOLEAN, lost : Nat, past : SUBSET Values, failed : BOOLEAN,
                   raised : BOOLEAN]
    <3>1. server[key] \in Values
      BY DEF TypeInv
    <3>2. seen \in [clean : BOOLEAN, lost : Nat, past : SUBSET Values, failed : BOOLEAN,
                    raised : BOOLEAN]
      BY DEF TypeInv
    <3>. DEFINE c == /\ toServer = <<>>
                     /\ \A i \in DOMAIN toClient : toClient[i].kind \notin stale
    <3>3. c \in BOOLEAN
      OBVIOUS
    <3>4. seen' = [seen EXCEPT !.lost = 0, !.past = {server[key]}, !.clean = c]
      BY <1>1 DEF Begin
    <3>. HIDE DEF c
    <3>. QED
      BY <3>1, <3>2, <3>3, <3>4
  <2>7. odd' \in {"never", "before", "now"} /\ UNCHANGED <<server, console, foreign>>
    BY <1>1 DEF Begin, TypeInv
  <2>8. TypeInv'
    BY <1>1, <2>1, <2>2, <2>4, <2>5, <2>6, <2>7 DEF TypeInv
  <2>9. Gathered' /\ Reported'
    BY <1>1 DEF Gathered, Reported, Begin, NoOutcome
  <2>. QED
    BY <2>8, <2>9
<1>2. CASE BeginGetAll
  <2>1. [kind |-> "get-all"] \in Requests
    BY DEF Requests
  <2>2. call' \in [key : Keys, value : Nat, attempt : Nat, snap : {None},
                   chunks : {<< >>}, complete : {FALSE}]
    BY <1>2, MasterAssumption DEF BeginGetAll, NoCall
  <2>. QED
    BY <1>1, <1>2, <2>1, <2>2, MasterAssumption DEF BeginGetAll
<1>3. CASE BeginMeters
  <2>1. [kind |-> "meters"] \in Requests
    BY DEF Requests
  <2>2. call' \in [key : Keys, value : Nat, attempt : Nat, snap : {None},
                   chunks : {<< >>}, complete : {FALSE}]
    BY <1>3, MasterAssumption DEF BeginMeters, NoCall
  <2>. QED
    BY <1>1, <1>3, <2>1, <2>2, MasterAssumption DEF BeginMeters
<1>4. ASSUME NEW k \in Keys, NEW v \in Values, BeginWrite(k, v) PROVE Base'
  <2>2. [kind |-> "set", key |-> k, value |-> v, confirmed |-> Increases(k, v)] \in Requests
    BY SetRequest
  <2>3. call' \in [key : Keys, value : Nat, attempt : Nat, snap : {None},
                   chunks : {<< >>}, complete : {FALSE}]
    BY <1>4, ValuesAssumption DEF BeginWrite, NoCall
  <2>. QED
    BY <1>1, <1>4, <2>2, <2>3 DEF BeginWrite
<1>. QED
  BY <1>2, <1>3, <1>4

(* What the console takes is an answer of the kind it takes.                *)
LEMMA MessageFact ==
    ASSUME Base, NEW kind, Takes(kind)
    PROVE  /\ Message \in Answers /\ Message.kind = kind
           /\ toClient' \in Seq(Answers)
<1>1. toClient \in Seq(Answers) /\ toClient # <<>>
  BY DEF Base, TypeInv, Takes
<1>2. Message \in Answers /\ Tail(toClient) \in Seq(Answers)
  BY <1>1, Taken DEF Message
<1>. QED
  BY <1>2 DEF Takes, Message

(* The types after a step of the console, from those of what it changes.    *)
LEMMA ClientTypes ==
    ASSUME TypeInv, UNCHANGED <<server, snapshots, foreign>>,
           toServer' \in Seq(Requests), toClient' \in Seq(Answers),
           odd' \in {"never", "before", "now"},
           pc' \in {"idle", "all", "ack", "read", "meters"},
           call' \in [key : Keys, value : Nat, attempt : Nat, snap : 0..Len(snapshots),
                      chunks : Partial \cup {<< >>}, complete : BOOLEAN],
           console' \in [Keys -> Values] \cup {<< >>},
           outcome' \in [of : {"none", "all", "write", "meters"}, ok : BOOLEAN,
                         snap : 0..Len(snapshots)],
           seen' \in [clean : BOOLEAN, lost : Nat, past : SUBSET Values, failed : BOOLEAN,
                      raised : BOOLEAN],
           pc' # "idle" => console' # << >> \/ pc' = "all"
    PROVE  TypeInv'
BY AnswersSame DEF TypeInv

(* A call that ends leaves the idle call, its outcome and nothing gathered. *)
LEMMA EndsFact ==
    ASSUME TypeInv, NEW what \in {"all", "write", "meters"}, NEW ok \in BOOLEAN,
           NEW n \in 0..Len(snapshots), Ends(what, ok, n)
    PROVE  /\ pc' = "idle"
           /\ call' \in [key : Keys, value : Nat, attempt : Nat, snap : 0..Len(snapshots),
                         chunks : Partial \cup {<< >>}, complete : BOOLEAN]
           /\ call'.chunks = << >>
           /\ outcome' \in [of : {"none", "all", "write", "meters"}, ok : BOOLEAN,
                            snap : 0..Len(snapshots)]
           /\ outcome'.of = what /\ outcome'.ok = ok /\ outcome'.snap = n
           /\ seen' \in [clean : BOOLEAN, lost : Nat, past : SUBSET Values, failed : BOOLEAN,
                         raised : BOOLEAN]
<1>1. Len(snapshots) \in Nat
  BY DEF TypeInv
<1>2. call' = NoCall /\ outcome' = [of |-> what, ok |-> ok, snap |-> n] /\ pc' = "idle"
  BY DEF Ends
<1>3. call' \in [key : Keys, value : Nat, attempt : Nat, snap : 0..Len(snapshots),
                 chunks : Partial \cup {<< >>}, complete : BOOLEAN]
  BY <1>1, <1>2, MasterAssumption DEF NoCall, None
<1>4. seen' \in [clean : BOOLEAN, lost : Nat, past : SUBSET Values, failed : BOOLEAN,
                 raised : BOOLEAN]
  <2>1. seen' = [seen EXCEPT !.failed = @ \/ (what = "write" /\ ~ok)]
    BY DEF Ends
  <2>. QED
    BY <2>1 DEF TypeInv
<1>. QED
  BY <1>2, <1>3, <1>4 DEF NoCall

(* The next attempt begins with nothing gathered.                           *)
LEMMA NextAttemptFact ==
    ASSUME Len(snapshots) \in Nat, call.attempt + 1 \in Nat
    PROVE  /\ NextAttempt \in [key : Keys, value : Nat, attempt : Nat, snap : 0..Len(snapshots),
                              chunks : Partial \cup {<< >>}, complete : BOOLEAN]
           /\ NextAttempt.chunks = << >>
           /\ NextAttempt.snap = None
           /\ ~NextAttempt.complete
           /\ NextAttempt.attempt = call.attempt + 1
<1>1. NoCall \in [key : Keys, value : Nat, attempt : Nat, snap : {0},
                  chunks : {<< >>}, complete : {FALSE}]
  BY MasterAssumption DEF NoCall, None
<1>2. NextAttempt \in [key : Keys, value : Nat, attempt : Nat, snap : {0},
                       chunks : {<< >>}, complete : {FALSE}]
  BY <1>1 DEF NextAttempt
<1>3. NextAttempt.attempt = call.attempt + 1
  BY <1>1 DEF NextAttempt
<1>4. 0 \in 0..Len(snapshots) /\ FALSE \in BOOLEAN
  OBVIOUS
<1>. QED
  BY <1>2, <1>3, <1>4 DEF None

(* An attempt that fails is followed by one that has gathered nothing, or   *)
(* by a failure.                                                            *)
LEMMA AttemptFailsFact ==
    ASSUME TypeInv, AttemptFails
    PROVE  /\ pc' \in {"idle", "all"}
           /\ toServer' \in Seq(Requests)
           /\ call' \in [key : Keys, value : Nat, attempt : Nat, snap : 0..Len(snapshots),
                         chunks : Partial \cup {<< >>}, complete : BOOLEAN]
           /\ call'.chunks = << >>
           /\ console' = console
           /\ outcome' \in [of : {"none", "all", "write", "meters"}, ok : BOOLEAN,
                            snap : 0..Len(snapshots)]
           /\ outcome' = outcome \/ ~outcome'.ok
           /\ seen' \in [clean : BOOLEAN, lost : Nat, past : SUBSET Values, failed : BOOLEAN,
                         raised : BOOLEAN]
<1>1. Len(snapshots) \in Nat /\ call.attempt + 1 \in Nat
  BY DEF TypeInv
<1>2. CASE call.attempt < Retries
  <2>1. /\ pc' = "all" /\ call' = NextAttempt /\ Sends([kind |-> "get-all"])
        /\ UNCHANGED <<outcome, seen, console>>
    BY <1>2 DEF AttemptFails
  <2>2. [kind |-> "get-all"] \in Requests
    BY DEF Requests
  <2>3. toServer' \in Seq(Requests)
    BY <2>1, <2>2, Sent DEF Sends, TypeInv
  <2>4. NextAttempt \in [key : Keys, value : Nat, attempt : Nat, snap : 0..Len(snapshots),
                         chunks : Partial \cup {<< >>}, complete : BOOLEAN]
        /\ NextAttempt.chunks = << >>
    BY <1>1, NextAttemptFact
  <2>. QED
    BY <2>1, <2>3, <2>4 DEF TypeInv
<1>3. CASE ~(call.attempt < Retries)
  <2>1. Ends("all", FALSE, None) /\ UNCHANGED <<toServer, console>>
    BY <1>3 DEF AttemptFails
  <2>2. None \in 0..Len(snapshots)
    BY <1>1 DEF None
  <2>. QED
    BY <2>1, <2>2, EndsFact DEF TypeInv
<1>. QED
  BY <1>2, <1>3

(* So it disturbs nothing that was reported.                                *)
LEMMA AttemptFailsBase ==
    ASSUME Base, AttemptFails, UNCHANGED <<server, snapshots, foreign>>,
           odd' \in {"never", "before", "now"}, toClient' \in Seq(Answers)
    PROVE  Base'
<1>. USE DEF Base
<1>1. TypeInv'
  <2>1. console' \in [Keys -> Values] \cup {<< >>}
    BY AttemptFailsFact DEF TypeInv
  <2>2. pc' # "idle" => console' # << >> \/ pc' = "all"
    BY AttemptFailsFact
  <2>. QED
    BY <2>1, <2>2, ClientTypes, AttemptFailsFact
<1>2. Gathered'
  BY AttemptFailsFact DEF Gathered
<1>3. Reported'
  <2>1. outcome' = outcome \/ ~outcome'.ok
    BY AttemptFailsFact
  <2>2. console' = console
    BY AttemptFailsFact
  <2>. QED
    BY <2>1, <2>2 DEF Reported
<1>. QED
  BY <1>1, <1>2, <1>3

(* What an attempt has gathered, c, is the call or the whole answer.        *)
LEMMA WithBase ==
    ASSUME Base, pc = "all", UNCHANGED <<server, snapshots, foreign, odd, toServer>>,
           toClient' \in Seq(Answers),
           NEW c \in [key : Keys, value : Nat, attempt : Nat, snap : 1..Len(snapshots),
                      chunks : Partial \cup {<< >>}, complete : BOOLEAN],
           c.chunks # << >> => c.chunks = [k \in DOMAIN c.chunks |-> snapshots[c.snap][k]],
           With(c)
    PROVE  Base'
<1>. USE DEF Base
<1>1. Len(snapshots) \in Nat /\ 1..Len(snapshots) \subseteq 0..Len(snapshots)
      /\ c.snap # None
  BY DEF TypeInv, None
<1>2. CASE c.complete /\ DOMAIN c.chunks = Keys
  <2>1. Ends("all", TRUE, c.snap) /\ console' = c.chunks
    BY <1>2 DEF With
  <2>2. c.chunks # << >>
    BY <1>2, MasterAssumption
  <2>3. snapshots[c.snap] \in [Keys -> Values]
    BY DEF TypeInv
  <2>4. c.chunks = [k \in Keys |-> snapshots[c.snap][k]]
    BY <1>2, <2>2
  <2>5. c.chunks = snapshots[c.snap]
    BY <2>3, <2>4
  <2>6. /\ pc' = "idle" /\ call'.chunks = << >>
        /\ outcome'.of = "all" /\ outcome'.ok /\ outcome'.snap = c.snap
    BY <1>1, <2>1, EndsFact
  <2>7. TypeInv'
    <3>1. console' \in [Keys -> Values] \cup {<< >>}
      BY <2>1, <2>3, <2>5
    <3>2. toServer' \in Seq(Requests) /\ odd' \in {"never", "before", "now"}
      BY DEF TypeInv
    <3>3. c.snap \in 0..Len(snapshots)
      BY <1>1
    <3>. QED
      BY <2>1, <2>6, <3>1, <3>2, <3>3, ClientTypes, EndsFact
  <2>8. Gathered' /\ Reported'
    BY <1>1, <2>1, <2>5, <2>6 DEF Gathered, Reported
  <2>. QED
    BY <2>7, <2>8
<1>3. CASE ~(c.complete /\ DOMAIN c.chunks = Keys)
  <2>1. call' = c /\ UNCHANGED <<pc, outcome, console, seen>>
    BY <1>3 DEF With
  <2>2. TypeInv'
    <3>1. call' \in [key : Keys, value : Nat, attempt : Nat, snap : 0..Len(snapshots),
                     chunks : Partial \cup {<< >>}, complete : BOOLEAN]
      BY <1>1, <2>1
    <3>. QED
      BY <2>1, <3>1, ClientTypes DEF TypeInv
  <2>3. Gathered' /\ Reported'
    BY <1>1, <2>1 DEF Gathered, Reported
  <2>. QED
    BY <2>2, <2>3
<1>. QED
  BY <1>2, <1>3

(* What is gathered is of the published controls.                           *)
LEMMA ChunkKeys ==
    ASSUME TypeInv
    PROVE  DOMAIN call.chunks \subseteq Keys
<1>1. call.chunks \in Partial \cup {<< >>}
  BY DEF TypeInv
<1>2. CASE call.chunks = << >>
  <2>1. << >> \in Seq(Keys) /\ Len(<< >>) = 0
    BY EmptySeq
  <2>2. DOMAIN << >> = 1..0
    BY <2>1, LenProperties
  <2>. QED
    BY <1>2, <2>2
<1>3. CASE call.chunks \in Partial
  BY <1>3 DEF Partial
<1>. QED
  BY <1>1, <1>2, <1>3

(* The call after a chunk of the snapshot that it is gathering.             *)
WithChunk ==
    [call EXCEPT !.snap = Message.snap,
                 !.chunks = [k \in DOMAIN @ \cup {Message.key} |->
                                IF k = Message.key THEN Message.value ELSE @[k]]]

(* A chunk of the snapshot that is gathered adds a value of that snapshot.  *)
LEMMA WithChunkFact ==
    ASSUME Base, Takes("chunk"), Fits
    PROVE  /\ Message.snap \in 1..Len(snapshots) /\ Message.key \in Keys
           /\ Message.value = snapshots[Message.snap][Message.key]
           /\ WithChunk \in [key : Keys, value : Nat, attempt : Nat, snap : 1..Len(snapshots),
                             chunks : Partial \cup {<< >>}, complete : BOOLEAN]
           /\ WithChunk.snap = Message.snap
           /\ WithChunk.complete = call.complete
           /\ WithChunk.attempt = call.attempt
           /\ DOMAIN WithChunk.chunks = DOMAIN call.chunks \cup {Message.key}
           /\ WithChunk.chunks
                 = [k \in DOMAIN WithChunk.chunks |-> snapshots[Message.snap][k]]
<1>. USE DEF Base
<1>1. Message \in Answers /\ Message.kind = "chunk"
  BY MessageFact
<1>2. /\ Message.snap \in 1..Len(snapshots) /\ Message.key \in Keys
      /\ Message.value = snapshots[Message.snap][Message.key]
  BY <1>1 DEF Answers
<1>3. DOMAIN call.chunks \subseteq Keys
  BY ChunkKeys
<1>. DEFINE old == call.chunks
            new == [k \in DOMAIN old \cup {Message.key} |->
                       IF k = Message.key THEN Message.value ELSE old[k]]
<1>4. WithChunk = [call EXCEPT !.snap = Message.snap, !.chunks = new]
  BY DEF WithChunk
<1>5. \A k \in DOMAIN old : old[k] = snapshots[Message.snap][k]
  <2>1. CASE old = << >>
    BY <2>1
  <2>2. CASE old # << >>
    BY <2>2, <1>2 DEF Gathered, Fits
  <2>. QED
    BY <2>1, <2>2
<1>6. DOMAIN new = DOMAIN old \cup {Message.key}
  OBVIOUS
<1>7. new = [k \in DOMAIN old \cup {Message.key} |-> snapshots[Message.snap][k]]
  BY <1>2, <1>5
<1>8. new \in Partial
  <2>1. snapshots[Message.snap] \in [Keys -> Values]
    BY <1>2 DEF TypeInv
  <2>2. DOMAIN old \cup {Message.key} \subseteq Keys
    BY <1>2, <1>3
  <2>3. \A k \in DOMAIN old \cup {Message.key} : snapshots[Message.snap][k] \in Values
    BY <2>1, <2>2
  <2>4. new \in [DOMAIN old \cup {Message.key} -> Values]
    BY <1>7, <2>3
  <2>. HIDE DEF new, old
  <2>. QED
    BY <2>2, <2>4 DEF Partial
<1>. HIDE DEF new
<1>9. /\ WithChunk.snap = Message.snap /\ WithChunk.chunks = new
      /\ WithChunk.complete = call.complete /\ WithChunk.attempt = call.attempt
  BY <1>4 DEF TypeInv
<1>10. WithChunk \in [key : Keys, value : Nat, attempt : Nat, snap : 1..Len(snapshots),
                      chunks : Partial \cup {<< >>}, complete : BOOLEAN]
  BY <1>2, <1>4, <1>8 DEF TypeInv
<1>. QED
  BY <1>2, <1>6, <1>7, <1>9, <1>10

(* A datagram of a bulk answer keeps the gathered part a part of one        *)
(* snapshot.                                                                *)
LEMMA TakesAnswersBase ==
    ASSUME Base, TakeChunk \/ TakeComplete
    PROVE  Base'
<1>. USE DEF Base
<1>1. CASE TakeChunk
  <2>1. pc = "all" /\ Takes("chunk") /\ UNCHANGED <<server, snapshots, foreign, odd>>
    BY <1>1 DEF TakeChunk, Unserved
  <2>2. toClient' \in Seq(Answers)
    BY <2>1, MessageFact
  <2>3. CASE Fits /\ With(WithChunk) /\ UNCHANGED toServer
    <3>1. WithChunk \in [key : Keys, value : Nat, attempt : Nat, snap : 1..Len(snapshots),
                         chunks : Partial \cup {<< >>}, complete : BOOLEAN]
      BY <2>1, <2>3, WithChunkFact
    <3>2. WithChunk.chunks = [k \in DOMAIN WithChunk.chunks |-> snapshots[WithChunk.snap][k]]
      BY <2>1, <2>3, WithChunkFact
    <3>. QED
      BY <2>1, <2>2, <2>3, <3>1, <3>2, WithBase
  <2>4. CASE AttemptFails
    BY <2>1, <2>2, <2>4, AttemptFailsBase DEF TypeInv
  <2>. QED
    BY <1>1, <2>3, <2>4 DEF TakeChunk, WithChunk
<1>2. CASE TakeComplete
  <2>1. pc = "all" /\ Takes("complete") /\ UNCHANGED <<server, snapshots, foreign, odd>>
    BY <1>2 DEF TakeComplete, Unserved
  <2>2. toClient' \in Seq(Answers)
    BY <2>1, MessageFact
  <2>. DEFINE c == [call EXCEPT !.snap = Message.snap, !.complete = TRUE]
  <2>3. CASE Fits /\ With(c) /\ UNCHANGED toServer
    <3>1. Message.snap \in 1..Len(snapshots)
      <4>1. Message \in Answers /\ Message.kind = "complete"
        BY <2>1, MessageFact
      <4>. QED
        BY <4>1 DEF Answers
    <3>2. c \in [key : Keys, value : Nat, attempt : Nat, snap : 1..Len(snapshots),
                 chunks : Partial \cup {<< >>}, complete : BOOLEAN]
          /\ c.chunks = call.chunks /\ c.snap = Message.snap
      BY <3>1 DEF TypeInv
    <3>. HIDE DEF c
    <3>3. c.chunks # << >> => c.chunks = [k \in DOMAIN c.chunks |-> snapshots[c.snap][k]]
      BY <2>3, <3>2 DEF Gathered, Fits
    <3>. QED
      BY <2>1, <2>2, <2>3, <3>2, <3>3, WithBase
  <2>4. CASE AttemptFails
    BY <2>1, <2>2, <2>4, AttemptFailsBase DEF TypeInv
  <2>. QED
    BY <1>2, <2>3, <2>4 DEF TakeComplete
<1>. QED
  BY <1>1, <1>2

(* The end of a call other than get_all.                                    *)
LEMMA EndsBase ==
    ASSUME Base, UNCHANGED <<server, snapshots, foreign, toServer>>,
           odd' \in {"never", "before", "now"}, toClient' \in Seq(Answers),
           console' \in [Keys -> Values] \cup {<< >>},
           NEW what \in {"write", "meters"}, NEW ok \in BOOLEAN, Ends(what, ok, None)
    PROVE  Base'
<1>1. None \in 0..Len(snapshots)
  BY DEF Base, TypeInv, None
<1>2. TypeInv'
  <2>1. TypeInv
    BY DEF Base
  <2>2. /\ pc' = "idle"
        /\ call' \in [key : Keys, value : Nat, attempt : Nat, snap : 0..Len(snapshots),
                      chunks : Partial \cup {<< >>}, complete : BOOLEAN]
        /\ outcome' \in [of : {"none", "all", "write", "meters"}, ok : BOOLEAN,
                         snap : 0..Len(snapshots)]
        /\ seen' \in [clean : BOOLEAN, lost : Nat, past : SUBSET Values, failed : BOOLEAN,
                      raised : BOOLEAN]
    <3>1. what \in {"all", "write", "meters"}
      OBVIOUS
    <3>. QED
      BY <1>1, <2>1, <3>1, EndsFact
  <2>3. toServer' \in Seq(Requests)
    BY <2>1 DEF TypeInv
  <2>. QED
    BY <2>1, <2>2, <2>3, ClientTypes
<1>3. Gathered' /\ Reported'
  BY <1>1, EndsFact DEF Base, Gathered, Reported
<1>. QED
  BY <1>2, <1>3 DEF Base

(* The other datagrams that the console takes, and those it drops.          *)
LEMMA TakesBase ==
    ASSUME Base, TakeAck \/ TakeReadback \/ TakeMeters \/ Drop
    PROVE  Base'
<1>. USE DEF Base
<1>1. CASE TakeAck
  <2>1. /\ pc = "ack" /\ UNCHANGED <<server, snapshots, foreign, odd, console>>
        /\ Takes("ok") \/ Takes("error")
    BY <1>1 DEF TakeAck, Unserved
  <2>2. toClient' \in Seq(Answers) /\ console # << >>
    BY <2>1, MessageFact DEF TypeInv
  <2>3. CASE pc' = "read" /\ Sends([kind |-> "get", key |-> call.key])
             /\ UNCHANGED <<call, outcome, seen>>
    <3>1. [kind |-> "get", key |-> call.key] \in Requests
      BY DEF Requests, TypeInv
    <3>2. toServer' \in Seq(Requests)
      BY <2>3, <3>1, Sent DEF Sends, TypeInv
    <3>3. TypeInv'
      BY <2>1, <2>2, <2>3, <3>2, ClientTypes DEF TypeInv
    <3>. QED
      BY <2>1, <2>3, <3>3, SameGathered
  <2>4. CASE Ends("write", FALSE, None) /\ UNCHANGED toServer
    <3>. QED
      BY <2>1, <2>2, <2>4, EndsBase DEF TypeInv
  <2>. QED
    BY <1>1, <2>3, <2>4 DEF TakeAck
<1>2. CASE TakeReadback
  <2>1. /\ pc = "read" /\ UNCHANGED <<server, snapshots, foreign, odd, toServer>>
        /\ Takes("state") \/ Takes("error")
    BY <1>2 DEF TakeReadback, Unserved
  <2>2. toClient' \in Seq(Answers) /\ console \in [Keys -> Values]
    BY <2>1, MessageFact DEF TypeInv
  <2>3. CASE Takes("state") /\ Shown(Message.value) /\ Ends("write", TRUE, None)
    <3>1. Message \in Answers /\ Message.kind = "state"
      BY <2>3, MessageFact
    <3>2. Message.value \in Values
      BY <3>1 DEF Answers
    <3>3. console' \in [Keys -> Values]
      BY <2>2, <2>3, <3>2 DEF Shown
    <3>. QED
      BY <2>1, <2>2, <2>3, <3>3, EndsBase DEF TypeInv
  <2>4. CASE Ends("write", FALSE, None) /\ UNCHANGED console
    BY <2>1, <2>2, <2>4, EndsBase DEF TypeInv
  <2>. QED
    BY <1>2, <2>3, <2>4 DEF TakeReadback
<1>3. CASE TakeMeters
  <2>1. /\ Takes("meters") /\ Ends("meters", TRUE, None)
        /\ UNCHANGED <<server, snapshots, foreign, odd, toServer, console>>
    BY <1>3 DEF TakeMeters, Unserved
  <2>. QED
    BY <2>1, MessageFact, EndsBase DEF TypeInv
<1>4. CASE Drop
  <2>1. toClient # <<>> /\ toClient' = Tail(toClient)
    BY <1>4 DEF Drop
  <2>2. toClient' \in Seq(Answers)
    BY <2>1, Taken DEF TypeInv
  <2>3. UNCHANGED <<server, snapshots, foreign, toServer, pc, call, console, outcome, odd, seen>>
    BY <1>4 DEF Drop
  <2>4. TypeInv'
    BY <2>2, <2>3, AnswersSame DEF TypeInv
  <2>. QED
    BY <2>3, <2>4, SameGathered
<1>. QED
  BY <1>1, <1>2, <1>3, <1>4

(* A time-out ends the attempt or the call.                                 *)
LEMMA TimeoutBase ==
    ASSUME Base, Timeout
    PROVE  Base'
<1>1. /\ odd' \in {"never", "before", "now"} /\ toClient' \in Seq(Answers)
      /\ UNCHANGED <<server, snapshots, foreign>>
  BY DEF Timeout, Base, TypeInv
<1>2. pc \in {"all", "ack", "read", "meters"}
  BY DEF Timeout, Base, TypeInv
<1>3. CASE pc = "all"
  BY <1>1, <1>3, AttemptFailsBase DEF Timeout
<1>4. CASE pc \in {"ack", "read"}
  <2>1. Ends("write", FALSE, None) /\ UNCHANGED <<toServer, console>>
    BY <1>4 DEF Timeout
  <2>. QED
    BY <1>1, <2>1, EndsBase DEF Base, TypeInv
<1>5. CASE pc = "meters"
  <2>1. Ends("meters", FALSE, None) /\ UNCHANGED <<toServer, console>>
    BY <1>5 DEF Timeout
  <2>. QED
    BY <1>1, <2>1, EndsBase DEF Base, TypeInv
<1>. QED
  BY <1>2, <1>3, <1>4, <1>5

(* Other clients and the network touch neither the call nor what was        *)
(* reported.                                                                *)
LEMMA NetworkBase ==
    ASSUME Base, OtherWrite \/ Lose \/ Repeat \/ Delay
    PROVE  Base'
<1>. USE DEF Base
<1>1. CASE OtherWrite
  <2>1. PICK k \in Keys, v \in Values :
           /\ server' = [server EXCEPT ![k] = v]
           /\ seen' = [seen EXCEPT !.past = IF k = call.key THEN @ \cup {v} ELSE @]
    BY <1>1 DEF OtherWrite
  <2>2. /\ UNCHANGED <<snapshots, toServer, toClient, pc, call, console, outcome, odd>>
        /\ foreign' = foreign + 1
    BY <1>1 DEF OtherWrite
  <2>3. /\ server' \in [Keys -> Values]
        /\ seen' \in [clean : BOOLEAN, lost : Nat, past : SUBSET Values, failed : BOOLEAN,
                      raised : BOOLEAN]
    BY <2>1 DEF TypeInv
  <2>4. TypeInv'
    BY <2>2, <2>3, AnswersSame DEF TypeInv
  <2>. QED
    BY <2>2, <2>4, SameGathered
<1>2. ASSUME UNCHANGED <<server, snapshots, pc, call, console, outcome, foreign>>,
             toServer' \in Seq(Requests), toClient' \in Seq(Answers),
             odd' \in {"never", "before", "now"},
             seen' \in [clean : BOOLEAN, lost : Nat, past : SUBSET Values, failed : BOOLEAN,
                        raised : BOOLEAN]
      PROVE  Base'
  <2>1. TypeInv'
    BY <1>2, AnswersSame DEF TypeInv
  <2>. QED
    BY <1>2, <2>1, SameGathered
<1>3. toServer \in Seq(Requests) /\ toClient \in Seq(Answers)
      /\ odd \in {"never", "before", "now"}
  BY DEF TypeInv
<1>4. CASE Lose
  <2>1. /\ UNCHANGED <<server, snapshots, pc, call, console, outcome, foreign, odd>>
        /\ seen' = [seen EXCEPT !.lost = @ + 1]
        /\ \/ \E i \in DOMAIN toServer : toServer' = RemoveAt(toServer, i) /\ UNCHANGED toClient
           \/ \E i \in DOMAIN toClient : toClient' = RemoveAt(toClient, i) /\ UNCHANGED toServer
    BY <1>4 DEF Lose, Fault
  <2>2. toServer' \in Seq(Requests) /\ toClient' \in Seq(Answers)
    <3>1. CASE \E i \in DOMAIN toServer : toServer' = RemoveAt(toServer, i) /\ UNCHANGED toClient
      BY <1>3, <3>1, Removed
    <3>2. CASE \E i \in DOMAIN toClient : toClient' = RemoveAt(toClient, i) /\ UNCHANGED toServer
      BY <1>3, <3>2, Removed
    <3>. QED
      BY <2>1, <3>1, <3>2
  <2>3. seen' \in [clean : BOOLEAN, lost : Nat, past : SUBSET Values, failed : BOOLEAN,
                   raised : BOOLEAN]
    <3>1. seen \in [clean : BOOLEAN, lost : Nat, past : SUBSET Values, failed : BOOLEAN,
                    raised : BOOLEAN]
      BY DEF TypeInv
    <3>2. seen' = [seen EXCEPT !.lost = @ + 1]
      BY <2>1
    <3>. QED
      BY <3>1, <3>2
  <2>. QED
    BY <1>2, <1>3, <2>1, <2>2, <2>3
<1>5. CASE Repeat
  <2>1. /\ UNCHANGED <<server, snapshots, pc, call, console, outcome, foreign, toServer, seen>>
        /\ odd' = "now"
        /\ \E i \in DOMAIN toClient : toClient' = Append(toClient, toClient[i])
    BY <1>5 DEF Repeat, Fault
  <2>2. toClient' \in Seq(Answers)
    BY <1>3, <2>1, Sent, LenProperties, ElementOfSeq
  <2>. QED
    BY <1>2, <1>3, <2>1, <2>2 DEF TypeInv
<1>6. CASE Delay
  <2>1. /\ UNCHANGED <<server, snapshots, pc, call, console, outcome, foreign, toServer, seen>>
        /\ odd' = "now"
        /\ \E i \in DOMAIN toClient : toClient' = Append(RemoveAt(toClient, i), toClient[i])
    BY <1>6 DEF Delay, Fault
  <2>2. \A i \in DOMAIN toClient : toClient[i] \in Answers /\ RemoveAt(toClient, i) \in Seq(Answers)
    BY <1>3, Removed, LenProperties, ElementOfSeq
  <2>3. toClient' \in Seq(Answers)
    BY <2>1, <2>2, Sent
  <2>. QED
    BY <1>2, <1>3, <2>1, <2>3 DEF TypeInv
<1>. QED
  BY <1>1, <1>4, <1>5, <1>6

(* Every step keeps the types, the gathered part and what was reported.     *)
LEMMA BaseStep == Base /\ [Next]_vars => Base'
<1>1. CASE UNCHANGED vars
  BY <1>1 DEF vars, Base, TypeInv, Gathered, Reported, Answers
<1>. QED
  BY <1>1, StepCases, ServerBase, BeginBase, TakesAnswersBase, TakesBase, TimeoutBase,
     NetworkBase

(* They hold in every state.                                                *)
LEMMA BaseInvariance == Spec => []Base
  BY InitBase, BaseStep, PTL DEF Spec

(* The state of the console and of the network is always well formed.       *)
THEOREM ConsoleTypes == Spec => []TypeInv
<1>. Base => TypeInv
  BY DEF Base
<1>. QED
  BY BaseInvariance, PTL

(* What get_all returns is the state of one bulk answer.                    *)
THEOREM WholeSnapshots == Spec => []SnapshotIsServerState
<1>. Base => SnapshotIsServerState
  BY DEF Base, Reported, SnapshotIsServerState
<1>. QED
  BY BaseInvariance, PTL

-----------------------------------------------------------------------------
(* Writes.  When nothing of an earlier call was under way, all requests     *)
(* that are still on the way are of this write, and all single values on    *)
(* the way are of its key and not older than it.                            *)
OwnRequests == {r \in Requests : r.kind \in {"get", "set"} /\ r.key = call.key}
OwnAnswers == {m \in Answers : m.kind = "state" => m.key = call.key /\ m.value \in seen.past}

Writing == pc \in {"ack", "read"}

ReadInv ==
    Writing =>
        /\ server[call.key] \in seen.past
        /\ seen.clean => toServer \in Seq(OwnRequests) /\ toClient \in Seq(OwnAnswers)

(* A step of others keeps it, that only adds to the past of the key.        *)
LEMMA SameOwn ==
    ASSUME snapshots' = snapshots, call'.key = call.key, seen.past \subseteq seen'.past
    PROVE  OwnAnswers \subseteq OwnAnswers' /\ OwnRequests' = OwnRequests
<1>1. Answers' = Answers
  BY AnswersSame
<1>. QED
  BY <1>1 DEF OwnAnswers, OwnRequests, Requests

(* What keeps the past of the key and only takes requests away keeps the    *)
(* reads.                                                                   *)
LEMMA KeepsReads ==
    ASSUME ReadInv, snapshots' = snapshots, call'.key = call.key,
           seen.past \subseteq seen'.past, seen'.clean = seen.clean,
           Writing' => Writing,
           Writing => server'[call.key] \in seen'.past,
           toServer \in Seq(OwnRequests) => toServer' \in Seq(OwnRequests),
           Writing /\ seen.clean => toClient' \in Seq(OwnAnswers')
    PROVE  ReadInv'
BY SameOwn DEF ReadInv, Writing

(* The server answers a get with the value it has, which is in the past of  *)
(* the key.                                                                 *)
LEMMA ServerReads ==
    ASSUME Base, ReadInv, GetAll \/ Get \/ Meters \/ Set
    PROVE  ReadInv'
<1>. SUFFICES ASSUME Writing' PROVE ReadInv'
  BY DEF ReadInv
<1>1. /\ UNCHANGED <<pc, call, console, outcome>> /\ seen'.clean = seen.clean
      /\ toServer # <<>> /\ toServer' = Tail(toServer)
  <2>1. seen \in [clean : BOOLEAN, lost : Nat, past : SUBSET Values, failed : BOOLEAN,
                  raised : BOOLEAN]
    BY DEF Base, TypeInv
  <2>. QED
    BY <2>1 DEF GetAll, Get, Meters, Set, Aside, Replies, Asked
<1>2. Writing
  BY <1>1 DEF Writing
<1>3. server[call.key] \in seen.past
  BY <1>2 DEF ReadInv
<1>4. call.key \in Keys /\ server \in [Keys -> Values] /\ Request \in Requests
      /\ toClient \in Seq(Answers)
  BY <1>1, Taken DEF Base, TypeInv, Request
<1>5. seen.clean => /\ Request \in OwnRequests /\ Tail(toServer) \in Seq(OwnRequests)
                    /\ toClient \in Seq(OwnAnswers)
  BY <1>1, <1>2, Taken DEF ReadInv, Request
<1>6. seen.clean => Request.kind \in {"get", "set"} /\ Request.key = call.key
  BY <1>5 DEF OwnRequests
<1>7. CASE GetAll
  <2>1. Request.kind = "get-all" /\ UNCHANGED <<server, seen>>
    BY <1>7 DEF GetAll, Asked
  <2>2. ~seen.clean
    BY <1>6, <2>1
  <2>. QED
    BY <1>1, <1>3, <2>1, <2>2 DEF ReadInv
<1>8. CASE Meters
  <2>1. Request.kind = "meters" /\ UNCHANGED <<server, seen>>
    BY <1>8 DEF Meters, Asked
  <2>2. ~seen.clean
    BY <1>6, <2>1
  <2>. QED
    BY <1>1, <1>3, <2>1, <2>2 DEF ReadInv
<1>9. ASSUME snapshots' = snapshots, seen.past \subseteq seen'.past,
             server'[call.key] \in seen'.past,
             NEW m, seen.clean => m \in OwnAnswers, toClient' = toClient \o <<m>>
      PROVE  ReadInv'
  <2>1. CASE seen.clean
    <3>1. toClient' \in Seq(OwnAnswers)
      BY <1>5, <1>9, <2>1, Joined
    <3>2. OwnAnswers \subseteq OwnAnswers' /\ OwnRequests' = OwnRequests
      BY <1>1, <1>9, SameOwn
    <3>3. toClient' \in Seq(OwnAnswers')
      BY <3>1, <3>2
    <3>. QED
      BY <1>1, <1>5, <1>9, <2>1, <3>2, <3>3 DEF ReadInv
  <2>2. CASE ~seen.clean
    BY <1>1, <1>9, <2>2 DEF ReadInv
  <2>. QED
    BY <2>1, <2>2
<1>10. CASE Get
  <2>1. /\ UNCHANGED <<server, snapshots, seen>> /\ Request.kind = "get"
        /\ toClient' = toClient \o <<State(Request.key)>>
    BY <1>10 DEF Get, Asked, Replies
  <2>2. seen.clean => State(Request.key) \in OwnAnswers
    <3>1. Request.key \in Keys
      BY <1>4, <2>1 DEF Requests
    <3>2. State(Request.key) \in Answers
      BY <1>4, <3>1 DEF State, Answers
    <3>. QED
      BY <1>3, <1>6, <3>2 DEF State, OwnAnswers
  <2>. QED
    BY <1>3, <1>9, <2>1, <2>2
<1>11. CASE Set
  <2>1. snapshots' = snapshots /\ Request.kind = "set"
    BY <1>11 DEF Set, Asked
  <2>2. Request.key \in Keys /\ Request.value \in Values
    BY <1>4, <2>1 DEF Requests
  <2>3. CASE Replies(<<[kind |-> "error"]>>) /\ UNCHANGED <<server, seen>>
    <3>1. [kind |-> "error"] \in OwnAnswers
      BY DEF OwnAnswers, Answers
    <3>. QED
      BY <1>3, <1>9, <2>1, <2>3, <3>1 DEF Replies
  <2>4. CASE /\ server' = [server EXCEPT ![Request.key] = Request.value]
             /\ seen' = [seen EXCEPT !.past = IF Request.key = call.key THEN @ \cup {Request.value} ELSE @,
                                     !.raised = @ \/ (/\ Request.key = Master /\ ~Request.confirmed
                                                      /\ Request.value > server[Master])]
             /\ Replies(<<[kind |-> "ok", key |-> Request.key]>>)
    <3>1. seen'.past = IF Request.key = call.key THEN seen.past \cup {Request.value} ELSE seen.past
      BY <2>4 DEF Base, TypeInv
    <3>2. server'[call.key] = IF Request.key = call.key THEN Request.value ELSE server[call.key]
      BY <1>4, <2>2, <2>4
    <3>3. seen.past \subseteq seen'.past /\ server'[call.key] \in seen'.past
      BY <1>3, <3>1, <3>2
    <3>4. [kind |-> "ok", key |-> Request.key] \in OwnAnswers
      BY <2>2 DEF OwnAnswers, Answers
    <3>. QED
      BY <1>9, <2>1, <2>4, <3>3, <3>4 DEF Replies
  <2>. QED
    BY <1>11, <2>3, <2>4 DEF Set
<1>. QED
  BY <1>7, <1>8, <1>10, <1>11

(* A write that begins clean meets no single value of an earlier call.      *)
LEMMA BeginReads ==
    ASSUME Base, NEW k \in Keys, NEW v \in Values, BeginWrite(k, v)
    PROVE  ReadInv'
<1>. DEFINE r == [kind |-> "set", key |-> k, value |-> v, confirmed |-> Increases(k, v)]
            c == /\ toServer = <<>>
                 /\ \A i \in DOMAIN toClient : toClient[i].kind \notin {"state", "ok", "error"}
<1>1. /\ Begin(k, {"state", "ok", "error"})
      /\ call' = [NoCall EXCEPT !.key = k, !.value = v]
      /\ toServer' = Append(toServer, r)
      /\ UNCHANGED <<server, snapshots, toClient>>
  BY DEF BeginWrite, Sends, Begin
<1>2. call'.key = k
  BY <1>1 DEF NoCall
<1>3. seen' = [seen EXCEPT !.lost = 0, !.past = {server[k]}, !.clean = c]
  BY <1>1 DEF Begin
<1>4. seen'.past = {server[k]} /\ seen'.clean = c
  <2>1. seen \in [clean : BOOLEAN, lost : Nat, past : SUBSET Values, failed : BOOLEAN,
                  raised : BOOLEAN]
    BY DEF Base, TypeInv
  <2>. HIDE DEF c
  <2>. QED
    BY <1>3, <2>1
<1>5. server'[call'.key] \in seen'.past
  BY <1>1, <1>2, <1>4
<1>6. ASSUME c
      PROVE  toServer' \in Seq(OwnRequests') /\ toClient' \in Seq(OwnAnswers')
  <2>1. r \in Requests /\ r.kind = "set" /\ r.key = k
    BY SetRequest
  <2>. HIDE DEF r
  <2>2. r \in OwnRequests'
    BY <1>2, <2>1 DEF OwnRequests, Requests
  <2>3. toServer' = Append(<<>>, r)
    BY <1>1, <1>6
  <2>4. toServer' \in Seq(OwnRequests')
    BY <2>2, <2>3
  <2>5. toClient \in Seq(Answers) /\ Answers' = Answers
    BY <1>1, AnswersSame DEF Base, TypeInv
  <2>6. \A i \in 1..Len(toClient) : toClient[i] \in OwnAnswers'
    <3>1. \A i \in 1..Len(toClient) : toClient[i] \in Answers' /\ toClient[i].kind # "state"
      BY <1>6, <2>5, LenProperties
    <3>. QED
      BY <3>1 DEF OwnAnswers
  <2>. QED
    BY <1>1, <2>4, <2>5, <2>6, SeqElements
<1>. HIDE DEF c
<1>. QED
  BY <1>4, <1>5, <1>6 DEF ReadInv

(* While it writes, the console sends only a get of its key.                *)
LEMMA ClientReads ==
    ASSUME Base, ReadInv,
           \/ BeginGetAll \/ BeginMeters
           \/ TakeChunk \/ TakeComplete \/ TakeAck \/ TakeReadback \/ TakeMeters
           \/ Drop \/ Timeout
    PROVE  ReadInv'
<1>. SUFFICES ASSUME Writing' PROVE ReadInv'
  BY DEF ReadInv
<1>1. ~(BeginGetAll \/ BeginMeters \/ TakeChunk \/ TakeComplete \/ TakeReadback \/ TakeMeters)
  BY DEF Writing, BeginGetAll, BeginMeters, TakeChunk, TakeComplete, TakeReadback, TakeMeters,
         With, AttemptFails, Ends
<1>2. ~Timeout
  BY DEF Timeout, AttemptFails, Ends, Writing, Base, TypeInv
<1>3. /\ UNCHANGED <<server, snapshots, call, seen>> /\ Writing
      /\ toClient # <<>> /\ toClient' = Tail(toClient)
      /\ \/ toServer' = toServer
         \/ toServer' = Append(toServer, [kind |-> "get", key |-> call.key])
  BY <1>1, <1>2 DEF TakeAck, Drop, Writing, Takes, Ends, Unserved, Sends
<1>4. [kind |-> "get", key |-> call.key] \in OwnRequests
  BY DEF Base, TypeInv, OwnRequests, Requests
<1>5. toServer \in Seq(OwnRequests) => toServer' \in Seq(OwnRequests)
  BY <1>3, <1>4, Sent
<1>6. Writing /\ seen.clean => toClient' \in Seq(OwnAnswers')
  <2>1. OwnAnswers' = OwnAnswers
    BY <1>3, AnswersSame DEF OwnAnswers
  <2>. QED
    BY <1>3, <2>1, Taken DEF ReadInv
<1>7. server'[call.key] \in seen'.past
  BY <1>3 DEF ReadInv
<1>. QED
  BY <1>3, <1>5, <1>6, <1>7, KeepsReads

(* The writes of others go to the past of their key; faults add no new      *)
(* datagram.                                                                *)
LEMMA NetworkReads ==
    ASSUME Base, ReadInv, OtherWrite \/ Lose \/ Repeat \/ Delay
    PROVE  ReadInv'
<1>. SUFFICES ASSUME Writing' PROVE ReadInv'
  BY DEF ReadInv
<1>1. UNCHANGED <<snapshots, pc, call>> /\ Writing /\ Writing
  BY DEF OtherWrite, Lose, Repeat, Delay, Fault, Writing
<1>2. /\ server[call.key] \in seen.past
      /\ seen.clean => toServer \in Seq(OwnRequests) /\ toClient \in Seq(OwnAnswers)
  BY <1>1 DEF ReadInv
<1>3. seen \in [clean : BOOLEAN, lost : Nat, past : SUBSET Values, failed : BOOLEAN,
                raised : BOOLEAN]
      /\ server \in [Keys -> Values] /\ call.key \in Keys
  BY DEF Base, TypeInv
<1>4. CASE OtherWrite
  <2>1. PICK k \in Keys, v \in Values :
           /\ server' = [server EXCEPT ![k] = v]
           /\ seen' = [seen EXCEPT !.past = IF k = call.key THEN @ \cup {v} ELSE @]
    BY <1>4 DEF OtherWrite
  <2>2. /\ seen'.past = IF k = call.key THEN seen.past \cup {v} ELSE seen.past
        /\ seen'.clean = seen.clean
    BY <1>3, <2>1
  <2>3. server'[call.key] = IF k = call.key THEN v ELSE server[call.key]
    BY <1>3, <2>1
  <2>4. UNCHANGED <<toServer, toClient>>
    BY <1>4 DEF OtherWrite
  <2>5. OwnAnswers \subseteq OwnAnswers'
    BY <1>1, <2>2, SameOwn
  <2>6. Writing /\ seen.clean => toClient' \in Seq(OwnAnswers')
    BY <1>2, <2>4, <2>5
  <2>. QED
    BY <1>1, <1>2, <2>2, <2>3, <2>4, <2>6, KeepsReads
<1>5. ASSUME UNCHANGED <<server>>, seen'.past = seen.past, seen'.clean = seen.clean,
             toServer \in Seq(OwnRequests) => toServer' \in Seq(OwnRequests),
             toClient \in Seq(OwnAnswers) => toClient' \in Seq(OwnAnswers)
      PROVE  ReadInv'
  <2>1. OwnAnswers' = OwnAnswers
    BY <1>1, <1>5, AnswersSame DEF OwnAnswers
  <2>. QED
    BY <1>1, <1>2, <1>5, <2>1, KeepsReads
<1>6. CASE Lose
  <2>1. /\ server' = server /\ seen' = [seen EXCEPT !.lost = @ + 1]
        /\ \/ \E i \in DOMAIN toServer : toServer' = RemoveAt(toServer, i) /\ UNCHANGED toClient
           \/ \E i \in DOMAIN toClient : toClient' = RemoveAt(toClient, i) /\ UNCHANGED toServer
    BY <1>6 DEF Lose, Fault
  <2>2. seen'.past = seen.past /\ seen'.clean = seen.clean
    BY <1>3, <2>1
  <2>3. toServer \in Seq(OwnRequests) => toServer' \in Seq(OwnRequests)
    BY <2>1, Removed
  <2>4. toClient \in Seq(OwnAnswers) => toClient' \in Seq(OwnAnswers)
    BY <2>1, Removed
  <2>. QED
    BY <1>5, <2>1, <2>2, <2>3, <2>4
<1>7. CASE Repeat
  <2>1. UNCHANGED <<server, toServer, seen>>
        /\ \E i \in DOMAIN toClient : toClient' = Append(toClient, toClient[i])
    BY <1>7 DEF Repeat, Fault
  <2>2. toClient \in Seq(OwnAnswers) => toClient' \in Seq(OwnAnswers)
    BY <2>1, Sent, LenProperties, ElementOfSeq
  <2>. QED
    BY <1>5, <2>1, <2>2
<1>8. CASE Delay
  <2>1. UNCHANGED <<server, toServer, seen>>
        /\ \E i \in DOMAIN toClient : toClient' = Append(RemoveAt(toClient, i), toClient[i])
    BY <1>8 DEF Delay, Fault
  <2>2. ASSUME toClient \in Seq(OwnAnswers) PROVE toClient' \in Seq(OwnAnswers)
    <3>1. PICK i \in DOMAIN toClient : toClient' = Append(RemoveAt(toClient, i), toClient[i])
      BY <2>1
    <3>2. toClient[i] \in OwnAnswers
      BY <2>2, LenProperties, ElementOfSeq
    <3>3. RemoveAt(toClient, i) \in Seq(OwnAnswers)
      BY <2>2, Removed
    <3>. QED
      BY <3>1, <3>2, <3>3, Sent
  <2>. QED
    BY <1>5, <2>1, <2>2
<1>. QED
  BY <1>4, <1>6, <1>7, <1>8

(* Every step keeps what is known of reads.                                 *)
LEMMA ReadStep == Base /\ ReadInv /\ [Next]_vars => ReadInv'
<1>1. CASE UNCHANGED vars
  BY <1>1 DEF vars, ReadInv, OwnAnswers, OwnRequests, Answers, Requests, Writing
<1>. QED
  BY <1>1, StepCases, ServerReads, BeginReads, ClientReads, NetworkReads

(* It holds in every state.                                                 *)
LEMMA ReadInvariance == Spec => []ReadInv
<1>1. Init => ReadInv
  BY DEF Init, ReadInv, Writing
<1>. QED
  BY <1>1, ReadStep, BaseInvariance, PTL DEF Spec

(* A write ends well only with a readback.                                  *)
LEMMA ReadbackEnds ==
    ASSUME Base, [Next]_vars, outcome' # outcome, outcome'.of = "write", outcome'.ok
    PROVE  /\ pc = "read" /\ Takes("state") /\ Shown(Message.value)
<1>1. outcome' # NoOutcome /\ outcome'.of # "all" /\ outcome'.of # "meters"
  BY DEF NoOutcome
<1>2. ~(GetAll \/ Get \/ Meters \/ Set \/ BeginGetAll \/ BeginMeters \/ TakeMeters \/ Drop
         \/ OtherWrite \/ Lose \/ Repeat \/ Delay \/ UNCHANGED vars)
  BY <1>1 DEF GetAll, Get, Meters, Set, Aside, BeginGetAll, BeginMeters, Begin, TakeMeters, Drop,
         OtherWrite, Lose, Repeat, Delay, Fault, Ends, vars
<1>3. ~(\E k \in Keys, v \in Values : BeginWrite(k, v))
  BY <1>1 DEF BeginWrite, Begin
<1>4. ~(TakeChunk \/ TakeComplete)
  BY <1>1 DEF TakeChunk, TakeComplete, With, AttemptFails, Ends
<1>5. ~TakeAck
  BY DEF TakeAck, Ends
<1>6. ~Timeout
  <2>1. SUFFICES ASSUME Timeout PROVE outcome' = outcome \/ ~outcome'.ok
    OBVIOUS
  <2>2. pc \in {"all", "ack", "read", "meters"}
    BY <2>1 DEF Timeout, Base, TypeInv
  <2>3. CASE pc = "all"
    BY <2>1, <2>3, AttemptFailsFact DEF Timeout, Base
  <2>4. CASE pc \in {"ack", "read"}
    <3>1. Ends("write", FALSE, None)
      BY <2>1, <2>4 DEF Timeout
    <3>. QED
      BY <3>1 DEF Ends
  <2>5. CASE pc = "meters"
    <3>1. Ends("meters", FALSE, None)
      BY <2>1, <2>5 DEF Timeout
    <3>. QED
      BY <3>1 DEF Ends
  <2>. QED
    BY <2>2, <2>3, <2>4, <2>5
<1>7. TakeReadback
  BY <1>2, <1>3, <1>4, <1>5, <1>6, StepCases
<1>. QED
  BY <1>7 DEF TakeReadback, Ends

(* The readback of a clean write is a value of its key since it began.      *)
THEOREM ReadbackFresh == Spec => ReadbackIsOfKey
<1>. DEFINE Fresh == outcome' # outcome /\ outcome'.of = "write" /\ outcome'.ok /\ seen.clean
                       => console'[call.key] \in seen.past
<1>1. Base /\ ReadInv /\ [Next]_vars => [Fresh]_vars
  <2>. SUFFICES ASSUME Base, ReadInv, [Next]_vars,
                       outcome' # outcome, outcome'.of = "write", outcome'.ok, seen.clean
                PROVE  console'[call.key] \in seen.past
    OBVIOUS
  <2>1. pc = "read" /\ Takes("state") /\ Shown(Message.value)
    BY ReadbackEnds
  <2>2. toClient \in Seq(OwnAnswers)
    BY <2>1 DEF ReadInv, Writing
  <2>3. Message \in OwnAnswers /\ Message.kind = "state"
    BY <2>1, <2>2, Taken DEF Takes, Message
  <2>4. Message.value \in seen.past
    BY <2>3 DEF OwnAnswers
  <2>5. console \in [Keys -> Values] /\ call.key \in Keys
    BY <2>1 DEF Base, TypeInv
  <2>. QED
    BY <2>1, <2>4, <2>5 DEF Shown
<1>. QED
  BY <1>1, BaseInvariance, ReadInvariance, PTL DEF Spec, ReadbackIsOfKey

-----------------------------------------------------------------------------
(* Attempts.  While nothing came late or twice, the present attempt of      *)
(* get_all meets only datagrams of its own, and unless one was lost since   *)
(* it began all that it needs is under way or gathered.                     *)
Regular == seen.clean /\ odd # "now"

OfAttempt(m) == m.kind \in {"chunk", "complete"}

Current == {m \in Answers : OfAttempt(m) => toServer = <<>> /\ m.snap = Len(snapshots)}

Gets(k) == k \in DOMAIN call.chunks \/ \E m \in Range(toClient) : m.kind = "chunk" /\ m.key = k
Completes == call.complete \/ \E m \in Range(toClient) : m.kind = "complete"
Underway == toServer # <<>> \/ (Completes /\ \A k \in Keys : Gets(k))

AttemptInv ==
    pc = "all" /\ Regular =>
        /\ toServer \in {<<>>, <<[kind |-> "get-all"]>>}
        /\ toClient \in Seq(Current)
        /\ toServer # <<>> => call.snap = None /\ call.chunks = << >> /\ ~call.complete
        /\ call.snap \in {None, Len(snapshots)}
        /\ ~(call.complete /\ DOMAIN call.chunks = Keys)
        /\ call.attempt \in 1..Retries
        /\ seen.lost >= call.attempt - 1
        /\ seen.lost >= call.attempt \/ Underway

RecInv == AttemptInv /\ RecoversLosses

(* While the outcome stands, later losses excuse it all the more.           *)
LEMMA KeepsRecovery ==
    ASSUME Base, RecoversLosses, outcome' = outcome,
           seen'.clean = seen.clean, seen'.lost \in Nat, seen'.lost >= seen.lost,
           odd' \in {odd, "now"}
    PROVE  RecoversLosses'
<1>1. seen.lost \in Nat /\ Retries \in Nat
  BY RetriesAssumption DEF Base, TypeInv
<1>. QED
  BY <1>1 DEF RecoversLosses

(* What is in a queue after a datagram was added or taken.                  *)
LEMMA RangeFacts ==
    ASSUME NEW S, NEW s \in Seq(S)
    PROVE  /\ \A t \in Seq(S) : Range(s \o t) = Range(s) \cup Range(t)
           /\ s # <<>> => Range(s) = {Head(s)} \cup Range(Tail(s))
           /\ Range(s) \subseteq S
           /\ s = <<>> => Range(s) = {}
<1>1. \A t \in Seq(S) : Range(s \o t) = Range(s) \cup Range(t)
  BY RangeConcatenation
<1>2. ASSUME s # <<>> PROVE Range(s) = {Head(s)} \cup Range(Tail(s))
  <2>1. Len(s) \in Nat /\ Len(s) >= 1 /\ Len(Tail(s)) = Len(s) - 1 /\ Tail(s) \in Seq(S)
        /\ Head(s) = s[1]
    BY <1>2, Taken
  <2>2. \A i \in 1..Len(s) - 1 : Tail(s)[i] = s[i + 1]
    BY <1>2, <2>1, Taken
  <2>3. Range(s) = {s[i] : i \in 1..Len(s)}
        /\ Range(Tail(s)) = {Tail(s)[i] : i \in 1..Len(s) - 1}
    BY <2>1, RangeEquality
  <2>4. ASSUME NEW i \in 1..Len(s) PROVE s[i] \in {Head(s)} \cup Range(Tail(s))
    <3>1. CASE i = 1
      BY <2>1, <3>1
    <3>2. CASE i # 1
      <4>1. PICK j \in 1..Len(s) - 1 : i = j + 1
        <5>1. i - 1 \in 1..Len(s) - 1 /\ i = (i - 1) + 1
          BY <2>1, <3>2
        <5>. QED
          BY <5>1
      <4>2. s[i] = Tail(s)[j]
        BY <2>2, <4>1
      <4>. QED
        BY <2>3, <4>2
    <3>. QED
      BY <3>1, <3>2
  <2>5. ASSUME NEW j \in 1..Len(s) - 1 PROVE Tail(s)[j] \in Range(s)
    <3>1. j + 1 \in 1..Len(s) /\ Tail(s)[j] = s[j + 1]
      BY <2>1, <2>2
    <3>. QED
      BY <2>3, <3>1
  <2>6. Head(s) \in Range(s)
    <3>1. 1 \in 1..Len(s)
      BY <2>1
    <3>. QED
      BY <2>1, <2>3, <3>1
  <2>. QED
    BY <2>3, <2>4, <2>5, <2>6
<1>3. Range(s) \subseteq S
  BY RangeOfSeq
<1>4. s = <<>> => Range(s) = {}
  <2>1. Range(s) = {s[i] : i \in 1..Len(s)}
    BY RangeEquality
  <2>. QED
    BY <2>1
<1>. QED
  BY <1>1, <1>2, <1>3, <1>4

(* The answer to get-all puts all that the attempt needs under way.         *)
LEMMA ServerAttempt ==
    ASSUME Base, RecInv, GetAll \/ Get \/ Meters \/ Set
    PROVE  RecInv'
<1>1. /\ UNCHANGED <<pc, call, console, outcome, odd>>
      /\ seen'.clean = seen.clean /\ seen'.lost = seen.lost
      /\ toServer # <<>> /\ toServer' = Tail(toServer)
  <2>1. seen \in [clean : BOOLEAN, lost : Nat, past : SUBSET Values, failed : BOOLEAN,
                  raised : BOOLEAN]
    BY DEF Base, TypeInv
  <2>. QED
    BY <2>1 DEF GetAll, Get, Meters, Set, Aside, Replies, Asked
<1>2. seen.lost \in Nat
  BY DEF Base, TypeInv
<1>3. RecoversLosses'
  BY <1>1, <1>2, KeepsRecovery DEF RecInv
<1>4. ASSUME pc = "all", Regular PROVE AttemptInv'
  <2>1. /\ toServer = <<[kind |-> "get-all"]>>
        /\ toClient \in Seq(Current)
        /\ call.snap = None /\ call.chunks = << >> /\ ~call.complete
        /\ call.attempt \in 1..Retries
        /\ seen.lost >= call.attempt - 1
    BY <1>1, <1>4 DEF RecInv, AttemptInv
  <2>2. toServer' = <<>> /\ Request.kind = "get-all"
    BY <1>1, <2>1 DEF Request
  <2>3. /\ snapshots' = Append(snapshots, server)
        /\ toClient' = toClient \o Bulk(Len(snapshots) + 1)
    BY <2>2 DEF GetAll, Get, Meters, Set, Asked, Replies
  <2>4. snapshots \in Seq([Keys -> Values]) /\ server \in [Keys -> Values]
    BY DEF Base, TypeInv
  <2>5. Len(snapshots') = Len(snapshots) + 1 /\ Answers \subseteq Answers'
    BY <2>3, <2>4, AnswersGrow
  <2>. DEFINE n == Len(snapshots) + 1
              B == Bulk(n)
  <2>6. \A k \in Keys : Chunk(k, n) \in Current' /\ State(k) \in Current'
    <3>1. \A k \in Keys : Chunk(k, n) \in Answers' /\ State(k) \in Answers'
      BY <2>3, <2>4, AnswersGrow
    <3>2. \A k \in Keys : Chunk(k, n).snap = n /\ State(k).kind = "state"
      BY DEF Chunk, State
    <3>. QED
      BY <2>2, <2>5, <3>1, <3>2 DEF Current, OfAttempt
  <2>7. Complete(n) \in Current'
    <3>1. Complete(n) \in Answers' /\ Complete(n).snap = n
      BY <2>3, <2>4, AnswersGrow DEF Complete
    <3>. QED
      BY <2>2, <2>5, <3>1 DEF Current
  <2>8. /\ B \in Seq(Current')
        /\ \A k \in Keys : \E i \in 1..Len(B) : B[i] = Chunk(k, n)
        /\ Len(B) >= 1 /\ B[Len(B)] = Complete(n)
    BY <2>6, <2>7, BulkFact
  <2>9. toClient \in Seq(Current')
    <3>1. \A i \in 1..Len(toClient) : toClient[i] \in Current
      BY <2>1
    <3>2. Current \subseteq Current'
      BY <1>1, <2>5 DEF Current
    <3>. QED
      BY <2>1, <3>1, <3>2, SeqElements
  <2>. HIDE DEF B
  <2>10. toClient' \in Seq(Current') /\ Range(toClient') = Range(toClient) \cup Range(B)
    BY <2>3, <2>8, <2>9, Joined, RangeFacts DEF B
  <2>11. Range(B) = {B[i] : i \in 1..Len(B)}
    BY <2>8, RangeEquality
  <2>12. \A k \in Keys : Chunk(k, n) \in Range(toClient')
    BY <2>8, <2>10, <2>11
  <2>13. Complete(n) \in Range(toClient')
    <3>1. Len(B) \in 1..Len(B)
      BY <2>8
    <3>. QED
      BY <2>8, <2>10, <2>11, <3>1
  <2>14. Underway'
    <3>1. Completes'
      BY <2>13 DEF Completes, Complete
    <3>2. \A k \in Keys : Gets(k)'
      BY <2>12 DEF Gets, Chunk
    <3>. QED
      BY <3>1, <3>2 DEF Underway
  <2>. QED
    BY <1>1, <2>1, <2>2, <2>10, <2>14 DEF AttemptInv
<1>5. AttemptInv'
  BY <1>1, <1>4 DEF AttemptInv, Regular
<1>. QED
  BY <1>3, <1>5 DEF RecInv

(* The first attempt of a clean get_all has its request under way.          *)
LEMMA BeginAttempt ==
    ASSUME Base, RecInv, \/ BeginGetAll \/ BeginMeters
                         \/ \E k \in Keys, v \in Values : BeginWrite(k, v)
    PROVE  RecInv'
<1>1. outcome' = NoOutcome
  BY DEF BeginGetAll, BeginMeters, BeginWrite, Begin
<1>2. RecoversLosses'
  BY <1>1 DEF RecoversLosses, NoOutcome
<1>3. CASE BeginGetAll
  <2>. DEFINE c == /\ toServer = <<>>
                   /\ \A i \in DOMAIN toClient : toClient[i].kind \notin {"chunk", "complete"}
  <2>1. /\ call' = [NoCall EXCEPT !.attempt = 1]
        /\ toServer' = Append(toServer, [kind |-> "get-all"])
        /\ seen' = [seen EXCEPT !.lost = 0, !.past = {server[Master]}, !.clean = c]
        /\ UNCHANGED <<snapshots, toClient>>
    BY <1>3 DEF BeginGetAll, Begin, Sends
  <2>2. seen'.lost = 0 /\ seen'.clean = c
    <3>1. seen \in [clean : BOOLEAN, lost : Nat, past : SUBSET Values, failed : BOOLEAN,
                    raised : BOOLEAN]
      BY DEF Base, TypeInv
    <3>. HIDE DEF c
    <3>. QED
      BY <2>1, <3>1
  <2>3. /\ call'.snap = None /\ call'.chunks = << >> /\ ~call'.complete /\ call'.attempt = 1
    BY <2>1 DEF NoCall
  <2>4. ASSUME c PROVE toServer' = <<[kind |-> "get-all"]>> /\ toClient' \in Seq(Current')
    <3>1. toServer' = <<[kind |-> "get-all"]>>
      BY <2>1, <2>4
    <3>2. toClient \in Seq(Answers) /\ Answers' = Answers
      BY <2>1, AnswersSame DEF Base, TypeInv
    <3>3. \A i \in 1..Len(toClient) : toClient[i] \in Answers /\ ~OfAttempt(toClient[i])
      BY <2>4, <3>2, LenProperties DEF OfAttempt
    <3>4. \A i \in 1..Len(toClient) : toClient[i] \in Current'
      BY <3>2, <3>3 DEF Current
    <3>. QED
      BY <2>1, <3>1, <3>2, <3>4, SeqElements
  <2>. HIDE DEF c
  <2>5. AttemptInv'
    <3>1. SUFFICES ASSUME c PROVE AttemptInv'
      BY <2>2 DEF AttemptInv, Regular
    <3>2. toServer' # <<>>
      <4>1. toServer' = <<[kind |-> "get-all"]>>
        BY <2>4, <3>1
      <4>. QED
        BY ONLY <4>1
    <3>3. 1 \in 1..Retries
      BY RetriesAssumption
    <3>. QED
      BY <2>2, <2>3, <2>4, <3>1, <3>2, <3>3 DEF AttemptInv, Underway
  <2>. QED
    BY <1>2, <2>5 DEF RecInv
<1>4. CASE ~BeginGetAll
  <2>1. pc' # "all"
    BY <1>4 DEF BeginMeters, BeginWrite
  <2>. QED
    BY <1>2, <2>1 DEF RecInv, AttemptInv
<1>. QED
  BY <1>3, <1>4

(* A step of the console takes the head of the queue.                       *)
LEMMA TakenCurrent ==
    ASSUME Base, AttemptInv, pc = "all", Regular, toClient # <<>>, toClient' = Tail(toClient),
           UNCHANGED <<snapshots, toServer>>
    PROVE  /\ Message \in Current /\ toClient' \in Seq(Current')
           /\ Range(toClient) = {Message} \cup Range(toClient')
<1>1. toClient \in Seq(Current)
  BY DEF AttemptInv
<1>2. Message \in Current /\ toClient' \in Seq(Current)
  BY <1>1, Taken DEF Message
<1>3. Current' = Current
  BY AnswersSame DEF Current
<1>4. Range(toClient) = {Message} \cup Range(toClient')
  BY <1>1, RangeFacts DEF Message
<1>. QED
  BY <1>2, <1>3, <1>4

(* What leaves the queue is gathered.                                       *)
LEMMA WithAttempt ==
    ASSUME Base, RecInv, pc = "all",
           UNCHANGED <<snapshots, toServer, odd>>, Takes("chunk") \/ Takes("complete"),
           NEW c, With(c), Regular => toServer = <<>>,
           c.snap = Message.snap, c.attempt = call.attempt,
           Message.kind = "chunk" => /\ DOMAIN c.chunks = DOMAIN call.chunks \cup {Message.key}
                                     /\ c.complete = call.complete,
           Message.kind = "complete" => c.chunks = call.chunks /\ c.complete
    PROVE  RecInv'
<1>1. CASE c.complete /\ DOMAIN c.chunks = Keys
  <2>1. pc' = "idle" /\ outcome'.ok
    BY <1>1 DEF With, Ends
  <2>. QED
    BY <2>1 DEF RecInv, AttemptInv, RecoversLosses
<1>2. CASE ~(c.complete /\ DOMAIN c.chunks = Keys)
  <2>1. call' = c /\ UNCHANGED <<pc, outcome, console, seen>>
    BY <1>2 DEF With
  <2>2. seen.lost \in Nat
    BY DEF Base, TypeInv
  <2>3. RecoversLosses'
    BY <2>1, <2>2, KeepsRecovery DEF RecInv
  <2>4. ASSUME Regular PROVE AttemptInv'
    <3>1. /\ Message \in Current /\ toClient' \in Seq(Current')
          /\ Range(toClient) = {Message} \cup Range(toClient')
      BY <2>4, TakenCurrent DEF RecInv, Takes
    <3>2. Message.kind \in {"chunk", "complete"}
      BY DEF Takes, Message
    <3>3. toServer = <<>> /\ Message.snap = Len(snapshots)
      BY <3>1, <3>2 DEF Current, OfAttempt
    <3>4. Underway => Underway'
      <4>1. SUFFICES ASSUME Completes, \A k \in Keys : Gets(k)
                     PROVE  Completes' /\ \A k \in Keys : Gets(k)'
        BY <3>3 DEF Underway
      <4>2. CASE Message.kind = "chunk"
        <5>1. call'.complete = call.complete
              /\ DOMAIN call'.chunks = DOMAIN call.chunks \cup {Message.key}
          BY <2>1, <4>2
        <5>2. Completes'
          BY <3>1, <4>1, <4>2, <5>1 DEF Completes
        <5>3. \A k \in Keys : Gets(k)'
          BY <3>1, <4>1, <5>1 DEF Gets
        <5>. QED
          BY <5>2, <5>3
      <4>3. CASE Message.kind = "complete"
        <5>1. call'.complete /\ call'.chunks = call.chunks
          BY <2>1, <4>3
        <5>2. Completes'
          BY <5>1 DEF Completes
        <5>3. \A k \in Keys : Gets(k)'
          BY <3>1, <4>1, <4>3, <5>1 DEF Gets
        <5>. QED
          BY <5>2, <5>3
      <4>. QED
        BY <3>2, <4>2, <4>3
    <3>5. /\ call'.snap = Len(snapshots') /\ call'.attempt = call.attempt
          /\ ~(call'.complete /\ DOMAIN call'.chunks = Keys)
      BY <1>2, <2>1, <3>3
    <3>6. /\ call.attempt \in 1..Retries /\ seen.lost >= call.attempt - 1
          /\ seen.lost >= call.attempt \/ Underway
      BY <2>4 DEF RecInv, AttemptInv
    <3>. QED
      BY <2>1, <3>1, <3>3, <3>4, <3>5, <3>6 DEF AttemptInv
  <2>5. AttemptInv'
    <3>1. Regular' => Regular
      BY <2>1 DEF Regular
    <3>. QED
      BY <2>4, <3>1 DEF AttemptInv
  <2>. QED
    BY <2>3, <2>5 DEF RecInv
<1>. QED
  BY <1>1, <1>2

(* An attempt that fails without a reason in the network is out of the      *)
(* question; one that fails irregularly says nothing.                       *)
LEMMA IrregularFails ==
    ASSUME Base, RecInv, AttemptFails, ~(seen'.clean /\ odd' # "now")
    PROVE  RecInv'
BY DEF RecInv, AttemptInv, RecoversLosses, Regular

(* In a regular attempt each datagram of a bulk answer fits.                *)
LEMMA TakesAttempt ==
    ASSUME Base, RecInv, TakeChunk \/ TakeComplete
    PROVE  RecInv'
<1>1. /\ pc = "all" /\ UNCHANGED <<snapshots, odd>>
      /\ Takes("chunk") \/ Takes("complete")
  BY DEF TakeChunk, TakeComplete, Unserved
<1>2. ASSUME Regular
      PROVE  toServer = <<>> /\ Message.snap = Len(snapshots) /\ Fits
  <2>1. toClient \in Seq(Current) /\ call.snap \in {None, Len(snapshots)} /\ toClient # <<>>
    BY <1>1, <1>2 DEF RecInv, AttemptInv, Takes
  <2>2. Message \in Current /\ Message.kind \in {"chunk", "complete"}
    BY <1>1, <2>1, Taken DEF Message, Takes
  <2>. QED
    BY <2>1, <2>2 DEF Current, OfAttempt, Fits
<1>3. CASE ~Fits /\ AttemptFails
  <2>1. seen'.clean = seen.clean
    <3>1. seen \in [clean : BOOLEAN, lost : Nat, past : SUBSET Values, failed : BOOLEAN,
                    raised : BOOLEAN]
      BY DEF Base, TypeInv
    <3>. QED
      BY <1>3, <3>1 DEF AttemptFails, Ends
  <2>2. ~(seen'.clean /\ odd' # "now")
    BY <1>1, <1>2, <1>3, <2>1 DEF Regular
  <2>. QED
    BY <1>3, <2>2, IrregularFails
<1>4. CASE Takes("chunk") /\ Fits /\ With(WithChunk) /\ UNCHANGED toServer
  <2>1. Message.kind = "chunk"
    BY <1>4 DEF Takes, Message
  <2>2. /\ WithChunk.snap = Message.snap /\ WithChunk.complete = call.complete
        /\ WithChunk.attempt = call.attempt
        /\ DOMAIN WithChunk.chunks = DOMAIN call.chunks \cup {Message.key}
    BY <1>4, WithChunkFact
  <2>. QED
    BY <1>1, <1>2, <1>4, <2>1, <2>2, WithAttempt
<1>5. CASE /\ Takes("complete") /\ Fits /\ UNCHANGED toServer
           /\ With([call EXCEPT !.snap = Message.snap, !.complete = TRUE])
  <2>. DEFINE c == [call EXCEPT !.snap = Message.snap, !.complete = TRUE]
  <2>1. Message.kind = "complete"
    BY <1>5 DEF Takes, Message
  <2>2. c.snap = Message.snap /\ c.attempt = call.attempt /\ c.chunks = call.chunks /\ c.complete
    BY DEF Base, TypeInv
  <2>3. With(c)
    BY <1>5
  <2>. HIDE DEF c
  <2>. QED
    BY <1>1, <1>2, <1>5, <2>1, <2>2, <2>3, WithAttempt
<1>. QED
  BY <1>3, <1>4, <1>5 DEF TakeChunk, TakeComplete, WithChunk

(* A time-out with nothing on the way: a datagram of this attempt was lost. *)
LEMMA QuietLoss ==
    ASSUME Base, RecInv, pc = "all", Regular, Quiet
    PROVE  seen.lost >= call.attempt
<1>1. toServer = <<>> /\ Range(toClient) = {}
  BY RangeFacts DEF Quiet, Base, TypeInv
<1>2. ASSUME Underway PROVE FALSE
  <2>1. call.complete /\ Keys \subseteq DOMAIN call.chunks
    BY <1>1, <1>2 DEF Underway, Completes, Gets
  <2>2. DOMAIN call.chunks \subseteq Keys
    BY ChunkKeys DEF Base
  <2>3. DOMAIN call.chunks = Keys
    BY <2>1, <2>2
  <2>. QED
    BY <2>1, <2>3 DEF RecInv, AttemptInv
<1>. QED
  BY <1>2 DEF RecInv, AttemptInv

(* So the attempt that fails then has lost a datagram, and the next one     *)
(* begins anew.                                                             *)
LEMMA QuietFails ==
    ASSUME Base, RecInv, pc = "all", Regular, Quiet, AttemptFails,
           UNCHANGED <<snapshots, toClient, odd>>
    PROVE  RecInv'
<1>1. seen.lost >= call.attempt
  BY QuietLoss
<1>2. seen.lost \in Nat /\ Retries \in Nat /\ Len(snapshots) \in Nat
      /\ call.attempt \in 1..Retries /\ call.attempt + 1 \in Nat
  BY RetriesAssumption DEF Base, TypeInv, RecInv, AttemptInv
<1>3. CASE call.attempt < Retries
  <2>1. /\ pc' = "all" /\ call' = NextAttempt /\ UNCHANGED <<outcome, seen>>
        /\ toServer' = Append(toServer, [kind |-> "get-all"])
    BY <1>3 DEF AttemptFails, Sends
  <2>2. toServer' = <<[kind |-> "get-all"]>>
    BY <2>1 DEF Quiet
  <2>3. toServer' # <<>>
    BY ONLY <2>2
  <2>4. /\ call'.chunks = << >> /\ call'.snap = None /\ ~call'.complete
        /\ call'.attempt = call.attempt + 1
    BY <1>2, <2>1, NextAttemptFact
  <2>5. call'.attempt \in 1..Retries /\ seen.lost >= call'.attempt - 1
    BY <1>1, <1>2, <1>3, <2>4
  <2>6. toClient' \in Seq(Current')
    BY DEF Quiet
  <2>7. AttemptInv'
    BY <2>1, <2>2, <2>3, <2>4, <2>5, <2>6 DEF AttemptInv, Underway
  <2>8. RecoversLosses'
    BY <2>1 DEF RecInv, RecoversLosses
  <2>. QED
    BY <2>7, <2>8 DEF RecInv
<1>4. CASE ~(call.attempt < Retries)
  <2>1. Ends("all", FALSE, None)
    BY <1>4 DEF AttemptFails
  <2>2. pc' = "idle" /\ seen' = [seen EXCEPT !.failed = @ \/ ("all" = "write" /\ ~FALSE)]
    BY <2>1 DEF Ends
  <2>3. seen'.lost = seen.lost
    BY <2>2 DEF Base, TypeInv
  <2>4. seen'.lost >= Retries
    BY <1>1, <1>2, <1>4, <2>3
  <2>. QED
    BY <2>2, <2>4 DEF RecInv, AttemptInv, RecoversLosses
<1>. QED
  BY <1>3, <1>4

(* A time-out that is not quiet makes the attempt irregular.                *)
LEMMA TimeoutAttempt ==
    ASSUME Base, RecInv, Timeout
    PROVE  RecInv'
<1>1. /\ UNCHANGED <<snapshots, toClient>>
      /\ (Quiet /\ odd' = odd) \/ odd' = "now"
  BY DEF Timeout
<1>2. pc \in {"all", "ack", "read", "meters"}
  BY DEF Timeout, Base, TypeInv
<1>3. CASE pc = "all"
  <2>1. AttemptFails
    BY <1>3 DEF Timeout
  <2>2. seen'.clean = seen.clean
    <3>1. seen \in [clean : BOOLEAN, lost : Nat, past : SUBSET Values, failed : BOOLEAN,
                    raised : BOOLEAN]
      BY DEF Base, TypeInv
    <3>. QED
      BY <2>1, <3>1 DEF AttemptFails, Ends
  <2>3. CASE Regular /\ Quiet /\ odd' = odd
    BY <1>1, <1>3, <2>1, <2>3, QuietFails
  <2>4. CASE ~(Regular /\ Quiet /\ odd' = odd)
    <3>1. ~(seen'.clean /\ odd' # "now")
      BY <1>1, <2>2, <2>4 DEF Regular
    <3>. QED
      BY <2>1, <3>1, IrregularFails
  <2>. QED
    BY <2>3, <2>4
<1>4. CASE pc \in {"ack", "read"}
  <2>1. Ends("write", FALSE, None)
    BY <1>4 DEF Timeout
  <2>2. pc' = "idle" /\ outcome'.of = "write"
    BY <2>1 DEF Ends
  <2>. QED
    BY <2>2 DEF RecInv, AttemptInv, RecoversLosses
<1>5. CASE pc = "meters"
  <2>1. Ends("meters", FALSE, None)
    BY <1>5 DEF Timeout
  <2>2. pc' = "idle" /\ outcome'.of = "meters"
    BY <2>1 DEF Ends
  <2>. QED
    BY <2>2 DEF RecInv, AttemptInv, RecoversLosses
<1>. QED
  BY <1>2, <1>3, <1>4, <1>5

(* The steps of the console that take what is not of an attempt.            *)
LEMMA OtherTakes ==
    ASSUME Base, RecInv, TakeAck \/ TakeReadback \/ TakeMeters \/ Drop
    PROVE  RecInv'
<1>1. CASE TakeAck \/ TakeReadback \/ TakeMeters
  <2>1. pc' # "all"
    BY <1>1 DEF TakeAck, TakeReadback, TakeMeters, Ends
  <2>2. \/ outcome' = outcome /\ seen' = seen /\ odd' = odd
        \/ outcome'.of # "all"
    BY <1>1 DEF TakeAck, TakeReadback, TakeMeters, Ends, Unserved
  <2>. QED
    BY <2>1, <2>2 DEF RecInv, AttemptInv, RecoversLosses
<1>2. CASE Drop
  <2>1. /\ UNCHANGED <<snapshots, toServer, pc, call, outcome, odd, seen>>
        /\ toClient # <<>> /\ toClient' = Tail(toClient)
        /\ Message.kind \notin Awaited
    BY <1>2 DEF Drop
  <2>2. RecoversLosses'
    BY <2>1 DEF RecInv, RecoversLosses
  <2>3. ASSUME pc = "all", Regular PROVE AttemptInv'
    <3>1. /\ toClient' \in Seq(Current')
          /\ Range(toClient) = {Message} \cup Range(toClient')
      BY <2>1, <2>3, TakenCurrent DEF RecInv
    <3>2. Message.kind \notin {"chunk", "complete"}
      BY <2>1, <2>3 DEF Awaited
    <3>3. Underway => Underway'
      <4>1. Completes => Completes'
        BY <2>1, <3>1, <3>2 DEF Completes
      <4>2. \A k \in Keys : Gets(k) => Gets(k)'
        BY <2>1, <3>1, <3>2 DEF Gets
      <4>. QED
        BY <2>1, <4>1, <4>2 DEF Underway
    <3>4. /\ toServer \in {<<>>, <<[kind |-> "get-all"]>>}
          /\ toServer # <<>> => call.snap = None /\ call.chunks = << >> /\ ~call.complete
          /\ call.snap \in {None, Len(snapshots)}
          /\ ~(call.complete /\ DOMAIN call.chunks = Keys)
          /\ call.attempt \in 1..Retries
          /\ seen.lost >= call.attempt - 1
          /\ seen.lost >= call.attempt \/ Underway
      BY <2>3 DEF RecInv, AttemptInv
    <3>. QED
      BY <2>1, <3>1, <3>3, <3>4 DEF AttemptInv
  <2>4. AttemptInv'
    BY <2>1, <2>3 DEF AttemptInv, Regular
  <2>. QED
    BY <2>2, <2>4 DEF RecInv
<1>. QED
  BY <1>1, <1>2

(* A loss is counted; a late or repeated reply makes the attempt irregular. *)
LEMMA NetworkAttempt ==
    ASSUME Base, RecInv, OtherWrite \/ Lose \/ Repeat \/ Delay
    PROVE  RecInv'
<1>1. CASE Repeat \/ Delay
  <2>1. odd' = "now"
    BY <1>1 DEF Repeat, Delay
  <2>. QED
    BY <2>1 DEF RecInv, AttemptInv, RecoversLosses, Regular
<1>2. seen \in [clean : BOOLEAN, lost : Nat, past : SUBSET Values, failed : BOOLEAN,
                raised : BOOLEAN]
  BY DEF Base, TypeInv
<1>3. CASE OtherWrite
  <2>1. PICK k \in Keys, v \in Values :
           seen' = [seen EXCEPT !.past = IF k = call.key THEN @ \cup {v} ELSE @]
    BY <1>3 DEF OtherWrite
  <2>2. seen'.lost = seen.lost /\ seen'.clean = seen.clean
    BY <1>2, <2>1
  <2>3. UNCHANGED <<snapshots, toServer, toClient, pc, call, outcome, odd>>
    BY <1>3 DEF OtherWrite
  <2>4. Current' = Current
    BY <2>3, AnswersSame DEF Current
  <2>5. Underway' = Underway
    BY <2>3 DEF Underway, Completes, Gets
  <2>6. AttemptInv'
    BY <2>2, <2>3, <2>4, <2>5 DEF RecInv, AttemptInv, Regular
  <2>7. RecoversLosses'
    BY <2>2, <2>3 DEF RecInv, RecoversLosses
  <2>. QED
    BY <2>6, <2>7 DEF RecInv
<1>4. CASE Lose
  <2>1. /\ UNCHANGED <<snapshots, pc, call, outcome, odd>>
        /\ seen' = [seen EXCEPT !.lost = @ + 1]
        /\ \/ \E i \in DOMAIN toServer : toServer' = RemoveAt(toServer, i) /\ UNCHANGED toClient
           \/ \E i \in DOMAIN toClient : toClient' = RemoveAt(toClient, i) /\ UNCHANGED toServer
    BY <1>4 DEF Lose, Fault
  <2>2. seen'.lost = seen.lost + 1 /\ seen'.clean = seen.clean /\ seen.lost \in Nat
    BY <1>2, <2>1
  <2>3. seen'.lost \in Nat /\ seen'.lost >= seen.lost
    BY <2>2
  <2>4. RecoversLosses'
    BY <2>1, <2>2, <2>3, KeepsRecovery DEF RecInv
  <2>5. ASSUME pc = "all", Regular PROVE AttemptInv'
    <3>1. /\ toServer \in {<<>>, <<[kind |-> "get-all"]>>}
          /\ toClient \in Seq(Current)
          /\ toServer # <<>> => call.snap = None /\ call.chunks = << >> /\ ~call.complete
          /\ call.snap \in {None, Len(snapshots)}
          /\ ~(call.complete /\ DOMAIN call.chunks = Keys)
          /\ call.attempt \in 1..Retries
          /\ seen.lost >= call.attempt - 1
      BY <2>5 DEF RecInv, AttemptInv
    <3>2. seen'.lost >= call.attempt - 1 /\ seen'.lost >= call.attempt
      BY <2>2, <3>1, RetriesAssumption
    <3>3. /\ toServer' \in {<<>>, <<[kind |-> "get-all"]>>}
          /\ toServer' # <<>> => toServer # <<>>
          /\ toClient' \in Seq(Current')
      <4>1. CASE \E i \in DOMAIN toServer : toServer' = RemoveAt(toServer, i) /\ UNCHANGED toClient
        <5>1. toServer' = <<>>
          <6>1. toServer \in Seq(Requests)
            BY DEF Base, TypeInv
          <6>2. Len(toServer) \in {0, 1}
            BY <3>1
          <6>3. toServer' \in Seq(Requests) /\ Len(toServer') = Len(toServer) - 1
            BY <4>1, <6>1, Removed
          <6>4. Len(toServer') \in Nat
            BY <6>3, LenProperties
          <6>5. Len(toServer') = 0
            BY <6>2, <6>3, <6>4
          <6>. QED
            BY <6>3, <6>5, EmptySeq
        <5>2. Current \subseteq Current'
          BY <2>1, <5>1, AnswersSame DEF Current
        <5>. QED
          BY <3>1, <4>1, <5>1, <5>2
      <4>2. CASE \E i \in DOMAIN toClient : toClient' = RemoveAt(toClient, i) /\ UNCHANGED toServer
        <5>1. Current' = Current
          BY <2>1, <4>2, AnswersSame DEF Current
        <5>2. toClient' \in Seq(Current)
          BY <3>1, <4>2, Removed
        <5>. QED
          BY <3>1, <4>2, <5>1, <5>2
      <4>. QED
        BY <2>1, <4>1, <4>2
    <3>. QED
      BY <2>1, <3>1, <3>2, <3>3 DEF AttemptInv
  <2>6. AttemptInv'
    BY <2>1, <2>2, <2>5 DEF AttemptInv, Regular
  <2>. QED
    BY <2>4, <2>6 DEF RecInv
<1>. QED
  BY <1>1, <1>3, <1>4

(* Every step keeps what is known of the attempts.                          *)
LEMMA RecStep == Base /\ RecInv /\ [Next]_vars => RecInv'
<1>1. CASE UNCHANGED vars
  BY <1>1 DEF vars, RecInv, AttemptInv, RecoversLosses, Regular, Current, Answers, OfAttempt,
     Underway, Completes, Gets
<1>. QED
  BY <1>1, StepCases, ServerAttempt, BeginAttempt, TakesAttempt, TimeoutAttempt, OtherTakes,
     NetworkAttempt

(* It holds in every state.                                                 *)
LEMMA RecInvariance == Spec => []RecInv
<1>1. Init => RecInv
  BY DEF Init, RecInv, AttemptInv, RecoversLosses, NoOutcome
<1>. QED
  BY <1>1, RecStep, BaseInvariance, PTL DEF Spec

(* Losses alone do not make get_all give up before as many datagrams were   *)
(* lost as it makes attempts.                                               *)
THEOREM LossesRecovered == Spec => []RecoversLosses
<1>. RecInv => RecoversLosses
  BY DEF RecInv
<1>. QED
  BY RecInvariance, PTL

-----------------------------------------------------------------------------
(* Calls in calm: no other client wrote, no write failed, and no reply came *)
(* late or twice.  Then at most the messages of the present call are on the *)
(* way, and the console shows what the server has, but for the key that it  *)
(* is writing.                                                              *)
Calm == foreign = 0 /\ ~seen.failed /\ odd = "never"

Agree == console # << >> => console = server
AgreeButKey == console = [server EXCEPT ![call.key] = console[call.key]]

AgreeAnswers == {m \in Answers : m.kind = "chunk" => m.value = server[m.key]}
EndsOnComplete(q) == \A i \in 1..Len(q) : q[i].kind = "complete" => i = Len(q)

GathersCalmly ==
    /\ seen.clean /\ Agree
    /\ toClient \in Seq(AgreeAnswers)
    /\ \A k \in DOMAIN call.chunks : call.chunks[k] = server[k]
    /\ call.complete \/ toServer # <<>> => toClient = <<>>
    /\ EndsOnComplete(toClient)

MetersCalmly ==
    /\ Agree
    /\ \/ toServer = <<[kind |-> "meters"]>> /\ toClient = <<>>
       \/ toServer = <<>> /\ toClient \in {<<>>, <<[kind |-> "meters"]>>}

SetOfCall == [kind |-> "set", key |-> call.key, value |-> call.value,
              confirmed |-> Increases(call.key, call.value)]

WritesCalmly ==
    \/ toServer = <<SetOfCall>> /\ toClient = <<>> /\ Agree
    \/ /\ toServer = <<>> /\ AgreeButKey
       /\ toClient \in {<<>>, <<[kind |-> "ok", key |-> call.key]>>, <<[kind |-> "error"]>>}

ReadsCalmly ==
    /\ AgreeButKey
    /\ \/ toServer = <<[kind |-> "get", key |-> call.key]>> /\ toClient = <<>>
       \/ toServer = <<>> /\ toClient \in {<<>>, <<State(call.key)>>}

CalmInv ==
    Calm =>
        /\ ~seen.raised
        /\ pc = "idle" => Quiet /\ Agree
        /\ pc = "all" => GathersCalmly
        /\ pc = "meters" => MetersCalmly
        /\ pc = "ack" => WritesCalmly
        /\ pc = "read" => ReadsCalmly

(* The history variable, for the steps that change a field of it.           *)
Shape == [clean : BOOLEAN, lost : Nat, past : SUBSET Values, failed : BOOLEAN,
          raised : BOOLEAN]

(* The only request on the way is that of the call, and its answer says     *)
(* what the server has.                                                     *)
LEMMA ServerCalm ==
    ASSUME Base, RecInv, CalmInv, GetAll \/ Get \/ Meters \/ Set
    PROVE  CalmInv'
<1>1. /\ UNCHANGED <<pc, call, console, foreign, odd>>
      /\ seen'.failed = seen.failed /\ seen'.clean = seen.clean
      /\ toServer # <<>> /\ toServer' = Tail(toServer)
  <2>1. seen \in Shape
    BY DEF Base, TypeInv, Shape
  <2>. QED
    BY <2>1 DEF GetAll, Get, Meters, Set, Aside, Replies, Asked, Shape
<1>2. SUFFICES ASSUME Calm PROVE CalmInv'
  BY <1>1 DEF CalmInv, Calm
<1>3. pc \in {"all", "meters", "ack", "read"} /\ ~seen.raised
  BY <1>1, <1>2 DEF CalmInv, Quiet, Base, TypeInv
<1>4. snapshots \in Seq([Keys -> Values]) /\ server \in [Keys -> Values] /\ call.key \in Keys
      /\ call.value \in Nat /\ Master \in Keys
  BY MasterAssumption DEF Base, TypeInv
<1>5. CASE pc = "all"
  <2>1. GathersCalmly
    BY <1>2, <1>5 DEF CalmInv
  <2>2. toServer = <<[kind |-> "get-all"]>>
    BY <1>1, <1>2, <1>5, <2>1 DEF RecInv, AttemptInv, Regular, Calm, GathersCalmly
  <2>3. toServer' = <<>> /\ Request.kind = "get-all"
    BY <1>1, <2>2 DEF Request
  <2>4. toClient = <<>> /\ ~call.complete
    BY <1>1, <1>2, <1>5, <2>1 DEF RecInv, AttemptInv, Regular, Calm, GathersCalmly
  <2>5. /\ snapshots' = Append(snapshots, server) /\ UNCHANGED <<server, seen>>
        /\ toClient' = <<>> \o Bulk(Len(snapshots) + 1)
    BY <2>3, <2>4 DEF GetAll, Get, Meters, Set, Asked, Replies
  <2>. DEFINE n == Len(snapshots) + 1
              B == Bulk(n)
  <2>6. \A k \in Keys : Chunk(k, n) \in AgreeAnswers' /\ State(k) \in AgreeAnswers'
    <3>1. \A k \in Keys : Chunk(k, n) \in Answers' /\ State(k) \in Answers'
      BY <1>4, <2>5, AnswersGrow
    <3>2. \A k \in Keys : /\ Chunk(k, n).value = server[k] /\ Chunk(k, n).key = k
                          /\ State(k).kind = "state"
      BY DEF Chunk, State
    <3>. QED
      BY <2>5, <3>1, <3>2 DEF AgreeAnswers
  <2>7. Complete(n) \in AgreeAnswers'
    <3>1. Complete(n) \in Answers' /\ Complete(n).kind = "complete"
      BY <1>4, <2>5, AnswersGrow DEF Complete
    <3>. QED
      BY <3>1 DEF AgreeAnswers
  <2>8. /\ B \in Seq(AgreeAnswers')
        /\ \A i \in 1..Len(B) : B[i].kind = "complete" => i = Len(B)
    BY <2>6, <2>7, BulkFact
  <2>. HIDE DEF B
  <2>9. toClient' = B
    BY <2>5, <2>8 DEF B
  <2>10. GathersCalmly'
    BY <1>1, <2>1, <2>3, <2>4, <2>5, <2>8, <2>9 DEF GathersCalmly, Agree, EndsOnComplete
  <2>. QED
    BY <1>1, <1>3, <1>5, <2>5, <2>10 DEF CalmInv
<1>6. CASE pc = "meters"
  <2>1. /\ toServer = <<[kind |-> "meters"]>> /\ toClient = <<>> /\ Agree
    BY <1>1, <1>2, <1>6 DEF CalmInv, MetersCalmly
  <2>2. toServer' = <<>> /\ Request.kind = "meters"
    BY <1>1, <2>1 DEF Request
  <2>3. /\ UNCHANGED <<server, seen>> /\ toClient' = <<>> \o <<[kind |-> "meters"]>>
    BY <2>1, <2>2 DEF GetAll, Get, Meters, Set, Asked, Replies
  <2>4. toClient' = <<[kind |-> "meters"]>>
    BY <2>3
  <2>5. MetersCalmly'
    BY <1>1, <2>1, <2>2, <2>3, <2>4 DEF MetersCalmly, Agree
  <2>. QED
    BY <1>1, <1>3, <1>6, <2>3, <2>5 DEF CalmInv
<1>7. CASE pc = "read"
  <2>1. AgreeButKey
    BY <1>2, <1>7 DEF CalmInv, ReadsCalmly
  <2>2. /\ toServer = <<[kind |-> "get", key |-> call.key]>> /\ toClient = <<>>
    BY <1>1, <1>2, <1>7 DEF CalmInv, ReadsCalmly
  <2>3. toServer' = <<>> /\ Request.kind = "get" /\ Request.key = call.key
    BY <1>1, <2>2 DEF Request
  <2>4. /\ UNCHANGED <<server, seen>> /\ toClient' = <<>> \o <<State(call.key)>>
    BY <2>2, <2>3 DEF GetAll, Get, Meters, Set, Asked, Replies
  <2>5. toClient' = <<State(call.key)>>
    BY <2>4
  <2>6. State(call.key)' = State(call.key)
    BY <1>1, <2>4 DEF State
  <2>7. ReadsCalmly'
    BY <1>1, <2>1, <2>3, <2>4, <2>5, <2>6 DEF ReadsCalmly, AgreeButKey
  <2>. QED
    BY <1>1, <1>3, <1>7, <2>4, <2>7 DEF CalmInv
<1>8. CASE pc = "ack"
  <2>1. /\ toServer = <<SetOfCall>> /\ toClient = <<>> /\ Agree
    BY <1>1, <1>2, <1>8 DEF CalmInv, WritesCalmly
  <2>2. console \in [Keys -> Values] /\ console # << >>
    BY <1>8 DEF Base, TypeInv
  <2>3. console = server
    BY <2>1, <2>2 DEF Agree
  <2>4. /\ toServer' = <<>> /\ Request.kind = "set" /\ Request.key = call.key
        /\ Request.value = call.value
        /\ Request.confirmed = Increases(call.key, call.value)
    <3>1. Request = SetOfCall /\ toServer' = <<>>
      BY <1>1, <2>1 DEF Request
    <3>. QED
      BY <3>1 DEF SetOfCall
  <2>5. Set
    BY <2>4 DEF GetAll, Get, Meters, Set, Asked
  <2>6. AgreeButKey' /\ seen'.raised = seen.raised
        /\ toClient' \in {<<[kind |-> "ok", key |-> call.key]>>, <<[kind |-> "error"]>>}
    <3>1. CASE Replies(<<[kind |-> "error"]>>) /\ UNCHANGED <<server, seen>>
      <4>1. toClient' = <<[kind |-> "error"]>>
        BY <2>1, <3>1 DEF Replies
      <4>2. AgreeButKey'
        BY <1>1, <1>4, <2>2, <2>3, <3>1 DEF AgreeButKey
      <4>. QED
        BY <3>1, <4>1, <4>2
    <3>2. CASE /\ server' = [server EXCEPT ![Request.key] = Request.value]
               /\ seen' = [seen EXCEPT !.past = IF Request.key = call.key THEN @ \cup {Request.value} ELSE @,
                                       !.raised = @ \/ (/\ Request.key = Master /\ ~Request.confirmed
                                                        /\ Request.value > server[Master])]
               /\ Replies(<<[kind |-> "ok", key |-> Request.key]>>)
      <4>1. toClient' = <<[kind |-> "ok", key |-> call.key]>>
        BY <2>1, <2>4, <3>2 DEF Replies
      <4>2. AgreeButKey'
        BY <1>1, <1>4, <2>2, <2>3, <2>4, <3>2 DEF AgreeButKey
      <4>3. ~(/\ Request.key = Master /\ ~Request.confirmed
              /\ Request.value > server[Master])
        BY <2>3, <2>4 DEF Increases
      <4>4. seen'.raised = seen.raised
        <5>. DEFINE r == /\ Request.key = Master /\ ~Request.confirmed
                         /\ Request.value > server[Master]
                    p == IF Request.key = call.key THEN seen.past \cup {Request.value} ELSE seen.past
        <5>1. seen' = [seen EXCEPT !.past = p, !.raised = seen.raised \/ r]
          BY <3>2
        <5>2. ~r
          BY <4>3
        <5>3. seen \in Shape
          BY DEF Base, TypeInv, Shape
        <5>. HIDE DEF r, p
        <5>. QED
          BY <5>1, <5>2, <5>3 DEF Shape
      <4>. QED
        BY <4>1, <4>2, <4>4
    <3>. QED
      BY <2>5, <3>1, <3>2 DEF Set
  <2>7. WritesCalmly'
    BY <1>1, <2>4, <2>6 DEF WritesCalmly
  <2>. QED
    BY <1>1, <1>3, <1>8, <2>6, <2>7 DEF CalmInv
<1>. QED
  BY <1>3, <1>5, <1>6, <1>7, <1>8

(* In calm a call begins with nothing on the way and the values of the      *)
(* server shown.                                                            *)
LEMMA BeginCalm ==
    ASSUME Base, CalmInv, \/ BeginGetAll \/ BeginMeters
                          \/ \E k \in Keys, v \in Values : BeginWrite(k, v)
    PROVE  CalmInv'
<1>1. seen \in Shape
  BY DEF Base, TypeInv, Shape
<1>2. ASSUME NEW key, NEW stale, Begin(key, stale)
      PROVE  /\ pc = "idle"
             /\ UNCHANGED <<server, snapshots, toClient, console>>
             /\ seen'.failed = seen.failed /\ seen'.raised = seen.raised
             /\ Calm' => /\ Calm /\ toServer = <<>> /\ toClient = <<>> /\ Agree
                         /\ ~seen.raised /\ seen'.clean
  <2>. DEFINE c == /\ toServer = <<>>
                   /\ \A i \in DOMAIN toClient : toClient[i].kind \notin stale
  <2>1. seen' = [seen EXCEPT !.lost = 0, !.past = {server[key]}, !.clean = c]
    BY <1>2 DEF Begin
  <2>2. seen'.failed = seen.failed /\ seen'.raised = seen.raised /\ seen'.clean = c
    <3>. HIDE DEF c
    <3>. QED
      BY <1>1, <2>1 DEF Shape
  <2>3. pc = "idle" /\ UNCHANGED <<server, snapshots, toClient, console, foreign>>
        /\ odd' = IF odd = "now" THEN "before" ELSE odd
    BY <1>2 DEF Begin
  <2>4. Calm' => Calm
    BY <2>2, <2>3 DEF Calm
  <2>5. Calm => toServer = <<>> /\ toClient = <<>> /\ Agree /\ ~seen.raised
    BY <2>3 DEF CalmInv, Quiet
  <2>6. Calm => c
    BY <2>5
  <2>. HIDE DEF c
  <2>. QED
    BY <2>2, <2>3, <2>4, <2>5, <2>6
<1>3. CASE BeginGetAll
  <2>1. /\ Begin(Master, {"chunk", "complete"}) /\ pc' = "all"
        /\ call' = [NoCall EXCEPT !.attempt = 1]
    BY <1>3 DEF BeginGetAll
  <2>2. ~call'.complete /\ call'.chunks = << >>
    BY <2>1 DEF NoCall
  <2>3. ASSUME Calm' PROVE GathersCalmly'
    <3>1. /\ UNCHANGED <<server, console>> /\ toClient' = <<>> /\ Agree /\ seen'.clean
      BY <1>2, <2>1, <2>3
    <3>2. toClient' \in Seq(AgreeAnswers') /\ EndsOnComplete(toClient')
      BY <3>1 DEF EndsOnComplete
    <3>3. \A k \in DOMAIN call'.chunks : call'.chunks[k] = server'[k]
      BY <2>2
    <3>. QED
      BY <3>1, <3>2, <3>3 DEF GathersCalmly, Agree, EndsOnComplete
  <2>. QED
    BY <1>2, <2>1, <2>3 DEF CalmInv
<1>4. CASE BeginMeters
  <2>1. /\ Begin(Master, {}) /\ pc' = "meters"
        /\ toServer' = Append(toServer, [kind |-> "meters"])
    BY <1>4 DEF BeginMeters, Sends
  <2>2. ASSUME Calm' PROVE MetersCalmly'
    <3>1. /\ UNCHANGED <<server, console>> /\ toClient' = <<>> /\ Agree /\ toServer = <<>>
      BY <1>2, <2>1, <2>2
    <3>2. toServer' = <<[kind |-> "meters"]>>
      BY <2>1, <3>1
    <3>. QED
      BY <3>1, <3>2 DEF MetersCalmly, Agree
  <2>. QED
    BY <1>2, <2>1, <2>2 DEF CalmInv
<1>5. ASSUME NEW k \in Keys, NEW v \in Values, BeginWrite(k, v) PROVE CalmInv'
  <2>1. /\ Begin(k, {"state", "ok", "error"}) /\ pc' = "ack"
        /\ call' = [NoCall EXCEPT !.key = k, !.value = v]
        /\ toServer' = Append(toServer, [kind |-> "set", key |-> k, value |-> v,
                                         confirmed |-> Increases(k, v)])
    BY <1>5 DEF BeginWrite, Sends
  <2>2. call'.key = k /\ call'.value = v
    BY <2>1 DEF NoCall
  <2>3. ASSUME Calm' PROVE WritesCalmly'
    <3>1. /\ UNCHANGED <<server, console>> /\ toClient' = <<>> /\ Agree /\ toServer = <<>>
      BY <1>2, <2>1, <2>3
    <3>2. SetOfCall' = [kind |-> "set", key |-> k, value |-> v, confirmed |-> Increases(k, v)]
      BY <2>2, <3>1 DEF SetOfCall, Increases
    <3>3. toServer' = <<SetOfCall'>>
      <4>. HIDE DEF SetOfCall
      <4>. QED
        BY <2>1, <3>1, <3>2
    <3>. QED
      BY <3>1, <3>3 DEF WritesCalmly, Agree
  <2>. QED
    BY <1>2, <2>1, <2>3 DEF CalmInv
<1>. QED
  BY <1>3, <1>4, <1>5

(* In a regular attempt every answer fits.                                  *)
LEMMA RegularFits ==
    ASSUME Base, RecInv, pc = "all", Regular, Takes("chunk") \/ Takes("complete")
    PROVE  toServer = <<>> /\ Message.snap = Len(snapshots) /\ Fits
<1>1. toClient \in Seq(Current) /\ call.snap \in {None, Len(snapshots)} /\ toClient # <<>>
  BY DEF RecInv, AttemptInv, Takes
<1>2. Message \in Current /\ Message.kind \in {"chunk", "complete"}
  BY <1>1, Taken DEF Message, Takes
<1>. QED
  BY <1>1, <1>2 DEF Current, OfAttempt, Fits

(* A completion is the last datagram of its queue: nothing follows it.      *)
LEMMA EndsCalmly ==
    ASSUME NEW S, NEW q \in Seq(S), q # <<>>, EndsOnComplete(q)
    PROVE  /\ EndsOnComplete(Tail(q))
           /\ Head(q).kind = "complete" => Tail(q) = <<>>
<1>1. /\ Tail(q) \in Seq(S) /\ Head(q) = q[1] /\ Len(Tail(q)) = Len(q) - 1
      /\ Len(q) >= 1 /\ Len(q) \in Nat
      /\ \A i \in 1..Len(Tail(q)) : i + 1 \in 1..Len(q) /\ Tail(q)[i] = q[i + 1]
  BY Taken, LenProperties
<1>2. ASSUME NEW i \in 1..Len(Tail(q)), Tail(q)[i].kind = "complete" PROVE i = Len(Tail(q))
  <2>1. i + 1 \in 1..Len(q) /\ q[i + 1].kind = "complete"
    BY <1>1, <1>2
  <2>2. i + 1 = Len(q)
    BY <2>1 DEF EndsOnComplete
  <2>3. i \in Int /\ Len(q) \in Nat /\ Len(Tail(q)) = Len(q) - 1
    BY <1>1
  <2>. QED
    BY ONLY <2>2, <2>3
<1>3. ASSUME Head(q).kind = "complete" PROVE Tail(q) = <<>>
  <2>1. 1 \in 1..Len(q) /\ q[1].kind = "complete"
    BY <1>1, <1>3
  <2>2. Len(q) = 1
    BY <2>1 DEF EndsOnComplete
  <2>3. Len(Tail(q)) = 0
    BY <1>1, <2>2
  <2>. QED
    BY <1>1, <2>3, EmptySeq
<1>. QED
  BY <1>2, <1>3 DEF EndsOnComplete

(* A bulk answer taken in calm ends with the values of the server shown and *)
(* nothing on the way.                                                      *)
LEMMA WithCalm ==
    ASSUME Base, RecInv, pc = "all", Calm, GathersCalmly, ~seen.raised,
           UNCHANGED <<server, snapshots, foreign, odd, toServer>>,
           Takes("chunk") \/ Takes("complete"),
           NEW c, With(c), DOMAIN c.chunks # {} => c.chunks = [k \in DOMAIN c.chunks |-> c.chunks[k]],
           \A k \in DOMAIN c.chunks : c.chunks[k] = server[k],
           c.complete => Message.kind = "complete"
    PROVE  CalmInv'
<1>1. Regular
  BY DEF Regular, Calm, GathersCalmly
<1>2. toServer = <<>>
  BY <1>1, RegularFits
<1>3. /\ toClient # <<>> /\ toClient' = Tail(toClient) /\ toClient \in Seq(AgreeAnswers)
      /\ EndsOnComplete(toClient)
  BY DEF Takes, GathersCalmly
<1>4. /\ toClient' \in Seq(AgreeAnswers) /\ EndsOnComplete(toClient')
      /\ c.complete => toClient' = <<>>
  BY <1>3, Taken, EndsCalmly DEF Message
<1>5. CASE c.complete /\ DOMAIN c.chunks = Keys
  <2>1. /\ pc' = "idle" /\ console' = c.chunks
        /\ seen' = [seen EXCEPT !.failed = @ \/ ("all" = "write" /\ ~TRUE)]
    BY <1>5 DEF With, Ends
  <2>2. seen \in Shape
    BY DEF Base, TypeInv, Shape
  <2>3. seen'.raised = seen.raised
    BY <2>1, <2>2 DEF Shape
  <2>4. server \in [Keys -> Values] /\ Keys # {}
    BY MasterAssumption DEF Base, TypeInv
  <2>5. c.chunks = [k \in Keys |-> server[k]]
    BY <1>5, <2>4
  <2>6. console' = server
    BY <2>1, <2>4, <2>5
  <2>. QED
    BY <1>2, <1>4, <1>5, <2>1, <2>3, <2>6 DEF CalmInv, Quiet, Agree
<1>6. CASE ~(c.complete /\ DOMAIN c.chunks = Keys)
  <2>1. call' = c /\ UNCHANGED <<pc, outcome, console, seen>>
    BY <1>6 DEF With
  <2>2. AgreeAnswers' = AgreeAnswers
    BY AnswersSame DEF AgreeAnswers
  <2>3. GathersCalmly'
    BY <1>2, <1>4, <2>1, <2>2 DEF GathersCalmly, Agree, EndsOnComplete
  <2>. QED
    BY <2>1, <2>3 DEF CalmInv
<1>. QED
  BY <1>5, <1>6

(* In calm the console takes the datagrams of one bulk answer.              *)
LEMMA TakesAllCalm ==
    ASSUME Base, RecInv, CalmInv, TakeChunk \/ TakeComplete
    PROVE  CalmInv'
<1>1. /\ pc = "all" /\ UNCHANGED <<server, snapshots, foreign, odd>>
      /\ Takes("chunk") \/ Takes("complete")
  BY DEF TakeChunk, TakeComplete, Unserved
<1>2. seen \in Shape
  BY DEF Base, TypeInv, Shape
<1>3. seen'.failed = FALSE => seen.failed = FALSE
  <2>1. CASE AttemptFails
    BY <1>2, <2>1 DEF AttemptFails, Ends, Shape
  <2>2. ASSUME NEW c, With(c) PROVE seen'.failed = seen.failed
    BY <1>2, <2>2 DEF With, Ends, Shape
  <2>. QED
    BY <1>2, <2>1, <2>2 DEF TakeChunk, TakeComplete
<1>4. SUFFICES ASSUME Calm' PROVE CalmInv'
  BY DEF CalmInv
<1>5. Calm
  <2>1. foreign = 0 /\ odd = "never" /\ seen'.failed = FALSE
    BY <1>1, <1>4 DEF Calm
  <2>. QED
    BY <1>3, <2>1 DEF Calm
<1>6. GathersCalmly /\ ~seen.raised
  BY <1>1, <1>5 DEF CalmInv
<1>7. Regular
  BY <1>5, <1>6 DEF Regular, Calm, GathersCalmly
<1>8. Fits
  BY <1>1, <1>7, RegularFits
<1>9. /\ toClient # <<>> /\ toClient \in Seq(AgreeAnswers)
      /\ \A k \in DOMAIN call.chunks : call.chunks[k] = server[k]
      /\ ~call.complete
  BY <1>1, <1>6 DEF Takes, GathersCalmly
<1>10. Message \in AgreeAnswers
  BY <1>9, Taken DEF Message
<1>11. CASE Takes("chunk") /\ With(WithChunk) /\ UNCHANGED toServer
  <2>1. Message.kind = "chunk" /\ Message.value = server[Message.key]
    BY <1>10, <1>11 DEF Takes, Message, AgreeAnswers
  <2>2. /\ WithChunk.complete = call.complete
        /\ DOMAIN WithChunk.chunks = DOMAIN call.chunks \cup {Message.key}
        /\ WithChunk.chunks = [k \in DOMAIN WithChunk.chunks |-> snapshots[Message.snap][k]]
        /\ Message.value = snapshots[Message.snap][Message.key]
    BY <1>8, <1>11, WithChunkFact
  <2>3. ASSUME NEW k \in DOMAIN WithChunk.chunks PROVE WithChunk.chunks[k] = server[k]
    <3>1. WithChunk.chunks[k] = snapshots[Message.snap][k]
      BY <2>2
    <3>2. CASE k = Message.key
      BY <2>1, <2>2, <3>1, <3>2
    <3>3. CASE k \in DOMAIN call.chunks
      <4>1. call.chunks # << >>
        <5>1. DOMAIN << >> = {}
          <6>1. << >> \in Seq(Keys) /\ Len(<< >>) = 0
            BY EmptySeq
          <6>. QED
            BY <6>1, LenProperties
        <5>. QED
          BY <3>3, <5>1
      <4>2. call.chunks[k] = snapshots[call.snap][k] /\ call.snap = Message.snap
        BY <1>8, <3>3, <4>1 DEF Base, Gathered, Fits
      <4>. QED
        BY <1>9, <3>1, <3>3, <4>2
    <3>. QED
      BY <2>2, <3>2, <3>3
  <2>4. WithChunk.chunks = [k \in DOMAIN WithChunk.chunks |-> WithChunk.chunks[k]]
    BY <2>2
  <2>. QED
    BY <1>1, <1>5, <1>6, <1>9, <1>11, <2>2, <2>3, <2>4, WithCalm
<1>12. CASE /\ Takes("complete") /\ UNCHANGED toServer
            /\ With([call EXCEPT !.snap = Message.snap, !.complete = TRUE])
  <2>. DEFINE c == [call EXCEPT !.snap = Message.snap, !.complete = TRUE]
  <2>1. Message.kind = "complete"
    BY <1>12 DEF Takes, Message
  <2>2. c.chunks = call.chunks
    BY DEF Base, TypeInv
  <2>3. With(c)
    BY <1>12
  <2>. HIDE DEF c
  <2>4. DOMAIN c.chunks # {} => c.chunks = [k \in DOMAIN c.chunks |-> c.chunks[k]]
    <3>1. DOMAIN << >> = {}
      <4>1. << >> \in Seq(Keys) /\ Len(<< >>) = 0
        BY EmptySeq
      <4>. QED
        BY <4>1, LenProperties
    <3>2. call.chunks # << >> => call.chunks = [k \in DOMAIN call.chunks |-> snapshots[call.snap][k]]
      BY DEF Base, Gathered
    <3>. QED
      BY <2>2, <3>1, <3>2
  <2>5. \A k \in DOMAIN c.chunks : c.chunks[k] = server[k]
    BY <1>9, <2>2
  <2>. QED
    BY <1>1, <1>5, <1>6, <1>12, <2>1, <2>3, <2>4, <2>5, WithCalm
<1>. QED
  BY <1>8, <1>11, <1>12 DEF TakeChunk, TakeComplete, WithChunk

(* In calm an acknowledgement is of the key, and the readback is what the   *)
(* server has.                                                              *)
LEMMA TakesCalm ==
    ASSUME Base, CalmInv, TakeAck \/ TakeReadback \/ TakeMeters
    PROVE  CalmInv'
<1>1. UNCHANGED <<server, snapshots, foreign, odd>>
  BY DEF TakeAck, TakeReadback, TakeMeters, Unserved
<1>2. seen \in Shape
  BY DEF Base, TypeInv, Shape
<1>3. ASSUME Ends("write", FALSE, None) PROVE CalmInv'
  <2>1. seen' = [seen EXCEPT !.failed = @ \/ ("write" = "write" /\ ~FALSE)]
    BY <1>3 DEF Ends
  <2>2. seen'.failed
    BY <1>2, <2>1 DEF Shape
  <2>. QED
    BY <2>2 DEF CalmInv, Calm
<1>4. ASSUME NEW what, Ends(what, TRUE, None)
      PROVE  pc' = "idle" /\ seen'.failed = seen.failed /\ seen'.raised = seen.raised
  <2>1. seen' = [seen EXCEPT !.failed = @ \/ (what = "write" /\ ~TRUE)] /\ pc' = "idle"
    BY <1>4 DEF Ends
  <2>. QED
    BY <1>2, <2>1 DEF Shape
<1>5. CASE TakeMeters
  <2>1. /\ pc = "meters" /\ Takes("meters") /\ Ends("meters", TRUE, None)
        /\ UNCHANGED <<toServer, console>>
    BY <1>5 DEF TakeMeters
  <2>2. SUFFICES ASSUME Calm PROVE CalmInv'
    BY <1>1, <1>4, <2>1 DEF CalmInv, Calm
  <2>3. Agree /\ toServer = <<>> /\ toClient = <<[kind |-> "meters"]>> /\ ~seen.raised
    BY <2>1, <2>2 DEF CalmInv, MetersCalmly, Takes
  <2>4. toClient' = <<>>
    BY <2>1, <2>3 DEF Takes
  <2>. QED
    BY <1>1, <1>4, <2>1, <2>3, <2>4 DEF CalmInv, Agree, Quiet
<1>6. CASE TakeReadback /\ Takes("state") /\ Shown(Message.value) /\ Ends("write", TRUE, None)
  <2>1. pc = "read" /\ toServer' = toServer
    BY <1>6 DEF TakeReadback
  <2>2. SUFFICES ASSUME Calm PROVE CalmInv'
    BY <1>1, <1>4, <1>6 DEF CalmInv, Calm
  <2>3. AgreeButKey /\ toServer = <<>> /\ toClient = <<State(call.key)>> /\ ~seen.raised
    BY <1>6, <2>1, <2>2 DEF CalmInv, ReadsCalmly, Takes
  <2>4. toClient' = <<>> /\ Message = State(call.key)
    BY <1>6, <2>3 DEF Takes, Message
  <2>5. console' = [console EXCEPT ![call.key] = server[call.key]]
    BY <1>6, <2>4 DEF Shown, State
  <2>6. server \in [Keys -> Values] /\ call.key \in Keys /\ console \in [Keys -> Values]
    BY <2>1 DEF Base, TypeInv
  <2>7. console' = server
    BY <2>3, <2>5, <2>6 DEF AgreeButKey
  <2>. QED
    BY <1>1, <1>4, <1>6, <2>1, <2>3, <2>4, <2>7 DEF CalmInv, Agree, Quiet
<1>7. CASE /\ TakeAck /\ Takes("ok") /\ pc' = "read"
           /\ Sends([kind |-> "get", key |-> call.key])
           /\ UNCHANGED <<call, outcome, seen>>
  <2>1. pc = "ack" /\ console' = console
    BY <1>7 DEF TakeAck
  <2>2. SUFFICES ASSUME Calm PROVE CalmInv'
    BY <1>1, <1>7 DEF CalmInv, Calm
  <2>3. AgreeButKey /\ toServer = <<>> /\ toClient = <<[kind |-> "ok", key |-> call.key]>>
        /\ ~seen.raised
    BY <1>7, <2>1, <2>2 DEF CalmInv, WritesCalmly, Takes
  <2>4. toClient' = <<>>
    BY <1>7, <2>3 DEF Takes
  <2>5. toServer' = <<[kind |-> "get", key |-> call.key]>>
    BY <1>7, <2>3 DEF Sends
  <2>6. ReadsCalmly'
    BY <1>1, <1>7, <2>1, <2>3, <2>4, <2>5 DEF ReadsCalmly, AgreeButKey
  <2>. QED
    BY <1>1, <1>7, <2>3, <2>6 DEF CalmInv
<1>. QED
  BY <1>3, <1>5, <1>6, <1>7 DEF TakeAck, TakeReadback

(* In calm only the single values of a bulk answer are dropped.             *)
LEMMA DropCalm ==
    ASSUME Base, CalmInv, Drop
    PROVE  CalmInv'
<1>1. /\ pc # "idle" /\ toClient # <<>> /\ toClient' = Tail(toClient)
      /\ Message.kind \notin Awaited
      /\ UNCHANGED <<server, snapshots, toServer, pc, call, console, foreign, odd, seen>>
  BY DEF Drop
<1>2. SUFFICES ASSUME Calm PROVE CalmInv'
  BY <1>1 DEF CalmInv, Calm
<1>3. ~seen.raised
  BY <1>2 DEF CalmInv
<1>4. CASE pc = "all"
  <2>1. GathersCalmly
    BY <1>2, <1>4 DEF CalmInv
  <2>2. /\ toClient' \in Seq(AgreeAnswers) /\ EndsOnComplete(toClient')
    BY <1>1, <2>1, Taken, EndsCalmly DEF GathersCalmly
  <2>3. AgreeAnswers' = AgreeAnswers
    BY <1>1, AnswersSame DEF AgreeAnswers
  <2>4. GathersCalmly'
    BY <1>1, <2>1, <2>2, <2>3 DEF GathersCalmly, Agree, EndsOnComplete
  <2>. QED
    BY <1>1, <1>3, <1>4, <2>4 DEF CalmInv
<1>5. CASE pc = "meters"
  <2>1. toClient = <<[kind |-> "meters"]>>
    BY <1>1, <1>2, <1>5 DEF CalmInv, MetersCalmly
  <2>2. Message.kind = "meters"
    BY <2>1 DEF Message
  <2>. QED
    BY <1>1, <1>5, <2>2 DEF Awaited
<1>6. CASE pc = "ack"
  <2>1. toClient \in {<<[kind |-> "ok", key |-> call.key]>>, <<[kind |-> "error"]>>}
    BY <1>1, <1>2, <1>6 DEF CalmInv, WritesCalmly
  <2>2. Message.kind \in {"ok", "error"}
    BY <2>1 DEF Message
  <2>. QED
    BY <1>1, <1>6, <2>2 DEF Awaited
<1>7. CASE pc = "read"
  <2>1. toClient = <<State(call.key)>>
    BY <1>1, <1>2, <1>7 DEF CalmInv, ReadsCalmly
  <2>2. Message.kind = "state"
    BY <2>1 DEF Message, State
  <2>. QED
    BY <1>1, <1>7, <2>2 DEF Awaited
<1>8. pc \in {"idle", "all", "ack", "read", "meters"}
  BY DEF Base, TypeInv
<1>. QED
  BY <1>1, <1>4, <1>5, <1>6, <1>7, <1>8

(* A call other than a write that times out in calm leaves nothing on the   *)
(* way.                                                                     *)
LEMMA TimeoutCalm ==
    ASSUME Base, CalmInv, Timeout
    PROVE  CalmInv'
<1>1. /\ pc # "idle"
      /\ \/ Quiet /\ odd' = odd
         \/ odd' = "now"
      /\ UNCHANGED <<server, snapshots, toClient, foreign>>
  BY DEF Timeout
<1>2. seen \in Shape /\ pc \in {"idle", "all", "ack", "read", "meters"}
  BY DEF Base, TypeInv, Shape
<1>3. CASE odd' = "now"
  BY <1>3 DEF CalmInv, Calm
<1>4. CASE pc \in {"ack", "read"}
  <2>1. Ends("write", FALSE, None)
    BY <1>4 DEF Timeout
  <2>2. seen' = [seen EXCEPT !.failed = @ \/ ("write" = "write" /\ ~FALSE)]
    BY <2>1 DEF Ends
  <2>3. seen'.failed
    BY <1>2, <2>2 DEF Shape
  <2>. QED
    BY <2>3 DEF CalmInv, Calm
<1>5. CASE pc = "meters" /\ Quiet /\ odd' = odd
  <2>1. Ends("meters", FALSE, None) /\ UNCHANGED <<toServer, console>>
    BY <1>5 DEF Timeout
  <2>2. seen' = [seen EXCEPT !.failed = @ \/ ("meters" = "write" /\ ~FALSE)] /\ pc' = "idle"
    BY <2>1 DEF Ends
  <2>3. seen'.failed = seen.failed /\ seen'.raised = seen.raised
    BY <1>2, <2>2 DEF Shape
  <2>. QED
    BY <1>1, <1>5, <2>1, <2>2, <2>3 DEF CalmInv, Calm, MetersCalmly, Agree, Quiet
<1>6. CASE pc = "all" /\ Quiet /\ odd' = odd
  <2>1. AttemptFails
    BY <1>6 DEF Timeout
  <2>2. CASE call.attempt < Retries
    <3>1. /\ pc' = "all" /\ call' = NextAttempt /\ seen' = seen /\ console' = console
      BY <2>1, <2>2 DEF AttemptFails
    <3>2. Len(snapshots) \in Nat /\ call.attempt + 1 \in Nat
      BY DEF Base, TypeInv
    <3>3. call'.chunks = << >> /\ ~call'.complete
      BY <3>1, <3>2, NextAttemptFact
    <3>4. toClient' = <<>>
      BY <1>1, <1>6 DEF Quiet
    <3>5. toClient' \in Seq(AgreeAnswers') /\ EndsOnComplete(toClient')
      BY <3>4 DEF EndsOnComplete
    <3>6. \A k \in DOMAIN call'.chunks : call'.chunks[k] = server'[k]
      BY <3>3
    <3>7. GathersCalmly => GathersCalmly'
      BY <1>1, <3>1, <3>4, <3>5, <3>6 DEF GathersCalmly, Agree, EndsOnComplete
    <3>. QED
      BY <1>1, <1>6, <3>1, <3>7 DEF CalmInv, Calm
  <2>3. CASE ~(call.attempt < Retries)
    <3>1. Ends("all", FALSE, None) /\ UNCHANGED <<toServer, console>>
      BY <2>1, <2>3 DEF AttemptFails
    <3>2. seen' = [seen EXCEPT !.failed = @ \/ ("all" = "write" /\ ~FALSE)] /\ pc' = "idle"
      BY <3>1 DEF Ends
    <3>3. seen'.failed = seen.failed /\ seen'.raised = seen.raised
      BY <1>2, <3>2 DEF Shape
    <3>. QED
      BY <1>1, <1>6, <3>1, <3>2, <3>3 DEF CalmInv, Calm, GathersCalmly, Agree, Quiet
  <2>. QED
    BY <2>2, <2>3
<1>. QED
  BY <1>1, <1>2, <1>3, <1>4, <1>5, <1>6

(* A datagram is lost from a queue of one, or from the answer to get-all.   *)
LEMMA LoseCalm ==
    ASSUME Base, CalmInv, Lose
    PROVE  CalmInv'
<1>1. /\ UNCHANGED <<server, snapshots, pc, call, console, foreign, odd>>
      /\ seen' = [seen EXCEPT !.lost = @ + 1]
      /\ \/ \E i \in DOMAIN toServer : toServer' = RemoveAt(toServer, i) /\ UNCHANGED toClient
         \/ \E i \in DOMAIN toClient : toClient' = RemoveAt(toClient, i) /\ UNCHANGED toServer
  BY DEF Lose, Fault
<1>2. seen'.failed = seen.failed /\ seen'.raised = seen.raised /\ seen'.clean = seen.clean
  <2>1. seen \in Shape
    BY DEF Base, TypeInv, Shape
  <2>. QED
    BY <1>1, <2>1 DEF Shape
<1>3. SUFFICES ASSUME Calm PROVE CalmInv'
  BY <1>1, <1>2 DEF CalmInv, Calm
<1>4. ~seen.raised /\ pc \in {"idle", "all", "ack", "read", "meters"}
  BY <1>3 DEF CalmInv, Base, TypeInv
<1>5. ASSUME NEW S, NEW q \in Seq(S), Len(q) <= 1, NEW i \in DOMAIN q
      PROVE  RemoveAt(q, i) = <<>>
  <2>1. RemoveAt(q, i) \in Seq(S) /\ Len(RemoveAt(q, i)) = Len(q) - 1
    BY <1>5, Removed
  <2>2. Len(RemoveAt(q, i)) \in Nat /\ Len(q) \in Nat
    BY <2>1, LenProperties
  <2>3. Len(RemoveAt(q, i)) = 0
    BY <1>5, <2>1, <2>2
  <2>. QED
    BY <2>1, <2>3, EmptySeq
<1>6. toServer \in Seq(Requests) /\ toClient \in Seq(Answers)
  BY DEF Base, TypeInv
<1>7. ASSUME Len(toServer) <= 1, Len(toClient) <= 1, toServer = <<>> \/ toClient = <<>>
      PROVE  /\ toServer' = <<>> /\ toClient' = <<>>
             /\ toServer # <<>> \/ toClient # <<>>
  <2>1. DOMAIN <<>> = {}
    <3>1. <<>> \in Seq(Requests) /\ Len(<<>>) = 0
      BY EmptySeq
    <3>. QED
      BY <3>1, LenProperties
  <2>2. CASE \E i \in DOMAIN toServer : toServer' = RemoveAt(toServer, i) /\ UNCHANGED toClient
    <3>1. toServer' = <<>> /\ toServer # <<>> /\ toClient' = toClient
      BY <1>5, <1>6, <1>7, <2>1, <2>2
    <3>. QED
      BY <1>7, <3>1
  <2>3. CASE \E i \in DOMAIN toClient : toClient' = RemoveAt(toClient, i) /\ UNCHANGED toServer
    <3>1. toClient' = <<>> /\ toClient # <<>> /\ toServer' = toServer
      BY <1>5, <1>6, <1>7, <2>1, <2>3
    <3>. QED
      BY <1>7, <3>1
  <2>. QED
    BY <1>1, <2>2, <2>3
<1>. DEFINE Messages == {[kind |-> "meters"], [kind |-> "get", key |-> call.key], SetOfCall,
                         [kind |-> "ok", key |-> call.key], [kind |-> "error"], State(call.key)}
            Singles == {<<>>} \cup {<<m>> : m \in Messages}
<1>13. \A q \in Singles : Len(q) <= 1
  <2>1. \A m : Len(<<m>>) = 1
    OBVIOUS
  <2>2. Len(<<>>) = 0
    OBVIOUS
  <2>. HIDE DEF Messages
  <2>3. ASSUME NEW q \in Singles PROVE Len(q) <= 1
    <3>1. CASE q = <<>>
      BY <2>2, <3>1
    <3>2. CASE \E m \in Messages : q = <<m>>
      <4>1. Len(q) = 1
        BY <2>1, <3>2
      <4>. QED
        BY ONLY <4>1
    <3>. QED
      BY <3>1, <3>2
  <2>. QED
    BY <2>3
<1>8. CASE pc = "idle"
  <2>1. toServer = <<>> /\ toClient = <<>>
    BY <1>3, <1>8 DEF CalmInv, Quiet
  <2>. QED
    BY <1>7, <2>1
<1>9. CASE pc = "meters"
  <2>1. MetersCalmly
    BY <1>3, <1>9 DEF CalmInv
  <2>2. toServer' = <<>> /\ toClient' = <<>>
    <3>1. toServer = <<>> \/ toClient = <<>>
      BY <2>1 DEF MetersCalmly
    <3>2. toServer \in Singles /\ toClient \in Singles
      BY <2>1 DEF MetersCalmly
    <3>. QED
      BY <1>7, <1>13, <3>1, <3>2
  <2>3. MetersCalmly'
    BY <1>1, <2>1, <2>2 DEF MetersCalmly, Agree
  <2>. QED
    BY <1>1, <1>2, <1>4, <1>9, <2>3 DEF CalmInv
<1>10. CASE pc = "read"
  <2>1. ReadsCalmly
    BY <1>3, <1>10 DEF CalmInv
  <2>2. toServer' = <<>> /\ toClient' = <<>>
    <3>1. toServer = <<>> \/ toClient = <<>>
      BY <2>1 DEF ReadsCalmly
    <3>2. toServer \in Singles /\ toClient \in Singles
      BY <2>1 DEF ReadsCalmly
    <3>. QED
      BY <1>7, <1>13, <3>1, <3>2
  <2>3. ReadsCalmly'
    BY <1>1, <2>1, <2>2 DEF ReadsCalmly, AgreeButKey
  <2>. QED
    BY <1>1, <1>2, <1>4, <1>10, <2>3 DEF CalmInv
<1>11. CASE pc = "ack"
  <2>1. WritesCalmly
    BY <1>3, <1>11 DEF CalmInv
  <2>2. toServer' = <<>> /\ toClient' = <<>>
    <3>1. toServer = <<>> \/ toClient = <<>>
      BY <2>1 DEF WritesCalmly
    <3>2. toServer \in Singles /\ toClient \in Singles
      BY <2>1 DEF WritesCalmly
    <3>. QED
      BY <1>7, <1>13, <3>1, <3>2
  <2>3. AgreeButKey
    <3>1. CASE Agree
      <4>1. console \in [Keys -> Values] /\ console # << >> /\ call.key \in Keys
        BY <1>11 DEF Base, TypeInv
      <4>2. console = server
        BY <3>1, <4>1 DEF Agree
      <4>. QED
        BY <4>1, <4>2 DEF AgreeButKey
    <3>. QED
      BY <2>1, <3>1 DEF WritesCalmly
  <2>4. WritesCalmly'
    BY <1>1, <2>2, <2>3 DEF WritesCalmly, AgreeButKey
  <2>. QED
    BY <1>1, <1>2, <1>4, <1>11, <2>4 DEF CalmInv
<1>12. CASE pc = "all"
  <2>1. GathersCalmly
    BY <1>3, <1>12 DEF CalmInv
  <2>2. AgreeAnswers' = AgreeAnswers
    BY <1>1, AnswersSame DEF AgreeAnswers
  <2>3. /\ toClient' \in Seq(AgreeAnswers) /\ EndsOnComplete(toClient')
        /\ toClient = <<>> => toClient' = <<>>
        /\ toServer' # <<>> => toServer # <<>>
    <3>1. CASE \E i \in DOMAIN toServer : toServer' = RemoveAt(toServer, i) /\ UNCHANGED toClient
      <4>1. toServer # <<>>
        <5>1. <<>> \in Seq(Requests) /\ Len(<<>>) = 0
          BY EmptySeq
        <5>2. DOMAIN <<>> = {}
          BY <5>1, LenProperties
        <5>. QED
          BY <3>1, <5>2
      <4>. QED
        BY <2>1, <3>1, <4>1 DEF GathersCalmly
    <3>2. ASSUME NEW i \in DOMAIN toClient, toClient' = RemoveAt(toClient, i), UNCHANGED toServer
          PROVE  /\ toClient' \in Seq(AgreeAnswers) /\ EndsOnComplete(toClient')
                 /\ toClient # <<>>
      <4>1. /\ toClient' \in Seq(AgreeAnswers) /\ Len(toClient') = Len(toClient) - 1
            /\ \A j \in 1..Len(toClient) - 1 :
                  toClient'[j] = IF j < i THEN toClient[j] ELSE toClient[j + 1]
        BY <2>1, <3>2, Removed DEF GathersCalmly
      <4>2. i \in 1..Len(toClient) /\ Len(toClient) \in Nat
        BY <1>6, <3>2, LenProperties
      <4>3. ASSUME NEW j \in 1..Len(toClient'), toClient'[j].kind = "complete"
            PROVE  j = Len(toClient')
        <5>1. j \in 1..Len(toClient) - 1 /\ j \in 1..Len(toClient) /\ j + 1 \in 1..Len(toClient)
          BY <4>1, <4>2
        <5>2. toClient[j].kind = "complete" \/ toClient[j + 1].kind = "complete"
          BY <4>1, <4>3, <5>1
        <5>3. j = Len(toClient) \/ j + 1 = Len(toClient)
          BY <2>1, <5>1, <5>2 DEF GathersCalmly, EndsOnComplete
        <5>. QED
          BY <4>1, <4>2, <5>1, <5>3
      <4>4. toClient # <<>>
        <5>1. Len(toClient) # 0
          BY <4>2
        <5>. QED
          BY <5>1, EmptySeq
      <4>. QED
        BY <4>1, <4>3, <4>4 DEF EndsOnComplete
    <3>. QED
      BY <1>1, <3>1, <3>2
  <2>4. GathersCalmly'
    BY <1>1, <1>2, <2>1, <2>2, <2>3 DEF GathersCalmly, Agree, EndsOnComplete
  <2>. QED
    BY <1>1, <1>2, <1>4, <1>12, <2>4 DEF CalmInv
<1>. QED
  BY <1>4, <1>8, <1>9, <1>10, <1>11, <1>12

(* A write of another client and a late or repeated reply end the calm.     *)
LEMMA NetworkCalm ==
    ASSUME Base, CalmInv, OtherWrite \/ Lose \/ Repeat \/ Delay
    PROVE  CalmInv'
<1>1. CASE OtherWrite
  <2>1. foreign' # 0
    BY <1>1 DEF OtherWrite, Base, TypeInv
  <2>. QED
    BY <2>1 DEF CalmInv, Calm
<1>2. CASE Repeat \/ Delay
  <2>1. odd' = "now"
    BY <1>2 DEF Repeat, Delay
  <2>. QED
    BY <2>1 DEF CalmInv, Calm
<1>. QED
  BY <1>1, <1>2, LoseCalm

(* Every step keeps the calm, or ends it.                                   *)
LEMMA CalmStep == Base /\ RecInv /\ CalmInv /\ [Next]_vars => CalmInv'
<1>1. CASE UNCHANGED vars
  BY <1>1 DEF vars, CalmInv, Calm, Quiet, Agree, AgreeButKey, GathersCalmly, AgreeAnswers,
     Answers, EndsOnComplete, MetersCalmly, WritesCalmly, SetOfCall, Increases, ReadsCalmly, State
<1>. QED
  BY <1>1, StepCases, ServerCalm, BeginCalm, TakesAllCalm, TakesCalm, DropCalm, TimeoutCalm,
     NetworkCalm

(* What is known of calm holds in every state.                              *)
LEMMA CalmInvariance == Spec => []CalmInv
<1>1. Init => CalmInv
  BY DEF Init, CalmInv, Quiet, Agree
<1>. QED
  BY <1>1, CalmStep, BaseInvariance, RecInvariance, PTL DEF Spec

(* The master is raised unconfirmed only after a write of another client, a *)
(* write that failed, or a reply that came late or twice.                   *)
THEOREM NoSilentRaise == Spec => []RaiseConfirmed
<1>1. Base /\ CalmInv => RaiseConfirmed
  BY DEF Base, TypeInv, CalmInv, Calm, RaiseConfirmed
<1>. QED
  BY <1>1, BaseInvariance, CalmInvariance, PTL
=============================================================================
