-------------------------- MODULE AdbBridgeProofs --------------------------
(***************************************************************************)
(* Proofs about the ADB bridge, for all sets of keys and any run of lines, *)
(* strokes, taps and lock changes.                                         *)
(***************************************************************************)
EXTENDS AdbBridge, SequenceTheorems, TLAPS

(* A step other than the two edges of a key and the end of a repeat leaves  *)
(* the keys of Linux alone.                                                 *)
LEMMA LinuxSteps ==
    ASSUME [Next]_vars
    PROVE  \/ UNCHANGED <<down, pressed>>
           \/ EndRepeat
           \/ \E k \in Keys : KeyDown(k) \/ KeyUp(k)
BY DEF Next, Loop, Read, LedEvents, CapsTap, PacketDone, MousePacket, Stroke, StrokeCaps, Click,
       Toggle, ToggleElsewhere, Tick, Linux, vars

(* A letter that is down is always the watched one, also when the line      *)
(* that would have released it was lost.                                    *)
THEOREM LettersAreWatched == Spec => []NoOrphanKey
<1>1. Init => NoOrphanKey
  BY DEF Init, NoOrphanKey
<1>2. NoOrphanKey /\ [Next]_vars => NoOrphanKey'
  <2>. SUFFICES ASSUME NoOrphanKey, [Next]_vars PROVE NoOrphanKey'
    OBVIOUS
  <2>1. CASE UNCHANGED <<down, pressed>>
    BY <2>1 DEF NoOrphanKey
  <2>2. CASE EndRepeat
    BY <2>2 DEF EndRepeat, NoOrphanKey
  <2>3. ASSUME NEW k \in Keys, KeyDown(k) PROVE NoOrphanKey'
    <3>1. CASE k \in Letters
      BY <2>3, <3>1 DEF KeyDown, ReleaseOld, NoOrphanKey
    <3>2. CASE k \notin Letters
      BY <2>3, <3>2 DEF KeyDown, NoOrphanKey
    <3>. QED
      BY <3>1, <3>2
  <2>4. ASSUME NEW k \in Keys, KeyUp(k) PROVE NoOrphanKey'
    BY <2>4 DEF KeyUp, Release, NoOrphanKey
  <2>. QED
    BY <2>1, <2>2, <2>3, <2>4, LinuxSteps
<1>. QED
  BY <1>1, <1>2, PTL DEF Spec

(* The last event on the way tells the lock of the desktop; with none on    *)
(* the way and no tap to come the LED shows it already.                     *)
LInv ==
    /\ taps \in Nat /\ events \in Seq(BOOLEAN)
    /\ lock \in BOOLEAN /\ mask \in BOOLEAN
    /\ events # <<>> => Last(events) = lock
    /\ LedsAgree

(* An event that is appended is the last one.                               *)
LEMMA LastAppended ==
    ASSUME NEW s \in Seq(BOOLEAN), NEW b \in BOOLEAN
    PROVE  Append(s, b) \in Seq(BOOLEAN) /\ Append(s, b) # <<>> /\ Last(Append(s, b)) = b
<1>1. Append(s, b) \in Seq(BOOLEAN) /\ Len(Append(s, b)) = Len(s) + 1
  OBVIOUS
<1>2. Append(s, b)[Len(s) + 1] = b
  OBVIOUS
<1>. QED
  BY <1>1, <1>2 DEF Last

(* The LED shows the lock of the desktop whenever nothing is under way.     *)
THEOREM LedShowsLock == Spec => []LedsAgree
<1>1. Init => LInv
  <2>. SUFFICES ASSUME Init PROVE LInv
    OBVIOUS
  <2>1. events = <<>> /\ mask = FALSE /\ lock \in BOOLEAN /\ taps = IF lock THEN 1 ELSE 0
    BY DEF Init
  <2>2. taps \in Nat /\ (taps = 0 => ~lock)
    BY <2>1
  <2>3. ~lock => mask = lock
    BY <2>1, Zenon
  <2>4. events \in Seq(BOOLEAN)
    BY <2>1
  <2>5. mask \in BOOLEAN
    BY <2>1, Zenon
  <2>. QED
    BY <2>1, <2>2, <2>3, <2>4, <2>5, Zenon DEF LInv, LedsAgree
<1>2. LInv /\ [Next]_vars => LInv'
  <2>. SUFFICES ASSUME LInv, [Next]_vars PROVE LInv'
    OBVIOUS
  <2>. USE DEF LInv
  <2>1. CASE LedEvents
    <3>1. events' = <<>> /\ UNCHANGED <<taps, lock>>
      BY <2>1 DEF LedEvents
    <3>2. CASE events = <<>>
      BY <2>1, <3>1, <3>2 DEF LedEvents, Authoritative, LedsAgree
    <3>3. CASE events # <<>>
      BY <2>1, <3>1, <3>3 DEF LedEvents, Authoritative, LedsAgree
    <3>. QED
      BY <3>2, <3>3
  <2>2. CASE CapsTap
    <3>1. UNCHANGED <<lock, events>>
      BY <2>2 DEF CapsTap
    <3>2. CASE recent
      BY <2>2, <3>1, <3>2 DEF CapsTap, LedsAgree
    <3>3. CASE ~recent
      BY <2>2, <3>1, <3>3 DEF CapsTap, LedsAgree
    <3>. QED
      BY <3>2, <3>3
  <2>3. ASSUME events' = Append(events, lock'), lock' \in BOOLEAN, mask' = mask, taps' \in Nat
        PROVE  LInv'
    BY <2>3, LastAppended DEF LedsAgree
  <2>4. CASE Toggle
    <3>1. taps' \in Nat /\ mask' = mask /\ events' = Append(events, lock')
      BY <2>4 DEF Toggle, Leds
    <3>2. lock' \in BOOLEAN
      BY <2>4 DEF Toggle
    <3>. QED
      BY <2>3, <3>1, <3>2
  <2>5. CASE ToggleElsewhere
    <3>1. taps' \in Nat /\ mask' = mask /\ events' = Append(events, lock')
      BY <2>5 DEF ToggleElsewhere, Leds
    <3>2. lock' \in BOOLEAN
      BY <2>5 DEF ToggleElsewhere
    <3>. QED
      BY <2>3, <3>1, <3>2
  <2>6. CASE UNCHANGED <<taps, lock, events, mask>>
    BY <2>6 DEF LedsAgree
  <2>7. \/ LedEvents \/ CapsTap \/ Toggle \/ ToggleElsewhere
        \/ UNCHANGED <<taps, lock, events, mask>>
    BY DEF Next, Loop, Read, EndRepeat, KeyDown, KeyUp, PacketDone, MousePacket, Stroke,
           StrokeCaps, Click, Tick, Desktop, Leds, vars
  <2>. QED
    BY <2>1, <2>2, <2>4, <2>5, <2>6, <2>7
<1>3. LInv => LedsAgree
  BY DEF LInv
<1>. QED
  BY <1>1, <1>2, <1>3, PTL DEF Spec

-----------------------------------------------------------------------------
(* What the packets on the way will bring about.                            *)

(* The last of q that is in U is in A; none of q is in U.                   *)
Says(A, U, q) == \E j \in 1..Len(q) : q[j] \in A /\ \A i \in j+1..Len(q) : q[i] \notin U
Silent(U, q) == \A i \in 1..Len(q) : q[i] \notin U

Tokens == [key : Keys \cup {Caps}, down : BOOLEAN]

(* The edges of k, and those that say whether it is in H; the packets with  *)
(* an edge of it, and those whose last edge of it says so.                  *)
EdgesOf(k) == {c \in Tokens : c.key = k}
EdgesTo(k, H) == {c \in Tokens : c.key = k /\ (c.down <=> k \in H)}
PacketsOf(k) == {t \in Seq(Tokens) : ~Silent(EdgesOf(k), t)}
PacketsTo(k, H) == {t \in Seq(Tokens) : Says(EdgesTo(k, H), EdgesOf(k), t)}

KTypes ==
    /\ wire \in Seq(Seq(Tokens)) /\ line \in Seq(Tokens)
    /\ held \subseteq Keys /\ pressed \subseteq Letters
    /\ turn = "read" => line = <<>>

(* Linux has a modifier if it is held, and a letter at most then.           *)
Agrees(k) == (k \in down => k \in held) /\ (k \in Modifiers /\ k \in held => k \in down)

(* The last edge of a key that is on the way says whether it is held; a key *)
(* with no edge on the way is as Linux has it.                              *)
Told(k) ==
    \/ Says(PacketsTo(k, held), PacketsOf(k), wire)
    \/ /\ Silent(PacketsOf(k), wire)
       /\ \/ Says(EdgesTo(k, held), EdgesOf(k), line)
          \/ Silent(EdgesOf(k), line) /\ Agrees(k)

KInv == KTypes /\ (~lost => \A k \in Keys : Told(k))

(* Queues that grow or lose their first element.                            *)
LEMMA Grown ==
    ASSUME NEW S, NEW q \in Seq(S), NEW x \in S, NEW A, NEW U
    PROVE  /\ x \in A => Says(A, U, Append(q, x))
           /\ x \notin U /\ Says(A, U, q) => Says(A, U, Append(q, x))
           /\ x \notin U /\ Silent(U, q) => Silent(U, Append(q, x))
<1>. DEFINE w == Append(q, x)
<1>1. /\ Len(q) \in Nat /\ Len(w) = Len(q) + 1 /\ w[Len(q) + 1] = x
      /\ \A i \in 1..Len(q) : w[i] = q[i]
  OBVIOUS
<1>. HIDE DEF w
<1>2. ASSUME x \in A PROVE Says(A, U, w)
  <2>1. Len(q) + 1 \in 1..Len(w) /\ \A i \in Len(q) + 1 + 1..Len(w) : FALSE
    BY <1>1
  <2>. QED
    BY <1>1, <1>2, <2>1 DEF Says
<1>3. ASSUME x \notin U, Says(A, U, q) PROVE Says(A, U, w)
  <2>1. PICK j \in 1..Len(q) : q[j] \in A /\ \A i \in j+1..Len(q) : q[i] \notin U
    BY <1>3 DEF Says
  <2>2. \A i \in j+1..Len(w) : i = Len(q) + 1 \/ (i \in j+1..Len(q) /\ i \in 1..Len(q))
    BY <1>1
  <2>3. j \in 1..Len(w) /\ w[j] \in A
    BY <1>1, <2>1
  <2>4. \A i \in j+1..Len(w) : w[i] \notin U
    BY <1>1, <1>3, <2>1, <2>2
  <2>. QED
    BY <2>3, <2>4 DEF Says
<1>4. ASSUME x \notin U, Silent(U, q) PROVE Silent(U, w)
  <2>1. \A i \in 1..Len(w) : i = Len(q) + 1 \/ i \in 1..Len(q)
    BY <1>1
  <2>. QED
    BY <1>1, <1>4, <2>1 DEF Silent
<1>. QED
  BY <1>2, <1>3, <1>4 DEF w

LEMMA Shrunk ==
    ASSUME NEW S, NEW q \in Seq(S), q # <<>>, NEW A, NEW U
    PROVE  /\ Silent(U, q) => Silent(U, Tail(q)) /\ Head(q) \notin U
           /\ Says(A, U, q) => \/ Says(A, U, Tail(q))
                               \/ Silent(U, Tail(q)) /\ Head(q) \in A
<1>. DEFINE w == Tail(q)
<1>1. /\ Len(q) \in Nat /\ Len(q) >= 1 /\ Len(w) = Len(q) - 1 /\ Head(q) = q[1]
      /\ \A i \in 1..Len(w) : w[i] = q[i + 1]
  OBVIOUS
<1>. HIDE DEF w
<1>2. \A i \in 1..Len(w) : i + 1 \in 1..Len(q)
  BY <1>1
<1>3. ASSUME Silent(U, q) PROVE Silent(U, w) /\ Head(q) \notin U
  BY <1>1, <1>2, <1>3 DEF Silent
<1>4. ASSUME Says(A, U, q)
      PROVE  Says(A, U, w) \/ (Silent(U, w) /\ Head(q) \in A)
  <2>1. PICK j \in 1..Len(q) : q[j] \in A /\ \A i \in j+1..Len(q) : q[i] \notin U
    BY <1>4 DEF Says
  <2>2. \A i \in 1..Len(w) : i >= j => i + 1 \in j+1..Len(q) /\ w[i] \notin U
    BY <1>1, <2>1
  <2>3. CASE j = 1
    <3>1. \A i \in 1..Len(w) : w[i] \notin U
      BY <2>2, <2>3
    <3>. QED
      BY <1>1, <2>1, <2>3, <3>1 DEF Silent
  <2>4. CASE j # 1
    <3>1. PICK p \in 1..Len(w) : j = p + 1
      <4>1. j - 1 \in 1..Len(w) /\ j = (j - 1) + 1
        BY <1>1, <2>4
      <4>. QED
        BY <4>1
    <3>2. w[p] \in A
      BY <1>1, <2>1, <3>1
    <3>3. \A i \in p+1..Len(w) : i \in 1..Len(w) /\ i >= j
      BY <3>1
    <3>4. Says(A, U, w)
      BY <2>2, <3>2, <3>3 DEF Says
    <3>. QED
      BY <3>4
  <2>. QED
    BY <2>3, <2>4
<1>. QED
  BY <1>3, <1>4 DEF w

(* When the last element changes.                                           *)
LastIs(w, q, x) ==
    /\ Len(q) \in Nat /\ Len(q) >= 1 /\ Len(w) = Len(q) /\ w[Len(q)] = x
    /\ \A i \in 1..Len(q) : i # Len(q) => w[i] = q[i]

LEMMA NewLast ==
    ASSUME NEW S, NEW q \in Seq(S), q # <<>>, NEW x \in S
    PROVE  [q EXCEPT ![Len(q)] = x] \in Seq(S) /\ LastIs([q EXCEPT ![Len(q)] = x], q, x)
<1>1. Len(q) \in Nat /\ Len(q) >= 1
  BY EmptySeq
<1>2. q \in [1..Len(q) -> S]
  OBVIOUS
<1>3. ASSUME NEW n \in Nat, n >= 1, NEW s \in [1..n -> S]
      PROVE  /\ [s EXCEPT ![n] = x] \in [1..n -> S] /\ [s EXCEPT ![n] = x][n] = x
             /\ \A i \in 1..n : i # n => [s EXCEPT ![n] = x][i] = s[i]
  <2>1. n \in 1..n
    BY <1>3
  <2>2. [s EXCEPT ![n] = x] = [i \in 1..n |-> IF i = n THEN x ELSE s[i]]
    BY ONLY <1>3, s \in [1..n -> S], Zenon
  <2>3. \A i \in 1..n : s[i] \in S
    OBVIOUS
  <2>. QED
    BY ONLY <2>1, <2>2, <2>3, x \in S
<1>4. /\ [q EXCEPT ![Len(q)] = x] \in [1..Len(q) -> S] /\ [q EXCEPT ![Len(q)] = x][Len(q)] = x
      /\ \A i \in 1..Len(q) : i # Len(q) => [q EXCEPT ![Len(q)] = x][i] = q[i]
  BY <1>1, <1>2, <1>3, Zenon
<1>5. ASSUME NEW n \in Nat, NEW s \in [1..n -> S] PROVE s \in Seq(S) /\ Len(s) = n
  OBVIOUS
<1>6. [q EXCEPT ![Len(q)] = x] \in Seq(S) /\ Len([q EXCEPT ![Len(q)] = x]) = Len(q)
  BY <1>1, <1>4, <1>5, Zenon
<1>. QED
  BY <1>1, <1>4, <1>6, Zenon DEF LastIs

LEMMA Changed ==
    ASSUME NEW q, NEW x, NEW w, LastIs(w, q, x), NEW A, NEW U
    PROVE  /\ x \in A => Says(A, U, w)
           /\ (q[Len(q)] \in A => x \in A) /\ (q[Len(q)] \notin U => x \notin U) =>
                 /\ Says(A, U, q) => Says(A, U, w)
                 /\ Silent(U, q) => Silent(U, w)
<1>1. /\ Len(q) \in Nat /\ Len(q) >= 1 /\ Len(w) = Len(q) /\ w[Len(q)] = x
      /\ \A i \in 1..Len(q) : i # Len(q) => w[i] = q[i]
  BY DEF LastIs
<1>2. ASSUME x \in A PROVE Says(A, U, w)
  <2>1. Len(q) \in 1..Len(w) /\ \A i \in Len(q)+1..Len(w) : FALSE
    BY <1>1
  <2>. QED
    BY <1>1, <1>2, <2>1 DEF Says
<1>3. ASSUME q[Len(q)] \in A => x \in A, q[Len(q)] \notin U => x \notin U
      PROVE  /\ Says(A, U, q) => Says(A, U, w)
             /\ Silent(U, q) => Silent(U, w)
  <2>1. \A i \in 1..Len(q) : (q[i] \in A => w[i] \in A) /\ (q[i] \notin U => w[i] \notin U)
    <3>. TAKE i \in 1..Len(q)
    <3>1. CASE i = Len(q)
      BY <1>1, <1>3, <3>1, Zenon
    <3>2. CASE i # Len(q)
      BY <1>1, <3>2, Zenon
    <3>. QED
      BY <3>1, <3>2
  <2>2. ASSUME Says(A, U, q) PROVE Says(A, U, w)
    <3>1. PICK j \in 1..Len(q) : q[j] \in A /\ \A i \in j+1..Len(q) : q[i] \notin U
      BY <2>2 DEF Says
    <3>2. j \in 1..Len(w) /\ \A i \in j+1..Len(w) : i \in 1..Len(q) /\ i \in j+1..Len(q)
      BY <1>1
    <3>3. w[j] \in A /\ \A i \in j+1..Len(w) : w[i] \notin U
      BY <2>1, <3>1, <3>2
    <3>. QED
      BY <3>2, <3>3 DEF Says
  <2>3. ASSUME Silent(U, q) PROVE Silent(U, w)
    BY <1>1, <2>1, <2>3 DEF Silent
  <2>. QED
    BY <2>2, <2>3
<1>. QED
  BY <1>2, <1>3

(* Nothing else about the keys that are held matters to k.                  *)
LEMMA SameKey ==
    ASSUME NEW k, NEW H, NEW G, k \in H <=> k \in G
    PROVE  EdgesTo(k, H) = EdgesTo(k, G) /\ PacketsTo(k, H) = PacketsTo(k, G)
<1>1. EdgesTo(k, H) = EdgesTo(k, G)
  BY DEF EdgesTo
<1>. QED
  BY <1>1, Zenon DEF PacketsTo

(* An edge that is sent, in a packet of its own or with the last.           *)
WireGrows(w, c) ==
    \/ w = Append(wire, Append(<<>>, c))
    \/ wire # <<>> /\ w = [wire EXCEPT ![Len(wire)] = Append(wire[Len(wire)], c)]

LEMMA Sent ==
    ASSUME KTypes, NEW c \in Tokens, NEW w, WireGrows(w, c), NEW k, NEW H
    PROVE  /\ w \in Seq(Seq(Tokens))
           /\ c \in EdgesTo(k, H) => Says(PacketsTo(k, H), PacketsOf(k), w)
           /\ c.key # k /\ Says(PacketsTo(k, H), PacketsOf(k), wire) =>
                 Says(PacketsTo(k, H), PacketsOf(k), w)
           /\ c.key # k /\ Silent(PacketsOf(k), wire) => Silent(PacketsOf(k), w)
<1>1. wire \in Seq(Seq(Tokens)) /\ <<>> \in Seq(Tokens)
  BY DEF KTypes
<1>2. c.key # k => c \notin EdgesOf(k)
  BY DEF EdgesOf
<1>3. ASSUME NEW s \in Seq(Tokens)
      PROVE  /\ Append(s, c) \in Seq(Tokens)
             /\ c \in EdgesTo(k, H) => Append(s, c) \in PacketsTo(k, H)
             /\ c.key # k /\ s \in PacketsTo(k, H) => Append(s, c) \in PacketsTo(k, H)
             /\ c.key # k /\ s \notin PacketsOf(k) => Append(s, c) \notin PacketsOf(k)
  <2>1. Append(s, c) \in Seq(Tokens)
    OBVIOUS
  <2>. QED
    BY <1>2, <2>1, Grown, Zenon DEF PacketsTo, PacketsOf
<1>4. CASE w = Append(wire, Append(<<>>, c))
  <2>1. Silent(EdgesOf(k), <<>>)
    BY DEF Silent
  <2>2. <<>> \notin PacketsOf(k)
    BY <2>1, Zenon DEF PacketsOf
  <2>. DEFINE x == Append(<<>>, c)
  <2>3. /\ x \in Seq(Tokens)
        /\ c \in EdgesTo(k, H) => x \in PacketsTo(k, H)
        /\ c.key # k => x \notin PacketsOf(k)
    BY <1>1, <1>3, <2>2, Zenon
  <2>4. w = Append(wire, x)
    BY <1>4
  <2>. HIDE DEF x
  <2>5. w \in Seq(Seq(Tokens))
    BY <1>1, <2>3, <2>4
  <2>. QED
    BY <1>1, <2>3, <2>4, <2>5, Grown, Zenon
<1>5. CASE wire # <<>> /\ w = [wire EXCEPT ![Len(wire)] = Append(wire[Len(wire)], c)]
  <2>. DEFINE s == wire[Len(wire)]
              x == Append(s, c)
  <2>1. s \in Seq(Tokens)
    <3>1. Len(wire) \in 1..Len(wire)
      BY <1>1, <1>5, EmptySeq
    <3>. QED
      BY <1>1, <3>1
  <2>2. x \in Seq(Tokens)
    BY <1>3, <2>1
  <2>3. LastIs(w, wire, x) /\ w \in Seq(Seq(Tokens))
    BY <1>1, <1>5, <2>2, NewLast, Zenon
  <2>4. /\ c \in EdgesTo(k, H) => x \in PacketsTo(k, H)
        /\ c.key # k /\ s \in PacketsTo(k, H) => x \in PacketsTo(k, H)
        /\ c.key # k /\ s \notin PacketsOf(k) => x \notin PacketsOf(k)
    BY <1>3, <2>1, Zenon
  <2>. HIDE DEF x
  <2>. QED
    BY <2>3, <2>4, Changed, Zenon
<1>. QED
  BY <1>4, <1>5, Zenon DEF WireGrows

(* A token of the line that is handled.                                     *)
LEMMA TokenHandled ==
    ASSUME KInv, line # <<>>, line' = Tail(line), UNCHANGED <<wire, held, lost>>,
           \A k \in Keys : Head(line).key = k /\ (Head(line).down <=> k \in held) => Agrees(k)',
           \A k \in Keys : Head(line).key # k /\ Agrees(k) => Agrees(k)'
    PROVE  ~lost' => \A k \in Keys : Told(k)'
<1>. SUFFICES ASSUME ~lost, NEW k \in Keys PROVE Told(k)'
  OBVIOUS
<1>1. line \in Seq(Tokens) /\ Told(k)
  BY DEF KInv, KTypes
<1>2. Head(line) \in Tokens
  BY <1>1
<1>3. CASE Says(PacketsTo(k, held), PacketsOf(k), wire)
  BY <1>3, Zenon DEF Told
<1>4. CASE Silent(PacketsOf(k), wire) /\ Says(EdgesTo(k, held), EdgesOf(k), line)
  <2>1. \/ Says(EdgesTo(k, held), EdgesOf(k), line')
        \/ Silent(EdgesOf(k), line') /\ Head(line) \in EdgesTo(k, held)
    BY <1>1, <1>4, Shrunk, Zenon
  <2>2. Head(line) \in EdgesTo(k, held) => Agrees(k)'
    BY DEF EdgesTo
  <2>. QED
    BY <1>4, <2>1, <2>2, Zenon DEF Told
<1>5. CASE Silent(PacketsOf(k), wire) /\ Silent(EdgesOf(k), line) /\ Agrees(k)
  <2>1. Silent(EdgesOf(k), line') /\ Head(line) \notin EdgesOf(k)
    BY <1>1, <1>5, Shrunk, Zenon
  <2>2. Agrees(k)'
    BY <1>2, <1>5, <2>1 DEF EdgesOf
  <2>. QED
    BY <1>5, <2>1, <2>2, Zenon DEF Told
<1>. QED
  BY <1>1, <1>3, <1>4, <1>5, Zenon DEF Told

(* A line is read: the first packet, all of it or a part that loses some.   *)
LEMMA LineRead ==
    ASSUME KInv, Read
    PROVE  KInv'
<1>1. turn = "read" /\ line = <<>> /\ turn' = "leds" /\ UNCHANGED <<held, down, pressed>>
  BY DEF KInv, KTypes, Read, Linux
<1>2. CASE line' = <<>> /\ UNCHANGED <<wire, lost>>
  <2>1. UNCHANGED line
    BY <1>1, <1>2
  <2>2. KTypes'
    BY <1>1, <1>2, <2>1 DEF KInv, KTypes
  <2>3. \A k \in Keys : Told(k) => Told(k)'
    BY <1>1, <1>2, <2>1, Zenon DEF Told, Agrees
  <2>. QED
    BY <1>2, <2>2, <2>3 DEF KInv
<1>3. ASSUME wire # <<>>, wire' = Tail(wire), NEW n \in 0..Len(Head(wire)),
             line' = SubSeq(Head(wire), 1, n), lost' = (lost \/ n < Len(Head(wire)))
      PROVE  KInv'
  <2>1. wire \in Seq(Seq(Tokens))
    BY DEF KInv, KTypes
  <2>2. Head(wire) \in Seq(Tokens) /\ Tail(wire) \in Seq(Seq(Tokens))
    BY <1>3, <2>1
  <2>3. line' \in Seq(Tokens)
    <3>1. Len(Head(wire)) \in Nat
      BY <2>2
    <3>2. \A i \in 1..n : Head(wire)[i] \in Tokens
      BY <2>2, <3>1
    <3>. QED
      BY <1>3, <2>2, <3>1, <3>2, SubSeqProperties
  <2>4. KTypes'
    BY <1>1, <1>3, <2>2, <2>3 DEF KInv, KTypes
  <2>5. ASSUME ~lost', NEW k \in Keys PROVE Told(k)'
    <3>1. ~lost /\ ~(n < Len(Head(wire)))
      BY <1>3, <2>5, Zenon
    <3>2. line' = Head(wire)
      <4>1. Len(Head(wire)) \in Nat /\ n = Len(Head(wire))
        BY <2>2, <3>1
      <4>. QED
        BY <1>3, <2>2, <4>1, SubSeqProperties
    <3>3. Told(k)
      BY <2>5, <3>1 DEF KInv
    <3>4. Agrees(k)' <=> Agrees(k)
      BY <1>1 DEF Agrees
    <3>5. ~Says(EdgesTo(k, held), EdgesOf(k), line)
      BY <1>1 DEF Says
    <3>6. CASE Says(PacketsTo(k, held), PacketsOf(k), wire)
      <4>1. \/ Says(PacketsTo(k, held), PacketsOf(k), wire')
            \/ Silent(PacketsOf(k), wire') /\ Head(wire) \in PacketsTo(k, held)
        BY <1>3, <2>1, <3>6, Shrunk, Zenon
      <4>2. Head(wire) \in PacketsTo(k, held) => Says(EdgesTo(k, held), EdgesOf(k), line')
        BY <3>2, Zenon DEF PacketsTo
      <4>. QED
        BY <1>1, <4>1, <4>2, Zenon DEF Told
    <3>7. CASE Silent(PacketsOf(k), wire) /\ Agrees(k)
      <4>1. Silent(PacketsOf(k), wire') /\ Head(wire) \notin PacketsOf(k)
        BY <1>3, <2>1, <3>7, Shrunk, Zenon
      <4>2. Silent(EdgesOf(k), line')
        BY <2>2, <3>2, <4>1, Zenon DEF PacketsOf
      <4>. QED
        BY <3>4, <3>7, <4>1, <4>2, Zenon DEF Told
    <3>. QED
      BY <3>3, <3>5, <3>6, <3>7, Zenon DEF Told
  <2>. QED
    BY <2>4, <2>5 DEF KInv
<1>. QED
  BY <1>2, <1>3 DEF Read

(* FollowsKeyboard.  Two edges may share a packet and lines may be split    *)
(* between turns of the loop, the repeat of a letter may end and another    *)
(* letter may take its place: as long as no token was lost, the last edge   *)
(* of a key decides, and Linux has it as the keyboard does.                 *)
THEOREM KeyboardFollowed == Spec => []FollowsKeyboard
<1>1. Init => KInv
  <2>1. SUFFICES ASSUME Init PROVE KInv
    OBVIOUS
  <2>2. wire = <<>> /\ line = <<>> /\ held = {} /\ down = {} /\ pressed = {}
    BY <2>1 DEF Init
  <2>3. KTypes
    BY <2>2 DEF KTypes
  <2>4. \A i \in 1..Len(<<>>) : FALSE
    OBVIOUS
  <2>5. \A k \in Keys : Silent(PacketsOf(k), wire) /\ Silent(EdgesOf(k), line) /\ Agrees(k)
    BY <2>2, <2>4, Zenon DEF Silent, Agrees
  <2>. QED
    BY <2>3, <2>5, Zenon DEF KInv, Told
<1>2. KInv /\ [Next]_vars => KInv'
  <2>1. SUFFICES ASSUME KInv, [Next]_vars PROVE KInv'
    OBVIOUS
  <2>2. KTypes
    BY <2>1 DEF KInv
  <2>3. ASSUME NEW c \in Tokens, WireGrows(wire', c), held' \subseteq Keys, ~lost' => ~lost,
               UNCHANGED <<line, turn, down, pressed>>,
               \A k \in Keys : c.key = k => (c.down <=> k \in held'),
               \A k \in Keys : c.key # k => (k \in held <=> k \in held')
        PROVE  KInv'
    <3>1. wire' \in Seq(Seq(Tokens))
      BY <2>2, <2>3, Sent, Zenon
    <3>2. KTypes'
      BY <2>2, <2>3, <3>1 DEF KTypes
    <3>3. ASSUME ~lost', NEW k \in Keys PROVE Told(k)'
      <4>1. CASE c.key = k
        <5>1. c \in EdgesTo(k, held')
          BY <2>3, <4>1 DEF EdgesTo
        <5>2. Says(PacketsTo(k, held'), PacketsOf(k), wire')
          BY <2>2, <2>3, <5>1, Sent, Zenon
        <5>. QED
          BY <5>2, Zenon DEF Told
      <4>2. CASE c.key # k
        <5>1. k \in held <=> k \in held'
          BY <2>3, <4>2
        <5>2. EdgesTo(k, held') = EdgesTo(k, held) /\ PacketsTo(k, held') = PacketsTo(k, held)
          BY <5>1, SameKey
        <5>3. Told(k)
          BY <2>1, <2>3, <3>3 DEF KInv
        <5>4. Agrees(k)' <=> Agrees(k)
          BY <2>3, <5>1 DEF Agrees
        <5>5. /\ Says(PacketsTo(k, held), PacketsOf(k), wire) =>
                    Says(PacketsTo(k, held), PacketsOf(k), wire')
              /\ Silent(PacketsOf(k), wire) => Silent(PacketsOf(k), wire')
          BY <2>2, <2>3, <4>2, Sent, Zenon
        <5>6. line' = line
          BY <2>3
        <5>. QED
          BY <5>2, <5>3, <5>4, <5>5, <5>6, Zenon DEF Told
      <4>. QED
        BY <4>1, <4>2
    <3>. QED
      BY <3>2, <3>3 DEF KInv
  <2>4. ASSUME NEW k \in Keys, Stroke(k) PROVE KInv'
    <3>. DEFINE c == [key |-> k, down |-> k \notin held]
    <3>1. c \in Tokens /\ c.key = k /\ (c.down <=> k \notin held)
      BY <2>4 DEF Tokens
    <3>2. <<c>> = Append(<<>>, c)
      OBVIOUS
    <3>3. \/ wire' = Append(wire, <<c>>)
          \/ wire # <<>> /\ wire' = [wire EXCEPT ![Len(wire)] = Append(@, c)]
      BY <2>4 DEF Stroke
    <3>4. WireGrows(wire', c)
      BY <3>2, <3>3 DEF WireGrows
    <3>5. /\ held' = IF k \in held THEN held \ {k} ELSE held \cup {k}
          /\ UNCHANGED <<lost, line, turn, down, pressed>>
      BY <2>4 DEF Stroke, Linux
    <3>6. held' \subseteq Keys /\ (k \in held' <=> k \notin held)
          /\ \A j \in Keys : j # k => (j \in held <=> j \in held')
      BY <2>2, <2>4, <3>5 DEF KTypes
    <3>. HIDE DEF c
    <3>. QED
      BY <2>3, <3>1, <3>4, <3>5, <3>6, Zenon
  <2>5. CASE StrokeCaps
    <3>. DEFINE c == [key |-> Caps, down |-> FALSE]
    <3>1. c \in Tokens /\ \A k \in Keys : c.key # k
      BY CapsAssumption DEF Tokens
    <3>2. <<c>> = Append(<<>>, c)
      OBVIOUS
    <3>3. wire' = Append(wire, <<c>>) /\ UNCHANGED <<held, lost, line, turn, down, pressed>>
      BY <2>5 DEF StrokeCaps, Linux
    <3>4. WireGrows(wire', c)
      BY <3>2, <3>3 DEF WireGrows
    <3>5. held' \subseteq Keys
      BY <2>2, <3>3 DEF KTypes
    <3>. HIDE DEF c
    <3>. QED
      BY <2>3, <3>1, <3>3, <3>4, <3>5, Zenon
  <2>6. CASE Read
    BY <2>1, <2>6, LineRead
  <2>7. ASSUME line # <<>>, Handled, pressed' \subseteq Letters, turn = "packet",
               \A k \in Keys : Head(line).key = k /\ (Head(line).down <=> k \in held) => Agrees(k)',
               \A k \in Keys : Head(line).key # k /\ Agrees(k) => Agrees(k)'
        PROVE  KInv'
    <3>1. line' = Tail(line) /\ UNCHANGED <<turn, wire, held, lost>>
      BY <2>7 DEF Handled, Keyboard
    <3>2. line' \in Seq(Tokens)
      BY <2>2, <2>7, <3>1 DEF KTypes
    <3>3. KTypes'
      BY <2>2, <2>7, <3>1, <3>2 DEF KTypes
    <3>4. ~lost' => \A k \in Keys : Told(k)'
      BY <2>1, <2>7, <3>1, TokenHandled, Zenon
    <3>. QED
      BY <3>3, <3>4 DEF KInv
  <2>8. ASSUME NEW k \in Keys, KeyDown(k) PROVE KInv'
    <3>1. line # <<>> /\ Handled /\ Head(line).key = k /\ Head(line).down /\ turn = "packet"
      BY <2>8 DEF KeyDown, Token, NextToken
    <3>2. UNCHANGED held
      BY <3>1 DEF Handled, Keyboard
    <3>3. CASE k \in Letters
      <4>1. down' = (down \ pressed) \cup {k} /\ pressed' = {k}
        BY <2>8, <3>3 DEF KeyDown, ReleaseOld
      <4>2. k \in held => Agrees(k)'
        BY <3>2, <4>1 DEF Agrees
      <4>3. \A j \in Keys : j # k /\ Agrees(j) => Agrees(j)'
        BY <2>2, <3>2, <4>1, KeysAssumption DEF Agrees, KTypes
      <4>. QED
        BY <2>7, <3>1, <3>3, <4>1, <4>2, <4>3
    <3>4. CASE k \notin Letters
      <4>1. down' = down \cup {k} /\ pressed' = pressed
        BY <2>8, <3>4 DEF KeyDown
      <4>2. k \in held => Agrees(k)'
        BY <3>2, <4>1 DEF Agrees
      <4>3. \A j \in Keys : j # k /\ Agrees(j) => Agrees(j)'
        BY <3>2, <4>1 DEF Agrees
      <4>4. pressed' \subseteq Letters
        BY <2>2, <4>1 DEF KTypes
      <4>. QED
        BY <2>7, <3>1, <4>2, <4>3, <4>4
    <3>. QED
      BY <3>3, <3>4
  <2>9. ASSUME NEW k \in Keys, KeyUp(k) PROVE KInv'
    <3>1. line # <<>> /\ Handled /\ Head(line).key = k /\ ~Head(line).down /\ turn = "packet"
      BY <2>9 DEF KeyUp, Token, NextToken
    <3>2. UNCHANGED held /\ down' = down \ {k} /\ pressed' = pressed \ {k}
      BY <2>9, <3>1 DEF KeyUp, Release, Handled, Keyboard
    <3>3. k \notin held => Agrees(k)'
      BY <3>2 DEF Agrees
    <3>4. \A j \in Keys : j # k /\ Agrees(j) => Agrees(j)'
      BY <3>2 DEF Agrees
    <3>5. pressed' \subseteq Letters
      BY <2>2, <3>2 DEF KTypes
    <3>. QED
      BY <2>7, <3>1, <3>3, <3>4, <3>5
  <2>10. CASE CapsTap
    <3>1. line # <<>> /\ Handled /\ Head(line).key = Caps /\ turn = "packet"
          /\ UNCHANGED <<down, pressed>>
      BY <2>10 DEF CapsTap, Token, NextToken, Linux
    <3>2. UNCHANGED held
      BY <3>1 DEF Handled, Keyboard
    <3>3. \A k \in Keys : Head(line).key # k /\ (Agrees(k) => Agrees(k)')
      BY <3>1, <3>2, CapsAssumption DEF Agrees
    <3>4. pressed' \subseteq Letters
      BY <2>2, <3>1 DEF KTypes
    <3>. QED
      BY <2>7, <3>1, <3>3, <3>4, Zenon
  <2>11. ASSUME UNCHANGED <<wire, line, held, lost>>, pressed' \subseteq Letters,
                turn' = "read" => line = <<>>,
                \A k \in Keys : Agrees(k) => Agrees(k)'
         PROVE  KInv'
    <3>1. KTypes'
      BY <2>2, <2>11 DEF KTypes
    <3>2. \A k \in Keys : Told(k) => Told(k)'
      BY <2>11, Zenon DEF Told
    <3>. QED
      BY <2>1, <2>11, <3>1, <3>2 DEF KInv
  <2>12. CASE EndRepeat
    <3>1. UNCHANGED <<wire, line, held, lost>> /\ turn' = "packet"
      BY <2>12 DEF EndRepeat, Keyboard
    <3>2. \/ UNCHANGED <<down, pressed>>
          \/ down' = down \ pressed /\ pressed' = {}
      BY <2>12 DEF EndRepeat
    <3>3. pressed' \subseteq Letters
      BY <2>2, <3>2 DEF KTypes
    <3>4. \A k \in Keys : Agrees(k) => Agrees(k)'
      BY <2>2, <3>1, <3>2, KeysAssumption DEF Agrees, KTypes
    <3>. QED
      BY <2>11, <3>1, <3>3, <3>4
  <2>13. CASE UNCHANGED <<Keyboard, line, down, pressed>> /\ (turn' = "read" => line = <<>>)
    <3>1. UNCHANGED <<wire, line, held, lost>> /\ pressed' \subseteq Letters
      BY <2>2, <2>13 DEF KTypes, Keyboard
    <3>2. \A k \in Keys : Agrees(k) => Agrees(k)'
      BY <2>13, <3>1 DEF Agrees
    <3>. QED
      BY <2>11, <2>13, <3>1, <3>2
  <2>14. \/ LedEvents \/ PacketDone \/ MousePacket \/ (\E b \in Buttons : Click(b))
         \/ Toggle \/ ToggleElsewhere \/ Tick \/ UNCHANGED vars
         => UNCHANGED <<Keyboard, line, down, pressed>> /\ (turn' = "read" => line = <<>>)
    BY <2>2 DEF LedEvents, PacketDone, MousePacket, Click, Toggle, ToggleElsewhere, Tick, vars,
                Linux, Keyboard, KTypes
  <2>. QED
    BY <2>1, <2>4, <2>5, <2>6, <2>8, <2>9, <2>10, <2>12, <2>13, <2>14 DEF Next, Loop
<1>3. KInv => FollowsKeyboard
  <2>1. SUFFICES ASSUME KInv, wire = <<>>, line = <<>>, ~lost
                 PROVE  down \cap Modifiers = held \cap Modifiers /\ down \cap Letters \subseteq held
    BY DEF FollowsKeyboard
  <2>2. \A i \in 1..Len(<<>>) : FALSE
    OBVIOUS
  <2>3. ASSUME NEW k \in Keys PROVE Agrees(k)
    BY <2>1, <2>2, Zenon DEF KInv, Told, Says
  <2>. QED
    BY <2>3 DEF Agrees, Keys
<1>. QED
  BY <1>1, <1>2, <1>3, PTL DEF Spec
=============================================================================
