-------------------------- MODULE MixerNodesProofs --------------------------
(***************************************************************************)
(* Proofs about the nodes that the mixer keeps on scsynth: the graph, from *)
(* its start to its shutdown, for any routers, groups, number of attempts  *)
(* and number of lives of mixerctl; and the test generator, for every      *)
(* length of arm and of sound.                                             *)
(***************************************************************************)
EXTENDS MixerStart, TestGenerator, FiniteSetTheorems, SequenceTheorems, TLAPS

-----------------------------------------------------------------------------
(* What a queue of commands brings about.                                   *)

(* Before the i-th command of q runs, one of A has run and none of U since. *)
Since(A, U, q, i) == \E j \in 1..i-1 : q[j] \in A /\ \A k \in j+1..i-1 : q[k] \notin U

(* None of U runs before the i-th command of q.                             *)
Never(U, q, i) == \A k \in 1..i-1 : q[k] \notin U

(* What A establishes and U undoes, and b says of the present, holds before *)
(* the i-th command runs.                                                   *)
Settled(A, U, b, q, i) == Since(A, U, q, i) \/ (b /\ Never(U, q, i))

(* When the first command has run.                                          *)
LEMMA NeverShift ==
    ASSUME NEW S, NEW q \in Seq(S), q # <<>>, NEW U, NEW i \in 1..Len(q), Never(U, q, i + 1)
    PROVE  Head(q) \notin U /\ Never(U, Tail(q), i)
<1>1. /\ Len(q) \in Nat /\ Len(q) >= 1 /\ Head(q) = q[1] /\ Len(Tail(q)) = Len(q) - 1
      /\ \A k \in 1..Len(q) - 1 : Tail(q)[k] = q[k + 1]
  <2>1. Len(q) \in Nat /\ Len(q) >= 1
    BY EmptySeq
  <2>. QED
    BY <2>1, HeadTailProperties
<1>2. \A k \in 1..i : q[k] \notin U
  BY DEF Never
<1>3. Head(q) \notin U
  BY <1>1, <1>2
<1>4. ASSUME NEW k \in 1..i - 1 PROVE Tail(q)[k] \notin U
  <2>1. k \in 1..Len(q) - 1 /\ k + 1 \in 1..i
    BY <1>1
  <2>2. Tail(q)[k] = q[k + 1]
    BY <1>1, <2>1
  <2>. QED
    BY <1>2, <2>1, <2>2
<1>. QED
  BY <1>3, <1>4 DEF Never

LEMMA SinceShift ==
    ASSUME NEW S, NEW q \in Seq(S), q # <<>>, NEW A, NEW U, NEW i \in 1..Len(q),
           Since(A, U, q, i + 1)
    PROVE  Since(A, U, Tail(q), i) \/ (Head(q) \in A /\ Never(U, Tail(q), i))
<1>1. /\ Len(q) \in Nat /\ Len(q) >= 1 /\ Head(q) = q[1] /\ Len(Tail(q)) = Len(q) - 1
      /\ \A k \in 1..Len(q) - 1 : Tail(q)[k] = q[k + 1]
  <2>1. Len(q) \in Nat /\ Len(q) >= 1
    BY EmptySeq
  <2>. QED
    BY <2>1, HeadTailProperties
<1>2. PICK j \in 1..i : q[j] \in A /\ \A k \in j + 1..i : q[k] \notin U
  BY DEF Since
<1>3. CASE j = 1
  <2>1. Head(q) \in A
    BY <1>1, <1>2, <1>3
  <2>2. ASSUME NEW k \in 1..i - 1 PROVE Tail(q)[k] \notin U
    <3>1. k \in 1..Len(q) - 1 /\ k + 1 \in j + 1..i
      BY <1>1, <1>3
    <3>2. Tail(q)[k] = q[k + 1]
      BY <1>1, <3>1
    <3>. QED
      BY <1>2, <3>1, <3>2
  <2>. QED
    BY <2>1, <2>2 DEF Never
<1>4. CASE j # 1
  <2>1. PICK p \in 1..i - 1 : j = p + 1
    <3>1. j - 1 \in 1..i - 1 /\ j = (j - 1) + 1
      BY <1>4
    <3>. QED
      BY <3>1
  <2>2. p \in 1..Len(q) - 1
    BY <1>1
  <2>3. Tail(q)[p] = q[j]
    BY <1>1, <2>1, <2>2
  <2>4. ASSUME NEW k \in p + 1..i - 1 PROVE Tail(q)[k] \notin U
    <3>1. k \in 1..Len(q) - 1 /\ k + 1 \in j + 1..i
      BY <1>1, <2>1
    <3>2. Tail(q)[k] = q[k + 1]
      BY <1>1, <3>1
    <3>. QED
      BY <1>2, <3>1, <3>2
  <2>. QED
    BY <1>2, <2>3, <2>4 DEF Since
<1>. QED
  BY <1>3, <1>4

LEMMA SettledShift ==
    ASSUME NEW S, NEW q \in Seq(S), q # <<>>, NEW A, NEW U, NEW i \in 1..Len(q),
           NEW b, NEW c,
           Settled(A, U, b, q, i + 1), Head(q) \in A => c, b /\ Head(q) \notin U => c
    PROVE  Settled(A, U, c, Tail(q), i)
<1>1. CASE Since(A, U, q, i + 1)
  <2>1. Since(A, U, Tail(q), i) \/ (Head(q) \in A /\ Never(U, Tail(q), i))
    BY <1>1, SinceShift
  <2>. QED
    BY <2>1, Zenon DEF Settled
<1>2. CASE b /\ Never(U, q, i + 1)
  <2>1. Head(q) \notin U /\ Never(U, Tail(q), i)
    BY <1>2, NeverShift
  <2>. QED
    BY <1>2, <2>1, Zenon DEF Settled
<1>. QED
  BY <1>1, <1>2, Zenon DEF Settled

(* When more commands are sent.                                             *)
LEMMA SettledPrefix ==
    ASSUME NEW S, NEW q \in Seq(S), NEW t \in Seq(S), NEW A, NEW U, NEW b,
           NEW i \in 1..Len(q) + 1, Settled(A, U, b, q, i)
    PROVE  Settled(A, U, b, q \o t, i)
<1>1. Len(q) \in Nat /\ \A k \in 1..Len(q) : (q \o t)[k] = q[k]
  OBVIOUS
<1>2. \A k \in 1..i - 1 : (q \o t)[k] = q[k]
  BY <1>1
<1>. DEFINE w == q \o t
<1>3. \A k \in 1..i - 1 : w[k] = q[k]
  BY <1>2
<1>. HIDE DEF w
<1>4. CASE Since(A, U, q, i)
  <2>1. PICK j \in 1..i - 1 : q[j] \in A /\ \A k \in j + 1..i - 1 : q[k] \notin U
    BY <1>4 DEF Since
  <2>2. \A k \in j + 1..i - 1 : k \in 1..i - 1
    OBVIOUS
  <2>3. Since(A, U, w, i)
    BY <1>3, <2>1, <2>2 DEF Since
  <2>. QED
    BY <2>3, Zenon DEF Settled, w
<1>5. CASE b /\ Never(U, q, i)
  <2>1. Never(U, w, i)
    BY <1>3, <1>5 DEF Never
  <2>. QED
    BY <1>5, <2>1, Zenon DEF Settled, w
<1>. QED
  BY <1>4, <1>5, Zenon DEF Settled

LEMMA SettledLater ==
    ASSUME NEW S, NEW q \in Seq(S), NEW t \in Seq(S), NEW A, NEW U, NEW b,
           NEW i \in 1..Len(t) + 1, Settled(A, U, b, q, Len(q) + 1), Never(U, t, i)
    PROVE  Settled(A, U, b, q \o t, Len(q) + i)
<1>1. /\ Len(q) \in Nat /\ \A k \in 1..Len(q) : (q \o t)[k] = q[k]
      /\ \A k \in 1..Len(t) : (q \o t)[Len(q) + k] = t[k]
  OBVIOUS
<1>. DEFINE w == q \o t
            n == Len(q)
<1>2. /\ n \in Nat /\ \A k \in 1..n : w[k] = q[k]
      /\ \A k \in 1..i - 1 : w[n + k] = t[k]
  BY <1>1
<1>. HIDE DEF w
<1>3. ASSUME NEW k \in n + 1..n + i - 1 PROVE w[k] \notin U
  <2>1. PICK p \in 1..i - 1 : k = n + p
    <3>1. k - n \in 1..i - 1 /\ k = n + (k - n)
      BY <1>2
    <3>. QED
      BY <3>1
  <2>. QED
    BY <1>2, <2>1 DEF Never
<1>4. CASE Since(A, U, q, n + 1)
  <2>1. PICK j \in 1..n : q[j] \in A /\ \A k \in j + 1..n : q[k] \notin U
    BY <1>2, <1>4 DEF Since
  <2>2. ASSUME NEW k \in j + 1..n + i - 1 PROVE w[k] \notin U
    <3>1. CASE k \in 1..n
      <4>1. k \in j + 1..n /\ w[k] = q[k]
        BY <1>2, <3>1
      <4>. QED
        BY <2>1, <4>1
    <3>2. CASE k \in n + 1..n + i - 1
      BY <1>3, <3>2
    <3>3. k \in 1..n \/ k \in n + 1..n + i - 1
      BY <1>2
    <3>. QED
      BY <3>1, <3>2, <3>3
  <2>3. j \in 1..n + i - 1
    BY <1>2
  <2>4. w[j] \in A
    BY <1>2, <2>1
  <2>5. Since(A, U, w, n + i)
    BY <2>2, <2>3, <2>4 DEF Since
  <2>. QED
    BY <2>5, Zenon DEF Settled, w, n
<1>5. CASE b /\ Never(U, q, n + 1)
  <2>1. \A k \in 1..n : w[k] \notin U
    BY <1>2, <1>5 DEF Never
  <2>2. \A k \in 1..n + i - 1 : k \in 1..n \/ k \in n + 1..n + i - 1
    BY <1>2
  <2>3. Never(U, w, n + i)
    BY <1>3, <2>1, <2>2 DEF Never
  <2>. QED
    BY <1>5, <2>3, Zenon DEF Settled, w, n
<1>. QED
  BY <1>4, <1>5, Zenon DEF Settled, n

LEMMA SettledNew ==
    ASSUME NEW S, NEW q \in Seq(S), NEW t \in Seq(S), NEW A, NEW U, NEW b,
           NEW i \in 1..Len(t) + 1, Since(A, U, t, i)
    PROVE  Settled(A, U, b, q \o t, Len(q) + i)
<1>. DEFINE w == q \o t
            n == Len(q)
<1>1. n \in Nat /\ \A k \in 1..i - 1 : w[n + k] = t[k]
  <2>1. Len(q) \in Nat /\ \A k \in 1..Len(t) : (q \o t)[Len(q) + k] = t[k]
    OBVIOUS
  <2>. QED
    BY <2>1
<1>. HIDE DEF w
<1>2. PICK j \in 1..i - 1 : t[j] \in A /\ \A k \in j + 1..i - 1 : t[k] \notin U
  BY DEF Since
<1>3. ASSUME NEW k \in n + j + 1..n + i - 1 PROVE w[k] \notin U
  <2>1. PICK p \in j + 1..i - 1 : k = n + p
    <3>1. k - n \in j + 1..i - 1 /\ k = n + (k - n)
      BY <1>1
    <3>. QED
      BY <3>1
  <2>2. p \in 1..i - 1
    OBVIOUS
  <2>. QED
    BY <1>1, <1>2, <2>1, <2>2
<1>4. n + j \in 1..n + i - 1 /\ w[n + j] \in A
  BY <1>1, <1>2
<1>5. Since(A, U, w, n + i)
  BY <1>3, <1>4 DEF Since
<1>. QED
  BY <1>5, Zenon DEF Settled, w, n

-----------------------------------------------------------------------------
(* The nodes and the commands there are.                                    *)
Universe == Wanted \cup Routers \cup {Generator}
Commands ==
    [op : {"n_free"}, node : Freed] \cup [op : {"new"}, node : Wanted \cup {Generator}]
    \cup [op : {"n_set"}, node : Groups] \cup [op : {"sync"}, number : 1..4]

(* A node goes when it is freed, or its container.                          *)
Undoes(n) == IF n \in Containers THEN {Free(n)} ELSE {Free(n), Free(Home(n))}

(* With the nodes N there, or the groups D assigned, before the i-th command *)
(* of a queue q runs: the node is there, it is not, its bus is assigned; and *)
(* when all of q has run.                                                   *)
PresentAt(n, N, q, i) == Settled({New(n)}, Undoes(n), n \in N, q, i)
AbsentAt(n, N, q, i) == Settled(Undoes(n), {New(n)}, n \notin N, q, i)
AssignedAt(g, D, q, i) == Settled({SetBus(g)}, Undoes(g), g \in D, q, i)

Present(n, N, q) == PresentAt(n, N, q, Len(q) + 1)
Absent(n, N, q) == AbsentAt(n, N, q, Len(q) + 1)
Assigned(g, D, q) == AssignedAt(g, D, q, Len(q) + 1)

(* No command of q will fail but one that frees what may not be there.      *)
Succeeds(N, q, i) ==
    /\ q[i].op = "new" => /\ AbsentAt(q[i].node, N, q, i)
                          /\ q[i].node \notin Containers => PresentAt(Home(q[i].node), N, q, i)
    /\ q[i].op = "n_set" => PresentAt(q[i].node, N, q, i)
Sound(N, q) == \A i \in 1..Len(q) : Succeeds(N, q, i)

(* Where the nodes are.                                                     *)
LEMMA Homes ==
    /\ \A r \in Routers \cup {Generator} : r \notin Containers /\ Home(r) = Routing
    /\ \A g \in Groups : g \notin Containers /\ Home(g) = Spatial
    /\ Master \notin Containers /\ Home(Master) = Output
    /\ Containers \subseteq Universe
    /\ \A n \in Universe \ Containers : Home(n) \in Containers
<1>1. \A r \in Routers \cup {Generator} : r \notin Containers /\ Home(r) = Routing
  BY NodesAssumption DEF Containers, Home
<1>2. \A g \in Groups : g \notin Containers /\ Home(g) = Spatial
  BY NodesAssumption DEF Containers, Home
<1>3. Master \notin Containers /\ Home(Master) = Output
  BY NodesAssumption DEF Containers, Home
<1>4. Containers \subseteq Universe
  BY DEF Universe, Wanted
<1>5. \A n \in Universe \ Containers : n \in Routers \cup {Generator} \/ n \in Groups \/ n = Master
  BY UsedAssumption DEF Universe, Wanted
<1>. QED
  BY <1>1, <1>2, <1>3, <1>4, <1>5 DEF Containers

(* A queue in any order of a finite set has each of its elements once.      *)
LEMMA SetOrder ==
    ASSUME NEW T, IsFiniteSet(T)
    PROVE  /\ Cardinality(T) \in Nat
           /\ SetToSeq(T) \in [1..Cardinality(T) -> T]
           /\ \A i, j \in 1..Cardinality(T) : SetToSeq(T)[i] = SetToSeq(T)[j] => i = j
           /\ \A x \in T : \E i \in 1..Cardinality(T) : SetToSeq(T)[i] = x
<1>. DEFINE n == Cardinality(T)
<1>1. n \in Nat /\ ExistsBijection(1..n, T)
  BY FS_CardinalityType
<1>2. IsFiniteSet(1..n) /\ Cardinality(1..n) = n
  BY <1>1, FS_Interval
<1>3. PICK f : f \in [1..n -> T] /\ IsInjective(f)
  BY <1>1 DEF ExistsBijection, Bijection, Injection
<1>4. SetToSeq(T) \in [1..n -> T] /\ IsInjective(SetToSeq(T))
  BY <1>3 DEF SetToSeq
<1>5. SetToSeq(T) \in Injection(1..n, T)
  BY <1>4 DEF Injection
<1>6. SetToSeq(T) \in Surjection(1..n, T)
  BY <1>1, <1>2, <1>5, FS_Injection
<1>. QED
  BY <1>1, <1>4, <1>6 DEF Surjection, IsInjective

(* Commands for each node of a set.                                         *)
OneEach(t, C, T) ==
    /\ \A i \in 1..Len(t) : \E n \in T : t[i] = C[n]
    /\ \A n \in T : \E i \in 1..Len(t) : t[i] = C[n]
    /\ \A i, j \in 1..Len(t) : t[i] = t[j] => i = j

LEMMA EachFact ==
    ASSUME NEW T, IsFiniteSet(T), NEW C, NEW S, \A n \in T : C[n] \in S,
           \A n, m \in T : C[n] = C[m] => n = m,
           NEW t, t = [i \in DOMAIN SetToSeq(T) |-> C[SetToSeq(T)[i]]]
    PROVE  t \in Seq(S) /\ OneEach(t, C, T)
<1>. DEFINE n == Cardinality(T)
            s == SetToSeq(T)
<1>1. /\ n \in Nat /\ s \in [1..n -> T]
      /\ \A i, j \in 1..n : s[i] = s[j] => i = j
      /\ \A x \in T : \E i \in 1..n : s[i] = x
  BY SetOrder
<1>2. t = [i \in 1..n |-> C[s[i]]]
  BY <1>1
<1>. HIDE DEF n, s
<1>3. t \in [1..n -> S]
  BY <1>1, <1>2
<1>4. t \in Seq(S) /\ Len(t) = n
  BY <1>1, <1>3
<1>. QED
  BY <1>1, <1>2, <1>4 DEF OneEach

LEMMA Frees ==
    ASSUME NEW T \in SUBSET Freed, IsFiniteSet(T)
    PROVE  /\ Each(Free, T) \in Seq([op : {"n_free"}, node : Freed])
           /\ OneEach(Each(Free, T), [n \in T |-> Free(n)], T)
<1>1. \A n \in T : Free(n) \in [op : {"n_free"}, node : Freed]
  BY DEF Free
<1>2. \A n, m \in T : Free(n) = Free(m) => n = m
  BY DEF Free
<1>3. SetToSeq(T) \in [1..Cardinality(T) -> T]
  BY SetOrder
<1>4. Each(Free, T) = [i \in DOMAIN SetToSeq(T) |-> [n \in T |-> Free(n)][SetToSeq(T)[i]]]
  BY <1>3 DEF Each
<1>. QED
  BY <1>1, <1>2, <1>4, EachFact

LEMMA News ==
    ASSUME NEW T \in SUBSET (Wanted \cup {Generator}), IsFiniteSet(T)
    PROVE  /\ Each(New, T) \in Seq([op : {"new"}, node : T])
           /\ OneEach(Each(New, T), [n \in T |-> New(n)], T)
<1>1. \A n \in T : New(n) \in [op : {"new"}, node : T]
  BY DEF New
<1>2. \A n, m \in T : New(n) = New(m) => n = m
  BY DEF New
<1>3. SetToSeq(T) \in [1..Cardinality(T) -> T]
  BY SetOrder
<1>4. Each(New, T) = [i \in DOMAIN SetToSeq(T) |-> [n \in T |-> New(n)][SetToSeq(T)[i]]]
  BY <1>3 DEF Each
<1>. QED
  BY <1>1, <1>2, <1>4, EachFact

LEMMA Sets ==
    /\ Each(SetBus, Groups) \in Seq([op : {"n_set"}, node : Groups])
    /\ OneEach(Each(SetBus, Groups), [g \in Groups |-> SetBus(g)], Groups)
<1>1. \A n \in Groups : SetBus(n) \in [op : {"n_set"}, node : Groups]
  BY DEF SetBus
<1>2. \A n, m \in Groups : SetBus(n) = SetBus(m) => n = m
  BY DEF SetBus
<1>3. SetToSeq(Groups) \in [1..Cardinality(Groups) -> Groups]
  BY SetOrder, FiniteAssumption
<1>4. Each(SetBus, Groups)
        = [i \in DOMAIN SetToSeq(Groups) |-> [g \in Groups |-> SetBus(g)][SetToSeq(Groups)[i]]]
  BY <1>3 DEF Each
<1>. QED
  BY <1>1, <1>2, <1>4, EachFact, FiniteAssumption

-----------------------------------------------------------------------------
(* What a queue brings about when more commands are sent.                   *)

LEMMA SeqElements ==
    ASSUME NEW S, NEW q \in Seq(S)
    PROVE  Len(q) \in Nat /\ \A i \in 1..Len(q) : q[i] \in S
OBVIOUS

LEMMA WiderSeq ==
    ASSUME NEW S, NEW R, S \subseteq R, NEW q \in Seq(S)
    PROVE  q \in Seq(R)
<1>1. q \in [1..Len(q) -> R] /\ Len(q) \in Nat
  OBVIOUS
<1>. QED
  BY <1>1

(* What the commands before bring about stays, whatever follows.            *)
LEMMA SettledEnd ==
    ASSUME NEW S, NEW q \in Seq(S), NEW t \in Seq(S), NEW A, NEW U, NEW b,
           Settled(A, U, b, q, Len(q) + 1), Never(U, t, Len(t) + 1)
    PROVE  Settled(A, U, b, q \o t, Len(q \o t) + 1)
<1>1. Len(q) \in Nat /\ Len(t) \in Nat /\ Len(q \o t) = Len(q) + Len(t)
  OBVIOUS
<1>2. Len(t) + 1 \in 1..Len(t) + 1 /\ Len(q \o t) + 1 = Len(q) + (Len(t) + 1)
  BY <1>1
<1>3. Settled(A, U, b, q \o t, Len(q) + (Len(t) + 1))
  BY <1>2, SettledLater, Zenon
<1>. QED
  BY <1>2, <1>3, Zenon

LEMMA SettledEndNew ==
    ASSUME NEW S, NEW q \in Seq(S), NEW t \in Seq(S), NEW A, NEW U, NEW b,
           Since(A, U, t, Len(t) + 1)
    PROVE  Settled(A, U, b, q \o t, Len(q \o t) + 1)
<1>1. Len(q) \in Nat /\ Len(t) \in Nat /\ Len(q \o t) = Len(q) + Len(t)
  OBVIOUS
<1>2. Len(t) + 1 \in 1..Len(t) + 1 /\ Len(q \o t) + 1 = Len(q) + (Len(t) + 1)
  BY <1>1
<1>3. Settled(A, U, b, q \o t, Len(q) + (Len(t) + 1))
  BY <1>2, SettledNew, Zenon
<1>. QED
  BY <1>2, <1>3, Zenon

LEMMA SoundAppend ==
    ASSUME NEW N, NEW q \in Seq(Commands), NEW t \in Seq(Commands), Sound(N, q),
           \A i \in 1..Len(t) : Succeeds(N, q \o t, Len(q) + i)
    PROVE  Sound(N, q \o t)
<1>. DEFINE w == q \o t
<1>1. /\ Len(q) \in Nat /\ Len(t) \in Nat /\ Len(w) = Len(q) + Len(t)
      /\ \A i \in 1..Len(q) : w[i] = q[i]
  OBVIOUS
<1>2. ASSUME NEW i \in 1..Len(q) PROVE Succeeds(N, w, i)
  <2>1. w[i] = q[i] /\ i \in 1..Len(q) + 1
    BY <1>1
  <2>2. \A n : PresentAt(n, N, q, i) => PresentAt(n, N, w, i)
    <3>1. ASSUME NEW n, PresentAt(n, N, q, i) PROVE PresentAt(n, N, w, i)
      <4>1. Settled({New(n)}, Undoes(n), n \in N, q, i)
        BY <3>1, Zenon DEF PresentAt
      <4>2. Settled({New(n)}, Undoes(n), n \in N, w, i)
        BY <2>1, <4>1, SettledPrefix, Zenon
      <4>. QED
        BY <4>2, Zenon DEF PresentAt
    <3>. QED
      BY <3>1
  <2>3. \A n : AbsentAt(n, N, q, i) => AbsentAt(n, N, w, i)
    <3>1. ASSUME NEW n, AbsentAt(n, N, q, i) PROVE AbsentAt(n, N, w, i)
      <4>1. Settled(Undoes(n), {New(n)}, n \notin N, q, i)
        BY <3>1, Zenon DEF AbsentAt
      <4>2. Settled(Undoes(n), {New(n)}, n \notin N, w, i)
        BY <2>1, <4>1, SettledPrefix, Zenon
      <4>. QED
        BY <4>2, Zenon DEF AbsentAt
    <3>. QED
      BY <3>1
  <2>4. Succeeds(N, q, i)
    BY DEF Sound
  <2>. HIDE DEF w
  <2>. QED
    BY <2>1, <2>2, <2>3, <2>4 DEF Succeeds
<1>3. ASSUME NEW i \in 1..Len(w) PROVE Succeeds(N, w, i)
  <2>1. CASE i \in 1..Len(q)
    BY <1>2, <2>1
  <2>2. CASE i \notin 1..Len(q)
    <3>1. PICK p \in 1..Len(t) : i = Len(q) + p
      <4>1. i - Len(q) \in 1..Len(t) /\ i = Len(q) + (i - Len(q))
        BY <1>1, <2>2
      <4>. QED
        BY <4>1
    <3>. QED
      BY <3>1
  <2>. QED
    BY <2>1, <2>2
<1>. QED
  BY <1>3 DEF Sound

(* Commands that create the nodes T, when these are not there and their     *)
(* containers are.                                                          *)
LEMMA NewsFact ==
    ASSUME NEW N, NEW q \in Seq(Commands),
           NEW T \in SUBSET (Wanted \cup {Generator}),
           NEW t \in Seq([op : {"new"}, node : T]), OneEach(t, [n \in T |-> New(n)], T),
           \A n \in T : /\ Absent(n, N, q)
                        /\ n \notin Containers => Present(Home(n), N, q)
    PROVE  /\ q \o t \in Seq(Commands) /\ (Sound(N, q) => Sound(N, q \o t))
           /\ \A n \in T : Present(n, N, q \o t)
           /\ \A n : Present(n, N, q) => Present(n, N, q \o t)
           /\ \A n : n \notin T /\ Absent(n, N, q) => Absent(n, N, q \o t)
<1>. DEFINE w == q \o t
<1>1. /\ \A i \in 1..Len(t) : \E n \in T : t[i] = New(n)
      /\ \A n \in T : \E i \in 1..Len(t) : t[i] = New(n)
      /\ \A i, j \in 1..Len(t) : t[i] = t[j] => i = j
  BY DEF OneEach
<1>2. [op : {"new"}, node : T] \subseteq Commands
  BY DEF Commands
<1>3. t \in Seq(Commands) /\ w \in Seq(Commands) /\ Len(t) \in Nat /\ Len(q) \in Nat
  <2>1. t \in Seq(Commands)
    BY <1>2, WiderSeq
  <2>. QED
    BY <2>1
<1>4. \A n, m : New(m) \notin Undoes(n)
  BY DEF New, Free, Undoes
<1>5. ASSUME NEW n, NEW i \in 1..Len(t) + 1 PROVE Never(Undoes(n), t, i)
  <2>1. \A k \in 1..i - 1 : k \in 1..Len(t)
    BY <1>3
  <2>. QED
    BY <1>1, <1>4, <2>1 DEF Never
<1>6. ASSUME NEW i \in 1..Len(t) PROVE Succeeds(N, w, Len(q) + i)
  <2>1. PICK n \in T : t[i] = New(n)
    BY <1>1
  <2>2. w[Len(q) + i] = t[i]
    OBVIOUS
  <2>3. i \in 1..Len(t) + 1 /\ \A k \in 1..i - 1 : k \in 1..Len(t) /\ k # i
    BY <1>3
  <2>4. Never({New(n)}, t, i)
    BY <1>1, <2>1, <2>3 DEF Never
  <2>5. AbsentAt(n, N, w, Len(q) + i)
    <3>1. Settled(Undoes(n), {New(n)}, n \notin N, q, Len(q) + 1)
      BY Zenon DEF Absent, AbsentAt
    <3>2. Settled(Undoes(n), {New(n)}, n \notin N, q \o t, Len(q) + i)
      BY <1>3, <2>3, <2>4, <3>1, SettledLater, Zenon
    <3>. QED
      BY <3>2, Zenon DEF AbsentAt
  <2>6. n \notin Containers => PresentAt(Home(n), N, w, Len(q) + i)
    <3>1. SUFFICES ASSUME n \notin Containers PROVE PresentAt(Home(n), N, w, Len(q) + i)
      OBVIOUS
    <3>2. Settled({New(Home(n))}, Undoes(Home(n)), Home(n) \in N, q, Len(q) + 1)
      BY <3>1, Zenon DEF Present, PresentAt
    <3>3. Never(Undoes(Home(n)), t, i)
      BY <1>5, <2>3
    <3>4. Settled({New(Home(n))}, Undoes(Home(n)), Home(n) \in N, q \o t, Len(q) + i)
      BY <1>3, <2>3, <3>2, <3>3, SettledLater, Zenon
    <3>. QED
      BY <3>4, Zenon DEF PresentAt
  <2>. HIDE DEF w
  <2>7. w[Len(q) + i].op = "new" /\ w[Len(q) + i].node = n
    BY <2>1, <2>2 DEF New
  <2>. QED
    BY <2>5, <2>6, <2>7 DEF Succeeds
<1>7. Sound(N, q) => Sound(N, w)
  BY <1>3, <1>6, SoundAppend
<1>8. Len(t) + 1 \in 1..Len(t) + 1
  BY <1>3
<1>9. ASSUME NEW n, Present(n, N, q) PROVE Present(n, N, w)
  <2>1. Settled({New(n)}, Undoes(n), n \in N, q, Len(q) + 1)
    BY <1>9, Zenon DEF Present, PresentAt
  <2>2. Never(Undoes(n), t, Len(t) + 1)
    BY <1>5, <1>8
  <2>3. Settled({New(n)}, Undoes(n), n \in N, q \o t, Len(q \o t) + 1)
    BY <1>3, <2>1, <2>2, SettledEnd, Zenon
  <2>. QED
    BY <2>3, Zenon DEF Present, PresentAt
<1>10. ASSUME NEW n \in T PROVE Present(n, N, w)
  <2>1. PICK i \in 1..Len(t) : t[i] = New(n)
    BY <1>1
  <2>2. i \in 1..(Len(t) + 1) - 1 /\ \A k \in i + 1..(Len(t) + 1) - 1 : k \in 1..Len(t)
    BY <1>3
  <2>3. \A k \in i + 1..(Len(t) + 1) - 1 : t[k] \notin Undoes(n)
    <3>1. ASSUME NEW k \in 1..Len(t) PROVE t[k] \notin Undoes(n)
      <4>1. PICK m \in T : t[k] = New(m)
        BY <1>1
      <4>. QED
        BY <1>4, <4>1
    <3>. QED
      BY <2>2, <3>1
  <2>4. Since({New(n)}, Undoes(n), t, Len(t) + 1)
    BY <2>1, <2>2, <2>3 DEF Since
  <2>5. Settled({New(n)}, Undoes(n), n \in N, q \o t, Len(q \o t) + 1)
    BY <1>3, <2>4, SettledEndNew, Zenon
  <2>. QED
    BY <2>5, Zenon DEF Present, PresentAt
<1>11. ASSUME NEW n, n \notin T, Absent(n, N, q) PROVE Absent(n, N, w)
  <2>1. Settled(Undoes(n), {New(n)}, n \notin N, q, Len(q) + 1)
    BY <1>11, Zenon DEF Absent, AbsentAt
  <2>2. \A k \in 1..(Len(t) + 1) - 1 : k \in 1..Len(t)
    BY <1>3
  <2>3. \A m \in T : New(m) # New(n)
    BY <1>11 DEF New
  <2>4. Never({New(n)}, t, Len(t) + 1)
    BY <1>1, <2>2, <2>3 DEF Never
  <2>5. Settled(Undoes(n), {New(n)}, n \notin N, q \o t, Len(q \o t) + 1)
    BY <1>3, <2>1, <2>4, SettledEnd, Zenon
  <2>. QED
    BY <2>5, Zenon DEF Absent, AbsentAt
<1>. HIDE DEF w
<1>12. w \in Seq(Commands) /\ (Sound(N, q) => Sound(N, w))
  BY <1>3, <1>7
<1>. QED
  BY <1>9, <1>10, <1>11, <1>12, Zenon DEF w

(* Commands that free the nodes T, the three containers among them.         *)
LEMMA FreesFact ==
    ASSUME NEW N, NEW q \in Seq(Commands),
           NEW T \in SUBSET Freed, Containers \subseteq T, IsFiniteSet(T)
    PROVE  LET w == q \o Each(Free, T)
           IN  w \in Seq(Commands) /\ (Sound(N, q) => Sound(N, w)) /\ \A n \in Universe : Absent(n, N, w)
<1>. DEFINE t == Each(Free, T)
            w == q \o t
<1>1. t \in Seq([op : {"n_free"}, node : Freed]) /\ OneEach(t, [n \in T |-> Free(n)], T)
  BY Frees
<1>. HIDE DEF t
<1>2. /\ \A i \in 1..Len(t) : \E n \in T : t[i] = Free(n)
      /\ \A n \in T : \E i \in 1..Len(t) : t[i] = Free(n)
  BY <1>1 DEF OneEach
<1>3. [op : {"n_free"}, node : Freed] \subseteq Commands
  BY DEF Commands
<1>4. t \in Seq(Commands) /\ w \in Seq(Commands) /\ Len(t) \in Nat /\ Len(q) \in Nat
  <2>1. t \in Seq(Commands)
    BY <1>1, <1>3, WiderSeq
  <2>. QED
    BY <2>1
<1>5. ASSUME NEW i \in 1..Len(t) PROVE Succeeds(N, w, Len(q) + i)
  <2>1. PICK n \in T : t[i] = Free(n)
    BY <1>2
  <2>2. w[Len(q) + i] = t[i]
    BY <1>4
  <2>. HIDE DEF w
  <2>3. w[Len(q) + i].op = "n_free"
    BY <2>1, <2>2 DEF Free
  <2>. QED
    BY <2>3 DEF Succeeds
<1>6. Sound(N, q) => Sound(N, w)
  BY <1>4, <1>5, SoundAppend
<1>7. ASSUME NEW n \in Universe PROVE Absent(n, N, w)
  <2>1. PICK m \in T : Free(m) \in Undoes(n)
    <3>1. CASE n \in Containers
      BY <3>1 DEF Undoes
    <3>2. CASE n \notin Containers
      <4>1. Home(n) \in T
        BY <3>2, Homes
      <4>. QED
        BY <3>2, <4>1 DEF Undoes
    <3>. QED
      BY <3>1, <3>2
  <2>2. PICK i \in 1..Len(t) : t[i] \in Undoes(n)
    BY <1>2, <2>1
  <2>3. i \in 1..(Len(t) + 1) - 1 /\ \A k \in i + 1..(Len(t) + 1) - 1 : k \in 1..Len(t)
    BY <1>4
  <2>4. \A g : Free(g) # New(n)
    BY DEF Free, New
  <2>5. \A k \in i + 1..(Len(t) + 1) - 1 : t[k] \notin {New(n)}
    BY <1>2, <2>3, <2>4
  <2>6. Since(Undoes(n), {New(n)}, t, Len(t) + 1)
    BY <2>2, <2>3, <2>5 DEF Since
  <2>7. Settled(Undoes(n), {New(n)}, n \notin N, q \o t, Len(q \o t) + 1)
    BY <1>4, <2>6, SettledEndNew, Zenon
  <2>. QED
    BY <2>7, Zenon DEF Absent, AbsentAt
<1>. QED
  BY <1>4, <1>6, <1>7, Zenon DEF w, t

(* Commands that neither free nor create.                                   *)
Others == [op : {"n_set"}, node : Groups] \cup [op : {"sync"}, number : 1..4]

LEMMA OthersFact ==
    ASSUME NEW N, NEW q \in Seq(Commands), NEW t \in Seq(Others)
    PROVE  /\ q \o t \in Seq(Commands)
           /\ Sound(N, q) /\ ((\E i \in 1..Len(t) : t[i].op = "n_set")
                                 => \A g \in Groups : Present(g, N, q)) => Sound(N, q \o t)
           /\ \A n : Present(n, N, q) => Present(n, N, q \o t)
           /\ \A n : Absent(n, N, q) => Absent(n, N, q \o t)
<1>. DEFINE w == q \o t
<1>1. Others \subseteq Commands
  BY DEF Commands, Others
<1>2. t \in Seq(Commands) /\ w \in Seq(Commands) /\ Len(t) \in Nat /\ Len(q) \in Nat
  BY <1>1
<1>3. ASSUME NEW i \in 1..Len(t), NEW n PROVE t[i] \notin Undoes(n) /\ t[i] # New(n)
  <2>1. t[i].op \in {"n_set", "sync"}
    <3>1. t[i] \in Others
      OBVIOUS
    <3>. QED
      BY <3>1 DEF Others
  <2>. QED
    BY <2>1 DEF Undoes, New, Free
<1>4. ASSUME NEW n, NEW i \in 1..Len(t) + 1 PROVE Never(Undoes(n), t, i) /\ Never({New(n)}, t, i)
  <2>1. \A k \in 1..i - 1 : k \in 1..Len(t)
    BY <1>2
  <2>. QED
    BY <1>3, <2>1 DEF Never
<1>5. ASSUME NEW i \in 1..Len(t),
             (\E j \in 1..Len(t) : t[j].op = "n_set") => \A g \in Groups : Present(g, N, q)
      PROVE  Succeeds(N, w, Len(q) + i)
  <2>1. w[Len(q) + i] = t[i] /\ t[i] \in Others
    OBVIOUS
  <2>2. CASE t[i] \in [op : {"n_set"}, node : Groups]
    <3>1. t[i].op = "n_set" /\ t[i].node \in Groups
      BY <2>2
    <3>. DEFINE g == t[i].node
    <3>2. Present(g, N, q)
      BY <1>5, <3>1
    <3>. HIDE DEF g
    <3>3. Settled({New(g)}, Undoes(g), g \in N, q, Len(q) + 1)
      BY <3>2, Zenon DEF Present, PresentAt
    <3>4. i \in 1..Len(t) + 1
      BY <1>2
    <3>5. Never(Undoes(g), t, i)
      BY <1>4, <3>4
    <3>6. Settled({New(g)}, Undoes(g), g \in N, q \o t, Len(q) + i)
      BY <1>2, <3>3, <3>4, <3>5, SettledLater, Zenon
    <3>7. PresentAt(g, N, w, Len(q) + i)
      BY <3>6, Zenon DEF PresentAt
    <3>. HIDE DEF w
    <3>. QED
      BY <2>1, <3>1, <3>7 DEF Succeeds, g
  <2>3. CASE t[i] \in [op : {"sync"}, number : 1..4]
    <3>1. t[i].op = "sync"
      BY <2>3
    <3>. HIDE DEF w
    <3>. QED
      BY <2>1, <3>1 DEF Succeeds
  <2>. QED
    BY <2>1, <2>2, <2>3 DEF Others
<1>6. /\ Sound(N, q)
      /\ (\E i \in 1..Len(t) : t[i].op = "n_set") => \A g \in Groups : Present(g, N, q)
      => Sound(N, w)
  BY <1>2, <1>5, SoundAppend
<1>7. Len(t) + 1 \in 1..Len(t) + 1
  BY <1>2
<1>8. ASSUME NEW n, Present(n, N, q) PROVE Present(n, N, w)
  <2>1. Settled({New(n)}, Undoes(n), n \in N, q, Len(q) + 1)
    BY <1>8, Zenon DEF Present, PresentAt
  <2>2. Never(Undoes(n), t, Len(t) + 1)
    BY <1>4, <1>7
  <2>3. Settled({New(n)}, Undoes(n), n \in N, q \o t, Len(q \o t) + 1)
    BY <1>2, <2>1, <2>2, SettledEnd, Zenon
  <2>. QED
    BY <2>3, Zenon DEF Present, PresentAt
<1>9. ASSUME NEW n, Absent(n, N, q) PROVE Absent(n, N, w)
  <2>1. Settled(Undoes(n), {New(n)}, n \notin N, q, Len(q) + 1)
    BY <1>9, Zenon DEF Absent, AbsentAt
  <2>2. Never({New(n)}, t, Len(t) + 1)
    BY <1>4, <1>7
  <2>3. Settled(Undoes(n), {New(n)}, n \notin N, q \o t, Len(q \o t) + 1)
    BY <1>2, <2>1, <2>2, SettledEnd, Zenon
  <2>. QED
    BY <2>3, Zenon DEF Absent, AbsentAt
<1>10. w \in Seq(Commands)
  BY <1>2
<1>. QED
  BY <1>6, <1>8, <1>9, <1>10, Zenon

-----------------------------------------------------------------------------
(* What the commands of mixerctl bring about.                               *)

LEMMA FiniteSets ==
    /\ IsFiniteSet(Freed) /\ IsFiniteSet(Routers) /\ IsFiniteSet(Routers \cup Containers)
    /\ IsFiniteSet(Used) /\ IsFiniteSet(Groups) /\ IsFiniteSet(Containers)
<1>1. IsFiniteSet(Containers) /\ IsFiniteSet({Master})
  <2>1. Containers = (({} \cup {Routing}) \cup {Spatial}) \cup {Output}
    BY DEF Containers
  <2>2. IsFiniteSet({} \cup {Routing})
    BY FS_EmptySet, FS_AddElement
  <2>3. IsFiniteSet(({} \cup {Routing}) \cup {Spatial})
    BY <2>2, FS_AddElement
  <2>4. IsFiniteSet((({} \cup {Routing}) \cup {Spatial}) \cup {Output})
    BY <2>3, FS_AddElement
  <2>5. IsFiniteSet({} \cup {Master}) /\ {} \cup {Master} = {Master}
    BY FS_EmptySet, FS_AddElement
  <2>. QED
    BY <2>1, <2>4, <2>5
<1>2. IsFiniteSet(Routers \cup Containers)
  BY <1>1, FiniteAssumption, FS_Union
<1>3. IsFiniteSet((Routers \cup Containers) \cup {Master})
  BY <1>2, FS_AddElement
<1>4. Freed = (Routers \cup Containers) \cup {Master}
  BY DEF Freed
<1>5. IsFiniteSet(Used)
  BY UsedAssumption, FiniteAssumption, FS_Subset
<1>. QED
  BY <1>1, <1>2, <1>3, <1>4, <1>5, FiniteAssumption

LEMMA ContainersInOrder ==
    LET t == <<New(Routing), New(Spatial), New(Output)>>
    IN  t \in Seq([op : {"new"}, node : Containers])
        /\ OneEach(t, [n \in Containers |-> New(n)], Containers)
<1>. DEFINE t == <<New(Routing), New(Spatial), New(Output)>>
<1>1. /\ Routing \in Containers /\ Spatial \in Containers /\ Output \in Containers
      /\ Containers = {Routing, Spatial, Output}
      /\ Routing # Spatial /\ Routing # Output /\ Spatial # Output
  BY NodesAssumption DEF Containers
<1>2. /\ Len(t) = 3 /\ t[1] = New(Routing) /\ t[2] = New(Spatial) /\ t[3] = New(Output)
      /\ 1..3 = {1, 2, 3}
  OBVIOUS
<1>3. \A n, m : New(n) = New(m) => n = m
  BY DEF New
<1>4. \A n \in Containers : New(n) \in [op : {"new"}, node : Containers]
  BY DEF New
<1>5. t \in Seq([op : {"new"}, node : Containers])
  BY <1>1, <1>4
<1>. HIDE DEF t
<1>6. \A i \in 1..Len(t) : \E n \in Containers : t[i] = [m \in Containers |-> New(m)][n]
  BY <1>1, <1>2
<1>7. \A n \in Containers : \E i \in 1..Len(t) : t[i] = [m \in Containers |-> New(m)][n]
  BY <1>1, <1>2
<1>8. \A i, j \in 1..Len(t) : t[i] = t[j] => i = j
  BY <1>1, <1>2, <1>3
<1>. QED
  BY <1>5, <1>6, <1>7, <1>8 DEF t, OneEach

LEMMA OneCommand ==
    ASSUME NEW n
    PROVE  <<New(n)>> \in Seq([op : {"new"}, node : {n}])
           /\ OneEach(<<New(n)>>, [m \in {n} |-> New(m)], {n})
<1>1. New(n) \in [op : {"new"}, node : {n}]
  BY DEF New
<1>2. /\ <<New(n)>> \in Seq([op : {"new"}, node : {n}])
      /\ Len(<<New(n)>>) = 1 /\ <<New(n)>>[1] = New(n) /\ 1..1 = {1}
  BY <1>1
<1>. QED
  BY <1>2 DEF OneEach

LEMMA TwoCommands ==
    ASSUME NEW a, NEW b
    PROVE  <<a>> \o <<b>> = <<a, b>>
<1>. DEFINE v == <<a>> \o <<b>>
            w == <<a, b>>
<1>1. v \in Seq({a, b}) /\ Len(v) = 2 /\ v[1] = a /\ v[2] = b
  <2>1. <<a>> \in Seq({a, b}) /\ <<b>> \in Seq({a, b})
        /\ Len(<<a>>) = 1 /\ Len(<<b>>) = 1 /\ <<a>>[1] = a /\ <<b>>[1] = b
    OBVIOUS
  <2>. QED
    BY <2>1, ConcatProperties
<1>2. w \in Seq({a, b}) /\ Len(w) = 2 /\ w[1] = a /\ w[2] = b
  OBVIOUS
<1>. HIDE DEF v, w
<1>3. \A i \in 1..2 : v[i] = w[i]
  BY <1>1, <1>2
<1>4. v = w
  BY <1>1, <1>2, <1>3, SeqEqual
<1>. QED
  BY <1>4 DEF v, w

LEMMA Associative ==
    ASSUME NEW a \in Seq(Commands), NEW b \in Seq(Commands), NEW c \in Seq(Commands)
    PROVE  a \o b \in Seq(Commands) /\ (a \o b) \o c = a \o (b \o c)
<1>1. a \o b \in Seq(Commands)
  OBVIOUS
<1>2. (a \o b) \o c = a \o (b \o c)
  BY ConcatAssociative, SMT
<1>. QED
  BY <1>1, <1>2, Zenon

(* The graph of an attempt, after whatever is on the way.                   *)
LEMMA GraphFact ==
    ASSUME NEW N, NEW q \in Seq(Commands)
    PROVE  /\ q \o Graph \in Seq(Commands) /\ (Sound(N, q) => Sound(N, q \o Graph))
           /\ \A n \in Wanted : Present(n, N, q \o Graph)
           /\ \A n \in Universe \ Wanted : Absent(n, N, q \o Graph)
<1>. DEFINE f == Each(Free, Freed)
            c == <<New(Routing), New(Spatial), New(Output)>>
            u == Each(New, Used)
            g == Each(New, Groups)
            m == <<New(Master)>>
            s == <<Sync(2)>>
            q1 == q \o f
            q2 == q1 \o c
            q3 == q2 \o u
            q4 == q3 \o g
            q5 == q4 \o m
<1>1. /\ Containers \subseteq Wanted /\ Used \subseteq Wanted /\ Groups \subseteq Wanted
      /\ Master \in Wanted /\ Wanted \subseteq Universe
      /\ Wanted = Containers \cup Used \cup Groups \cup {Master}
      /\ Containers \subseteq Freed
  BY DEF Wanted, Universe, Freed
<1>2. /\ Used \cap Containers = {} /\ Groups \cap Containers = {} /\ Master \notin Containers
      /\ Used \cap Groups = {} /\ Master \notin Used /\ Master \notin Groups
  BY UsedAssumption, NodesAssumption DEF Containers
<1>3. /\ \A n \in Used \cup Groups \cup {Master} : Home(n) \in Containers
  BY <1>1, <1>2, Homes
<1>4. /\ q1 \in Seq(Commands) /\ (Sound(N, q) => Sound(N, q1)) /\ \A n \in Universe : Absent(n, N, q1)
  <2>1. LET w == q \o Each(Free, Freed)
        IN  w \in Seq(Commands) /\ (Sound(N, q) => Sound(N, w)) /\ \A n \in Universe : Absent(n, N, w)
    <3>1. Freed \in SUBSET Freed
      OBVIOUS
    <3>. QED
      BY <1>1, <3>1, FiniteSets, FreesFact
  <2>. QED
    BY <2>1
<1>5. /\ f \in Seq(Commands)
      /\ c \in Seq([op : {"new"}, node : Containers])
      /\ OneEach(c, [n \in Containers |-> New(n)], Containers)
      /\ u \in Seq([op : {"new"}, node : Used]) /\ OneEach(u, [n \in Used |-> New(n)], Used)
      /\ g \in Seq([op : {"new"}, node : Groups]) /\ OneEach(g, [n \in Groups |-> New(n)], Groups)
      /\ m \in Seq([op : {"new"}, node : {Master}])
      /\ OneEach(m, [n \in {Master} |-> New(n)], {Master})
  <2>1. f \in Seq([op : {"n_free"}, node : Freed])
    BY Frees, FiniteSets
  <2>2. [op : {"n_free"}, node : Freed] \subseteq Commands
    BY DEF Commands
  <2>3. f \in Seq(Commands)
    BY <2>1, <2>2, WiderSeq
  <2>4. Used \in SUBSET (Wanted \cup {Generator}) /\ Groups \in SUBSET (Wanted \cup {Generator})
    BY <1>1
  <2>5. /\ u \in Seq([op : {"new"}, node : Used]) /\ OneEach(u, [n \in Used |-> New(n)], Used)
        /\ g \in Seq([op : {"new"}, node : Groups]) /\ OneEach(g, [n \in Groups |-> New(n)], Groups)
    BY <2>4, FiniteSets, News
  <2>. QED
    BY <2>3, <2>5, ContainersInOrder, OneCommand
<1>6. s \in Seq(Others) /\ Len(s) = 1 /\ s[1].op # "n_set"
  <2>1. Sync(2) \in Others /\ Sync(2).op # "n_set"
    BY DEF Sync, Others
  <2>. QED
    BY <2>1
<1>7. /\ f \in Seq(Commands) /\ c \in Seq(Commands) /\ u \in Seq(Commands)
      /\ g \in Seq(Commands) /\ m \in Seq(Commands) /\ s \in Seq(Commands)
  <2>1. \A T \in SUBSET (Wanted \cup {Generator}) : [op : {"new"}, node : T] \subseteq Commands
    BY DEF Commands
  <2>2. [op : {"new"}, node : Containers] \subseteq Commands
    BY <1>1, <2>1
  <2>3. [op : {"new"}, node : Used] \subseteq Commands
    BY <1>1, <2>1
  <2>4. [op : {"new"}, node : Groups] \subseteq Commands
    BY <1>1, <2>1
  <2>5. [op : {"new"}, node : {Master}] \subseteq Commands
    BY <1>1, <2>1
  <2>6. Others \subseteq Commands
    BY DEF Commands, Others
  <2>. HIDE DEF f, c, u, g, m, s
  <2>7. c \in Seq(Commands)
    BY <1>5, <2>2, WiderSeq, Zenon
  <2>8. u \in Seq(Commands)
    BY <1>5, <2>3, WiderSeq, Zenon
  <2>9. g \in Seq(Commands)
    BY <1>5, <2>4, WiderSeq, Zenon
  <2>10. m \in Seq(Commands)
    BY <1>5, <2>5, WiderSeq, Zenon
  <2>11. s \in Seq(Commands)
    BY <1>6, <2>6, WiderSeq, Zenon
  <2>. QED
    BY <1>5, <2>7, <2>8, <2>9, <2>10, <2>11, Zenon
<1>8. Graph = (((f \o c) \o u) \o g) \o (m \o s)
  <2>1. m \o s = <<New(Master), Sync(2)>>
    BY TwoCommands, Zenon
  <2>. QED
    BY <2>1, Zenon DEF Graph
<1>. HIDE DEF f, c, u, g, m, s
<1>9. Containers \in SUBSET (Wanted \cup {Generator}) /\ Used \in SUBSET (Wanted \cup {Generator})
      /\ Groups \in SUBSET (Wanted \cup {Generator}) /\ {Master} \in SUBSET (Wanted \cup {Generator})
  BY <1>1
<1>. HIDE DEF q1
<1>10. /\ q2 \in Seq(Commands) /\ (Sound(N, q) => Sound(N, q2)) /\ \A n \in Containers : Present(n, N, q2)
      /\ \A n \in Universe \ Containers : Absent(n, N, q2)
  <2>1. \A n \in Containers : /\ Absent(n, N, q1)
                              /\ n \notin Containers => Present(Home(n), N, q1)
    BY <1>1, <1>4
  <2>2. /\ q1 \o c \in Seq(Commands) /\ (Sound(N, q1) => Sound(N, q1 \o c))
        /\ \A n \in Containers : Present(n, N, q1 \o c)
        /\ \A n : n \notin Containers /\ Absent(n, N, q1) => Absent(n, N, q1 \o c)
    BY <1>4, <1>5, <1>9, <2>1, NewsFact
  <2>. QED
    BY <1>4, <2>2
<1>. HIDE DEF q2
<1>11. /\ q3 \in Seq(Commands) /\ (Sound(N, q) => Sound(N, q3)) /\ \A n \in Containers \cup Used : Present(n, N, q3)
       /\ \A n \in Universe \ (Containers \cup Used) : Absent(n, N, q3)
  <2>1. \A n \in Used : /\ Absent(n, N, q2)
                        /\ n \notin Containers => Present(Home(n), N, q2)
    BY <1>1, <1>2, <1>3, <1>10
  <2>2. /\ q2 \o u \in Seq(Commands) /\ (Sound(N, q2) => Sound(N, q2 \o u))
        /\ \A n \in Used : Present(n, N, q2 \o u)
        /\ \A n : Present(n, N, q2) => Present(n, N, q2 \o u)
        /\ \A n : n \notin Used /\ Absent(n, N, q2) => Absent(n, N, q2 \o u)
    BY <1>5, <1>9, <1>10, <2>1, NewsFact
  <2>. QED
    BY <1>10, <2>2
<1>. HIDE DEF q3
<1>12. /\ q4 \in Seq(Commands) /\ (Sound(N, q) => Sound(N, q4))
       /\ \A n \in Containers \cup Used \cup Groups : Present(n, N, q4)
       /\ \A n \in Universe \ (Containers \cup Used \cup Groups) : Absent(n, N, q4)
  <2>1. \A n \in Groups : /\ Absent(n, N, q3)
                          /\ n \notin Containers => Present(Home(n), N, q3)
    BY <1>1, <1>2, <1>3, <1>11
  <2>2. /\ q3 \o g \in Seq(Commands) /\ (Sound(N, q3) => Sound(N, q3 \o g))
        /\ \A n \in Groups : Present(n, N, q3 \o g)
        /\ \A n : Present(n, N, q3) => Present(n, N, q3 \o g)
        /\ \A n : n \notin Groups /\ Absent(n, N, q3) => Absent(n, N, q3 \o g)
    BY <1>5, <1>9, <1>11, <2>1, NewsFact
  <2>. QED
    BY <1>11, <2>2
<1>. HIDE DEF q4
<1>13. /\ q5 \in Seq(Commands) /\ (Sound(N, q) => Sound(N, q5)) /\ \A n \in Wanted : Present(n, N, q5)
       /\ \A n \in Universe \ Wanted : Absent(n, N, q5)
  <2>1. \A n \in {Master} : /\ Absent(n, N, q4)
                            /\ n \notin Containers => Present(Home(n), N, q4)
    BY <1>1, <1>2, <1>3, <1>12
  <2>2. /\ q4 \o m \in Seq(Commands) /\ (Sound(N, q4) => Sound(N, q4 \o m))
        /\ \A n \in {Master} : Present(n, N, q4 \o m)
        /\ \A n : Present(n, N, q4) => Present(n, N, q4 \o m)
        /\ \A n : n \notin {Master} /\ Absent(n, N, q4) => Absent(n, N, q4 \o m)
    BY <1>5, <1>9, <1>12, <2>1, NewsFact
  <2>. QED
    BY <1>1, <1>12, <2>2
<1>. HIDE DEF q5
<1>14. /\ q5 \o s \in Seq(Commands) /\ (Sound(N, q) => Sound(N, q5 \o s))
       /\ \A n : Present(n, N, q5) => Present(n, N, q5 \o s)
       /\ \A n : Absent(n, N, q5) => Absent(n, N, q5 \o s)
  <2>1. ~ \E i \in 1..Len(s) : s[i].op = "n_set"
    BY <1>6
  <2>. QED
    BY <1>6, <1>13, <2>1, OthersFact
<1>15. q \o Graph = q5 \o s
  <2>. DEFINE v1 == f \o c
              v2 == v1 \o u
              v3 == v2 \o g
              v4 == m \o s
  <2>1. /\ q1 = q \o f /\ q2 = q1 \o c /\ q3 = q2 \o u /\ q4 = q3 \o g /\ q5 = q4 \o m
        /\ v1 = f \o c /\ v2 = v1 \o u /\ v3 = v2 \o g /\ v4 = m \o s /\ Graph = v3 \o v4
    BY <1>8, Zenon DEF q1, q2, q3, q4, q5
  <2>. HIDE DEF v1, v2, v3, v4
  <2>2. /\ f \o c \in Seq(Commands) /\ v1 \o u \in Seq(Commands) /\ v2 \o g \in Seq(Commands)
        /\ m \o s \in Seq(Commands)
        /\ v1 \in Seq(Commands) /\ v2 \in Seq(Commands) /\ v3 \in Seq(Commands)
        /\ v4 \in Seq(Commands)
    <3>1. v1 \in Seq(Commands)
      BY <1>7, <2>1
    <3>2. v2 \in Seq(Commands)
      BY <1>7, <2>1, <3>1
    <3>3. v3 \in Seq(Commands)
      BY <1>7, <2>1, <3>2
    <3>4. v4 \in Seq(Commands)
      BY <1>7, <2>1
    <3>. QED
      BY <2>1, <3>1, <3>2, <3>3, <3>4
  <2>3. (q \o f) \o c = q \o (f \o c)
    BY <1>7, Associative
  <2>4. (q \o v1) \o u = q \o (v1 \o u)
    <3>1. v1 \in Seq(Commands) /\ u \in Seq(Commands)
      BY <1>7, <2>2, Zenon
    <3>. QED
      BY <3>1, Associative, Zenon
  <2>5. (q \o v2) \o g = q \o (v2 \o g)
    <3>1. v2 \in Seq(Commands) /\ g \in Seq(Commands)
      BY <1>7, <2>2, Zenon
    <3>. QED
      BY <3>1, Associative, Zenon
  <2>6. (q \o v3) \o v4 = q \o (v3 \o v4)
    <3>1. v3 \in Seq(Commands) /\ v4 \in Seq(Commands)
      BY <2>2, Zenon
    <3>. QED
      BY <3>1, Associative, Zenon
  <2>7. (q4 \o m) \o s = q4 \o (m \o s)
    <3>1. q4 \in Seq(Commands) /\ m \in Seq(Commands) /\ s \in Seq(Commands)
      BY <1>7, <1>12, Zenon
    <3>. QED
      BY <3>1, Associative
  <2>8. q \o v1 = q2
    BY <2>1, <2>3
  <2>9. q \o v2 = q3
    BY <2>1, <2>4, <2>8, Zenon
  <2>10. q \o v3 = q4
    BY <2>1, <2>5, <2>9, Zenon
  <2>11. q \o Graph = q4 \o v4
    BY <2>1, <2>6, <2>10, Zenon
  <2>. QED
    BY <2>1, <2>7, <2>11, Zenon
<1>. QED
  BY <1>13, <1>14, <1>15, Zenon

(* The buses, when the groups will be there.                                *)
LEMMA BusesFact ==
    ASSUME NEW N, NEW D, NEW q \in Seq(Commands)
    PROVE  /\ q \o Buses \in Seq(Commands)
           /\ Sound(N, q) /\ (\A g \in Groups : Present(g, N, q)) => Sound(N, q \o Buses)
           /\ \A n : Present(n, N, q) => Present(n, N, q \o Buses)
           /\ \A n : Absent(n, N, q) => Absent(n, N, q \o Buses)
           /\ \A g \in Groups : Assigned(g, D, q \o Buses)
<1>. DEFINE t == Each(SetBus, Groups)
            s == <<Sync(3)>>
<1>1. t \in Seq([op : {"n_set"}, node : Groups]) /\ OneEach(t, [g \in Groups |-> SetBus(g)], Groups)
  BY Sets
<1>2. t \in Seq(Others)
  <2>1. [op : {"n_set"}, node : Groups] \subseteq Others
    BY DEF Others
  <2>. QED
    BY <1>1, <2>1, WiderSeq
<1>3. s \in Seq(Others)
  <2>1. Sync(3) \in Others
    BY DEF Sync, Others
  <2>. QED
    BY <2>1
<1>4. Buses = t \o s
  BY DEF Buses
<1>5. Len(t) \in Nat /\ Len(s) = 1 /\ s[1] = Sync(3)
  BY <1>2
<1>. HIDE DEF t, s
<1>6. t \o s \in Seq(Others)
  BY <1>2, <1>3
<1>7. /\ q \o (t \o s) \in Seq(Commands)
      /\ Sound(N, q) /\ (\A g \in Groups : Present(g, N, q)) => Sound(N, q \o (t \o s))
      /\ \A n : Present(n, N, q) => Present(n, N, q \o (t \o s))
      /\ \A n : Absent(n, N, q) => Absent(n, N, q \o (t \o s))
  BY <1>6, OthersFact
<1>8. ASSUME NEW g \in Groups PROVE Assigned(g, D, q \o (t \o s))
  <2>1. PICK i \in 1..Len(t) : t[i] = SetBus(g)
    BY <1>1 DEF OneEach
  <2>. DEFINE v == t \o s
  <2>2. v \in Seq(Others) /\ Len(v) \in Nat /\ i \in 1..Len(v) /\ v[i] = SetBus(g)
    BY <1>2, <1>3, <1>5, <2>1
  <2>. HIDE DEF v
  <2>3. ASSUME NEW k \in 1..Len(v) PROVE v[k] \notin Undoes(g)
    <3>1. v[k] \in Others
      BY <2>2
    <3>2. v[k].op \in {"n_set", "sync"}
      BY <3>1 DEF Others
    <3>. QED
      BY <3>2 DEF Undoes, Free
  <2>4. i \in 1..(Len(v) + 1) - 1 /\ \A k \in i + 1..(Len(v) + 1) - 1 : k \in 1..Len(v)
    BY <2>2
  <2>5. \A k \in i + 1..(Len(v) + 1) - 1 : v[k] \notin Undoes(g)
    BY <2>3, <2>4
  <2>6. Since({SetBus(g)}, Undoes(g), v, Len(v) + 1)
    BY <2>2, <2>4, <2>5 DEF Since
  <2>7. Others \subseteq Commands
    BY DEF Commands, Others
  <2>8. v \in Seq(Commands)
    BY <2>2, <2>7, WiderSeq
  <2>9. Settled({SetBus(g)}, Undoes(g), g \in D, q \o v, Len(q \o v) + 1)
    BY <2>6, <2>8, SettledEndNew, Zenon
  <2>. QED
    BY <2>9, Zenon DEF Assigned, AssignedAt, v
<1>. QED
  BY <1>4, <1>7, <1>8, Zenon

-----------------------------------------------------------------------------
(* Types, and no node without its container.                                *)
Answers ==
    [kind : {"fail"}, of : {"n_free", "new", "n_set"}] \cup [kind : {"synced"}, number : 1..4]

TypeInv ==
    /\ nodes \subseteq Universe /\ assigned \subseteq Groups /\ defs \in BOOLEAN
    /\ toSc \in Seq(Commands) /\ toCtl \in Seq(Answers)
    /\ pc \in Starting \cup Ended \cup {"serving"}
    /\ attempt \in Nat /\ inherited \in BOOLEAN

Nested == \A n \in nodes \ Containers : Home(n) \in nodes

Base == TypeInv /\ Nested

IsSync(c) == c.op = "sync"
IsSynced(m) == m.kind = "synced"
Failed(m) == m.kind = "fail" /\ m.of # "n_free"

(* What one command does to the nodes and the buses.                        *)
LEMMA NodeEffect ==
    ASSUME Base, Scsynth
    PROVE  LET c == Head(toSc) IN
           /\ toSc # <<>> /\ c \in Commands /\ toSc' = Tail(toSc)
           /\ nodes' \subseteq Universe /\ assigned' \subseteq Groups /\ Nested'
           /\ \A n \in Universe : c \in Undoes(n) => n \notin nodes'
           /\ \A n : n \notin nodes /\ c # New(n) => n \notin nodes'
           /\ \A n \in nodes : c \notin Undoes(n) => n \in nodes'
           /\ \A g \in assigned : c \notin Undoes(g) => g \in assigned'
           /\ Makes(c.node) => \A n : c = New(n) => n \in nodes'
           /\ \A n \in nodes : c = SetBus(n) => n \in assigned'
<1>. DEFINE c == Head(toSc)
<1>1. toSc # <<>> /\ toSc' = Tail(toSc) /\ (ScFree(c) \/ ScNew(c) \/ ScSet(c) \/ ScSync(c))
  BY DEF Scsynth
<1>2. c \in Commands
  BY <1>1 DEF Base, TypeInv
<1>. HIDE DEF c
<1>3. nodes \subseteq Universe /\ assigned \subseteq Groups
  BY DEF Base, TypeInv
<1>4. \A n \in Universe : n \notin Containers => Home(n) \in Containers
  BY Homes
<1>5. \A g \in Groups : g \notin Containers /\ g \in Universe
  BY Homes DEF Universe, Wanted
<1>6. /\ nodes' \subseteq Universe /\ assigned' \subseteq Groups /\ Nested'
      /\ \A n \in Universe : c \in Undoes(n) => n \notin nodes'
      /\ \A n : n \notin nodes /\ c # New(n) => n \notin nodes'
      /\ \A n \in nodes : c \notin Undoes(n) => n \in nodes'
      /\ \A g \in assigned : c \notin Undoes(g) => g \in assigned'
      /\ Makes(c.node) => \A n : c = New(n) => n \in nodes'
      /\ \A n \in nodes : c = SetBus(n) => n \in assigned'
  <2>1. CASE ScFree(c)
    <3>1. c \in [op : {"n_free"}, node : Freed] /\ c.op = "n_free"
      BY <1>2, <2>1 DEF Commands, ScFree
    <3>2. PICK m \in Freed : c = Free(m)
      BY <3>1 DEF Free
    <3>3. c.node = m
      BY <3>2 DEF Free
    <3>4. \A n : c # New(n) /\ c # SetBus(n)
      BY <3>1 DEF New, SetBus
    <3>5. \A n : c \in Undoes(n) <=> m = n \/ (n \notin Containers /\ m = Home(n))
      BY <3>2 DEF Undoes, Free
    <3>6. CASE m \in nodes
      <4>1. /\ nodes' = nodes \ ({m} \cup {n \in nodes \ Containers : Home(n) = m})
            /\ assigned' = assigned \ ({m} \cup {n \in nodes \ Containers : Home(n) = m})
        BY <2>1, <3>3, <3>6 DEF ScFree, Within
      <4>2. Nested'
        <5>1. SUFFICES ASSUME NEW n \in nodes' \ Containers PROVE Home(n) \in nodes'
          BY DEF Nested
        <5>2. n \in nodes /\ Home(n) # m /\ Home(n) \in nodes /\ Home(n) \in Containers
          BY <1>3, <1>4, <4>1 DEF Base, Nested
        <5>. QED
          BY <4>1, <5>2
      <4>3. \A n \in Universe : c \in Undoes(n) => n \notin nodes'
        BY <3>5, <4>1
      <4>4. \A n \in nodes : c \notin Undoes(n) => n \in nodes'
        BY <3>5, <4>1
      <4>5. \A g \in assigned : c \notin Undoes(g) => g \in assigned'
        BY <3>5, <4>1
      <4>6. nodes' \subseteq Universe /\ assigned' \subseteq Groups /\ nodes' \subseteq nodes
        BY <1>3, <4>1
      <4>. QED
        BY <3>4, <4>2, <4>3, <4>4, <4>5, <4>6
    <3>7. CASE m \notin nodes
      <4>1. nodes' = nodes /\ assigned' = assigned
        BY <2>1, <3>3, <3>7 DEF ScFree, Fail
      <4>2. Nested'
        BY <4>1 DEF Base, Nested
      <4>3. \A n \in Universe : c \in Undoes(n) => n \notin nodes'
        BY <3>5, <3>7, <4>1 DEF Base, Nested
      <4>. QED
        BY <1>3, <3>4, <4>1, <4>2, <4>3
    <3>. QED
      BY <3>6, <3>7
  <2>2. CASE ScNew(c)
    <3>1. c \in [op : {"new"}, node : Wanted \cup {Generator}] /\ c.op = "new"
      BY <1>2, <2>2 DEF Commands, ScNew
    <3>2. PICK m \in Wanted \cup {Generator} : c = New(m)
      BY <3>1 DEF New
    <3>3. c.node = m /\ m \in Universe
      BY <3>2 DEF New, Universe
    <3>4. \A n : c \notin Undoes(n) /\ c # SetBus(n)
      BY <3>1 DEF Undoes, Free, SetBus
    <3>5. \A n : c = New(n) <=> n = m
      BY <3>2 DEF New
    <3>6. CASE Makes(m)
      <4>1. nodes' = nodes \cup {m} /\ assigned' = assigned
        BY <2>2, <3>3, <3>6 DEF ScNew
      <4>2. Nested'
        <5>1. SUFFICES ASSUME NEW n \in nodes' \ Containers PROVE Home(n) \in nodes'
          BY DEF Nested
        <5>2. Home(n) \in nodes
          BY <3>6, <4>1 DEF Base, Nested, Makes
        <5>. QED
          BY <4>1, <5>2
      <4>. QED
        BY <1>3, <3>3, <3>4, <3>5, <4>1, <4>2
    <3>7. CASE ~Makes(m)
      <4>1. nodes' = nodes /\ assigned' = assigned
        BY <2>2, <3>3, <3>7 DEF ScNew, Fail
      <4>2. Nested'
        BY <4>1 DEF Base, Nested
      <4>. QED
        BY <1>3, <3>3, <3>4, <3>7, <4>1, <4>2
    <3>. QED
      BY <3>6, <3>7
  <2>3. CASE ScSet(c)
    <3>1. c \in [op : {"n_set"}, node : Groups] /\ c.op = "n_set"
      BY <1>2, <2>3 DEF Commands, ScSet
    <3>2. PICK m \in Groups : c = SetBus(m)
      BY <3>1 DEF SetBus
    <3>3. c.node = m
      BY <3>2 DEF SetBus
    <3>4. \A n : c \notin Undoes(n) /\ c # New(n)
      BY <3>1 DEF Undoes, Free, New
    <3>5. \A n : c = SetBus(n) <=> n = m
      BY <3>2 DEF SetBus
    <3>6. nodes' = nodes
      BY <2>3 DEF ScSet, Fail
    <3>7. Nested'
      BY <3>6 DEF Base, Nested
    <3>8. CASE m \in nodes
      <4>1. assigned' = assigned \cup {m}
        BY <2>3, <3>3, <3>8 DEF ScSet
      <4>. QED
        BY <1>3, <3>4, <3>5, <3>6, <3>7, <4>1
    <3>9. CASE m \notin nodes
      <4>1. assigned' = assigned
        BY <2>3, <3>3, <3>9 DEF ScSet, Fail
      <4>. QED
        BY <1>3, <3>4, <3>5, <3>6, <3>7, <3>9, <4>1
    <3>. QED
      BY <3>8, <3>9
  <2>4. CASE ScSync(c)
    <3>1. nodes' = nodes /\ assigned' = assigned /\ c.op = "sync"
      BY <2>4 DEF ScSync
    <3>2. \A n : c \notin Undoes(n) /\ c # New(n) /\ c # SetBus(n)
      BY <3>1 DEF Undoes, Free, New, SetBus
    <3>3. Nested'
      BY <3>1 DEF Base, Nested
    <3>. QED
      BY <1>3, <3>1, <3>2, <3>3
  <2>. QED
    BY <1>1, <2>1, <2>2, <2>3, <2>4
<1>. QED
  BY <1>1, <1>2, <1>6 DEF c

(* And what it answers.                                                     *)
LEMMA AnswerEffect ==
    ASSUME Base, Scsynth
    PROVE  LET c == Head(toSc) IN
           /\ UNCHANGED <<defs, pc, attempt, inherited>>
           /\ \/ /\ toCtl' = toCtl
                 /\ IsSync(c) => pc \in Ended
                 /\ c.op = "new" /\ ~Makes(c.node) => pc \in Ended
              \/ /\ pc \notin Ended
                 /\ \E m \in Answers : /\ toCtl' = Append(toCtl, m)
                                       /\ IsSynced(m) <=> IsSync(c)
                                       /\ c.op = "new" => ~Makes(c.node) /\ Failed(m)
                                       /\ Failed(m) => \/ c.op = "new" /\ ~Makes(c.node)
                                                       \/ c.op = "n_set" /\ c.node \notin nodes
<1>. DEFINE c == Head(toSc)
            f == [kind |-> "fail", of |-> c.op]
            s == [kind |-> "synced", number |-> c.number]
<1>1. toSc # <<>> /\ (ScFree(c) \/ ScNew(c) \/ ScSet(c) \/ ScSync(c))
      /\ UNCHANGED <<defs, pc, attempt, inherited>>
  BY DEF Scsynth
<1>2. c \in Commands
  BY <1>1 DEF Base, TypeInv
<1>. HIDE DEF c
<1>3. IF c.op = "sync" THEN s \in Answers ELSE f \in Answers
  BY <1>2 DEF Commands, Answers
<1>4. /\ f.kind = "fail" /\ f.of = c.op /\ s.kind = "synced"
  OBVIOUS
<1>5. \/ /\ toCtl' = toCtl
         /\ IsSync(c) => pc \in Ended
         /\ c.op = "new" /\ ~Makes(c.node) => pc \in Ended
      \/ /\ pc \notin Ended
         /\ \E m \in Answers : /\ toCtl' = Append(toCtl, m)
                               /\ IsSynced(m) <=> IsSync(c)
                               /\ c.op = "new" => ~Makes(c.node) /\ Failed(m)
                               /\ Failed(m) => \/ c.op = "new" /\ ~Makes(c.node)
                                               \/ c.op = "n_set" /\ c.node \notin nodes
  <2>1. CASE ScFree(c)
    <3>1. c.op = "n_free" /\ (toCtl' = toCtl \/ (pc \notin Ended /\ toCtl' = Append(toCtl, f)))
      BY <1>1, <2>1 DEF ScFree, NoReply, Fail, Reply
    <3>2. f \in Answers /\ ~IsSynced(f) /\ ~IsSync(c) /\ ~Failed(f)
      BY <1>3, <1>4, <3>1 DEF IsSynced, IsSync, Failed
    <3>. HIDE DEF f
    <3>. QED
      BY <3>1, <3>2
  <2>2. CASE ScNew(c)
    <3>1. /\ c.op = "new"
          /\ \/ Makes(c.node) /\ toCtl' = toCtl
             \/ ~Makes(c.node) /\ pc \in Ended /\ toCtl' = toCtl
             \/ ~Makes(c.node) /\ pc \notin Ended /\ toCtl' = Append(toCtl, f)
      BY <1>1, <2>2 DEF ScNew, NoReply, Fail, Reply
    <3>2. f \in Answers /\ ~IsSynced(f) /\ ~IsSync(c) /\ Failed(f)
      BY <1>3, <1>4, <3>1 DEF IsSynced, IsSync, Failed
    <3>. HIDE DEF f
    <3>. QED
      BY <3>1, <3>2
  <2>3. CASE ScSet(c)
    <3>1. /\ c.op = "n_set"
          /\ \/ toCtl' = toCtl
             \/ c.node \notin nodes /\ pc \notin Ended /\ toCtl' = Append(toCtl, f)
      BY <1>1, <2>3 DEF ScSet, NoReply, Fail, Reply
    <3>2. f \in Answers /\ ~IsSynced(f) /\ ~IsSync(c)
      BY <1>3, <1>4, <3>1 DEF IsSynced, IsSync
    <3>. HIDE DEF f
    <3>. QED
      BY <3>1, <3>2
  <2>4. CASE ScSync(c)
    <3>1. /\ c.op = "sync"
          /\ \/ pc \in Ended /\ toCtl' = toCtl
             \/ pc \notin Ended /\ toCtl' = Append(toCtl, s)
      BY <1>1, <2>4 DEF ScSync, Reply
    <3>2. s \in Answers /\ IsSynced(s) /\ IsSync(c) /\ ~Failed(s)
      BY <1>3, <1>4, <3>1 DEF IsSynced, IsSync, Failed
    <3>. HIDE DEF s
    <3>. QED
      BY <3>1, <3>2
  <2>. QED
    BY <1>1, <2>1, <2>2, <2>3, <2>4
<1>. QED
  BY <1>1, <1>5 DEF c

LEMMA SyncSent ==
    ASSUME NEW q \in Seq(Commands), NEW k \in 1..4
    PROVE  /\ <<Sync(k)>> \in Seq(Others) /\ Len(<<Sync(k)>>) = 1 /\ IsSync(<<Sync(k)>>[1])
           /\ q \o <<Sync(k)>> \in Seq(Commands)
<1>1. Sync(k) \in Others /\ Sync(k) \in Commands /\ IsSync(Sync(k))
  BY DEF Sync, Others, Commands, IsSync
<1>2. <<Sync(k)>> \in Seq(Commands) /\ <<Sync(k)>> \in Seq(Others)
      /\ Len(<<Sync(k)>>) = 1 /\ <<Sync(k)>>[1] = Sync(k)
  BY <1>1
<1>. QED
  BY <1>1, <1>2

LEMMA TearDownFact ==
    ASSUME NEW N, NEW q \in Seq(Commands)
    PROVE  /\ q \o TearDown \in Seq(Commands) /\ (Sound(N, q) => Sound(N, q \o TearDown))
           /\ \A n \in Universe : Absent(n, N, q \o TearDown)
<1>1. Routers \cup Containers \in SUBSET Freed
  BY DEF Freed
<1>2. LET w == q \o Each(Free, Routers \cup Containers)
      IN  w \in Seq(Commands) /\ (Sound(N, q) => Sound(N, w)) /\ \A n \in Universe : Absent(n, N, w)
  BY <1>1, FiniteSets, FreesFact
<1>. QED
  BY <1>2 DEF TearDown

LEMMA GeneratorSent ==
    ASSUME NEW q \in Seq(Commands)
    PROVE  q \o <<New(Generator)>> \in Seq(Commands)
<1>1. New(Generator) \in Commands
  BY DEF New, Commands
<1>. QED
  BY <1>1

LEMMA BaseInit == Init => Base
<1>. SUFFICES ASSUME Init PROVE Base
  OBVIOUS
<1>1. toSc \in Seq(Commands)
  <2>1. Sync(1) \in Commands
    BY DEF Sync, Commands
  <2>2. <<Sync(1)>> \in Seq(Commands)
    BY <2>1
  <2>. QED
    BY <2>2, Zenon DEF Init
<1>2. nodes = {} \/ nodes = Universe
  BY DEF Init, Universe
<1>3. Nested
  BY <1>2, Homes DEF Nested
<1>4. toCtl \in Seq(Answers)
  <2>1. <<>> \in Seq(Answers)
    OBVIOUS
  <2>. QED
    BY <2>1, Zenon DEF Init
<1>5. /\ nodes \subseteq Universe /\ assigned \subseteq Groups /\ defs \in BOOLEAN
      /\ pc \in Starting /\ attempt \in Nat /\ inherited \in BOOLEAN
  BY <1>2 DEF Init, Starting
<1>. QED
  BY <1>1, <1>3, <1>4, <1>5 DEF Base, TypeInv

LEMMA BaseStep == Base /\ [Next]_vars => Base'
<1>. SUFFICES ASSUME Base, [Next]_vars PROVE Base'
  OBVIOUS
<1>1. /\ nodes \subseteq Universe /\ assigned \subseteq Groups /\ defs \in BOOLEAN
      /\ toSc \in Seq(Commands) /\ toCtl \in Seq(Answers)
      /\ pc \in Starting \cup Ended \cup {"serving"}
      /\ attempt \in Nat /\ inherited \in BOOLEAN /\ Nested
  BY DEF Base, TypeInv
<1>2. CASE Scsynth
  <2>. DEFINE c == Head(toSc)
  <2>1. /\ toSc # <<>> /\ toSc' = Tail(toSc)
        /\ nodes' \subseteq Universe /\ assigned' \subseteq Groups /\ Nested'
    BY <1>2, NodeEffect
  <2>2. UNCHANGED <<defs, pc, attempt, inherited>>
        /\ (toCtl' = toCtl \/ \E m \in Answers : toCtl' = Append(toCtl, m))
    BY <1>2, AnswerEffect
  <2>3. toSc' \in Seq(Commands)
    BY <1>1, <2>1
  <2>4. toCtl' \in Seq(Answers)
    BY <1>1, <2>2
  <2>. QED
    BY <1>1, <2>1, <2>2, <2>3, <2>4 DEF Base, TypeInv
<1>3. CASE UNCHANGED vars
  BY <1>1, <1>3 DEF vars, Base, TypeInv, Nested
<1>4. CASE Mixerctl \/ Shutdown \/ Kill \/ Restart \/ StartGenerator
  <2>1. UNCHANGED <<nodes, assigned, defs>>
    BY <1>4 DEF Mixerctl, FirstSynced, QuadSynced, Loaded, GraphSynced, GraphRejected,
                BusesSynced, Ignore, NoSync, Retry, Shutdown, Kill, Restart, StartGenerator, Here
  <2>2. toSc' \in Seq(Commands)
    <3>1. /\ toSc \o Graph \in Seq(Commands) /\ toSc \o Buses \in Seq(Commands)
          /\ toSc \o TearDown \in Seq(Commands) /\ toSc \o <<New(Generator)>> \in Seq(Commands)
          /\ toSc \o <<Sync(1)>> \in Seq(Commands) /\ toSc \o <<Sync(4)>> \in Seq(Commands)
      <4>1. toSc \o Graph \in Seq(Commands)
        BY <1>1, GraphFact
      <4>2. toSc \o Buses \in Seq(Commands)
        BY <1>1, BusesFact
      <4>3. toSc \o TearDown \in Seq(Commands)
        BY <1>1, TearDownFact
      <4>4. 1 \in 1..4 /\ 4 \in 1..4
        OBVIOUS
      <4>. QED
        BY <1>1, <4>1, <4>2, <4>3, <4>4, GeneratorSent, SyncSent
    <3>2. \/ toSc' = toSc \/ toSc' = toSc \o Graph \/ toSc' = toSc \o Buses
          \/ toSc' = toSc \o TearDown \/ toSc' = toSc \o <<New(Generator)>>
          \/ toSc' = toSc \o <<Sync(1)>> \/ toSc' = toSc \o <<Sync(4)>>
      BY <1>4, Zenon
         DEF Mixerctl, FirstSynced, QuadSynced, Loaded, GraphSynced, GraphRejected,
             BusesSynced, Ignore, NoSync, Retry, Attempt, Shutdown, Kill, Restart, StartGenerator, Sends
    <3>. QED
      BY <1>1, <3>1, <3>2, Zenon
  <2>3. toCtl' \in Seq(Answers)
    <3>1. toCtl' = toCtl \/ toCtl' = <<>> \/ (toCtl # <<>> /\ toCtl' = Tail(toCtl))
      BY <1>4
         DEF Mixerctl, FirstSynced, QuadSynced, Loaded, GraphSynced, GraphRejected,
             BusesSynced, Ignore, NoSync, Retry, Failure, Receives, Shutdown, Kill, Restart, StartGenerator
    <3>2. <<>> \in Seq(Answers)
      OBVIOUS
    <3>3. toCtl # <<>> => Tail(toCtl) \in Seq(Answers)
      BY <1>1
    <3>. QED
      BY <1>1, <3>1, <3>2, <3>3, Zenon
  <2>4. pc' \in Starting \cup Ended \cup {"serving"}
    BY <1>1, <1>4
       DEF Mixerctl, FirstSynced, QuadSynced, Loaded, GraphSynced, GraphRejected,
           BusesSynced, Ignore, NoSync, Retry, Attempt, Shutdown, Kill, Restart, StartGenerator, Starting, Ended
  <2>5. attempt' \in Nat
    <3>1. attempt' = attempt \/ attempt' = attempt + 1 \/ attempt' = 0
      BY <1>4, Zenon
         DEF Mixerctl, FirstSynced, QuadSynced, Loaded, GraphSynced, GraphRejected,
             BusesSynced, Ignore, NoSync, Retry, Attempt, Shutdown, Kill, Restart, StartGenerator
    <3>. QED
      BY <1>1, <3>1
  <2>6. inherited' \in BOOLEAN
    BY <1>1, <1>4
       DEF Mixerctl, FirstSynced, QuadSynced, Loaded, GraphSynced, GraphRejected,
           BusesSynced, Ignore, NoSync, Retry, Shutdown, Kill, Restart, StartGenerator, Here
  <2>7. Nested'
    BY <1>1, <2>1 DEF Nested
  <2>. QED
    BY <1>1, <2>1, <2>2, <2>3, <2>4, <2>5, <2>6, <2>7 DEF Base, TypeInv
<1>. QED
  BY <1>2, <1>3, <1>4 DEF Next

-----------------------------------------------------------------------------
(* What the queue ends in, and that no command of it fails.                 *)
Up == {"graph", "buses", "serving"}
EndsBuilt == \A n \in Wanted : Present(n, nodes, toSc)
EndsWithin == \A n \in Routers \ Used : Absent(n, nodes, toSc)
EndsAssigned == \A g \in Groups : Assigned(g, assigned, toSc)
EndsEmpty == \A n \in Universe : Absent(n, nodes, toSc)

(* A start that has sent its graph has the graph, and no other router, when *)
(* all is handled, later with its buses; one that was shut down has nothing.*)
Ends ==
    /\ pc \in Up => EndsWithin /\ (defs => EndsBuilt)
    /\ pc \in {"buses", "serving"} /\ defs => EndsAssigned
    /\ pc = "stopped" => EndsEmpty

(* With the SynthDefs, no command fails but for a node that was not there   *)
(* to be freed.                                                             *)
Succeeding ==
    defs => /\ Sound(nodes, toSc)
            /\ \A i \in 1..Len(toCtl) : ~Failed(toCtl[i])
            /\ pc # "rejected"

EndInv == Base /\ Ends /\ Succeeding

LEMMA TailFacts ==
    ASSUME NEW S, NEW q \in Seq(S), q # <<>>
    PROVE  /\ Len(q) \in Nat /\ Len(q) >= 1 /\ Head(q) = q[1] /\ Head(q) \in S
           /\ Tail(q) \in Seq(S) /\ Len(Tail(q)) = Len(q) - 1
           /\ \A k \in 1..Len(Tail(q)) : Tail(q)[k] = q[k + 1]
<1>1. Len(q) \in Nat /\ Len(q) >= 1
  BY EmptySeq
<1>. QED
  BY <1>1, HeadTailProperties

LEMMA PresentShift ==
    ASSUME NEW q \in Seq(Commands), q # <<>>, NEW N, NEW M, NEW n, NEW i \in 1..Len(q),
           Head(q) = New(n) => n \in M, n \in N /\ Head(q) \notin Undoes(n) => n \in M,
           PresentAt(n, N, q, i + 1)
    PROVE  PresentAt(n, M, Tail(q), i)
<1>1. Settled({New(n)}, Undoes(n), n \in N, q, i + 1)
  BY Zenon DEF PresentAt
<1>2. Head(q) \in {New(n)} => n \in M
  OBVIOUS
<1>3. Settled({New(n)}, Undoes(n), n \in M, Tail(q), i)
  BY <1>1, <1>2, SettledShift, Zenon
<1>. QED
  BY <1>3, Zenon DEF PresentAt

LEMMA AbsentShift ==
    ASSUME NEW q \in Seq(Commands), q # <<>>, NEW N, NEW M, NEW n, NEW i \in 1..Len(q),
           Head(q) \in Undoes(n) => n \notin M, n \notin N /\ Head(q) # New(n) => n \notin M,
           AbsentAt(n, N, q, i + 1)
    PROVE  AbsentAt(n, M, Tail(q), i)
<1>1. Settled(Undoes(n), {New(n)}, n \notin N, q, i + 1)
  BY Zenon DEF AbsentAt
<1>2. n \notin N /\ Head(q) \notin {New(n)} => n \notin M
  OBVIOUS
<1>3. Settled(Undoes(n), {New(n)}, n \notin M, Tail(q), i)
  BY <1>1, <1>2, SettledShift, Zenon
<1>. QED
  BY <1>3, Zenon DEF AbsentAt

LEMMA AssignedShift ==
    ASSUME NEW q \in Seq(Commands), q # <<>>, NEW D, NEW E, NEW n, NEW i \in 1..Len(q),
           Head(q) = SetBus(n) => n \in E, n \in D /\ Head(q) \notin Undoes(n) => n \in E,
           AssignedAt(n, D, q, i + 1)
    PROVE  AssignedAt(n, E, Tail(q), i)
<1>1. Settled({SetBus(n)}, Undoes(n), n \in D, q, i + 1)
  BY Zenon DEF AssignedAt
<1>2. Head(q) \in {SetBus(n)} => n \in E
  OBVIOUS
<1>3. Settled({SetBus(n)}, Undoes(n), n \in E, Tail(q), i)
  BY <1>1, <1>2, SettledShift, Zenon
<1>. QED
  BY <1>3, Zenon DEF AssignedAt

(* What the first command meets, when it succeeds.                          *)
LEMMA FirstCommand ==
    ASSUME Base, toSc # <<>>, Sound(nodes, toSc), defs
    PROVE  LET c == Head(toSc) IN
           /\ c.op = "new" => Makes(c.node)
           /\ c.op = "n_set" => c.node \in nodes
<1>. DEFINE c == Head(toSc)
<1>1. toSc \in Seq(Commands)
  BY DEF Base, TypeInv
<1>2. Len(toSc) \in Nat /\ Len(toSc) >= 1 /\ c = toSc[1]
  BY <1>1, TailFacts
<1>3. Succeeds(nodes, toSc, 1)
  BY <1>2 DEF Sound
<1>4. 1..1-1 = {}
  OBVIOUS
<1>. HIDE DEF c
<1>5. \A n : PresentAt(n, nodes, toSc, 1) => n \in nodes
  BY <1>4 DEF PresentAt, Settled, Since
<1>6. \A n : AbsentAt(n, nodes, toSc, 1) => n \notin nodes
  BY <1>4 DEF AbsentAt, Settled, Since
<1>7. c.op = "new" => Makes(c.node)
  BY <1>2, <1>3, <1>5, <1>6 DEF Succeeds, Makes
<1>8. c.op = "n_set" => c.node \in nodes
  BY <1>2, <1>3, <1>5 DEF Succeeds
<1>. QED
  BY <1>7, <1>8 DEF c

(* scsynth handles a command.                                               *)
LEMMA EndScsynth ==
    ASSUME EndInv, Scsynth, Base'
    PROVE  EndInv'
<1>. DEFINE c == Head(toSc)
            q == toSc
<1>1. /\ q # <<>> /\ c \in Commands /\ toSc' = Tail(toSc)
      /\ \A n \in Universe : c \in Undoes(n) => n \notin nodes'
      /\ \A n : n \notin nodes /\ c # New(n) => n \notin nodes'
      /\ \A n \in nodes : c \notin Undoes(n) => n \in nodes'
      /\ \A g \in assigned : c \notin Undoes(g) => g \in assigned'
      /\ Makes(c.node) => \A n : c = New(n) => n \in nodes'
      /\ \A n \in nodes : c = SetBus(n) => n \in assigned'
  BY NodeEffect DEF EndInv
<1>2. /\ UNCHANGED <<defs, pc>>
      /\ \/ toCtl' = toCtl
         \/ \E m \in Answers : /\ toCtl' = Append(toCtl, m)
                               /\ Failed(m) => \/ c.op = "new" /\ ~Makes(c.node)
                                               \/ c.op = "n_set" /\ c.node \notin nodes
  BY AnswerEffect DEF EndInv
<1>3. q \in Seq(Commands) /\ toCtl \in Seq(Answers) /\ defs \in BOOLEAN
  BY DEF EndInv, Base, TypeInv
<1>4. /\ Len(q) \in Nat /\ Len(q) >= 1 /\ c = q[1] /\ Len(Tail(q)) = Len(q) - 1
      /\ Tail(q) \in Seq(Commands) /\ \A k \in 1..Len(Tail(q)) : Tail(q)[k] = q[k + 1]
  BY <1>1, <1>3, TailFacts
<1>5. /\ Sound(nodes, q) /\ defs => /\ c.op = "new" => Makes(c.node)
                                    /\ c.op = "n_set" => c.node \in nodes
  BY <1>1, FirstCommand DEF EndInv
<1>. HIDE DEF c
<1>6. ASSUME NEW n \in Universe, NEW i \in 1..Len(q), AbsentAt(n, nodes, q, i + 1)
      PROVE  AbsentAt(n, nodes', Tail(q), i)
  <2>1. c \in Undoes(n) => n \notin nodes'
    BY <1>1
  <2>2. n \notin nodes /\ c # New(n) => n \notin nodes'
    BY <1>1
  <2>. QED
    BY <1>1, <1>3, <1>6, <2>1, <2>2, AbsentShift, Zenon DEF c
<1>7. ASSUME Sound(nodes, q), defs, NEW n, NEW i \in 1..Len(q), PresentAt(n, nodes, q, i + 1)
      PROVE  PresentAt(n, nodes', Tail(q), i)
  <2>1. c = New(n) => n \in nodes'
    <3>1. c = New(n) => c.op = "new"
      BY DEF New
    <3>. QED
      BY <1>1, <1>5, <1>7, <3>1
  <2>2. n \in nodes /\ c \notin Undoes(n) => n \in nodes'
    BY <1>1
  <2>. QED
    BY <1>1, <1>3, <1>7, <2>1, <2>2, PresentShift, Zenon DEF c
<1>8. ASSUME Sound(nodes, q), defs, NEW n, NEW i \in 1..Len(q), AssignedAt(n, assigned, q, i + 1)
      PROVE  AssignedAt(n, assigned', Tail(q), i)
  <2>1. c = SetBus(n) => n \in assigned'
    <3>1. c = SetBus(n) => c.op = "n_set" /\ c.node = n
      BY DEF SetBus
    <3>. QED
      BY <1>1, <1>5, <1>8, <3>1
  <2>2. n \in assigned /\ c \notin Undoes(n) => n \in assigned'
    BY <1>1
  <2>. QED
    BY <1>1, <1>3, <1>8, <2>1, <2>2, AssignedShift, Zenon DEF c
<1>9. Len(q) \in 1..Len(q) /\ Len(Tail(q)) + 1 = Len(q)
  BY <1>4
<1>10. \A n \in Universe : Absent(n, nodes, q) => Absent(n, nodes', Tail(q))
  BY <1>6, <1>9 DEF Absent
<1>11. Sound(nodes, q) /\ defs => \A n : Present(n, nodes, q) => Present(n, nodes', Tail(q))
  BY <1>7, <1>9 DEF Present
<1>12. Sound(nodes, q) /\ defs => \A n : Assigned(n, assigned, q) => Assigned(n, assigned', Tail(q))
  BY <1>8, <1>9 DEF Assigned
<1>13. ASSUME Sound(nodes, q), defs PROVE Sound(nodes', Tail(q))
  <2>. DEFINE w == Tail(q)
  <2>1. SUFFICES ASSUME NEW i \in 1..Len(w) PROVE Succeeds(nodes', w, i)
    BY DEF Sound
  <2>2. i \in 1..Len(q) /\ i + 1 \in 1..Len(q) /\ w[i] = q[i + 1] /\ w[i] \in Commands
    BY <1>4
  <2>3. Succeeds(nodes, q, i + 1)
    BY <1>13, <2>2 DEF Sound
  <2>. HIDE DEF w
  <2>. DEFINE n == w[i].node
  <2>4. w[i].op = "new" => n \in Universe
    BY <2>2 DEF Commands, Universe
  <2>5. n \in Universe /\ AbsentAt(n, nodes, q, i + 1) => AbsentAt(n, nodes', w, i)
    BY <1>6, <2>2 DEF w
  <2>6. \A m : PresentAt(m, nodes, q, i + 1) => PresentAt(m, nodes', w, i)
    BY <1>7, <1>13, <2>2 DEF w
  <2>. QED
    BY <2>2, <2>3, <2>4, <2>5, <2>6 DEF Succeeds
<1>14. Succeeding'
  <2>1. ASSUME defs, NEW i \in 1..Len(toCtl') PROVE ~Failed(toCtl'[i])
    <3>1. Sound(nodes, q) /\ \A k \in 1..Len(toCtl) : ~Failed(toCtl[k])
      BY <2>1 DEF EndInv, Succeeding
    <3>2. CASE toCtl' = toCtl
      BY <3>1, <3>2
    <3>3. ASSUME NEW m \in Answers, toCtl' = Append(toCtl, m),
                 Failed(m) => \/ c.op = "new" /\ ~Makes(c.node)
                              \/ c.op = "n_set" /\ c.node \notin nodes
          PROVE  ~Failed(toCtl'[i])
      <4>1. ~Failed(m)
        BY <1>5, <2>1, <3>1, <3>3
      <4>2. toCtl'[i] = m \/ (i \in 1..Len(toCtl) /\ toCtl'[i] = toCtl[i])
        BY <1>3, <3>3
      <4>. QED
        BY <3>1, <4>1, <4>2
    <3>. QED
      BY <1>2, <3>2, <3>3
  <2>2. defs => pc # "rejected" /\ Sound(nodes, q)
    BY DEF EndInv, Succeeding
  <2>. QED
    BY <1>1, <1>2, <1>13, <2>1, <2>2 DEF Succeeding
<1>15. Ends'
  <2>1. defs => Sound(nodes, q)
    BY DEF EndInv, Succeeding
  <2>2. Routers \ Used \subseteq Universe
    BY DEF Universe
  <2>3. EndsWithin => EndsWithin'
    BY <1>1, <1>10, <2>2 DEF EndsWithin
  <2>4. EndsEmpty => EndsEmpty'
    BY <1>1, <1>10 DEF EndsEmpty
  <2>5. defs /\ EndsBuilt => EndsBuilt'
    BY <1>1, <1>11, <2>1 DEF EndsBuilt
  <2>6. defs /\ EndsAssigned => EndsAssigned'
    BY <1>1, <1>12, <2>1 DEF EndsAssigned
  <2>. QED
    BY <1>2, <2>3, <2>4, <2>5, <2>6 DEF EndInv, Ends
<1>. QED
  BY <1>14, <1>15 DEF EndInv

(* A start that is shut down, or ended, or that waits, or sends.            *)
LEMMA EndMixerctl ==
    ASSUME EndInv, Mixerctl \/ Shutdown \/ Kill \/ Restart \/ StartGenerator, Base'
    PROVE  EndInv'
<1>1. toSc \in Seq(Commands) /\ toCtl \in Seq(Answers) /\ defs \in BOOLEAN
      /\ pc \in Starting \cup Ended \cup {"serving"}
  BY DEF EndInv, Base, TypeInv
<1>2. UNCHANGED <<nodes, assigned, defs>>
  BY DEF Mixerctl, FirstSynced, QuadSynced, Loaded, GraphSynced, GraphRejected,
         BusesSynced, Ignore, NoSync, Retry, Shutdown, Kill, Restart, StartGenerator, Here
<1>3. /\ pc \in Up => EndsWithin /\ (defs => EndsBuilt)
      /\ pc \in {"buses", "serving"} /\ defs => EndsAssigned
      /\ pc = "stopped" => EndsEmpty
      /\ defs => /\ Sound(nodes, toSc)
                 /\ \A i \in 1..Len(toCtl) : ~Failed(toCtl[i])
                 /\ pc # "rejected"
  BY DEF EndInv, Ends, Succeeding
<1>4. defs => \A i \in 1..Len(toCtl') : ~Failed(toCtl'[i])
  <2>1. toCtl' = toCtl \/ toCtl' = <<>> \/ (toCtl # <<>> /\ toCtl' = Tail(toCtl))
    BY DEF Mixerctl, FirstSynced, QuadSynced, Loaded, GraphSynced, GraphRejected,
           BusesSynced, Ignore, NoSync, Retry, Failure, Receives, Shutdown, Kill, Restart, StartGenerator
  <2>2. CASE toCtl' = toCtl
    BY <1>3, <2>2
  <2>3. CASE toCtl' = <<>>
    BY <2>3
  <2>4. CASE toCtl # <<>> /\ toCtl' = Tail(toCtl)
    <3>1. /\ Len(toCtl) \in Nat /\ Len(Tail(toCtl)) = Len(toCtl) - 1
          /\ \A k \in 1..Len(Tail(toCtl)) : Tail(toCtl)[k] = toCtl[k + 1]
      BY <1>1, <2>4, TailFacts
    <3>2. \A k \in 1..Len(Tail(toCtl)) : k + 1 \in 1..Len(toCtl)
      BY <3>1
    <3>. QED
      BY <1>3, <2>4, <3>1, <3>2
  <2>. QED
    BY <2>1, <2>2, <2>3, <2>4
<1>5. CASE /\ toSc' = toSc
           /\ \/ pc' = pc
              \/ pc = "buses" /\ pc' = "serving"
              \/ pc' \in Ended \ {"stopped", "rejected"}
  <2>1. Ends'
    BY <1>2, <1>3, <1>5
       DEF Ends, Up, Ended, EndsWithin, EndsBuilt, EndsAssigned, EndsEmpty
  <2>2. Succeeding'
    BY <1>2, <1>3, <1>4, <1>5 DEF Succeeding, Ended
  <2>. QED
    BY <2>1, <2>2 DEF EndInv
<1>6. CASE GraphRejected
  <2>1. toCtl # <<>> /\ Failed(Head(toCtl)) /\ pc' = "rejected" /\ toSc' = toSc
    BY <1>6 DEF GraphRejected, Failure, Failed
  <2>2. ~defs
    <3>1. 1 \in 1..Len(toCtl) /\ Head(toCtl) = toCtl[1]
      <4>1. Len(toCtl) \in Nat /\ Len(toCtl) >= 1 /\ Head(toCtl) = toCtl[1]
        BY <1>1, <2>1, TailFacts
      <4>. QED
        BY <4>1
    <3>. QED
      BY <1>3, <2>1, <3>1
  <2>. QED
    BY <1>2, <2>1, <2>2 DEF EndInv, Ends, Succeeding, Up
<1>7. CASE Attempt
  <2>1. toSc' = toSc \o Graph /\ pc' = "graph"
    BY <1>7 DEF Attempt, Sends
  <2>2. /\ Sound(nodes, toSc) => Sound(nodes, toSc \o Graph)
        /\ \A n \in Wanted : Present(n, nodes, toSc \o Graph)
        /\ \A n \in Universe \ Wanted : Absent(n, nodes, toSc \o Graph)
    BY <1>1, GraphFact
  <2>3. Routers \ Used \subseteq Universe \ Wanted
    BY NodesAssumption DEF Universe, Wanted, Containers
  <2>4. EndsBuilt'
    BY <1>2, <2>1, <2>2 DEF EndsBuilt
  <2>5. EndsWithin'
    BY <1>2, <2>1, <2>2, <2>3 DEF EndsWithin
  <2>6. Succeeding'
    BY <1>2, <1>3, <1>4, <2>1, <2>2 DEF Succeeding
  <2>. QED
    BY <1>2, <2>1, <2>4, <2>5, <2>6 DEF EndInv, Ends
<1>8. CASE GraphSynced
  <2>1. toSc' = toSc \o Buses /\ pc = "graph" /\ pc' = "buses"
    BY <1>8 DEF GraphSynced, Sends
  <2>2. EndsWithin /\ (defs => EndsBuilt)
    BY <1>3, <2>1 DEF Up
  <2>3. /\ Sound(nodes, toSc) /\ (\A g \in Groups : Present(g, nodes, toSc))
              => Sound(nodes, toSc \o Buses)
        /\ \A n : Present(n, nodes, toSc) => Present(n, nodes, toSc \o Buses)
        /\ \A n : Absent(n, nodes, toSc) => Absent(n, nodes, toSc \o Buses)
        /\ \A g \in Groups : Assigned(g, assigned, toSc \o Buses)
    BY <1>1, BusesFact
  <2>4. Groups \subseteq Wanted
    BY DEF Wanted
  <2>5. EndsWithin' /\ (defs => EndsBuilt') /\ EndsAssigned'
    BY <1>2, <2>1, <2>2, <2>3 DEF EndsWithin, EndsBuilt, EndsAssigned
  <2>6. defs => Sound(nodes, toSc \o Buses)
    BY <1>3, <2>2, <2>3, <2>4 DEF EndsBuilt
  <2>7. Succeeding'
    BY <1>2, <1>4, <2>1, <2>6 DEF Succeeding
  <2>. QED
    BY <1>2, <2>1, <2>5, <2>7 DEF EndInv, Ends
<1>9. CASE Shutdown
  <2>1. toSc' = toSc \o TearDown /\ pc' = "stopped"
    BY <1>9 DEF Shutdown, Sends
  <2>2. /\ Sound(nodes, toSc) => Sound(nodes, toSc \o TearDown)
        /\ \A n \in Universe : Absent(n, nodes, toSc \o TearDown)
    BY <1>1, TearDownFact
  <2>3. EndsEmpty'
    BY <1>2, <2>1, <2>2 DEF EndsEmpty
  <2>4. Succeeding'
    BY <1>2, <1>3, <1>4, <2>1, <2>2 DEF Succeeding
  <2>. QED
    BY <2>1, <2>3, <2>4 DEF EndInv, Ends, Up
<1>10. ASSUME NEW k \in 1..4, toSc' = toSc \o <<Sync(k)>>, pc' \in {"first sync", "load"}
       PROVE  EndInv'
  <2>1. /\ <<Sync(k)>> \in Seq(Others) /\ Len(<<Sync(k)>>) = 1 /\ IsSync(<<Sync(k)>>[1])
    BY <1>1, SyncSent
  <2>2. ~ \E i \in 1..Len(<<Sync(k)>>) : <<Sync(k)>>[i].op = "n_set"
    BY <2>1 DEF IsSync
  <2>3. Sound(nodes, toSc) => Sound(nodes, toSc \o <<Sync(k)>>)
    <3>. DEFINE t == <<Sync(k)>>
    <3>. HIDE DEF t
    <3>1. t \in Seq(Others) /\ ~ \E i \in 1..Len(t) : t[i].op = "n_set"
      BY <2>1, <2>2 DEF t
    <3>2. Sound(nodes, toSc) => Sound(nodes, toSc \o t)
      BY <1>1, <3>1, OthersFact
    <3>. QED
      BY <3>2 DEF t
  <2>4. Succeeding'
    BY <1>2, <1>3, <1>4, <1>10, <2>3 DEF Succeeding
  <2>5. Ends'
    BY <1>10 DEF Ends, Up
  <2>. QED
    BY <2>4, <2>5 DEF EndInv
<1>11. CASE StartGenerator
  <2>. DEFINE t == <<New(Generator)>>
  <2>1. /\ toSc' = toSc \o t /\ pc = "serving" /\ pc' = "serving"
        /\ Generator \notin nodes /\ ~Contains(toSc, New(Generator))
    BY <1>11 DEF StartGenerator, Sends
  <2>2. EndsWithin /\ (defs => EndsBuilt /\ EndsAssigned /\ Sound(nodes, toSc))
    BY <1>3, <2>1 DEF Up
  <2>3. t \in Seq([op : {"new"}, node : {Generator}])
        /\ OneEach(t, [m \in {Generator} |-> New(m)], {Generator})
    BY OneCommand
  <2>4. Absent(Generator, nodes, toSc)
    <3>1. \A k \in 1..Len(toSc) : toSc[k] # New(Generator)
      BY <2>1 DEF Contains
    <3>2. \A k \in 1..(Len(toSc) + 1) - 1 : k \in 1..Len(toSc)
      BY <1>1
    <3>3. Never({New(Generator)}, toSc, Len(toSc) + 1)
      BY <3>1, <3>2 DEF Never
    <3>. QED
      BY <2>1, <3>3, Zenon DEF Absent, AbsentAt, Settled
  <2>5. Generator \notin Containers /\ Home(Generator) = Routing /\ Routing \in Wanted
    BY Homes DEF Wanted, Containers
  <2>6. \A n \in Routers \ Used : n # Generator
    BY NodesAssumption
  <2>. HIDE DEF t
  <2>7. /\ t \in Seq(Commands) /\ Len(t) \in Nat
        /\ \A k \in 1..Len(t) : t[k] \in [op : {"new"}, node : {Generator}]
    <3>1. [op : {"new"}, node : {Generator}] \subseteq Commands
      BY DEF Commands
    <3>2. t \in Seq([op : {"new"}, node : {Generator}])
      BY <2>3
    <3>3. t \in Seq(Commands)
      BY <3>1, <3>2, WiderSeq, Zenon
    <3>4. Len(t) \in Nat /\ \A k \in 1..Len(t) : t[k] \in [op : {"new"}, node : {Generator}]
      BY <3>2, SeqElements, Zenon
    <3>. QED
      BY <3>3, <3>4
  <2>8. CASE defs
    <3>1. \A n \in {Generator} : /\ Absent(n, nodes, toSc)
                                 /\ n \notin Containers => Present(Home(n), nodes, toSc)
      BY <2>2, <2>4, <2>5, <2>8 DEF EndsBuilt
    <3>2. {Generator} \in SUBSET (Wanted \cup {Generator})
      OBVIOUS
    <3>3. /\ Sound(nodes, toSc) => Sound(nodes, toSc \o t)
          /\ \A n : Present(n, nodes, toSc) => Present(n, nodes, toSc \o t)
          /\ \A n : n \notin {Generator} /\ Absent(n, nodes, toSc) => Absent(n, nodes, toSc \o t)
      BY <1>1, <2>3, <3>1, <3>2, NewsFact
    <3>4. Succeeding'
      BY <1>2, <1>4, <2>1, <2>2, <2>8, <3>3 DEF Succeeding
    <3>5. EndsWithin' /\ EndsBuilt'
      BY <1>2, <2>1, <2>2, <2>6, <2>8, <3>3 DEF EndsWithin, EndsBuilt
    <3>6. EndsAssigned'
      <4>1. ASSUME NEW g \in Groups PROVE Assigned(g, assigned, toSc \o t)
        <5>1. Settled({SetBus(g)}, Undoes(g), g \in assigned, toSc, Len(toSc) + 1)
          BY <2>2, <2>8, Zenon DEF EndsAssigned, Assigned, AssignedAt
        <5>3. \A k \in 1..Len(t) : t[k] \notin Undoes(g)
          BY <2>7 DEF Undoes, Free
        <5>4. \A k \in 1..(Len(t) + 1) - 1 : k \in 1..Len(t)
          BY <2>7
        <5>5. Never(Undoes(g), t, Len(t) + 1)
          BY <5>3, <5>4 DEF Never
        <5>6. Settled({SetBus(g)}, Undoes(g), g \in assigned, toSc \o t, Len(toSc \o t) + 1)
          BY <1>1, <2>7, <5>1, <5>5, SettledEnd, Zenon
        <5>. QED
          BY <5>6, Zenon DEF Assigned, AssignedAt
      <4>. QED
        BY <1>2, <2>1, <4>1 DEF EndsAssigned
    <3>. QED
      BY <1>2, <2>1, <3>4, <3>5, <3>6 DEF EndInv, Ends
  <2>9. CASE ~defs
    <3>1. Succeeding'
      BY <1>2, <2>9 DEF Succeeding
    <3>2. ASSUME NEW n \in Routers \ Used PROVE Absent(n, nodes, toSc \o t)
      <4>1. Settled(Undoes(n), {New(n)}, n \notin nodes, toSc, Len(toSc) + 1)
        BY <2>2, Zenon DEF EndsWithin, Absent, AbsentAt
      <4>3. \A k \in 1..Len(t) : t[k] # New(n)
        BY <2>6, <2>7 DEF New
      <4>4. \A k \in 1..(Len(t) + 1) - 1 : k \in 1..Len(t)
        BY <2>7
      <4>5. Never({New(n)}, t, Len(t) + 1)
        BY <4>3, <4>4 DEF Never
      <4>6. Settled(Undoes(n), {New(n)}, n \notin nodes, toSc \o t, Len(toSc \o t) + 1)
        BY <1>1, <4>1, <2>7, <4>5, SettledEnd, Zenon
      <4>. QED
        BY <4>6, Zenon DEF Absent, AbsentAt
    <3>3. EndsWithin'
      BY <1>2, <2>1, <3>2 DEF EndsWithin
    <3>. QED
      BY <1>2, <2>1, <2>9, <3>1, <3>3 DEF EndInv, Ends
  <2>. QED
    BY <1>1, <2>8, <2>9
<1>12. CASE Ignore \/ BusesSynced \/ NoSync \/ Kill
  BY <1>5, <1>12 DEF Ignore, BusesSynced, NoSync, Kill, Ended
<1>13. CASE FirstSynced
  <2>1. CASE pc' = "load" /\ Sends(<<Sync(4)>>)
    <3>1. 4 \in 1..4
      OBVIOUS
    <3>. QED
      BY <1>10, <2>1, <3>1 DEF Sends
  <2>2. CASE pc' = "missing" /\ toSc' = toSc
    BY <1>5, <2>2 DEF Ended
  <2>. QED
    BY <1>13, <2>1, <2>2 DEF FirstSynced
<1>14. CASE Restart
  <2>1. toSc' = toSc \o <<Sync(1)>> /\ pc' = "first sync"
    BY ONLY <1>14, Zenon DEF Restart, Sends
  <2>2. 1 \in 1..4
    OBVIOUS
  <2>. QED
    BY <1>10, <2>1, <2>2
<1>15. CASE Retry
  <2>1. Attempt \/ (pc' = "unacknowledged" /\ toSc' = toSc)
    BY <1>15 DEF Retry
  <2>. QED
    BY <1>5, <1>7, <2>1 DEF Ended
<1>16. CASE QuadSynced \/ Loaded
  BY <1>7, <1>16 DEF QuadSynced, Loaded
<1>. QED
  BY <1>6, <1>8, <1>9, <1>11, <1>12, <1>13, <1>14, <1>15, <1>16, Zenon DEF Mixerctl

THEOREM EndsRight == Spec => []EndInv
<1>1. Init => EndInv
  <2>1. SUFFICES ASSUME Init PROVE EndInv
    OBVIOUS
  <2>2. Base
    BY <2>1, BaseInit
  <2>3. Ends
    BY <2>1 DEF Init, Ends, Up
  <2>4. Succeeding
    <3>1. Len(<<Sync(1)>>) = 1 /\ <<Sync(1)>>[1].op = "sync"
      BY DEF Sync
    <3>2. Sound(nodes, <<Sync(1)>>)
      BY <3>1 DEF Sound, Succeeds
    <3>3. \A i \in 1..Len(<<>>) : ~Failed(<<>>[i])
      OBVIOUS
    <3>4. toSc = <<Sync(1)>> /\ toCtl = <<>> /\ pc # "rejected"
      BY <2>1 DEF Init
    <3>. QED
      BY <3>2, <3>3, <3>4 DEF Succeeding
  <2>. QED
    BY <2>2, <2>3, <2>4 DEF EndInv
<1>2. EndInv /\ [Next]_vars => EndInv'
  <2>1. SUFFICES ASSUME EndInv, [Next]_vars PROVE EndInv'
    OBVIOUS
  <2>2. Base'
    BY <2>1, BaseStep DEF EndInv
  <2>3. CASE Scsynth
    BY <2>1, <2>2, <2>3, EndScsynth
  <2>4. CASE Mixerctl \/ Shutdown \/ Kill \/ Restart \/ StartGenerator
    BY <2>1, <2>2, <2>4, EndMixerctl
  <2>5. CASE UNCHANGED vars
    BY <2>1, <2>2, <2>5
       DEF vars, EndInv, Ends, EndsWithin, EndsBuilt, EndsAssigned, EndsEmpty, Succeeding
  <2>. QED
    BY <2>1, <2>3, <2>4, <2>5 DEF Next
<1>. QED
  BY <1>1, <1>2, PTL DEF Spec

(* NoFalseRejection.  scsynth answers n_free, n_set and new with a failure  *)
(* each, and a start takes any but the first for a rejected graph: whatever *)
(* was in scsynth or on the way, only a missing SynthDef makes one.         *)
THEOREM OnlyMissingDefs == Spec => []NoFalseRejection
<1>1. EndInv => NoFalseRejection
  BY DEF EndInv, Succeeding, NoFalseRejection
<1>. QED
  BY <1>1, EndsRight, PTL

-----------------------------------------------------------------------------
(* Which reply is which.                                                    *)

(* The one sync that is awaited is the last thing to be handled, its reply  *)
(* the last to be read.                                                     *)
Single(q, r) ==
    /\ \A i \in 1..Len(q) : IsSync(q[i]) => i = Len(q)
    /\ \A i \in 1..Len(r) : IsSynced(r[i]) => i = Len(r) /\ q = <<>>

(* Only these commands follow the i-th: none that makes or frees the graph. *)
Late == [op : {"n_set"}, node : Groups] \cup [op : {"sync"}, number : 1..4] \cup {New(Generator)}
LateAfter(q, i) == \A k \in 1..Len(q) : k > i => q[k] \in Late

(* Whichever sync is the first to be answered, the graph is there then.     *)
FirstLate(q, r) ==
    /\ \A i \in 1..Len(q) : IsSync(q[i]) => LateAfter(q, i)
    /\ \A i \in 1..Len(r) : IsSynced(r[i]) => LateAfter(q, 0)

(* The second to be answered, if not the first.                             *)
SecondLate(q, r) ==
    /\ \A i, j \in 1..Len(q) : IsSync(q[i]) /\ IsSync(q[j]) /\ i < j => LateAfter(q, j)
    /\ \A i \in 1..Len(r), j \in 1..Len(q) : IsSynced(r[i]) /\ IsSync(q[j]) => LateAfter(q, j)
    /\ \A i, j \in 1..Len(r) : IsSynced(r[i]) /\ IsSynced(r[j]) /\ i < j => LateAfter(q, 0)

(* Without the SynthDefs the master fails before any sync of the graph.     *)
Doomed(q, r) ==
    /\ \A i \in 1..Len(q) : IsSync(q[i]) =>
          \/ \E j \in 1..Len(q) : j < i /\ q[j] = New(Master)
          \/ \E j \in 1..Len(r) : Failed(r[j])
    /\ \A i \in 1..Len(r) : IsSynced(r[i]) => \E j \in 1..Len(r) : j < i /\ Failed(r[j])

Timely ==
    ~inherited =>
        /\ pc \in {"graph", "buses", "serving"} => attempt >= 1
        /\ pc \in {"first sync", "load"} => Single(toSc, toCtl)
        /\ pc \in {"graph", "buses"} /\ attempt = 1 => Single(toSc, toCtl)
        /\ pc = "graph" /\ attempt <= 2 => SecondLate(toSc, toCtl)
        /\ pc = "buses" /\ attempt <= 2 => FirstLate(toSc, toCtl)
        /\ pc = "serving" /\ attempt <= 2 => toSc \in Seq(Late)
        /\ pc = "serving" /\ attempt = 1 => toSc \in Seq({New(Generator)})
        /\ ~defs => pc \notin {"buses", "serving"} /\ (pc = "graph" => Doomed(toSc, toCtl))

(* When the first command has run, and was answered or not.                 *)
LEMMA HandleSync ==
    ASSUME NEW q \in Seq(Commands), q # <<>>, NEW r \in Seq(Answers), NEW s,
           \/ s = r /\ ~IsSync(Head(q))
           \/ \E m \in Answers : s = Append(r, m) /\ (IsSynced(m) <=> IsSync(Head(q)))
    PROVE  /\ Single(q, r) => Single(Tail(q), s)
           /\ FirstLate(q, r) => FirstLate(Tail(q), s)
           /\ SecondLate(q, r) => SecondLate(Tail(q), s)
<1>. DEFINE w == Tail(q)
<1>1. /\ Len(q) \in Nat /\ Len(q) >= 1 /\ Head(q) = q[1] /\ w \in Seq(Commands)
      /\ Len(w) \in Nat /\ Len(q) = Len(w) + 1
      /\ \A k \in 1..Len(w) : w[k] = q[k + 1]
  <2>1. /\ Len(q) \in Nat /\ Len(q) >= 1 /\ Head(q) = q[1] /\ w \in Seq(Commands)
        /\ Len(w) = Len(q) - 1 /\ \A k \in 1..Len(w) : w[k] = q[k + 1]
    BY TailFacts
  <2>. QED
    BY <2>1
<1>2. Len(r) \in Nat
  OBVIOUS
<1>3. /\ Len(s) \in Nat
      /\ \A i \in 1..Len(s) : IsSynced(s[i]) =>
            \/ i \in 1..Len(r) /\ IsSynced(r[i])
            \/ i = Len(r) + 1 /\ i = Len(s) /\ IsSync(q[1])
      /\ Len(s) = Len(r) \/ Len(s) = Len(r) + 1
  <2>1. CASE s = r /\ ~IsSync(Head(q))
    BY <1>1, <1>2, <2>1
  <2>2. CASE \E m \in Answers : s = Append(r, m) /\ (IsSynced(m) <=> IsSync(Head(q)))
    <3>1. PICK m \in Answers : s = Append(r, m) /\ (IsSynced(m) <=> IsSync(Head(q)))
      BY <2>2
    <3>2. Len(s) = Len(r) + 1 /\ s[Len(r) + 1] = m /\ \A i \in 1..Len(r) : s[i] = r[i]
      BY <3>1
    <3>3. \A i \in 1..Len(s) : i \in 1..Len(r) \/ i = Len(r) + 1
      BY <1>2, <3>2
    <3>. QED
      BY <1>1, <1>2, <3>1, <3>2, <3>3
  <2>. QED
    BY <2>1, <2>2
<1>4. \A k \in 1..Len(w) : k + 1 \in 1..Len(q) /\ k + 1 > 1
  BY <1>1
<1>5. 1 \in 1..Len(q)
  BY <1>1
<1>. HIDE DEF w
<1>6. \A j \in Nat : LateAfter(q, j + 1) => LateAfter(w, j)
  BY <1>1, <1>4 DEF LateAfter
<1>7. LateAfter(q, 0) => LateAfter(w, 0)
  BY <1>1, <1>4 DEF LateAfter
<1>8. ASSUME Single(q, r) PROVE Single(w, s)
  <2>1. \A i \in 1..Len(r) : ~IsSynced(r[i])
    BY <1>8 DEF Single
  <2>2. ASSUME NEW i \in 1..Len(w), IsSync(w[i]) PROVE i = Len(w)
    <3>1. i + 1 = Len(q)
      BY <1>1, <1>4, <1>8, <2>2 DEF Single
    <3>. QED
      BY <1>1, <3>1
  <2>3. ASSUME NEW i \in 1..Len(s), IsSynced(s[i]) PROVE i = Len(s) /\ w = <<>>
    <3>1. i = Len(s) /\ IsSync(q[1])
      BY <1>3, <2>1, <2>3
    <3>2. Len(q) = 1
      BY <1>5, <1>8, <3>1 DEF Single
    <3>3. Len(w) = 0
      BY <1>1, <3>2
    <3>. QED
      BY <1>1, <3>1, <3>3, EmptySeq
  <2>. QED
    BY <2>2, <2>3 DEF Single
<1>9. ASSUME FirstLate(q, r) PROVE FirstLate(w, s)
  <2>1. ASSUME NEW i \in 1..Len(w), IsSync(w[i]) PROVE LateAfter(w, i)
    <3>1. LateAfter(q, i + 1)
      BY <1>1, <1>4, <1>9, <2>1 DEF FirstLate
    <3>. QED
      BY <1>6, <3>1
  <2>2. ASSUME NEW i \in 1..Len(s), IsSynced(s[i]) PROVE LateAfter(w, 0)
    <3>1. LateAfter(q, 0) \/ LateAfter(q, 1)
      BY <1>3, <1>5, <1>9, <2>2 DEF FirstLate
    <3>2. LateAfter(q, 0 + 1) => LateAfter(w, 0)
      BY <1>6
    <3>. QED
      BY <1>7, <3>1, <3>2
  <2>. QED
    BY <2>1, <2>2 DEF FirstLate
<1>10. ASSUME SecondLate(q, r) PROVE SecondLate(w, s)
  <2>1. ASSUME NEW i \in 1..Len(w), NEW j \in 1..Len(w), IsSync(w[i]), IsSync(w[j]), i < j
        PROVE  LateAfter(w, j)
    <3>1. i + 1 < j + 1
      BY <1>1, <2>1
    <3>2. LateAfter(q, j + 1)
      BY <1>1, <1>4, <1>10, <2>1, <3>1 DEF SecondLate
    <3>. QED
      BY <1>6, <3>2
  <2>2. ASSUME NEW i \in 1..Len(s), NEW j \in 1..Len(w), IsSynced(s[i]), IsSync(w[j])
        PROVE  LateAfter(w, j)
    <3>1. IsSync(q[j + 1]) /\ j + 1 \in 1..Len(q) /\ 1 < j + 1
      BY <1>1, <1>4, <2>2
    <3>2. LateAfter(q, j + 1)
      <4>1. CASE i \in 1..Len(r) /\ IsSynced(r[i])
        BY <1>10, <3>1, <4>1 DEF SecondLate
      <4>2. CASE IsSync(q[1])
        BY <1>5, <1>10, <3>1, <4>2 DEF SecondLate
      <4>. QED
        BY <1>3, <2>2, <4>1, <4>2
    <3>. QED
      BY <1>6, <3>2
  <2>3. ASSUME NEW i \in 1..Len(s), NEW j \in 1..Len(s), IsSynced(s[i]), IsSynced(s[j]), i < j
        PROVE  LateAfter(w, 0)
    <3>1. i \in 1..Len(r) /\ IsSynced(r[i])
      BY <1>2, <1>3, <2>3
    <3>2. CASE j \in 1..Len(r) /\ IsSynced(r[j])
      BY <1>7, <1>10, <2>3, <3>1, <3>2 DEF SecondLate
    <3>3. CASE IsSync(q[1])
      <4>1. LateAfter(q, 0 + 1)
        BY <1>5, <1>10, <3>1, <3>3 DEF SecondLate
      <4>2. LateAfter(q, 0 + 1) => LateAfter(w, 0)
        BY <1>6
      <4>. QED
        BY <4>1, <4>2
    <3>. QED
      BY <1>3, <2>3, <3>2, <3>3
  <2>. QED
    BY <2>1, <2>2, <2>3 DEF SecondLate
<1>. QED
  BY <1>8, <1>9, <1>10, Zenon DEF w

(* When a reply has been read, and if it was that to a sync.                *)
LEMMA ReadSync ==
    ASSUME NEW q \in Seq(Commands), NEW r \in Seq(Answers), r # <<>>
    PROVE  /\ Single(q, r) => Single(q, Tail(r))
           /\ FirstLate(q, r) => FirstLate(q, Tail(r))
           /\ SecondLate(q, r) => SecondLate(q, Tail(r))
           /\ IsSynced(Head(r)) =>
                 /\ Single(q, r) => q = <<>> /\ Tail(r) = <<>>
                 /\ FirstLate(q, r) => LateAfter(q, 0)
                 /\ SecondLate(q, r) => FirstLate(q, Tail(r))
<1>. DEFINE w == Tail(r)
<1>1. /\ Len(r) \in Nat /\ Len(r) >= 1 /\ Head(r) = r[1] /\ w \in Seq(Answers)
      /\ Len(w) \in Nat /\ Len(r) = Len(w) + 1
      /\ \A k \in 1..Len(w) : w[k] = r[k + 1]
  <2>1. /\ Len(r) \in Nat /\ Len(r) >= 1 /\ Head(r) = r[1] /\ w \in Seq(Answers)
        /\ Len(w) = Len(r) - 1 /\ \A k \in 1..Len(w) : w[k] = r[k + 1]
    BY TailFacts
  <2>. QED
    BY <2>1
<1>2. Len(q) \in Nat
  OBVIOUS
<1>3. \A k \in 1..Len(w) : k + 1 \in 1..Len(r) /\ 1 < k + 1
  BY <1>1
<1>4. 1 \in 1..Len(r)
  BY <1>1
<1>. HIDE DEF w
<1>5. ASSUME Single(q, r) PROVE Single(q, w)
  <2>1. ASSUME NEW i \in 1..Len(w), IsSynced(w[i]) PROVE i = Len(w) /\ q = <<>>
    <3>1. i + 1 = Len(r) /\ q = <<>>
      BY <1>1, <1>3, <1>5, <2>1 DEF Single
    <3>. QED
      BY <1>1, <3>1
  <2>. QED
    BY <1>5, <2>1 DEF Single
<1>6. FirstLate(q, r) => FirstLate(q, w)
  BY <1>1, <1>3 DEF FirstLate
<1>7. ASSUME SecondLate(q, r) PROVE SecondLate(q, w)
  <2>1. ASSUME NEW i \in 1..Len(w), NEW j \in 1..Len(q), IsSynced(w[i]), IsSync(q[j])
        PROVE  LateAfter(q, j)
    BY <1>1, <1>3, <1>7, <2>1 DEF SecondLate
  <2>2. ASSUME NEW i \in 1..Len(w), NEW j \in 1..Len(w), IsSynced(w[i]), IsSynced(w[j]), i < j
        PROVE  LateAfter(q, 0)
    <3>1. i + 1 < j + 1
      BY <1>1, <2>2
    <3>. QED
      BY <1>1, <1>3, <1>7, <2>2, <3>1 DEF SecondLate
  <2>. QED
    BY <1>7, <2>1, <2>2 DEF SecondLate
<1>8. ASSUME IsSynced(Head(r)), Single(q, r) PROVE q = <<>> /\ w = <<>>
  <2>1. 1 = Len(r) /\ q = <<>>
    BY <1>1, <1>4, <1>8 DEF Single
  <2>2. Len(w) = 0
    BY <1>1, <2>1
  <2>. QED
    BY <1>1, <2>1, <2>2, EmptySeq
<1>9. ASSUME IsSynced(Head(r)), FirstLate(q, r) PROVE LateAfter(q, 0)
  BY <1>1, <1>4, <1>9 DEF FirstLate
<1>10. ASSUME IsSynced(Head(r)), SecondLate(q, r) PROVE FirstLate(q, w)
  <2>1. \A j \in 1..Len(q) : IsSync(q[j]) => LateAfter(q, j)
    BY <1>1, <1>4, <1>10 DEF SecondLate
  <2>2. \A j \in 1..Len(w) : IsSynced(w[j]) => LateAfter(q, 0)
    BY <1>1, <1>3, <1>4, <1>10 DEF SecondLate
  <2>. QED
    BY <2>1, <2>2 DEF FirstLate
<1>. QED
  BY <1>5, <1>6, <1>7, <1>8, <1>9, <1>10, Zenon DEF w

(* Where a command of two queues is.                                        *)
IsJoin(w, q, t) ==
    /\ w \in Seq(Commands) /\ Len(q) \in Nat /\ Len(t) \in Nat /\ Len(w) = Len(q) + Len(t)
    /\ \A i \in 1..Len(q) : i \in 1..Len(w) /\ w[i] = q[i]
    /\ \A i \in 1..Len(t) : Len(q) + i \in 1..Len(w) /\ w[Len(q) + i] = t[i]
    /\ \A k \in 1..Len(w) : k \in 1..Len(q) \/ \E i \in 1..Len(t) : k = Len(q) + i

LEMMA Joined ==
    ASSUME NEW q \in Seq(Commands), NEW t \in Seq(Commands)
    PROVE  IsJoin(q \o t, q, t)
<1>. DEFINE w == q \o t
<1>1. /\ w \in Seq(Commands) /\ Len(q) \in Nat /\ Len(t) \in Nat /\ Len(w) = Len(q) + Len(t)
      /\ \A i \in 1..Len(q) : w[i] = q[i]
      /\ \A i \in 1..Len(t) : w[Len(q) + i] = t[i]
  OBVIOUS
<1>. HIDE DEF w
<1>2. ASSUME NEW k \in 1..Len(w), k \notin 1..Len(q) PROVE \E i \in 1..Len(t) : k = Len(q) + i
  <2>1. k - Len(q) \in 1..Len(t) /\ k = Len(q) + (k - Len(q))
    BY <1>1, <1>2
  <2>. QED
    BY <2>1
<1>3. /\ \A i \in 1..Len(q) : i \in 1..Len(w)
      /\ \A i \in 1..Len(t) : Len(q) + i \in 1..Len(w)
  BY <1>1
<1>4. IsJoin(w, q, t)
  BY <1>1, <1>2, <1>3 DEF IsJoin
<1>. QED
  BY <1>4 DEF w

(* The master, and at the very end the sync, of the graph.                  *)
LEMMA GraphShape ==
    /\ Graph \in Seq(Commands) /\ Len(Graph) \in Nat
    /\ \A i \in 1..Len(Graph) : IsSync(Graph[i]) => i = Len(Graph)
    /\ \E j \in 1..Len(Graph) : j < Len(Graph) /\ Graph[j] = New(Master)
<1>. DEFINE Quiet == {d \in Commands : ~IsSync(d)}
            f == Each(Free, Freed)
            c == <<New(Routing), New(Spatial), New(Output)>>
            u == Each(New, Used)
            g == Each(New, Groups)
            x == ((f \o c) \o u) \o g
            y == <<New(Master), Sync(2)>>
<1>1. f \in Seq(Quiet)
  <2>1. f \in Seq([op : {"n_free"}, node : Freed])
    BY Frees, FiniteSets
  <2>2. [op : {"n_free"}, node : Freed] \subseteq Quiet
    BY DEF Commands, IsSync
  <2>. QED
    BY <2>1, <2>2, WiderSeq, Zenon
<1>2. \A T \in SUBSET (Wanted \cup {Generator}) : [op : {"new"}, node : T] \subseteq Quiet
  BY DEF Commands, IsSync
<1>3. /\ Containers \in SUBSET (Wanted \cup {Generator}) /\ Used \in SUBSET (Wanted \cup {Generator})
      /\ Groups \in SUBSET (Wanted \cup {Generator})
  BY DEF Wanted
<1>4. u \in Seq(Quiet)
  <2>1. u \in Seq([op : {"new"}, node : Used])
    BY <1>3, News, FiniteSets
  <2>. QED
    BY <1>2, <1>3, <2>1, WiderSeq, Zenon
<1>5. g \in Seq(Quiet)
  <2>1. g \in Seq([op : {"new"}, node : Groups])
    BY <1>3, News, FiniteSets
  <2>. QED
    BY <1>2, <1>3, <2>1, WiderSeq, Zenon
<1>6. c \in Seq(Quiet)
  <2>1. c \in Seq([op : {"new"}, node : Containers])
    BY ContainersInOrder
  <2>2. [op : {"new"}, node : Containers] \subseteq Quiet
    BY <1>2, <1>3
  <2>. HIDE DEF c, Quiet
  <2>. QED
    BY <2>1, <2>2, WiderSeq, Zenon
<1>7. Graph = x \o y
  BY Zenon DEF Graph
<1>. HIDE DEF f, c, u, g, Quiet
<1>8. x \in Seq(Quiet)
  BY <1>1, <1>4, <1>5, <1>6
<1>9. y \in Seq(Commands) /\ Len(y) = 2 /\ y[1] = New(Master) /\ y[2] = Sync(2)
  <2>1. New(Master) \in Commands /\ Sync(2) \in Commands
    BY DEF New, Sync, Commands, Wanted
  <2>. QED
    BY <2>1
<1>10. ~IsSync(New(Master))
  BY DEF New, IsSync
<1>11. Quiet \subseteq Commands /\ \A d \in Quiet : ~IsSync(d)
  BY DEF Quiet
<1>. HIDE DEF x, y
<1>12. x \in Seq(Commands) /\ Len(x) \in Nat /\ \A i \in 1..Len(x) : ~IsSync(x[i])
  <2>1. x \in Seq(Commands)
    BY <1>8, <1>11, WiderSeq, Zenon
  <2>2. Len(x) \in Nat /\ \A i \in 1..Len(x) : x[i] \in Quiet
    BY <1>8, SeqElements, Zenon
  <2>. QED
    BY <1>11, <2>1, <2>2
<1>. DEFINE n == Len(x)
            G == x \o y
<1>13. /\ G \in Seq(Commands) /\ Len(G) = n + 2 /\ n \in Nat
       /\ \A i \in 1..n : G[i] = x[i]
       /\ G[n + 1] = New(Master)
  <2>1. IsJoin(G, x, y)
    BY <1>9, <1>12, Joined, Zenon
  <2>. HIDE DEF G
  <2>2. /\ G \in Seq(Commands) /\ Len(G) = n + Len(y)
        /\ \A i \in 1..n : i \in 1..Len(G) /\ G[i] = x[i]
        /\ \A i \in 1..Len(y) : n + i \in 1..Len(G) /\ G[n + i] = y[i]
    BY <2>1 DEF IsJoin
  <2>3. 1 \in 1..Len(y)
    BY <1>9
  <2>. QED
    BY <1>9, <1>12, <2>2, <2>3
<1>. HIDE DEF n, G
<1>14. \A i \in 1..Len(G) : i \in 1..n \/ i = n + 1 \/ i = Len(G)
  BY <1>13
<1>15. \A i \in 1..Len(G) : IsSync(G[i]) => i = Len(G)
  BY <1>10, <1>12, <1>13, <1>14 DEF n
<1>16. n + 1 \in 1..Len(G) /\ n + 1 < Len(G) /\ Len(G) \in Nat
  BY <1>13
<1>. QED
  BY <1>7, <1>13, <1>15, <1>16 DEF G

LEMMA BusesShape ==
    /\ Buses \in Seq(Commands) /\ Len(Buses) \in Nat
    /\ \A i \in 1..Len(Buses) : Buses[i] \in Late
    /\ \A i \in 1..Len(Buses) : IsSync(Buses[i]) => i = Len(Buses)
<1>. DEFINE S == [op : {"n_set"}, node : Groups]
            t == Each(SetBus, Groups)
<1>1. t \in Seq(S)
  BY Sets
<1>2. Sync(3) \in Late /\ Sync(3) \in Commands
  BY DEF Sync, Late, Commands
<1>3. \A d \in S : d \in Commands /\ d \in Late /\ ~IsSync(d)
  BY DEF Commands, Late, IsSync
<1>. HIDE DEF t, S
<1>4. t \in Seq(Commands) /\ Len(t) \in Nat /\ \A i \in 1..Len(t) : t[i] \in S
  <2>1. S \subseteq Commands
    BY <1>3
  <2>. QED
    BY <1>1, <2>1, WiderSeq, SeqElements, Zenon
<1>. DEFINE n == Len(t)
            G == t \o <<Sync(3)>>
<1>5. /\ G \in Seq(Commands) /\ Len(G) = n + 1 /\ n \in Nat
      /\ \A i \in 1..n : G[i] = t[i]
      /\ G[n + 1] = Sync(3)
  BY <1>2, <1>4
<1>. HIDE DEF n, G
<1>6. \A i \in 1..Len(G) : i \in 1..n \/ i = Len(G)
  BY <1>5
<1>7. \A i \in 1..Len(G) : G[i] \in Late /\ (IsSync(G[i]) => i = Len(G))
  BY <1>2, <1>3, <1>4, <1>5, <1>6 DEF n
<1>8. Len(G) \in Nat
  BY <1>5
<1>9. Buses = G
  BY DEF Buses, G, t
<1>. QED
  BY <1>5, <1>7, <1>8, <1>9

(* An attempt after an attempt, and without the SynthDefs.                  *)
LEMMA GraphSent ==
    ASSUME NEW q \in Seq(Commands), NEW r \in Seq(Answers)
    PROVE  /\ Single(q, r) => SecondLate(q \o Graph, r)
           /\ Doomed(q, r) => Doomed(q \o Graph, r)
<1>. DEFINE w == q \o Graph
            n == Len(q)
            m == Len(Graph)
<1>1. /\ Graph \in Seq(Commands) /\ m \in Nat
      /\ \A i \in 1..m : IsSync(Graph[i]) => i = m
      /\ \E j \in 1..m : j < m /\ Graph[j] = New(Master)
  BY GraphShape
<1>2. IsJoin(w, q, Graph)
  BY <1>1, Joined, Zenon
<1>. HIDE DEF w
<1>3. /\ n \in Nat /\ Len(w) = n + m
      /\ \A i \in 1..n : i \in 1..Len(w) /\ w[i] = q[i]
      /\ \A i \in 1..m : n + i \in 1..Len(w) /\ w[n + i] = Graph[i]
      /\ \A k \in 1..Len(w) : k \in 1..n \/ \E i \in 1..m : k = n + i
  BY <1>2 DEF IsJoin
<1>. HIDE DEF m, n
<1>4. \A k \in 1..Len(w) : IsSync(w[k]) => k = Len(w) \/ (k \in 1..n /\ IsSync(q[k]))
  <2>1. ASSUME NEW k \in 1..Len(w), IsSync(w[k]), k \notin 1..n PROVE k = Len(w)
    <3>1. PICK i \in 1..m : k = n + i
      BY <1>3, <2>1
    <3>2. i = m
      BY <1>1, <1>3, <2>1, <3>1
    <3>. QED
      BY <1>3, <3>1, <3>2
  <2>. QED
    BY <1>3, <2>1
<1>5. LateAfter(w, Len(w))
  <2>1. Len(w) \in Nat
    BY <1>1, <1>3
  <2>. QED
    BY <2>1 DEF LateAfter
<1>6. ASSUME Single(q, r) PROVE SecondLate(w, r)
  <2>1. \A k \in 1..n : IsSync(q[k]) => k = n
    BY <1>6 DEF Single, n
  <2>2. ASSUME NEW i \in 1..Len(w), NEW j \in 1..Len(w), IsSync(w[i]), IsSync(w[j]), i < j
        PROVE  LateAfter(w, j)
    <3>1. j = Len(w)
      <4>1. SUFFICES ASSUME j # Len(w) PROVE FALSE
        OBVIOUS
      <4>2. j = n
        BY <1>4, <2>1, <2>2, <4>1
      <4>3. i = Len(w) \/ i = n
        BY <1>4, <2>1, <2>2
      <4>. QED
        BY <1>1, <1>3, <2>2, <4>2, <4>3
    <3>. QED
      BY <1>5, <3>1
  <2>3. ASSUME NEW i \in 1..Len(r), NEW j \in 1..Len(w), IsSynced(r[i]), IsSync(w[j])
        PROVE  LateAfter(w, j)
    <3>1. q = <<>>
      BY <1>6, <2>3 DEF Single
    <3>2. n = 0
      BY <3>1 DEF n
    <3>3. j = Len(w)
      BY <1>4, <2>3, <3>2
    <3>. QED
      BY <1>5, <3>3
  <2>4. ASSUME NEW i \in 1..Len(r), NEW j \in 1..Len(r), IsSynced(r[i]), IsSynced(r[j]), i < j
        PROVE  FALSE
    <3>1. i = Len(r) /\ j = Len(r)
      BY <1>6, <2>4 DEF Single
    <3>. QED
      BY <2>4, <3>1
  <2>. QED
    BY <2>2, <2>3, <2>4 DEF SecondLate
<1>7. ASSUME Doomed(q, r) PROVE Doomed(w, r)
  <2>1. ASSUME NEW k \in 1..Len(w), IsSync(w[k]), ~ \E j \in 1..Len(r) : Failed(r[j])
        PROVE  \E j \in 1..Len(w) : j < k /\ w[j] = New(Master)
    <3>1. CASE k = Len(w)
      <4>1. PICK j \in 1..m : j < m /\ Graph[j] = New(Master)
        BY <1>1
      <4>2. n + j \in 1..Len(w) /\ w[n + j] = New(Master) /\ n + j < k
        BY <1>1, <1>3, <3>1, <4>1
      <4>. QED
        BY <4>2
    <3>2. CASE k \in 1..n /\ IsSync(q[k])
      <4>1. PICK j \in 1..n : j < k /\ q[j] = New(Master)
        BY <1>7, <2>1, <3>2 DEF Doomed, n
      <4>. QED
        BY <1>3, <4>1
    <3>. QED
      BY <1>4, <2>1, <3>1, <3>2
  <2>. QED
    BY <1>7, <2>1 DEF Doomed
<1>. QED
  BY <1>6, <1>7, Zenon DEF w

LEMMA BusesSent ==
    ASSUME NEW q \in Seq(Commands), NEW r \in Seq(Answers), FirstLate(q, r)
    PROVE  FirstLate(q \o Buses, r)
<1>. DEFINE w == q \o Buses
            n == Len(q)
            m == Len(Buses)
<1>1. Buses \in Seq(Commands) /\ m \in Nat /\ \A i \in 1..m : Buses[i] \in Late
  BY BusesShape
<1>2. IsJoin(w, q, Buses)
  BY <1>1, Joined, Zenon
<1>. HIDE DEF w
<1>3. /\ n \in Nat /\ Len(w) = n + m
      /\ \A i \in 1..n : i \in 1..Len(w) /\ w[i] = q[i]
      /\ \A i \in 1..m : n + i \in 1..Len(w) /\ w[n + i] = Buses[i]
      /\ \A k \in 1..Len(w) : k \in 1..n \/ \E i \in 1..m : k = n + i
  BY <1>2 DEF IsJoin
<1>. HIDE DEF m, n
<1>4. \A k \in 1..Len(w) : k \in 1..n \/ w[k] \in Late
  BY <1>1, <1>3
<1>5. \A i : LateAfter(q, i) => LateAfter(w, i)
  <2>1. ASSUME NEW i, LateAfter(q, i), NEW k \in 1..Len(w), k > i PROVE w[k] \in Late
    BY <1>3, <1>4, <2>1 DEF LateAfter, n
  <2>. QED
    BY <2>1 DEF LateAfter
<1>6. ASSUME NEW k \in 1..Len(w), IsSync(w[k]) PROVE LateAfter(w, k)
  <2>1. CASE k \in 1..n
    <3>1. LateAfter(q, k)
      BY <1>3, <1>6, <2>1 DEF FirstLate, n
    <3>. QED
      BY <1>5, <3>1
  <2>2. CASE k \notin 1..n
    <3>1. \A j \in 1..Len(w) : j > k => j \notin 1..n
      BY <1>3, <2>2
    <3>. QED
      BY <1>4, <3>1 DEF LateAfter
  <2>. QED
    BY <2>1, <2>2
<1>7. FirstLate(w, r)
  BY <1>5, <1>6 DEF FirstLate
<1>. QED
  BY <1>7 DEF w

(* Without the SynthDefs.                                                   *)
LEMMA DoomedHandle ==
    ASSUME NEW q \in Seq(Commands), q # <<>>, NEW r \in Seq(Answers), NEW s, Doomed(q, r),
           \/ s = r /\ ~IsSync(Head(q)) /\ Head(q) # New(Master)
           \/ \E m \in Answers : /\ s = Append(r, m) /\ (IsSynced(m) <=> IsSync(Head(q)))
                                 /\ Head(q) = New(Master) => Failed(m)
    PROVE  Doomed(Tail(q), s)
<1>. DEFINE w == Tail(q)
<1>1. /\ Len(q) \in Nat /\ Len(q) >= 1 /\ Head(q) = q[1]
      /\ Len(w) \in Nat /\ Len(q) = Len(w) + 1
      /\ \A k \in 1..Len(w) : w[k] = q[k + 1]
  <2>1. /\ Len(q) \in Nat /\ Len(q) >= 1 /\ Head(q) = q[1] /\ w \in Seq(Commands)
        /\ Len(w) = Len(q) - 1 /\ \A k \in 1..Len(w) : w[k] = q[k + 1]
    BY TailFacts
  <2>. QED
    BY <2>1
<1>. HIDE DEF w
<1>2. Len(r) \in Nat
  OBVIOUS
<1>3. /\ \A j \in 1..Len(r) : j \in 1..Len(s) /\ s[j] = r[j]
      /\ \A i \in 1..Len(s) : IsSynced(s[i]) =>
            \/ i \in 1..Len(r) /\ IsSynced(r[i])
            \/ i = Len(r) + 1 /\ IsSync(q[1])
      /\ q[1] = New(Master) => \E j \in 1..Len(s) : Failed(s[j])
  <2>1. CASE s = r /\ ~IsSync(Head(q)) /\ Head(q) # New(Master)
    BY <1>1, <1>2, <2>1
  <2>2. CASE \E m \in Answers : /\ s = Append(r, m) /\ (IsSynced(m) <=> IsSync(Head(q)))
                                /\ Head(q) = New(Master) => Failed(m)
    <3>1. PICK m \in Answers : /\ s = Append(r, m) /\ (IsSynced(m) <=> IsSync(Head(q)))
                               /\ Head(q) = New(Master) => Failed(m)
      BY <2>2
    <3>2. /\ Len(s) = Len(r) + 1 /\ s[Len(r) + 1] = m
          /\ \A i \in 1..Len(r) : s[i] = r[i]
      BY <3>1
    <3>3. /\ \A i \in 1..Len(s) : i \in 1..Len(r) \/ i = Len(r) + 1
          /\ \A i \in 1..Len(r) : i \in 1..Len(s)
          /\ Len(r) + 1 \in 1..Len(s)
      BY <1>2, <3>2
    <3>. QED
      BY <1>1, <3>1, <3>2, <3>3
  <2>. QED
    BY <2>1, <2>2
<1>4. ASSUME NEW i \in 1..Len(w), IsSync(w[i])
      PROVE  \/ \E j \in 1..Len(w) : j < i /\ w[j] = New(Master)
             \/ \E j \in 1..Len(s) : Failed(s[j])
  <2>1. i + 1 \in 1..Len(q) /\ IsSync(q[i + 1])
    BY <1>1, <1>4
  <2>2. CASE \E j \in 1..Len(r) : Failed(r[j])
    BY <1>3, <2>2
  <2>3. CASE \E j \in 1..Len(q) : j < i + 1 /\ q[j] = New(Master)
    <3>1. PICK j \in 1..Len(q) : j < i + 1 /\ q[j] = New(Master)
      BY <2>3
    <3>2. CASE j = 1
      BY <1>3, <3>1, <3>2
    <3>3. CASE j # 1
      <4>1. PICK p \in 1..Len(w) : j = p + 1
        <5>1. j - 1 \in 1..Len(w) /\ j = (j - 1) + 1
          BY <1>1, <3>3
        <5>. QED
          BY <5>1
      <4>2. w[p] = New(Master) /\ p < i
        BY <1>1, <3>1, <4>1
      <4>. QED
        BY <4>2
    <3>. QED
      BY <3>2, <3>3
  <2>. QED
    BY <2>1, <2>2, <2>3 DEF Doomed
<1>5. ASSUME NEW i \in 1..Len(s), IsSynced(s[i]) PROVE \E j \in 1..Len(s) : j < i /\ Failed(s[j])
  <2>1. CASE i \in 1..Len(r) /\ IsSynced(r[i])
    <3>1. PICK j \in 1..Len(r) : j < i /\ Failed(r[j])
      BY <2>1 DEF Doomed
    <3>. QED
      BY <1>3, <3>1
  <2>2. CASE i = Len(r) + 1 /\ IsSync(q[1])
    <3>1. 1 \in 1..Len(q) /\ ~ \E j \in 1..Len(q) : j < 1
      BY <1>1
    <3>2. PICK j \in 1..Len(r) : Failed(r[j])
      BY <2>2, <3>1 DEF Doomed
    <3>3. j < i
      BY <1>2, <2>2
    <3>. QED
      BY <1>3, <3>2, <3>3
  <2>. QED
    BY <1>3, <1>5, <2>1, <2>2
<1>6. Doomed(w, s)
  BY <1>4, <1>5 DEF Doomed
<1>. QED
  BY <1>6 DEF w

LEMMA DoomedRead ==
    ASSUME NEW q \in Seq(Commands), NEW r \in Seq(Answers), r # <<>>, Doomed(q, r)
    PROVE  /\ ~IsSynced(Head(r))
           /\ ~Failed(Head(r)) => Doomed(q, Tail(r))
<1>. DEFINE w == Tail(r)
<1>1. /\ Len(r) \in Nat /\ Len(r) >= 1 /\ Head(r) = r[1]
      /\ Len(w) \in Nat /\ Len(r) = Len(w) + 1
      /\ \A k \in 1..Len(w) : w[k] = r[k + 1]
  <2>1. /\ Len(r) \in Nat /\ Len(r) >= 1 /\ Head(r) = r[1] /\ w \in Seq(Answers)
        /\ Len(w) = Len(r) - 1 /\ \A k \in 1..Len(w) : w[k] = r[k + 1]
    BY TailFacts
  <2>. QED
    BY <2>1
<1>. HIDE DEF w
<1>2. ~IsSynced(Head(r))
  <2>1. 1 \in 1..Len(r) /\ ~ \E j \in 1..Len(r) : j < 1
    BY <1>1
  <2>. QED
    BY <1>1, <2>1 DEF Doomed
<1>3. ASSUME ~Failed(Head(r)) PROVE Doomed(q, w)
  <2>1. ASSUME NEW j \in 1..Len(r), Failed(r[j])
        PROVE  \E p \in 1..Len(w) : j = p + 1 /\ Failed(w[p])
    <3>1. j - 1 \in 1..Len(w) /\ j = (j - 1) + 1
      <4>1. j # 1
        BY <1>1, <1>3, <2>1
      <4>. QED
        BY <1>1, <4>1
    <3>2. PICK p \in 1..Len(w) : j = p + 1
      BY <3>1
    <3>. QED
      BY <1>1, <2>1, <3>2
  <2>2. ASSUME NEW i \in 1..Len(w), IsSynced(w[i]) PROVE \E p \in 1..Len(w) : p < i /\ Failed(w[p])
    <3>1. i + 1 \in 1..Len(r) /\ IsSynced(r[i + 1])
      BY <1>1, <2>2
    <3>2. PICK j \in 1..Len(r) : j < i + 1 /\ Failed(r[j])
      BY <3>1 DEF Doomed
    <3>3. PICK p \in 1..Len(w) : j = p + 1 /\ Failed(w[p])
      BY <2>1, <3>2
    <3>4. p < i
      BY <3>2, <3>3
    <3>. QED
      BY <3>3, <3>4
  <2>3. (\E j \in 1..Len(r) : Failed(r[j])) => \E p \in 1..Len(w) : Failed(w[p])
    BY <2>1
  <2>. QED
    BY <2>2, <2>3 DEF Doomed
<1>. QED
  BY <1>2, <1>3 DEF w

LEMMA TimelyScsynth ==
    ASSUME Base, Timely, Scsynth
    PROVE  Timely'
<1>. DEFINE c == Head(toSc)
<1>1. toSc # <<>> /\ c \in Commands /\ toSc' = Tail(toSc)
  BY NodeEffect
<1>2. /\ UNCHANGED <<defs, pc, attempt, inherited>>
      /\ \/ /\ toCtl' = toCtl
            /\ IsSync(c) => pc \in Ended
            /\ c.op = "new" /\ ~Makes(c.node) => pc \in Ended
         \/ \E m \in Answers : /\ toCtl' = Append(toCtl, m)
                               /\ IsSynced(m) <=> IsSync(c)
                               /\ c.op = "new" => Failed(m)
  BY AnswerEffect
<1>3. /\ toSc \in Seq(Commands) /\ toCtl \in Seq(Answers) /\ defs \in BOOLEAN
      /\ pc \in Starting \cup Ended \cup {"serving"} /\ attempt \in Nat /\ inherited \in BOOLEAN
  BY DEF Base, TypeInv
<1>4. CASE pc \in Ended
  BY <1>2, <1>4 DEF Timely, Ended
<1>5. CASE pc \notin Ended
  <2>. HIDE DEF c
  <2>1. \/ toCtl' = toCtl /\ ~IsSync(c) /\ ~(c.op = "new" /\ ~Makes(c.node))
        \/ \E m \in Answers : /\ toCtl' = Append(toCtl, m)
                              /\ IsSynced(m) <=> IsSync(c)
                              /\ c.op = "new" => Failed(m)
    BY <1>2, <1>5
  <2>2. /\ Single(toSc, toCtl) => Single(Tail(toSc), toCtl')
        /\ FirstLate(toSc, toCtl) => FirstLate(Tail(toSc), toCtl')
        /\ SecondLate(toSc, toCtl) => SecondLate(Tail(toSc), toCtl')
    <3>1. \/ toCtl' = toCtl /\ ~IsSync(c)
          \/ \E m \in Answers : toCtl' = Append(toCtl, m) /\ (IsSynced(m) <=> IsSync(c))
      BY <2>1
    <3>. QED
      BY <1>1, <1>3, <3>1, HandleSync, Zenon DEF c
  <2>3. ASSUME ~defs, Doomed(toSc, toCtl) PROVE Doomed(Tail(toSc), toCtl')
    <3>1. c = New(Master) => c.op = "new" /\ ~Makes(c.node)
      <4>1. ~Makes(Master)
        BY <2>3, Homes DEF Makes
      <4>. QED
        BY <4>1 DEF New
    <3>2. \/ toCtl' = toCtl /\ ~IsSync(c) /\ c # New(Master)
          \/ \E m \in Answers : /\ toCtl' = Append(toCtl, m) /\ (IsSynced(m) <=> IsSync(c))
                                /\ c = New(Master) => Failed(m)
      BY <2>1, <3>1
    <3>. QED
      BY <1>1, <1>3, <2>3, <3>2, DoomedHandle, Zenon DEF c
  <2>4. /\ toSc \in Seq(Late) => Tail(toSc) \in Seq(Late)
        /\ toSc \in Seq({New(Generator)}) => Tail(toSc) \in Seq({New(Generator)})
    BY <1>1, TailFacts
  <2>. QED
    BY <1>1, <1>2, <2>2, <2>3, <2>4, Zenon DEF Timely
<1>. QED
  BY <1>4, <1>5

LEMMA LateQueue ==
    ASSUME NEW q \in Seq(Commands), LateAfter(q, 0)
    PROVE  q \in Seq(Late)
<1>1. Len(q) \in Nat /\ \A k \in 1..Len(q) : k > 0
  OBVIOUS
<1>2. \A k \in 1..Len(q) : q[k] \in Late
  BY <1>1 DEF LateAfter
<1>3. q = [k \in 1..Len(q) |-> q[k]]
  OBVIOUS
<1>. HIDE DEF Late
<1>. QED
  BY <1>1, <1>2, <1>3

LEMMA TimelyMixerctl ==
    ASSUME Base, Timely, Mixerctl \/ Shutdown \/ Kill \/ Restart \/ StartGenerator
    PROVE  Timely'
<1>1. /\ toSc \in Seq(Commands) /\ toCtl \in Seq(Answers) /\ defs \in BOOLEAN
      /\ pc \in Starting \cup Ended \cup {"serving"} /\ attempt \in Nat /\ inherited \in BOOLEAN
  BY DEF Base, TypeInv
<1>2. ~inherited =>
        /\ pc \in {"graph", "buses", "serving"} => attempt >= 1
        /\ pc \in {"first sync", "load"} => Single(toSc, toCtl)
        /\ pc \in {"graph", "buses"} /\ attempt = 1 => Single(toSc, toCtl)
        /\ pc = "graph" /\ attempt <= 2 => SecondLate(toSc, toCtl)
        /\ pc = "buses" /\ attempt <= 2 => FirstLate(toSc, toCtl)
        /\ pc = "serving" /\ attempt <= 2 => toSc \in Seq(Late)
        /\ pc = "serving" /\ attempt = 1 => toSc \in Seq({New(Generator)})
        /\ ~defs => pc \notin {"buses", "serving"} /\ (pc = "graph" => Doomed(toSc, toCtl))
  BY DEF Timely
<1>3. ASSUME pc' \in Ended PROVE Timely'
  BY <1>3 DEF Timely, Ended
<1>4. ASSUME NEW k \in 1..4, toSc = <<>>, toSc' = toSc \o <<Sync(k)>>, toCtl' = <<>>,
             pc' \in {"first sync", "load"}
      PROVE  Timely'
  <2>1. Single(toSc', toCtl')
    <3>1. <<>> \o <<Sync(k)>> = <<Sync(k)>>
      OBVIOUS
    <3>2. toSc' = <<Sync(k)>> /\ Len(<<Sync(k)>>) = 1
      BY <1>4, <3>1
    <3>3. \A i \in 1..Len(<<Sync(k)>>) : i = Len(<<Sync(k)>>)
      BY <3>2
    <3>4. \A i \in 1..Len(<<>>) : FALSE
      OBVIOUS
    <3>. QED
      BY <1>4, <3>2, <3>3, <3>4, Zenon DEF Single
  <2>. QED
    BY <1>4, <2>1, Zenon DEF Timely
<1>5. CASE FirstSynced
  <2>1. /\ pc = "first sync" /\ toCtl # <<>> /\ IsSynced(Head(toCtl)) /\ toCtl' = Tail(toCtl)
        /\ UNCHANGED <<inherited, defs>>
        /\ pc' \in Ended \/ (pc' = "load" /\ toSc' = toSc \o <<Sync(4)>>)
    BY <1>5 DEF FirstSynced, Receives, IsSynced, Sends, Here, Ended
  <2>2. CASE inherited
    BY <2>1, <2>2 DEF Timely
  <2>3. CASE ~inherited /\ pc' = "load" /\ toSc' = toSc \o <<Sync(4)>>
    <3>1. toSc = <<>> /\ Tail(toCtl) = <<>>
      BY <1>1, <1>2, <2>1, <2>3, ReadSync
    <3>2. 4 \in 1..4
      OBVIOUS
    <3>. QED
      BY <1>4, <2>1, <2>3, <3>1, <3>2
  <2>. QED
    BY <1>1, <1>3, <2>1, <2>2, <2>3
<1>6. CASE QuadSynced \/ Loaded
  <2>1. /\ toCtl # <<>> /\ IsSynced(Head(toCtl)) /\ toCtl' = Tail(toCtl)
        /\ UNCHANGED <<inherited, defs>>
        /\ pc' = "graph" /\ toSc' = toSc \o Graph /\ attempt' = attempt + 1
    BY <1>6 DEF QuadSynced, Loaded, Attempt, Receives, IsSynced, Sends, Here
  <2>2. pc \in {"first sync", "load"}
    BY <1>6, Zenon DEF QuadSynced, Loaded
  <2>3. CASE inherited
    BY <2>1, <2>3 DEF Timely
  <2>4. CASE ~inherited
    <3>1. toSc = <<>> /\ toCtl' = <<>>
      BY <1>1, <1>2, <2>1, <2>2, <2>4, ReadSync
    <3>2. <<>> \o Graph = Graph
      BY GraphShape
    <3>3. toSc' = Graph
      BY <2>1, <3>1, <3>2
    <3>4. /\ Len(Graph) \in Nat /\ \A i \in 1..Len(Graph) : IsSync(Graph[i]) => i = Len(Graph)
          /\ \E j \in 1..Len(Graph) : j < Len(Graph) /\ Graph[j] = New(Master)
      BY GraphShape
    <3>5. \A i \in 1..Len(<<>>) : FALSE
      OBVIOUS
    <3>6. Single(Graph, <<>>) /\ Doomed(Graph, <<>>)
      BY <3>4, <3>5 DEF Single, Doomed
    <3>7. SecondLate(Graph, <<>>)
      <4>1. Single(<<>>, <<>>)
        BY <3>5 DEF Single
      <4>2. <<>> \in Seq(Commands) /\ <<>> \in Seq(Answers)
        OBVIOUS
      <4>3. SecondLate(<<>> \o Graph, <<>>)
        BY <4>1, <4>2, GraphSent
      <4>. QED
        BY <3>2, <4>3
    <3>8. attempt' >= 1
      BY <1>1, <2>1
    <3>. QED
      BY <2>1, <3>1, <3>3, <3>6, <3>7, <3>8 DEF Timely
  <2>. QED
    BY <1>1, <2>3, <2>4
<1>7. CASE GraphSynced
  <2>1. /\ pc = "graph" /\ toCtl # <<>> /\ IsSynced(Head(toCtl)) /\ toCtl' = Tail(toCtl)
        /\ UNCHANGED <<inherited, defs, attempt>>
        /\ pc' = "buses" /\ toSc' = toSc \o Buses
    BY <1>7 DEF GraphSynced, Receives, IsSynced, Sends, Here
  <2>2. CASE inherited
    BY <2>1, <2>2 DEF Timely
  <2>3. CASE ~inherited
    <3>1. defs
      BY <1>1, <1>2, <2>1, <2>3, DoomedRead
    <3>2. attempt <= 2 => FirstLate(toSc', toCtl')
      <4>1. attempt <= 2 => FirstLate(toSc, Tail(toCtl))
        BY <1>1, <1>2, <2>1, <2>3, ReadSync
      <4>2. Tail(toCtl) \in Seq(Answers)
        BY <1>1, <2>1
      <4>. QED
        BY <1>1, <2>1, <4>1, <4>2, BusesSent
    <3>3. attempt = 1 => Single(toSc', toCtl')
      <4>1. SUFFICES ASSUME attempt = 1 PROVE Single(toSc', toCtl')
        OBVIOUS
      <4>2. toSc = <<>> /\ toCtl' = <<>>
        BY <1>1, <1>2, <2>1, <2>3, <4>1, ReadSync
      <4>3. <<>> \o Buses = Buses
        BY BusesShape
      <4>4. toSc' = Buses
        BY <2>1, <4>2, <4>3
      <4>5. \A i \in 1..Len(<<>>) : FALSE
        OBVIOUS
      <4>. QED
        BY <4>2, <4>4, <4>5, BusesShape DEF Single
    <3>4. attempt >= 1
      BY <1>2, <2>1, <2>3
    <3>. QED
      BY <2>1, <3>1, <3>2, <3>3, <3>4 DEF Timely
  <2>. QED
    BY <1>1, <2>2, <2>3
<1>8. CASE BusesSynced
  <2>1. /\ pc = "buses" /\ toCtl # <<>> /\ IsSynced(Head(toCtl)) /\ toCtl' = Tail(toCtl)
        /\ UNCHANGED <<inherited, defs, attempt, toSc>>
        /\ pc' = "serving"
    BY <1>8 DEF BusesSynced, Receives, IsSynced, Here
  <2>2. CASE inherited
    BY <2>1, <2>2 DEF Timely
  <2>3. CASE ~inherited
    <3>1. defs /\ attempt >= 1
      BY <1>1, <1>2, <2>1, <2>3
    <3>2. attempt <= 2 => toSc \in Seq(Late)
      <4>1. attempt <= 2 => LateAfter(toSc, 0)
        BY <1>1, <1>2, <2>1, <2>3, ReadSync
      <4>. QED
        BY <1>1, <4>1, LateQueue
    <3>3. attempt = 1 => toSc \in Seq({New(Generator)})
      <4>1. attempt = 1 => toSc = <<>>
        BY <1>1, <1>2, <2>1, <2>3, ReadSync
      <4>2. <<>> \in Seq({New(Generator)})
        OBVIOUS
      <4>. QED
        BY <4>1, <4>2
    <3>. QED
      BY <2>1, <3>1, <3>2, <3>3 DEF Timely
  <2>. QED
    BY <1>1, <2>2, <2>3
<1>9. CASE Ignore
  <2>1. /\ toCtl # <<>> /\ toCtl' = Tail(toCtl) /\ UNCHANGED <<inherited, defs, attempt, toSc, pc>>
        /\ pc = "graph" => ~Failed(Head(toCtl))
    BY <1>9 DEF Ignore, Failure, Failed, Here
  <2>2. /\ Single(toSc, toCtl) => Single(toSc, Tail(toCtl))
        /\ FirstLate(toSc, toCtl) => FirstLate(toSc, Tail(toCtl))
        /\ SecondLate(toSc, toCtl) => SecondLate(toSc, Tail(toCtl))
    BY <1>1, <2>1, ReadSync
  <2>3. Doomed(toSc, toCtl) /\ ~Failed(Head(toCtl)) => Doomed(toSc, Tail(toCtl))
    BY <1>1, <2>1, DoomedRead
  <2>. QED
    BY <1>2, <2>1, <2>2, <2>3 DEF Timely
<1>10. CASE Retry
  <2>1. /\ pc = "graph" /\ toCtl' = toCtl /\ UNCHANGED <<inherited, defs>>
        /\ \/ pc' \in Ended
           \/ pc' = "graph" /\ toSc' = toSc \o Graph /\ attempt' = attempt + 1
    BY <1>10 DEF Retry, Attempt, Sends, Here, Ended
  <2>2. CASE inherited
    BY <2>1, <2>2 DEF Timely
  <2>3. CASE ~inherited /\ pc' = "graph" /\ toSc' = toSc \o Graph /\ attempt' = attempt + 1
    <3>1. attempt >= 1
      BY <1>2, <2>1, <2>3
    <3>2. attempt' >= 1 /\ attempt' # 1 /\ (attempt' <= 2 => attempt = 1)
      BY <1>1, <2>3, <3>1
    <3>3. /\ Single(toSc, toCtl) => SecondLate(toSc \o Graph, toCtl)
          /\ Doomed(toSc, toCtl) => Doomed(toSc \o Graph, toCtl)
      BY <1>1, GraphSent
    <3>4. attempt' <= 2 => SecondLate(toSc', toCtl')
      BY <1>2, <2>1, <2>3, <3>2, <3>3
    <3>5. ~defs => Doomed(toSc', toCtl')
      BY <1>2, <2>1, <2>3, <3>3
    <3>. QED
      BY <2>1, <2>3, <3>2, <3>4, <3>5 DEF Timely
  <2>. QED
    BY <1>1, <1>3, <2>1, <2>2, <2>3
<1>11. CASE Restart
  <2>1. /\ toSc' = toSc \o <<Sync(1)>> /\ pc' = "first sync" /\ toCtl' = <<>>
        /\ inherited' = (toSc # <<>>)
    BY ONLY <1>11, Zenon DEF Restart, Sends
  <2>2. CASE toSc = <<>>
    <3>1. 1 \in 1..4
      OBVIOUS
    <3>. QED
      BY <1>4, <2>1, <2>2, <3>1
  <2>3. CASE toSc # <<>>
    BY <2>1, <2>3 DEF Timely
  <2>. QED
    BY <2>2, <2>3
<1>12. CASE StartGenerator
  <2>1. /\ toSc' = toSc \o <<New(Generator)>> /\ pc = "serving"
        /\ UNCHANGED <<pc, attempt, inherited, defs, toCtl>>
    BY <1>12 DEF StartGenerator, Sends
  <2>2. New(Generator) \in Late
    BY DEF Late
  <2>. HIDE DEF Late
  <2>3. toSc \in Seq(Late) => toSc' \in Seq(Late)
    BY <2>1, <2>2
  <2>4. toSc \in Seq({New(Generator)}) => toSc' \in Seq({New(Generator)})
    BY <2>1
  <2>. QED
    BY <1>2, <2>1, <2>3, <2>4 DEF Timely
<1>13. CASE GraphRejected \/ NoSync \/ Shutdown \/ Kill
  <2>1. pc' \in Ended
    BY <1>13 DEF GraphRejected, NoSync, Shutdown, Kill, Ended
  <2>. QED
    BY <1>3, <2>1
<1>. QED
  BY <1>5, <1>6, <1>7, <1>8, <1>9, <1>10, <1>11, <1>12, <1>13, Zenon DEF Mixerctl

THEOREM TimelyAlways == Spec => [](EndInv /\ Timely)
<1>1. Init => Timely
  <2>1. SUFFICES ASSUME Init PROVE Timely
    OBVIOUS
  <2>2. toSc = <<Sync(1)>> /\ toCtl = <<>> /\ pc = "first sync"
    BY <2>1 DEF Init
  <2>3. \A i \in 1..Len(<<Sync(1)>>) : i = Len(<<Sync(1)>>)
    OBVIOUS
  <2>4. \A i \in 1..Len(<<>>) : FALSE
    OBVIOUS
  <2>5. Single(toSc, toCtl)
    BY <2>2, <2>3, <2>4, Zenon DEF Single
  <2>. QED
    BY <2>2, <2>5 DEF Timely
<1>2. EndInv /\ Timely /\ [Next]_vars => Timely'
  <2>1. SUFFICES ASSUME EndInv, Timely, [Next]_vars PROVE Timely'
    OBVIOUS
  <2>2. Base
    BY <2>1 DEF EndInv
  <2>3. CASE Scsynth
    BY <2>1, <2>2, <2>3, TimelyScsynth
  <2>4. CASE Mixerctl \/ Shutdown \/ Kill \/ Restart \/ StartGenerator
    BY <2>1, <2>2, <2>4, TimelyMixerctl
  <2>5. CASE UNCHANGED vars
    BY <2>1, <2>5 DEF vars, Timely
  <2>. QED
    BY <2>1, <2>3, <2>4, <2>5 DEF Next
<1>. QED
  BY <1>1, <1>2, EndsRight, PTL DEF Spec

-----------------------------------------------------------------------------
(* What a start hands over.                                                 *)

LEMMA NothingLeft ==
    ASSUME NEW A, NEW U, NEW b, ~b
    PROVE  ~Settled(A, U, b, <<>>, Len(<<>>) + 1)
<1>1. \A j \in 1..(Len(<<>>) + 1) - 1 : FALSE
  OBVIOUS
<1>2. ~Since(A, U, <<>>, Len(<<>>) + 1)
  BY <1>1, Zenon DEF Since
<1>. QED
  BY <1>2, Zenon DEF Settled

(* What no command of the queue makes is there already.                     *)
LEMMA AlreadySettled ==
    ASSUME NEW R, NEW q \in Seq(R), NEW A, NEW U, NEW b,
           \A c \in R : c \notin A, ~b
    PROVE  ~Settled(A, U, b, q, Len(q) + 1)
<1>1. \A j \in 1..(Len(q) + 1) - 1 : q[j] \in R
  OBVIOUS
<1>2. ~Since(A, U, q, Len(q) + 1)
  BY <1>1, Zenon DEF Since
<1>. QED
  BY <1>2, Zenon DEF Settled

LEMMA WantedNodes ==
    /\ Generator \notin Wanted /\ Wanted \subseteq Universe
    /\ \A n \in Universe : n = Generator \/ n \in Wanted \/ n \in Routers \ Used
    /\ (Routers \ Used) \cap Wanted = {}
BY UsedAssumption, NodesAssumption DEF Wanted, Universe, Containers

(* GraphOwned.  start_graph frees what may be there, makes its graph and    *)
(* waits for a sync, again and again, and shutdown frees it: whatever a     *)
(* life of mixerctl found and however often it tried, the last command of   *)
(* each kind decides, and the graph ends up right.                          *)
THEOREM GraphIsOwned == Spec => []GraphOwned
<1>1. EndInv /\ Timely => GraphOwned
  <2>1. SUFFICES ASSUME EndInv, Timely, toSc = <<>> PROVE
              /\ pc = "serving" /\ (defs \/ ~inherited) =>
                    nodes \ {Generator} = Wanted /\ assigned = Groups
              /\ pc = "stopped" => nodes = {}
    BY DEF GraphOwned
  <2>2. nodes \subseteq Universe /\ assigned \subseteq Groups
    BY <2>1 DEF EndInv, Base, TypeInv
  <2>3. ASSUME NEW n, Present(n, nodes, toSc) PROVE n \in nodes
    BY <2>1, <2>3, NothingLeft, Zenon DEF Present, PresentAt
  <2>4. ASSUME NEW n, Absent(n, nodes, toSc) PROVE n \notin nodes
    BY <2>1, <2>4, NothingLeft, Zenon DEF Absent, AbsentAt
  <2>5. ASSUME NEW g, Assigned(g, assigned, toSc) PROVE g \in assigned
    BY <2>1, <2>5, NothingLeft, Zenon DEF Assigned, AssignedAt
  <2>6. ASSUME pc = "serving", defs \/ ~inherited
        PROVE  nodes \ {Generator} = Wanted /\ assigned = Groups
    <3>1. defs
      BY <2>1, <2>6 DEF Timely
    <3>2. EndsBuilt /\ EndsWithin /\ EndsAssigned
      BY <2>1, <2>6, <3>1 DEF EndInv, Ends, Up
    <3>3. \A n \in Wanted : n \in nodes
      BY <2>3, <3>2, Zenon DEF EndsBuilt
    <3>4. \A n \in Routers \ Used : n \notin nodes
      BY <2>4, <3>2, Zenon DEF EndsWithin
    <3>5. \A g \in Groups : g \in assigned
      BY <2>5, <3>2, Zenon DEF EndsAssigned
    <3>. QED
      BY <2>2, <3>3, <3>4, <3>5, WantedNodes
  <2>7. ASSUME pc = "stopped" PROVE nodes = {}
    <3>1. EndsEmpty
      BY <2>1, <2>7 DEF EndInv, Ends
    <3>2. \A n \in Universe : n \notin nodes
      BY <2>4, <3>1, Zenon DEF EndsEmpty
    <3>. QED
      BY <2>2, <3>2
  <2>. QED
    BY <2>6, <2>7
<1>. QED
  BY <1>1, TimelyAlways, PTL

(* GraphOnReturn.  start_graph takes any /synced for the one it waits for,  *)
(* so after a retry it goes on with the reply to an earlier attempt: with   *)
(* two attempts no command that frees or makes the graph is still on its    *)
(* way when it returns, and with one no command of the start at all.        *)
THEOREM GraphThereOnReturn == Spec => []GraphOnReturn
<1>1. EndInv /\ Timely => GraphOnReturn
  <2>1. SUFFICES ASSUME EndInv, Timely, pc = "serving", ~inherited
                 PROVE  /\ attempt <= 2 => Wanted \subseteq nodes
                        /\ attempt = 1 => assigned = Groups
    BY DEF GraphOnReturn
  <2>2. assigned \subseteq Groups /\ defs
    BY <2>1 DEF EndInv, Base, TypeInv, Timely
  <2>3. EndsBuilt /\ EndsAssigned
    BY <2>1, <2>2 DEF EndInv, Ends, Up
  <2>4. ASSUME attempt <= 2 PROVE Wanted \subseteq nodes
    <3>1. toSc \in Seq(Late)
      BY <2>1, <2>4 DEF Timely
    <3>2. ASSUME NEW n \in Wanted PROVE n \in nodes
      <4>1. \A c \in Late : c # New(n)
        BY WantedNodes DEF Late, New
      <4>2. \A c \in Late : c \notin {New(n)}
        BY <4>1
      <4>3. Settled({New(n)}, Undoes(n), n \in nodes, toSc, Len(toSc) + 1)
        BY <2>3, Zenon DEF EndsBuilt, Present, PresentAt
      <4>. QED
        BY <3>1, <4>2, <4>3, AlreadySettled, Zenon
    <3>. QED
      BY <3>2
  <2>5. ASSUME attempt = 1 PROVE assigned = Groups
    <3>1. toSc \in Seq({New(Generator)})
      BY <2>1, <2>5 DEF Timely
    <3>2. ASSUME NEW g \in Groups PROVE g \in assigned
      <4>1. New(Generator) # SetBus(g)
        BY DEF New, SetBus
      <4>2. \A c \in {New(Generator)} : c \notin {SetBus(g)}
        BY <4>1
      <4>3. Settled({SetBus(g)}, Undoes(g), g \in assigned, toSc, Len(toSc) + 1)
        BY <2>3, Zenon DEF EndsAssigned, Assigned, AssignedAt
      <4>. QED
        BY <3>1, <4>2, <4>3, AlreadySettled, Zenon
    <3>. QED
      BY <2>2, <3>2
  <2>. QED
    BY <2>4, <2>5
<1>. QED
  BY <1>1, TimelyAlways, PTL

-----------------------------------------------------------------------------
(* The test generator. *)

(* The arm deadline and the history tell the same story: while there is a  *)
(* deadline an unused arm is there, and the two times add up.              *)
ArmUnused == armLeft # None => armed
TimesAddUp == armLeft # None => sinceArm + armLeft = ArmSeconds

GInv == GTypeOK /\ ArmUnused /\ TimesAddUp

(* A deadline that counts down stays one. *)
LEMMA LessFact ==
    ASSUME NEW n \in Nat, NEW left \in 0..n \cup {None}
    PROVE  /\ Less(left) \in 0..n \cup {None}
           /\ left = None <=> Less(left) = None
           /\ left # None => left \in 0..n /\ Less(left) = IF left = 0 THEN 0 ELSE left - 1
<1>1. CASE left = None
  BY <1>1 DEF Less
<1>2. CASE left # None
  <2>1. left \in 0..n
    BY <1>2
  <2>2. Less(left) = IF left = 0 THEN 0 ELSE left - 1
    BY <1>2 DEF Less
  <2>3. Less(left) \in 0..n
    BY <2>1, <2>2
  <2>. QED
    BY <2>1, <2>2, <2>3, <1>2, NoneAssumption
<1>. QED
  BY <1>1, <1>2

(* The generator starts silent and not armed.                              *)
LEMMA GInitInv == GInit => GInv
<1>. SUFFICES ASSUME GInit PROVE GInv
  OBVIOUS
<1>1. GTypeOK
  <2>1. armed \in BOOLEAN
    BY Zenon DEF GInit
  <2>3. blocking \in BOOLEAN
    BY Zenon DEF GInit
  <2>4. enable # 1
    BY DEF GInit
  <2>2. /\ {arm, enable} \subseteq {0, 1}
        /\ armLeft \in 0..ArmSeconds \cup {None} /\ runLeft \in 0..RunSeconds \cup {None}
        /\ node \in 0..RunSeconds /\ sinceArm \in 0..ArmSeconds
    BY TimesAssumption DEF GInit
  <2>. QED
    BY <2>1, <2>2, <2>3, <2>4 DEF GTypeOK
<1>2. ArmUnused /\ TimesAddUp
  BY DEF GInit, ArmUnused, TimesAddUp
<1>. QED
  BY <1>1, <1>2 DEF GInv

(* Each action keeps the types and the story of the arm. *)
LEMMA GStepInv == GInv /\ [GNext]_gvars => GInv'
<1>. SUFFICES ASSUME GInv, [GNext]_gvars PROVE GInv'
  OBVIOUS
<1>. USE TimesAssumption, NoneAssumption DEF GInv, GTypeOK
<1>1. ASSUME NEW v \in {0, 1}, Arm(v) PROVE GInv'
  <2>1. CASE v = 0
    BY <1>1, <2>1 DEF Arm, ArmUnused, TimesAddUp
  <2>2. CASE v = 1
    <3>1. /\ arm' = 1 /\ armLeft' = ArmSeconds /\ armed' = TRUE /\ sinceArm' = 0
          /\ UNCHANGED <<blocking, enable, runLeft, node>>
      BY <1>1, <2>2 DEF Arm
    <3>2. ArmUnused' /\ TimesAddUp'
      BY <3>1 DEF ArmUnused, TimesAddUp
    <3>3. GTypeOK'
      BY <3>1
    <3>. QED
      BY <3>2, <3>3
  <2>. QED
    BY <2>1, <2>2
<1>2. CASE Enable
  <2>1. ArmUnused' /\ TimesAddUp'
    BY <1>2 DEF Enable, ArmUnused, TimesAddUp
  <2>2. GTypeOK'
    <3>1. /\ enable' = 1 /\ arm' = 0 /\ armLeft' = None /\ runLeft' = RunSeconds
          /\ UNCHANGED <<blocking, sinceArm>>
      BY <1>2 DEF Enable
    <3>2. node' \in 0..RunSeconds
      BY <1>2 DEF Enable, NewNode
    <3>3. armed' \in BOOLEAN
      BY <1>2, Zenon DEF Enable
    <3>. QED
      BY <3>1, <3>2, <3>3
  <2>. QED
    BY <2>1, <2>2
<1>3. CASE EnableRefused \/ Disable \/ MappingEdit
  <2>1. enable' = 0 /\ arm' \in {arm, 0} /\ runLeft' \in {runLeft, None} /\ node' \in {node, 0}
    BY <1>3 DEF EnableRefused, Disable, MappingEdit
  <2>2. UNCHANGED <<blocking, armLeft, history>>
    BY <1>3 DEF EnableRefused, Disable, MappingEdit
  <2>3. GTypeOK'
    BY <2>1, <2>2 DEF history
  <2>4. ArmUnused' /\ TimesAddUp'
    BY <2>2 DEF history, ArmUnused, TimesAddUp
  <2>. QED
    BY <2>3, <2>4
<1>4. CASE Poll
  <2>1. ArmUnused'
    BY <1>4 DEF Poll, history, ArmUnused
  <2>2. GTypeOK' /\ TimesAddUp'
    BY <1>4 DEF Poll, history, TimesAddUp
  <2>. QED
    BY <2>1, <2>2
<1>5. CASE Second
  <2>1. /\ armLeft' \in 0..ArmSeconds \cup {None}
        /\ runLeft' \in 0..RunSeconds \cup {None}
        /\ runLeft # None => runLeft' # None
    BY <1>5, LessFact DEF Second
  <2>2. node' \in 0..RunSeconds
    <3>1. node # None
      OBVIOUS
    <3>2. Less(node) \in 0..RunSeconds
      BY <3>1 DEF Less
    <3>. QED
      BY <1>5, <3>2 DEF Second
  <2>3. GTypeOK'
    BY <1>5, <2>1, <2>2 DEF Second, published
  <2>4. armLeft' # None => armLeft # None
    BY <1>5 DEF Second, Less
  <2>5. ArmUnused'
    BY <1>5, <2>4 DEF Second, ArmUnused
  <2>6. TimesAddUp'
    <3>. SUFFICES ASSUME armLeft' # None PROVE sinceArm' + armLeft' = ArmSeconds
      BY DEF TimesAddUp
    <3>1. armLeft \in 0..ArmSeconds /\ sinceArm + armLeft = ArmSeconds
      BY <2>4 DEF TimesAddUp
    <3>2. armLeft' = IF armLeft = 0 THEN 0 ELSE armLeft - 1
      BY <1>5, <3>1 DEF Second, Less
    <3>3. sinceArm' = IF sinceArm < ArmSeconds THEN sinceArm + 1 ELSE sinceArm
      BY <1>5 DEF Second
    <3>. QED
      BY <3>1, <3>2, <3>3
  <2>. QED
    BY <2>3, <2>5, <2>6
<1>6. CASE UNCHANGED gvars
  BY <1>6 DEF gvars, published, history, ArmUnused, TimesAddUp
<1>. QED
  BY <1>1, <1>2, <1>3, <1>4, <1>5, <1>6 DEF GNext

(* In every reachable state the types hold and the deadline of the arm is  *)
(* backed by an arm that no sound has used.                                *)
THEOREM GeneratorInvariance == GSpec => []GInv
  BY GInitInv, GStepInv, PTL DEF GSpec

(* The generator is well typed, and shown to run only with a deadline,     *)
(* whatever clients write and edit in between (serve).                     *)
THEOREM GeneratorTypes == GSpec => []GTypeOK
  BY GeneratorInvariance, PTL DEF GInv

(* A node begins to sound only with an arm that is younger than ArmSeconds *)
(* and began no other sound: no edit of the map and no second enable gets  *)
(* around the arm (serve, testGeneratorEnable).                            *)
THEOREM SoundIsArmed == GSpec => SoundNeedsArm
<1>1. GInv /\ [GNext]_gvars
      => (node = 0 /\ node' # 0 => armed /\ sinceArm < ArmSeconds)
  <2>. SUFFICES ASSUME GInv, [GNext]_gvars, node = 0, node' # 0
               PROVE  armed /\ sinceArm < ArmSeconds
    OBVIOUS
  <2>1. Less(node) = 0
    BY DEF Less
  <2>2. Enable
    BY <2>1 DEF GNext, gvars, Arm, EnableRefused, Disable, MappingEdit, Poll, Second
  <2>3. armLeft # None /\ armLeft # 0
    BY <2>2 DEF Enable, Fresh
  <2>4. sinceArm < ArmSeconds
    BY <2>3, TimesAssumption, NoneAssumption DEF GInv, GTypeOK, TimesAddUp
  <2>. QED
    BY <2>3, <2>4 DEF GInv, ArmUnused
<1>. QED
  BY <1>1, GeneratorInvariance, PTL DEF GSpec, SoundNeedsArm
=============================================================================
