----------------------------- MODULE U17Proofs -----------------------------
(***************************************************************************)
(* Proofs about the bench of the U17 firmware: the service-byte dispatch   *)
(* over any bytes, the session of the simulator under its harness for any  *)
(* number of breakpoints, and the checksums of the application image for   *)
(* any base of its bytes and any layout.                                   *)
(***************************************************************************)
EXTENDS U17Bench, FiniteSetTheorems, SequenceTheorems, WellFoundedInduction, TLAPS

-----------------------------------------------------------------------------
(* The length of a transfer *)

(* While a transfer goes on, the count and the bytes used make up what was  *)
(* announced; the one-byte transfer that selected a block has gone once     *)
(* around the byte.                                                         *)
Underway ==
    /\ asked \in 1..128 /\ used \in Nat
    /\ state = Block => used = 0 /\ count = asked
    /\ state # Block /\ asked # 1 => count \in 1..127 /\ count + used = asked
    /\ state # Block /\ asked = 1 =>
          \/ used = 1 /\ count = 0
          \/ count \in 1..255 /\ used \in Nat /\ count + used = 257

FrameInv ==
    /\ state \in {Wait, Counting, Command} \cup Transfer
    /\ state = Command => count \in 0..255
    /\ state \in Transfer => Underway

(* The step of one service byte. *)
LEMMA FrameStep ==
    ASSUME FrameInv, NEW value \in Values, SimulateServiceByte(value)
    PROVE  FrameInv' /\ ((state \in Transfer /\ state' = Wait) =>
              used' = IF asked = 1 /\ state # Block THEN 257 ELSE asked)
<1>. USE DEF Wait, Counting, Command, Block, Payload, Cleanup, Transfer
<1>0. value \in 0..255
  BY ValuesAssumption
<1>1. CASE Arm(value) \/ TakeCount(value) \/ Clear(value) \/ Begin(value) \/ Ignore(value)
  BY <1>0, <1>1 DEF Arm, TakeCount, Clear, Begin, Ignore, FrameInv, Underway, serviceVars
<1>2. CASE Terminal(value)
  BY <1>2 DEF Terminal, CountDown, OneLess, FrameInv, Underway
<1>3. CASE SelectBlock(value)
  BY <1>3 DEF SelectBlock, CountDown, OneLess, FrameInv, Underway
<1>4. CASE TakePayload
  BY <1>4 DEF TakePayload, CountDown, OneLess, FrameInv, Underway
<1>5. CASE CleanUp
  BY <1>5 DEF CleanUp, CountDown, OneLess, FrameInv, Underway
<1>. QED
  BY <1>1, <1>2, <1>3, <1>4, <1>5 DEF SimulateServiceByte

(* A transfer takes the bytes it announced, or 257 after a selection that   *)
(* was announced as one byte, whatever bytes are received.                  *)
THEOREM TransfersEnd == Spec => FrameLength
<1>1. Init => FrameInv
  BY DEF Init, ServiceInit, FrameInv, Wait, Command, Transfer, Block, Payload, Cleanup
<1>2. FrameInv /\ [Next]_benchVars => FrameInv'
  <2>. SUFFICES ASSUME FrameInv, [Next]_benchVars PROVE FrameInv'
    OBVIOUS
  <2>1. CASE ServiceNext
    BY <2>1, FrameStep DEF ServiceNext
  <2>2. CASE UNCHANGED serviceVars
    BY <2>2 DEF serviceVars, FrameInv, Underway
  <2>. QED
    BY <2>1, <2>2 DEF Next, benchVars
<1>3. FrameInv /\ [Next]_benchVars =>
        [(state \in Transfer /\ state' = Wait) =>
           used' = IF asked = 1 /\ state # Block THEN 257 ELSE asked]_serviceVars
  <2>. SUFFICES ASSUME FrameInv, [Next]_benchVars, ~UNCHANGED serviceVars
                PROVE  (state \in Transfer /\ state' = Wait) =>
                         used' = IF asked = 1 /\ state # Block THEN 257 ELSE asked
    OBVIOUS
  <2>1. ServiceNext
    BY DEF Next, benchVars
  <2>. QED
    BY <2>1, FrameStep DEF ServiceNext
<1>. QED
  BY <1>1, <1>2, <1>3, PTL DEF Spec, FrameLength

-----------------------------------------------------------------------------
(* What has been printed *)

Messages == [what : {"traceback", "break", "breakpoint", "stepped", "state", "other"},
             at : Breaks \cup {Limit, None}]

(* All that the child has printed, read or not. *)
Printed == text \o output

LEMMA AppendPlaces ==
    \A log \in Seq(Messages) : \A line \in Messages : \A what :
        Places(Append(log, line), what) =
            Places(log, what) \cup (IF line.what = what THEN {Len(log) + 1} ELSE {})
BY AppendProperties DEF Places

(* Reading moves what was printed and loses nothing. *)
LEMMA ReadingMoves ==
    ASSUME text \in Seq(Messages), output \in Seq(Messages), NEW n, Reads(n)
    PROVE  /\ text' \in Seq(Messages) /\ output' \in Seq(Messages)
           /\ Printed' = Printed
<1>. DEFINE front == SubSeq(output, 1, n)
            back == SubSeq(output, n + 1, Len(output))
<1>1. n \in 1..Len(output) /\ Len(output) \in Nat /\ text' = text \o front /\ output' = back
  BY DEF Reads
<1>2. front \in Seq(Messages) /\ back \in Seq(Messages)
  BY <1>1
<1>3. front \o back = SubSeq(output, 1, Len(output))
  BY <1>1, ConcatAdjacentSubSeq
<1>4. SubSeq(output, 1, Len(output)) = output
  BY SubSeqFull
<1>. HIDE DEF front, back
<1>5. (text \o front) \o back = text \o (front \o back)
  BY <1>2, ConcatAssociative
<1>6. text \o front \in Seq(Messages)
  BY <1>2, ConcatProperties
<1>. QED
  BY <1>1, <1>2, <1>3, <1>4, <1>5, <1>6 DEF Printed

(* The text read is the start of what was printed. *)
LEMMA ReadFirst ==
    ASSUME text \in Seq(Messages), output \in Seq(Messages), NEW what
    PROVE  /\ Places(text, what) = Places(Printed, what) \cap 1..Len(text)
           /\ \A i \in 1..Len(text) : i \in 1..Len(Printed) /\ text[i] = Printed[i]
BY DEF Places, Printed

-----------------------------------------------------------------------------
(* The session *)

(* What the harness has typed and the child has not read yet. *)
TypedWords == {<<>>, <<"step">>, <<"step", "state", "quit">>, <<"state", "quit">>, <<"quit">>}

SessionTypes ==
    /\ sim \in {"starting", "loading", "console", "stuck", "gone"}
    /\ harness \in {"load", "step", "wait", "state", "drain", "reap", "report"}
    /\ pc \in Breaks \cup {Limit, None}
    /\ text \in Seq(Messages) /\ output \in Seq(Messages)
    /\ typed \in TypedWords

(* The step has not been executed, and may yet be. *)
Unstepped == harness \in {"load", "step"} \/ (typed # <<>> /\ Head(typed) = "step")

(* One step is typed, and nothing runs before it. *)
OneStep ==
    /\ harness \in {"load", "step"} => typed = <<>>
    /\ harness \in {"wait", "state"} => typed \in {<<>>, <<"step">>}
    /\ Unstepped => pc = None

(* The messages tell where the program is. *)
Truthful ==
    /\ Unstepped => Places(Printed, "breakpoint") = {} /\ Places(Printed, "state") = {}
    /\ \A i \in Places(Printed, "breakpoint") : Printed[i].at = pc /\ pc \in Breaks
    /\ \A i \in Places(Printed, "state") : Printed[i].at = pc
    /\ pc \in Breaks => Places(Printed, "breakpoint") # {}

(* The step is typed after the command file has ended, or too late. *)
Loaded ==
    /\ sim = "starting" => Printed = <<>>
    /\ sim = "loading" => Count(Printed) < NBreaks
    /\ harness # "load" => GaveUp \/ sim = "gone" \/ Count(text) >= NBreaks
    /\ swallowed => GaveUp

(* A breakpoint that is reached is found unless the wait was given up. *)
Found ==
    /\ harness \in {"load", "step", "wait"} => stop = None
    /\ harness = "wait" => Places(text, "breakpoint") = {}
    /\ harness \in {"state", "drain", "reap", "report"} /\ stop = None =>
          GaveUp \/ (sim = "gone" /\ pc \notin Breaks)
    /\ stop # None => pc = stop /\ pc \in Breaks

SessionInv == SessionTypes /\ OneStep /\ Truthful /\ Loaded /\ Found

LEMMA PrintAppends ==
    ASSUME text \in Seq(Messages), output \in Seq(Messages), NEW line \in Messages,
           Prints(line), UNCHANGED text
    PROVE  /\ output' \in Seq(Messages) /\ text' \in Seq(Messages)
           /\ Printed \in Seq(Messages) /\ Printed' = Append(Printed, line)
<1>1. output' = Append(output, line) /\ output' \in Seq(Messages)
  BY DEF Prints
<1>2. Append(output, line) = output \o <<line>>
  BY AppendIsConcat
<1>3. <<line>> \in Seq(Messages)
  OBVIOUS
<1>4. (text \o output) \o <<line>> = text \o (output \o <<line>>)
  BY <1>3, ConcatAssociative
<1>5. text \o output \in Seq(Messages)
  BY ConcatProperties
<1>6. Append(text \o output, line) = (text \o output) \o <<line>>
  BY <1>5, AppendIsConcat
<1>. QED
  BY <1>1, <1>2, <1>4, <1>5, <1>6 DEF Printed

LEMMA Pair == \A S : \A a, b \in S : <<a, b>> \in Seq(S)
OBVIOUS

LEMMA Triple ==
    ASSUME NEW a, NEW b, NEW c
    PROVE  <<a>> \o <<b, c>> = <<a, b, c>>
<1>. DEFINE S == {a, b, c}
            l == <<a>> \o <<b, c>>
            r == <<a, b, c>>
<1>0. a \in S /\ b \in S /\ c \in S
  OBVIOUS
<1>. HIDE DEF S
<1>1. <<a>> \in Seq(S) /\ <<b, c>> \in Seq(S) /\ r \in Seq(S)
  BY <1>0
<1>2. l \in Seq(S)
  BY <1>1, ConcatProperties
<1>3. Len(l) = 3 /\ Len(r) = 3
  OBVIOUS
<1>4. l[1] = a /\ l[2] = b /\ l[3] = c
  OBVIOUS
<1>5. r[1] = a /\ r[2] = b /\ r[3] = c
  OBVIOUS
<1>. HIDE DEF l, r
<1>6. \A i \in 1..3 : l[i] = r[i]
  BY <1>4, <1>5
<1>7. l = r
  BY <1>1, <1>2, <1>3, <1>6, SeqEqual
<1>. QED
  BY <1>7 DEF l, r

LEMMA TypedOnly ==
    /\ \A w \in TypedWords : w # <<>> => Tail(w) \in TypedWords
    /\ Append(<<>>, "step") \in TypedWords
    /\ \A w \in {<<>>, <<"step">>} : w \o <<"state", "quit">> \in TypedWords
<1>1. \A w \in TypedWords : w # <<>> => Tail(w) \in TypedWords
  <2>1. Tail(<<"step">>) = <<>> /\ Tail(<<"quit">>) = <<>>
    OBVIOUS
  <2>2. Tail(<<"state", "quit">>) = <<"quit">>
    OBVIOUS
  <2>3. Tail(<<"step", "state", "quit">>) = <<"state", "quit">>
    OBVIOUS
  <2>. QED
    BY <2>1, <2>2, <2>3, Zenon DEF TypedWords
<1>2. Append(<<>>, "step") = <<"step">>
  OBVIOUS
<1>3. <<>> \o <<"state", "quit">> = <<"state", "quit">>
  BY Pair, ConcatEmptySeq, <<"state", "quit">> \in Seq({"state", "quit"})
<1>4. <<"step">> \o <<"state", "quit">> = <<"step", "state", "quit">>
  BY Triple, Zenon
<1>. QED
  BY <1>1, <1>2, <1>3, <1>4, Zenon DEF TypedWords

(* A step of the child prints a message or nothing. *)
LEMMA PrintingSteps ==
    ASSUME SessionTypes, Exec \/ Install \/ Talk \/ Step \/ State
    PROVE  \/ \E line \in Messages : Prints(line) /\ UNCHANGED text
           \/ UNCHANGED <<output, text>>
<1>1. CASE Exec
  <2>1. Line("traceback", None) \in Messages
    BY DEF Line, Messages
  <2>. QED
    BY <1>1, <2>1 DEF Exec
<1>2. CASE Install
  <2>1. Line("break", None) \in Messages
    BY DEF Line, Messages
  <2>. QED
    BY <1>2, <2>1 DEF Install
<1>5. CASE Talk
  <2>1. Line("other", None) \in Messages
    BY DEF Line, Messages
  <2>. QED
    BY <1>5, <2>1 DEF Talk
<1>3. CASE Step
  <2>1. Line(IF pc' = Limit THEN "stepped" ELSE "breakpoint", pc') \in Messages
    BY <1>3 DEF Step, Line, Messages
  <2>. QED
    BY <1>3, <2>1 DEF Step, Commanded
<1>4. CASE State
  <2>1. Line("state", pc) \in Messages
    BY DEF SessionTypes, Line, Messages
  <2>. QED
    BY <1>4, <2>1 DEF State, Commanded
<1>. QED
  BY <1>1, <1>2, <1>3, <1>4, <1>5

LEMMA SessionTypesStep ==
    ASSUME SessionTypes, OneStep, SessionNext
    PROVE  SessionTypes'
<1>. USE DEF SessionTypes
<1>1. CASE Exec \/ Install \/ Talk \/ Step \/ State
  <2>1. \/ \E line \in Messages : Prints(line) /\ UNCHANGED text
        \/ UNCHANGED <<output, text>>
    BY <1>1, PrintingSteps
  <2>2. output' \in Seq(Messages) /\ text' \in Seq(Messages)
    BY <2>1, PrintAppends, Zenon
  <2>3. /\ sim' \in {"starting", "loading", "console", "stuck", "gone"}
        /\ pc' \in Breaks \cup {Limit, None} /\ UNCHANGED harness
    BY <1>1 DEF Exec, Install, Talk, Step, State, Commanded, Child
  <2>4. typed' = typed \/ (typed # <<>> /\ typed' = Tail(typed))
    BY <1>1 DEF Exec, Install, Talk, Step, State, Commanded
  <2>. QED
    BY <2>2, <2>3, <2>4, TypedOnly DEF TypedWords
<1>2. CASE Swallow \/ Quit
  <2>1. typed # <<>> /\ typed' = Tail(typed)
    BY <1>2 DEF Swallow, Quit, Commanded
  <2>. QED
    BY <1>2, <2>1, TypedOnly DEF Swallow, Quit, Commanded
<1>3. CASE Hang \/ Deadline \/ Reap
  BY <1>3 DEF Hang, Deadline, Reap, Child
<1>5. CASE TypeStep
  BY <1>5, TypedOnly DEF TypeStep, Child, OneStep
<1>6. CASE TypeState
  BY <1>6, TypedOnly DEF TypeState, Child, OneStep
<1>4. CASE AwaitBreakpoints \/ AwaitStop \/ Drain
  <2>1. (\E n : Reads(n)) \/ UNCHANGED <<output, text>>
    BY <1>4 DEF AwaitBreakpoints, AwaitStop, Drain
  <2>2. output' \in Seq(Messages) /\ text' \in Seq(Messages)
    BY <2>1, ReadingMoves
  <2>. QED
    BY <1>4, <2>2 DEF AwaitBreakpoints, AwaitStop, Drain, Child
<1>. QED
  BY <1>1, <1>2, <1>3, <1>4, <1>5, <1>6 DEF SessionNext

(* The step is the first word, if it is one. *)
LEMMA FirstWord ==
    /\ \A w \in TypedWords : w # <<>> /\ Tail(w) # <<>> => Head(Tail(w)) # "step"
    /\ \A w \in {<<>>, <<"step">>} : Head(w \o <<"state", "quit">>) = "step" => w = <<"step">>
<1>1. /\ Tail(<<"step">>) = <<>> /\ Tail(<<"quit">>) = <<>>
      /\ Head(Tail(<<"state", "quit">>)) = "quit"
      /\ Head(Tail(<<"step", "state", "quit">>)) = "state"
  OBVIOUS
<1>2. "quit" # "step" /\ "state" # "step"
  OBVIOUS
<1>3. Head(<<>> \o <<"state", "quit">>) = "state"
  OBVIOUS
<1>4. \A w \in TypedWords : w # <<>> /\ Tail(w) # <<>> => Head(Tail(w)) # "step"
  BY <1>1, <1>2, Zenon DEF TypedWords
<1>5. \A w \in {<<>>, <<"step">>} : Head(w \o <<"state", "quit">>) = "step" => w = <<"step">>
  BY <1>2, <1>3, Zenon
<1>. QED
  BY <1>4, <1>5

LEMMA OneStepStep ==
    ASSUME SessionTypes, OneStep, SessionNext
    PROVE  OneStep' /\ (Unstepped' => Unstepped)
<1>1. CASE Exec \/ Install \/ Talk \/ Hang \/ Deadline \/ AwaitBreakpoints \/ AwaitStop \/ Drain \/ Reap
  <2>1. UNCHANGED <<pc, typed>>
    BY <1>1 DEF Exec, Install, Talk, Hang, Deadline, AwaitBreakpoints, AwaitStop, Drain, Reap, Child
  <2>2. /\ harness' \in {"load", "step"} => harness \in {"load", "step"}
        /\ harness' \in {"wait", "state"} => harness \in {"wait", "state"}
    BY <1>1 DEF Exec, Install, Talk, Hang, Deadline, AwaitBreakpoints, AwaitStop, Drain, Reap
  <2>. QED
    BY <2>1, <2>2 DEF OneStep, Unstepped
<1>2. CASE Swallow \/ Step \/ State \/ Quit
  <2>1. typed # <<>> /\ typed' = Tail(typed) /\ harness' = harness
    BY <1>2 DEF Swallow, Step, State, Quit, Commanded
  <2>2. typed' = <<>> \/ Head(typed') # "step"
    BY <2>1, FirstWord DEF SessionTypes
  <2>3. harness \notin {"load", "step"}
    BY <2>1 DEF OneStep
  <2>4. ~Unstepped'
    BY <2>1, <2>2, <2>3 DEF Unstepped
  <2>5. harness' \in {"wait", "state"} => typed' \in {<<>>, <<"step">>}
    <3>1. Tail(<<"step">>) = <<>>
      OBVIOUS
    <3>. QED
      BY <2>1, <3>1, Zenon DEF OneStep
  <2>. QED
    BY <2>1, <2>3, <2>4, <2>5 DEF OneStep
<1>3. CASE TypeStep
  <2>1. typed = <<>> /\ pc = None /\ pc' = pc /\ harness' = "wait" /\ Unstepped
    BY <1>3 DEF TypeStep, OneStep, Unstepped, Child
  <2>2. typed' = <<"step">>
    BY <1>3, <2>1 DEF TypeStep
  <2>. QED
    BY <2>1, <2>2 DEF OneStep
<1>4. CASE TypeState
  <2>1. typed \in {<<>>, <<"step">>} /\ typed' = typed \o <<"state", "quit">>
        /\ pc' = pc /\ harness' = "drain"
    BY <1>4 DEF TypeState, OneStep, Child
  <2>2. Unstepped' => typed = <<"step">>
    BY <2>1, FirstWord DEF Unstepped
  <2>3. typed = <<"step">> => Unstepped
    BY DEF Unstepped
  <2>. QED
    BY <2>1, <2>2, <2>3 DEF OneStep
<1>. QED
  BY <1>1, <1>2, <1>3, <1>4 DEF SessionNext

(* What is printed changes only by the messages of the child. *)
LEMMA PrintedStep ==
    ASSUME SessionTypes, SessionNext
    PROVE  /\ Printed \in Seq(Messages)
           /\ Exec \/ Install \/ Talk \/ Step \/ State \/ UNCHANGED Printed
<1>1. Printed \in Seq(Messages)
  BY ConcatProperties DEF Printed, SessionTypes
<1>2. UNCHANGED <<output, text>> => UNCHANGED Printed
  BY DEF Printed
<1>3. CASE Swallow \/ Quit \/ Hang \/ Deadline \/ TypeStep \/ Reap \/ TypeState
  <2>1. UNCHANGED <<output, text>>
    BY <1>3 DEF Swallow, Quit, Commanded, Hang, Deadline, TypeStep, Reap, TypeState
  <2>. QED
    BY <1>1, <1>2, <2>1
<1>4. CASE AwaitBreakpoints \/ AwaitStop \/ Drain
  <2>1. (\E n : Reads(n)) \/ UNCHANGED <<output, text>>
    BY <1>4 DEF AwaitBreakpoints, AwaitStop, Drain
  <2>2. (\E n : Reads(n)) => UNCHANGED Printed
    BY ReadingMoves DEF SessionTypes
  <2>. QED
    BY <1>1, <1>2, <2>1, <2>2
<1>. QED
  BY <1>1, <1>3, <1>4 DEF SessionNext

(* A wait that was given up stays given up: the text never shrinks. *)
LEMMA GaveUpStays ==
    ASSUME SessionTypes, SessionNext
    PROVE  GaveUp => GaveUp'
<1>1. CASE \E n : Reads(n)
  <2>1. PICK n : Reads(n)
    BY <1>1
  <2>2. SubSeq(output, 1, n) \in Seq(Messages) /\ text' = text \o SubSeq(output, 1, n)
    BY <2>1 DEF Reads, SessionTypes
  <2>3. Len(text) \in Nat /\ Len(text') \in Nat /\ Len(text) <= Len(text')
    BY <2>2, ConcatProperties DEF SessionTypes
  <2>4. late => late'
    BY DEF SessionNext, Exec, Install, Talk, Swallow, Step, State, Quit, Hang, AwaitBreakpoints,
           TypeStep, AwaitStop, TypeState, Drain, Reap, Deadline, Commanded
  <2>. QED
    BY <2>3, <2>4, OutputAssumption DEF GaveUp
<1>2. CASE UNCHANGED text
  <2>1. late => late'
    BY DEF SessionNext, Exec, Install, Talk, Swallow, Step, State, Quit, Hang, AwaitBreakpoints,
           TypeStep, AwaitStop, TypeState, Drain, Reap, Deadline, Commanded
  <2>. QED
    BY <1>2, <2>1 DEF GaveUp
<1>3. (\E n : Reads(n)) \/ UNCHANGED text
  BY DEF SessionNext, Exec, Install, Talk, Swallow, Step, State, Quit, Hang, AwaitBreakpoints,
         TypeStep, AwaitStop, TypeState, Drain, Reap, Deadline, Commanded
<1>. QED
  BY <1>1, <1>2, <1>3

LEMMA CountFinite == \A log \in Seq(Messages) : \A what : IsFiniteSet(Places(log, what))
<1>. TAKE log \in Seq(Messages)
<1>. TAKE what
<1>1. Len(log) \in Nat
  OBVIOUS
<1>2. IsFiniteSet(1..Len(log))
  BY <1>1, FS_Interval
<1>3. Places(log, what) \in SUBSET (1..Len(log))
  BY DEF Places
<1>. QED
  BY <1>2, <1>3, FS_Subset

LEMMA CountNat == \A log \in Seq(Messages) : Count(log) \in Nat
BY CountFinite, FS_CardinalityType DEF Count

(* A message of a breakpoint that is set counts for one, any other for none.*)
LEMMA CountAppend ==
    \A log \in Seq(Messages) : \A line \in Messages :
        Count(Append(log, line)) = Count(log) + (IF line.what = "break" THEN 1 ELSE 0)
<1>. SUFFICES ASSUME NEW log \in Seq(Messages), NEW line \in Messages
              PROVE  Count(Append(log, line)) =
                        Count(log) + (IF line.what = "break" THEN 1 ELSE 0)
  OBVIOUS
<1>. DEFINE s == Places(log, "break")
<1>1. IsFiniteSet(s)
  BY CountFinite
<1>2. Len(log) + 1 \notin s
  BY DEF Places
<1>3. Cardinality(s) \in Nat
  BY <1>1, FS_CardinalityType
<1>4. Places(Append(log, line), "break") =
        s \cup (IF line.what = "break" THEN {Len(log) + 1} ELSE {})
  BY AppendPlaces
<1>. HIDE DEF s
<1>5. CASE line.what = "break"
  <2>1. Places(Append(log, line), "break") = s \cup {Len(log) + 1}
    BY <1>4, <1>5
  <2>2. Cardinality(s \cup {Len(log) + 1}) = Cardinality(s) + 1
    BY <1>1, <1>2, FS_AddElement
  <2>. QED
    BY <1>5, <2>1, <2>2 DEF Count, s
<1>6. CASE line.what # "break"
  <2>1. Places(Append(log, line), "break") = s
    BY <1>4, <1>6
  <2>. QED
    BY <1>3, <1>6, <2>1 DEF Count, s
<1>. QED
  BY <1>5, <1>6

(* What was counted in the text stays counted, and was printed.             *)
LEMMA CountGrows ==
    ASSUME text \in Seq(Messages), output \in Seq(Messages)
    PROVE  /\ Count(text) <= Count(Printed)
           /\ \A n : Reads(n) => Count(text) <= Count(text')
<1>1. \A u, v \in Seq(Messages) : Count(u) <= Count(u \o v)
  <2>. TAKE u, v \in Seq(Messages)
  <2>1. u \o v \in Seq(Messages)
    BY ConcatProperties
  <2>2. Places(u, "break") \in SUBSET Places(u \o v, "break")
    BY DEF Places
  <2>. QED
    BY <2>1, <2>2, CountFinite, FS_Subset DEF Count
<1>2. ASSUME NEW n, Reads(n) PROVE Count(text) <= Count(text')
  <2>1. SubSeq(output, 1, n) \in Seq(Messages) /\ text' = text \o SubSeq(output, 1, n)
    BY <1>2 DEF Reads
  <2>. QED
    BY <1>1, <2>1
<1>. QED
  BY <1>1, <1>2 DEF Printed

LEMMA LoadedStep ==
    ASSUME SessionTypes, OneStep, Loaded, SessionNext
    PROVE  Loaded'
<1>. USE DEF SessionTypes
<1>0. Count(text) \in Nat /\ Count(Printed) \in Nat /\ Count(text) <= Count(Printed)
  BY CountNat, CountGrows, PrintedStep
<1>9. GaveUp => GaveUp'
  BY GaveUpStays
<1>1. CASE Exec
  <2>1. harness # "load" => GaveUp \/ Count(text) >= NBreaks
    BY <1>1 DEF Exec, Loaded
  <2>2. Printed = <<>>
    BY <1>1 DEF Exec, Loaded
  <2>3. Count(<<>>) = 0
    <3>1. Places(<<>>, "break") = {}
      BY DEF Places
    <3>. QED
      BY <3>1, FS_EmptySet DEF Count
  <2>4. sim' = "loading" => Printed' = Printed
    BY <1>1 DEF Exec, Printed
  <2>5. sim' = "loading" => Count(Printed') < NBreaks
    BY <2>2, <2>3, <2>4, BreaksAssumption
  <2>. QED
    BY <1>1, <1>9, <2>1, <2>5 DEF Exec, Loaded
<1>2. CASE Install
  <2>1. Line("break", None) \in Messages /\ Line("break", None).what = "break"
    BY DEF Line, Messages
  <2>2. Printed' = Append(Printed, Line("break", None)) /\ Printed \in Seq(Messages)
    BY <1>2, <2>1, PrintAppends DEF Install
  <2>3. Count(Printed') = Count(Printed) + 1
    BY <2>1, <2>2, CountAppend
  <2>4. sim' = IF Count(Printed) + 1 = NBreaks THEN "console" ELSE "loading"
    BY <1>2 DEF Install, Installed, Printed
  <2>5. Count(Printed) < NBreaks
    BY <1>2 DEF Install, Loaded
  <2>6. sim' = "loading" => Count(Printed') < NBreaks
    BY <1>0, <2>3, <2>4, <2>5, BreaksAssumption
  <2>. QED
    BY <1>2, <1>9, <2>4, <2>6 DEF Install, Loaded
<1>8. CASE Talk
  <2>1. Line("other", None) \in Messages /\ Line("other", None).what # "break"
    BY DEF Line, Messages
  <2>2. Printed' = Append(Printed, Line("other", None)) /\ Printed \in Seq(Messages)
    BY <1>8, <2>1, PrintAppends DEF Talk
  <2>3. Count(Printed') = Count(Printed)
    BY <1>0, <2>1, <2>2, CountAppend
  <2>4. UNCHANGED <<sim, harness, text, swallowed>> /\ sim # "starting"
    BY <1>8 DEF Talk, Child
  <2>. QED
    BY <1>9, <2>3, <2>4 DEF Loaded
<1>3. CASE Swallow
  <2>1. sim = "loading" /\ typed # <<>> /\ UNCHANGED <<sim, pc, output, harness, text, late>>
        /\ swallowed' = (swallowed \/ Head(typed) = "step")
    BY <1>3 DEF Swallow
  <2>2. GaveUp
    BY <1>0, <2>1, BreaksAssumption DEF Loaded, OneStep
  <2>3. Printed' = Printed
    BY <2>1 DEF Printed
  <2>. QED
    BY <1>9, <2>1, <2>2, <2>3 DEF Loaded
<1>4. CASE Step \/ State
  <2>1. sim = "console" /\ UNCHANGED <<sim, harness, text, late, swallowed>>
    BY <1>4 DEF Step, State, Commanded
  <2>. QED
    BY <1>9, <2>1 DEF Loaded
<1>5. CASE Quit \/ Hang \/ Reap
  BY <1>5, <1>9 DEF Quit, Commanded, Hang, Reap, Loaded
<1>6. CASE Deadline \/ TypeStep \/ TypeState
  <2>1. UNCHANGED Printed
    BY <1>6 DEF Deadline, TypeStep, TypeState, Printed
  <2>2. /\ UNCHANGED <<sim, text, swallowed>>
        /\ harness' # "load" => harness # "load"
    BY <1>6 DEF Deadline, TypeStep, TypeState, Child
  <2>. QED
    BY <1>9, <2>1, <2>2 DEF Loaded
<1>7. CASE AwaitBreakpoints \/ AwaitStop \/ Drain
  <2>1. UNCHANGED <<sim, swallowed, late>>
    BY <1>7 DEF AwaitBreakpoints, AwaitStop, Drain, Child
  <2>2. UNCHANGED Printed
    BY <1>7, ReadingMoves DEF AwaitBreakpoints, AwaitStop, Drain, Printed
  <2>3. Count(text) <= Count(text') /\ Count(text') \in Nat
    BY <1>0, <1>7, CountGrows, CountNat, ReadingMoves DEF AwaitBreakpoints, AwaitStop, Drain
  <2>4. harness' # "load" => GaveUp \/ sim = "gone" \/ Count(text') >= NBreaks
    BY <1>0, <1>7, <2>3, BreaksAssumption DEF AwaitBreakpoints, AwaitStop, Drain, Over, Loaded
  <2>. QED
    BY <1>9, <2>1, <2>2, <2>4 DEF Loaded
<1>. QED
  BY <1>1, <1>2, <1>3, <1>4, <1>5, <1>6, <1>7, <1>8 DEF SessionNext

LEMMA TruthfulStep ==
    ASSUME SessionTypes, OneStep, Truthful, SessionNext
    PROVE  Truthful'
<1>. USE DEF SessionTypes
<1>0. Unstepped' => Unstepped
  BY OneStepStep
<1>1. CASE UNCHANGED Printed /\ UNCHANGED pc
  BY <1>0, <1>1 DEF Truthful
<1>2. CASE Printed' # Printed \/ pc' # pc
  <2>1. CASE Exec \/ Install \/ Talk
    <3>1. PICK line \in Messages : /\ Prints(line) /\ UNCHANGED text
                                   /\ line.what \notin {"breakpoint", "state"}
      <4>1. /\ Line("break", None) \in Messages /\ Line("traceback", None) \in Messages
            /\ Line("break", None).what = "break" /\ Line("traceback", None).what = "traceback"
            /\ Line("other", None) \in Messages /\ Line("other", None).what = "other"
        BY DEF Line, Messages
      <4>2. UNCHANGED <<text, output>> => UNCHANGED Printed
        BY DEF Printed
      <4>. QED
        BY <1>2, <2>1, <4>1, <4>2 DEF Exec, Install, Talk
    <3>2. Printed \in Seq(Messages) /\ Printed' = Append(Printed, line)
      BY <3>1, PrintAppends
    <3>3. /\ Places(Printed', "breakpoint") = Places(Printed, "breakpoint")
          /\ Places(Printed', "state") = Places(Printed, "state")
      <4>1. \A what : Places(Printed', what) =
                  Places(Printed, what) \cup (IF line.what = what THEN {Len(Printed) + 1} ELSE {})
        BY <3>2, AppendPlaces, Zenon
      <4>. QED
        BY <3>1, <4>1
    <3>4. \A i \in 1..Len(Printed) : Printed'[i] = Printed[i]
      BY <3>2, AppendProperties
    <3>5. pc' = pc
      BY <2>1 DEF Exec, Install, Talk, Child
    <3>. QED
      BY <1>0, <3>3, <3>4, <3>5 DEF Truthful, Places
  <2>2. CASE Step
    <3>1. Unstepped /\ typed # <<>> /\ typed' = Tail(typed) /\ UNCHANGED harness
      BY <2>2 DEF Step, Commanded, Unstepped
    <3>2. ~Unstepped'
      BY <3>1, FirstWord DEF Unstepped, OneStep
    <3>3. Places(Printed, "breakpoint") = {} /\ Places(Printed, "state") = {}
      BY <3>1 DEF Truthful
    <3>. DEFINE line == Line(IF pc' = Limit THEN "stepped" ELSE "breakpoint", pc')
    <3>4. /\ line \in Messages /\ line.at = pc' /\ pc' \in Breaks \cup {Limit}
          /\ line.what = IF pc' = Limit THEN "stepped" ELSE "breakpoint"
      BY <2>2 DEF Step, Line, Messages
    <3>5. Prints(line) /\ UNCHANGED text
      BY <2>2 DEF Step, Commanded
    <3>. HIDE DEF line
    <3>6. Printed \in Seq(Messages) /\ Printed' = Append(Printed, line)
      BY <3>4, <3>5, PrintAppends
    <3>7. /\ Places(Printed', "state") = {}
          /\ Places(Printed', "breakpoint") = IF pc' = Limit THEN {} ELSE {Len(Printed) + 1}
      <4>1. \A what : Places(Printed', what) =
                  Places(Printed, what) \cup (IF line.what = what THEN {Len(Printed) + 1} ELSE {})
        BY <3>4, <3>6, AppendPlaces, Zenon
      <4>2. "breakpoint" # "state" /\ "stepped" # "state" /\ "stepped" # "breakpoint"
        OBVIOUS
      <4>. QED
        BY <3>3, <3>4, <4>1, <4>2
    <3>8. Printed'[Len(Printed) + 1] = line
      BY <3>6, AppendProperties
    <3>9. \A i \in Places(Printed', "breakpoint") : Printed'[i].at = pc' /\ pc' \in Breaks
      BY <3>4, <3>7, <3>8
    <3>10. pc' \in Breaks => Places(Printed', "breakpoint") # {}
      BY <3>7, BreaksAssumption
    <3>. QED
      BY <3>2, <3>7, <3>9, <3>10 DEF Truthful
  <2>3. CASE State
    <3>1. typed # <<>> /\ typed' = Tail(typed) /\ UNCHANGED <<harness, pc>>
      BY <2>3 DEF State, Commanded
    <3>2. ~Unstepped'
      BY <3>1, FirstWord DEF Unstepped, OneStep
    <3>. DEFINE line == Line("state", pc)
    <3>3. line \in Messages /\ line.at = pc /\ line.what = "state"
      BY DEF Line, Messages
    <3>4. Prints(line) /\ UNCHANGED text
      BY <2>3 DEF State, Commanded
    <3>. HIDE DEF line
    <3>5. Printed \in Seq(Messages) /\ Printed' = Append(Printed, line)
      BY <3>3, <3>4, PrintAppends
    <3>6. /\ Places(Printed', "state") = Places(Printed, "state") \cup {Len(Printed) + 1}
          /\ Places(Printed', "breakpoint") = Places(Printed, "breakpoint")
      <4>1. \A what : Places(Printed', what) =
                  Places(Printed, what) \cup (IF line.what = what THEN {Len(Printed) + 1} ELSE {})
        <5>1. line \in Messages
          BY <3>3
        <5>. HIDE DEF SessionTypes
        <5>. QED
          BY <3>5, <5>1, AppendPlaces, Zenon
      <4>2. line.what # "breakpoint"
        BY <3>3
      <4>3. Places(Printed', "breakpoint") =
                Places(Printed, "breakpoint") \cup
                    (IF line.what = "breakpoint" THEN {Len(Printed) + 1} ELSE {})
        BY <4>1, Zenon
      <4>. QED
        BY <3>3, <4>1, <4>2, <4>3
    <3>7. Printed'[Len(Printed) + 1] = line /\ \A i \in 1..Len(Printed) : Printed'[i] = Printed[i]
      BY <3>5, AppendProperties
    <3>8. \A i \in Places(Printed, "state") \cup Places(Printed, "breakpoint") : i \in 1..Len(Printed)
      BY DEF Places
    <3>. QED
      BY <3>1, <3>2, <3>3, <3>6, <3>7, <3>8 DEF Truthful
  <2>4. pc' # pc => Step
    BY DEF SessionNext, Exec, Install, Talk, Swallow, State, Quit, Hang, AwaitBreakpoints, TypeStep,
           AwaitStop, TypeState, Drain, Reap, Deadline, Commanded, Child
  <2>. QED
    BY <1>2, <2>1, <2>2, <2>3, <2>4, PrintedStep
<1>. QED
  BY <1>1, <1>2

LEMMA FoundStep ==
    ASSUME SessionTypes, OneStep, Truthful, Found, SessionNext
    PROVE  Found'
<1>. USE DEF SessionTypes
<1>9. GaveUp => GaveUp'
  BY GaveUpStays
<1>1. CASE Step
  <2>1. /\ pc = None /\ harness \notin {"load", "step"}
        /\ UNCHANGED <<harness, text, late, stop, sim>> /\ sim = "console"
    BY <1>1 DEF Step, Commanded, OneStep, Unstepped
  <2>2. stop = None
    BY <2>1, BreaksAssumption DEF Found
  <2>. QED
    BY <1>9, <2>1, <2>2 DEF Found
<1>2. CASE AwaitStop
  <2>0. UNCHANGED <<sim, pc, late>> /\ harness = "wait" /\ stop = None
    BY <1>2 DEF AwaitStop, Child, Found
  <2>1. CASE Over /\ harness' = "state" /\ UNCHANGED <<output, text, stop>>
    <3>1. GaveUp \/ (sim = "gone" /\ output = <<>>)
      BY <2>1 DEF Over
    <3>2. output = <<>> => Printed = text
      BY ConcatEmptySeq DEF Printed
    <3>3. Places(text, "breakpoint") = {}
      BY <2>0 DEF Found
    <3>4. GaveUp \/ (sim = "gone" /\ pc \notin Breaks)
      BY <3>1, <3>2, <3>3 DEF Truthful
    <3>. QED
      BY <1>9, <2>0, <2>1, <3>4 DEF Found
  <2>2. CASE Stops(text') = {} /\ UNCHANGED <<harness, stop>>
    BY <2>0, <2>2 DEF Found, Stops
  <2>3. ASSUME NEW n, Reads(n), NEW i \in Stops(text'), harness' = "state", stop' = text'[i].at
        PROVE  Found'
    <3>1. UNCHANGED Printed /\ text' \in Seq(Messages) /\ output' \in Seq(Messages)
      BY <2>3, ReadingMoves
    <3>2. /\ Places(text', "breakpoint") \subseteq Places(Printed', "breakpoint")
          /\ \A j \in 1..Len(text') : text'[j] = Printed'[j]
      BY <3>1 DEF Places, Printed
    <3>3. i \in Places(Printed, "breakpoint") /\ stop' = Printed[i].at
      BY <2>3, <3>1, <3>2 DEF Stops, Places
    <3>4. stop' = pc /\ pc \in Breaks
      BY <3>3 DEF Truthful
    <3>. QED
      BY <2>0, <2>3, <3>4, BreaksAssumption DEF Found
  <2>. QED
    BY <1>2, <2>1, <2>2, <2>3 DEF AwaitStop
<1>3. CASE TypeStep
  <2>1. harness = "step" /\ harness' = "wait" /\ UNCHANGED <<pc, output, text, stop>>
    BY <1>3 DEF TypeStep, Child
  <2>2. Places(text, "breakpoint") = {}
    <3>1. Places(Printed, "breakpoint") = {}
      BY <2>1 DEF Truthful, Unstepped
    <3>2. Places(text, "breakpoint") \subseteq Places(Printed, "breakpoint")
      BY ReadFirst
    <3>. QED
      BY <3>1, <3>2
  <2>. QED
    BY <2>1, <2>2 DEF Found
<1>4. CASE Exec \/ Install \/ Talk \/ Swallow \/ State \/ Quit \/ Hang \/ Deadline
  <2>1. /\ UNCHANGED <<harness, pc, text, stop>>
        /\ sim = "gone" => sim' = "gone"
    BY <1>4 DEF Exec, Install, Talk, Swallow, State, Quit, Hang, Deadline, Commanded, Child
  <2>. QED
    BY <1>9, <2>1 DEF Found
<1>5. CASE AwaitBreakpoints
  BY <1>5 DEF AwaitBreakpoints, Child, Found
<1>6. CASE TypeState \/ Drain \/ Reap
  <2>1. /\ UNCHANGED <<pc, stop>> /\ (sim = "gone" => sim' = "gone")
        /\ harness \in {"state", "drain", "reap"} /\ harness' \in {"drain", "reap", "report"}
    BY <1>6 DEF TypeState, Drain, Reap, Child
  <2>. QED
    BY <1>9, <2>1 DEF Found
<1>. QED
  BY <1>1, <1>2, <1>3, <1>4, <1>5, <1>6 DEF SessionNext

LEMMA SessionStep ==
    ASSUME SessionInv, [Next]_benchVars
    PROVE  SessionInv'
<1>1. CASE SessionNext
  BY <1>1, SessionTypesStep, OneStepStep, TruthfulStep, LoadedStep, FoundStep DEF SessionInv
<1>2. CASE UNCHANGED sessionVars
  <2>1. UNCHANGED <<Printed, Unstepped, GaveUp>>
    BY <1>2 DEF sessionVars, Printed, Unstepped, GaveUp
  <2>. QED
    BY <1>2, <2>1 DEF sessionVars, SessionInv, SessionTypes, OneStep, Truthful, Loaded, Found
<1>. QED
  BY <1>1, <1>2 DEF Next, benchVars

LEMMA SessionStart == Init => SessionInv
<1>. SUFFICES ASSUME Init PROVE SessionInv
  OBVIOUS
<1>. USE DEF Init, SessionInit
<1>1. SessionTypes
  <2>1. <<>> \in Seq(Messages)
    BY EmptySeq
  <2>. QED
    BY <2>1 DEF SessionTypes, TypedWords
<1>2. Printed = <<>>
  <2>1. <<>> \in Seq(Messages)
    BY EmptySeq
  <2>. QED
    BY <2>1, ConcatEmptySeq DEF Printed
<1>3. \A what : Places(<<>>, what) = {}
  BY DEF Places
<1>4. OneStep
  BY DEF OneStep
<1>5. Truthful
  BY <1>2, <1>3, BreaksAssumption DEF Truthful
<1>6. Loaded
  BY <1>2 DEF Loaded
<1>7. Found
  BY DEF Found
<1>. QED
  BY <1>1, <1>4, <1>5, <1>6, <1>7 DEF SessionInv

(* A set of places has a first one.                                         *)
LEMMA FirstPlace ==
    ASSUME NEW T, T \subseteq Nat, T # {}
    PROVE  \E n \in T : \A m \in T : n <= m
<1>1. PICK n \in T : \A m \in T : ~(<<m, n>> \in OpToRel(<, Nat))
  BY WFMin, NatLessThanWellFounded, Zenon
<1>2. ASSUME NEW m \in T PROVE n <= m
  <2>1. ~(<<m, n>> \in OpToRel(<, Nat))
    BY <1>1
  <2>2. m \in Nat /\ n \in Nat
    OBVIOUS
  <2>. QED
    BY <2>1, <2>2 DEF OpToRel
<1>. QED
  BY <1>2

(* A stop that is reported is where the program is, and so is the state; a  *)
(* reached breakpoint goes unreported, and the step is lost in the start,   *)
(* only when the wait was given up: for any set of breakpoints, any number  *)
(* of them that is waited for, whatever else is printed, and however the    *)
(* output is cut into reads.                                                *)
THEOREM TrueReport == Spec => []ReportIsTrue
<1>1. SessionInv => ReportIsTrue
  <2>. SUFFICES ASSUME SessionInv PROVE ReportIsTrue
    OBVIOUS
  <2>. USE DEF SessionInv
  <2>1. swallowed => GaveUp
    BY DEF Loaded
  <2>2. ASSUME harness = "report" PROVE /\ ~TimedOut => pc = stop /\ pc \in Breaks
                                        /\ TimedOut /\ pc \in Breaks => GaveUp
    BY <2>2 DEF Found, TimedOut
  <2>3. StatePc \in {None, pc}
    <3>. DEFINE states == Places(text, "state")
    <3>1. CASE states = {}
      BY <3>1 DEF StatePc
    <3>2. CASE states # {}
      <4>1. states \subseteq Nat
        BY DEF Places, SessionTypes
      <4>2. \E i \in states : \A j \in states : i <= j
        <5>. HIDE DEF states
        <5>. QED
          BY <3>2, <4>1, FirstPlace, Zenon
      <4>. DEFINE first == CHOOSE i \in states : \A j \in states : i <= j
      <4>3. first \in states
        BY <4>2, Zenon
      <4>4. StatePc = text[first].at
        BY <3>2 DEF StatePc
      <4>. HIDE DEF first
      <4>5. first \in Places(Printed, "state") /\ text[first] = Printed[first]
        <5>1. first \in 1..Len(text)
          BY <4>3 DEF Places
        <5>. QED
          BY <4>3, <5>1, ReadFirst DEF SessionTypes
      <4>. QED
        BY <4>4, <4>5 DEF Truthful
    <3>. QED
      BY <3>1, <3>2
  <2>. QED
    BY <2>1, <2>2, <2>3 DEF ReportIsTrue
<1>. QED
  BY <1>1, SessionStart, SessionStep, PTL DEF Spec

-----------------------------------------------------------------------------
(* The sums over an image *)

(* A recursive function over the first numbers exists.                      *)
Iterates(D, zero, step, n, f) ==
    /\ f \in [0..n -> D] /\ f[0] = zero
    /\ \A i \in 1..n : f[i] = step[i][f[i - 1]]

LEMMA IterationExists ==
    ASSUME NEW D, NEW zero \in D, NEW m \in Nat, NEW step \in [1..m -> [D -> D]]
    PROVE  \E f : Iterates(D, zero, step, m, f)
<1>. SUFFICES ASSUME ~ \E f : Iterates(D, zero, step, m, f) PROVE FALSE
  OBVIOUS
<1>. DEFINE T == {n \in 0..m : ~ \E f : Iterates(D, zero, step, n, f)}
<1>0. m \in 0..m
  OBVIOUS
<1>1. T \subseteq Nat /\ T # {}
  <2>1. m \in T
    BY <1>0, Zenon
  <2>2. T \subseteq Nat
    OBVIOUS
  <2>. QED
    BY <2>1, <2>2, Zenon
<1>2. PICK n \in T : \A k \in T : n <= k
  <2>. HIDE DEF T
  <2>. QED
    BY <1>1, FirstPlace, Zenon
<1>3. n \in 0..m /\ ~ \E f : Iterates(D, zero, step, n, f)
  OBVIOUS
<1>4. CASE n = 0
  <2>. DEFINE f == [i \in 0..0 |-> zero]
  <2>1. Iterates(D, zero, step, 0, f)
    BY DEF Iterates
  <2>. QED
    BY <1>3, <1>4, <2>1
<1>5. CASE n # 0
  <2>1. n - 1 \in 0..m /\ ~(n - 1 \in T)
    BY <1>2, <1>3, <1>5
  <2>2. PICK f : Iterates(D, zero, step, n - 1, f)
    BY <2>1
  <2>. DEFINE g == [i \in 0..n |-> IF i = n THEN step[n][f[n - 1]] ELSE f[i]]
  <2>3. f \in [0..n - 1 -> D] /\ f[0] = zero
        /\ \A i \in 1..n - 1 : f[i] = step[i][f[i - 1]]
    BY <2>2 DEF Iterates
  <2>4. step[n] \in [D -> D] /\ f[n - 1] \in D
    BY <1>3, <1>5, <2>3
  <2>5. g \in [0..n -> D] /\ g[0] = zero
    BY <1>3, <1>5, <2>3, <2>4
  <2>6. ASSUME NEW i \in 1..n PROVE g[i] = step[i][g[i - 1]]
    <3>1. i - 1 \in 0..n - 1 /\ i - 1 # n /\ i \in 0..n /\ i - 1 \in 0..n
      BY <1>3
    <3>2. g[i - 1] = f[i - 1]
      BY <3>1
    <3>3. CASE i = n
      BY <3>1, <3>2, <3>3
    <3>4. CASE i # n
      <4>1. i \in 1..n - 1
        BY <1>3, <3>4
      <4>2. g[i] = f[i]
        BY <3>1, <3>4
      <4>. QED
        BY <2>3, <3>2, <4>1, <4>2
    <3>. QED
      BY <3>3, <3>4
  <2>7. Iterates(D, zero, step, n, g)
    <3>. HIDE DEF g
    <3>. QED
      BY <2>5, <2>6 DEF Iterates
  <2>. QED
    BY <1>3, <2>7
<1>. QED
  BY <1>4, <1>5

Images == [Offsets -> Bytes]

LEMMA Layout ==
    /\ Base \in Nat \ {0} /\ XBase \in Nat \ {0} /\ SumEnd \in Nat \ {0} /\ Size \in Nat \ {0}
    /\ SumEnd + 3 < Size /\ 0..SumEnd - 1 \subseteq Offsets
BY LayoutAssumption DEF Trampoline, Offsets

(* The partial sums of an image are its partial sums.                       *)
LEMMA SumFacts ==
    \A img \in Images :
        /\ PartialSums(img) \in [0..SumEnd -> Nat] /\ PartialSums(img)[0] = 0
        /\ \A n \in 1..SumEnd : PartialSums(img)[n] = PartialSums(img)[n - 1] + img[n - 1]
<1>. TAKE img \in Images
<1>. DEFINE step == [i \in 1..SumEnd |-> [x \in Nat |-> x + img[i - 1]]]
            Sums(f) == f = [n \in 0..SumEnd |-> IF n = 0 THEN 0 ELSE f[n - 1] + img[n - 1]]
<1>0. SumEnd \in Nat
  BY Layout
<1>1. \A i \in 1..SumEnd : img[i - 1] \in Nat
  BY Layout DEF Images, Bytes
<1>2. step \in [1..SumEnd -> [Nat -> Nat]]
  BY <1>1
<1>3. PICK f : Iterates(Nat, 0, step, SumEnd, f)
  <2>. HIDE DEF step
  <2>. QED
    BY <1>0, <1>2, IterationExists
<1>4. Sums(f)
  <2>1. f \in [0..SumEnd -> Nat] /\ f[0] = 0 /\ \A i \in 1..SumEnd : f[i] = step[i][f[i - 1]]
    BY <1>3 DEF Iterates
  <2>2. ASSUME NEW n \in 1..SumEnd PROVE f[n] = f[n - 1] + img[n - 1]
    <3>1. n - 1 \in 0..SumEnd
      BY <1>0
    <3>. QED
      BY <2>1, <3>1
  <2>3. \A n \in 0..SumEnd : f[n] = IF n = 0 THEN 0 ELSE f[n - 1] + img[n - 1]
    <3>. HIDE DEF step
    <3>. QED
      BY <1>0, <2>1, <2>2
  <2>4. f = [n \in 0..SumEnd |-> f[n]]
    BY <2>1
  <2>. QED
    BY <2>3, <2>4
<1>5. PartialSums(img) = CHOOSE h : Sums(h)
  BY DEF PartialSums
<1>6. Sums(PartialSums(img))
  <2>. HIDE DEF Sums
  <2>. QED
    BY <1>4, <1>5, Zenon
<1>. DEFINE s == PartialSums(img)
<1>7. s = [n \in 0..SumEnd |-> IF n = 0 THEN 0 ELSE s[n - 1] + img[n - 1]]
  BY <1>6
<1>. HIDE DEF s, step
<1>8. s[0] = 0 /\ \A n \in 1..SumEnd : s[n] = s[n - 1] + img[n - 1]
  BY <1>0, <1>7
<1>9. \A n \in 0..SumEnd : s[n] \in Nat
  <2>. DEFINE T == {n \in 0..SumEnd : s[n] \notin Nat}
  <2>. SUFFICES ASSUME T # {} PROVE FALSE
    OBVIOUS
  <2>1. T \subseteq Nat
    OBVIOUS
  <2>2. PICK n \in T : \A k \in T : n <= k
    <3>. HIDE DEF T
    <3>. QED
      BY <2>1, FirstPlace, Zenon
  <2>3. n # 0
    BY <1>8
  <2>4. n \in 1..SumEnd /\ n - 1 \in 0..SumEnd /\ n - 1 \notin T
    BY <1>0, <2>2, <2>3
  <2>5. s[n - 1] \in Nat
    BY <2>4
  <2>. QED
    BY <1>1, <1>8, <2>4, <2>5
<1>10. s \in [0..SumEnd -> Nat]
  BY <1>7, <1>9
<1>. QED
  BY <1>8, <1>10 DEF s

-----------------------------------------------------------------------------
(* A word of two bytes that holds a sum *)

Whole == Base * Base
Holds(hi, lo, x) == hi \in Bytes /\ lo \in Bytes /\ x % Whole = hi * Base + lo

(* What the provers know of products, quotients and remainders. *)
LEMMA Products ==
    /\ \A a, b \in Nat : a * b \in Nat /\ a * b = b * a
    /\ \A a, b, c \in Nat : a * (b + c) = (a * b) + (a * c)
    /\ \A a, b, c \in Nat : a <= b => c * a <= c * b
<1>1. \A a, b \in Nat : a * b \in Nat /\ a * b = b * a
  OBVIOUS
<1>2. \A a, b, c \in Nat : a * (b + c) = (a * b) + (a * c)
  OBVIOUS
<1>3. \A a, b, c \in Nat : a <= b => c * a <= c * b
  OBVIOUS
<1>. QED
  BY <1>1, <1>2, <1>3, Zenon

LEMMA Division ==
    \A m \in Nat \ {0} :
        /\ \A x \in Nat : x % m \in 0..m - 1 /\ x \div m \in Nat /\ x = (m * (x \div m)) + (x % m)
        /\ \A q \in Nat : \A r \in 0..m - 1 : ((m * q) + r) % m = r
        /\ \A r \in 0..m - 1 : r % m = r /\ (m + r) % m = r
        /\ \A q, p \in Nat : \A r, s \in 0..m - 1 :
              (m * q) + r = (m * p) + s => q = p /\ r = s
<1>. TAKE m \in Nat \ {0}
<1>1. \A x \in Nat : x % m \in 0..m - 1 /\ x \div m \in Nat /\ x = (m * (x \div m)) + (x % m)
  OBVIOUS
<1>2. \A q \in Nat : \A r \in 0..m - 1 : ((m * q) + r) % m = r
  OBVIOUS
<1>3. \A r \in 0..m - 1 : r % m = r /\ (m + r) % m = r
  OBVIOUS
<1>4. \A q, p \in Nat : \A r, s \in 0..m - 1 : (m * q) + r = (m * p) + s => q = p
  OBVIOUS
<1>5. \A q, p \in Nat : \A r, s \in 0..m - 1 : (m * q) + r = (m * p) + s => q = p /\ r = s
  <2>. SUFFICES ASSUME NEW q \in Nat, NEW p \in Nat, NEW r \in 0..m - 1, NEW s \in 0..m - 1,
                       (m * q) + r = (m * p) + s
                PROVE  q = p /\ r = s
    OBVIOUS
  <2>1. ((m * q) + r) % m = r /\ ((m * p) + s) % m = s
    BY <1>2
  <2>. QED
    BY <1>4, <2>1
<1>. QED
  BY <1>1, <1>2, <1>3, <1>5, Zenon

(* Two bytes are the digits of one number. *)
LEMMA Digits ==
    /\ Whole \in Nat \ {0} /\ Base <= Whole
    /\ \A h, l \in Bytes : h * Base + l \in 0..Whole - 1
    /\ \A h, l, g, k \in Bytes : h * Base + l = g * Base + k => h = g /\ l = k
    /\ \A h, l \in Bytes :
          (Base - 1 - h) * Base + (Base - 1 - l) = Whole - 1 - (h * Base + l)
    /\ \A x \in 0..Whole - 1 :
          x \div Base \in Bytes /\ x % Base \in Bytes /\ (x \div Base) * Base + (x % Base) = x
<1>. DEFINE b == Base
            w == Whole
<1>0. b \in Nat \ {0} /\ Bytes = 0..b - 1 /\ w = b * b
  BY Layout DEF Whole, Bytes
<1>. HIDE DEF b, w
<1>1. w \in Nat \ {0} /\ b <= w
  <2>1. w \in Nat /\ b * 1 <= b * b /\ b * 1 = b
    BY <1>0
  <2>. QED
    BY <1>0, <2>1
<1>2. ASSUME NEW h \in Bytes PROVE h * b \in Nat /\ (h * b) + b <= w
  <2>1. h \in Nat /\ h + 1 \in Nat /\ h + 1 <= b
    BY <1>0
  <2>2. h * b = b * h /\ b * h \in Nat
    BY <1>0, <2>1
  <2>3. b * (h + 1) = (b * h) + b
    BY <1>0, <2>1
  <2>4. b * (h + 1) <= b * b
    BY <1>0, <2>1, Products
  <2>. QED
    BY <1>0, <2>2, <2>3, <2>4
<1>3. ASSUME NEW h \in Bytes, NEW l \in Bytes PROVE (h * b) + l \in 0..w - 1
  <2>. DEFINE u == h * b
  <2>1. u \in Nat /\ u + b <= w
    BY <1>2
  <2>. HIDE DEF u
  <2>2. u + l \in 0..w - 1
    BY <1>0, <1>1, <2>1
  <2>. QED
    BY <2>2 DEF u
<1>4. ASSUME NEW h \in Bytes, NEW l \in Bytes, NEW g \in Bytes, NEW k \in Bytes,
             (h * b) + l = (g * b) + k
      PROVE  h = g /\ l = k
  <2>1. h \in Nat /\ g \in Nat
    BY <1>0
  <2>2. h * b = b * h /\ g * b = b * g
    BY <1>0, <2>1
  <2>3. (b * h) + l = (b * g) + k
    BY <1>4, <2>2
  <2>. QED
    <3>1. \A q, p \in Nat : \A r, s \in 0..b - 1 :
            (b * q) + r = (b * p) + s => q = p /\ r = s
      BY <1>0, Division, Zenon
    <3>2. l \in 0..b - 1 /\ k \in 0..b - 1
      BY <1>0
    <3>. QED
      BY <2>1, <2>3, <3>1, <3>2
<1>5. ASSUME NEW h \in Bytes, NEW l \in Bytes
      PROVE  (b - 1 - h) * b + (b - 1 - l) = w - 1 - ((h * b) + l)
  <2>. DEFINE u == h * b
              v == (b - 1 - h) * b
  <2>1. h \in Nat /\ b - 1 - h \in Nat
    BY <1>0
  <2>2. u \in Nat /\ v \in Nat
    BY <1>0, <2>1
  <2>3. (h + ((b - 1 - h) + 1)) * b = (h * b) + (((b - 1 - h) + 1) * b)
    BY <1>0, <2>1
  <2>4. ((b - 1 - h) + 1) * b = ((b - 1 - h) * b) + b
    BY <1>0, <2>1
  <2>5. h + ((b - 1 - h) + 1) = b
    BY <1>0, <2>1
  <2>6. w = u + (v + b)
    BY <1>0, <2>3, <2>4, <2>5
  <2>. HIDE DEF u, v
  <2>7. v + (b - 1 - l) = w - 1 - (u + l)
    BY <1>0, <1>1, <2>2, <2>6
  <2>. QED
    BY <2>7 DEF u, v
<1>6. ASSUME NEW x \in 0..w - 1
      PROVE  x \div b \in Bytes /\ x % b \in Bytes /\ ((x \div b) * b) + (x % b) = x
  <2>. DEFINE q == x \div b
              r == x % b
  <2>1. q \in Nat /\ r \in 0..b - 1 /\ x = (b * q) + r
    <3>1. x \in Nat
      BY <1>1
    <3>. QED
      BY <1>0, <3>1, Division, Zenon
  <2>. HIDE DEF q, r
  <2>2. q < b
    <3>. SUFFICES ASSUME b <= q PROVE FALSE
      BY <1>0, <2>1
    <3>1. b * b <= b * q
      BY <1>0, <2>1, Products
    <3>2. b * q \in Nat
      BY <1>0, <2>1
    <3>. QED
      BY <1>0, <1>1, <2>1, <3>1, <3>2
  <2>3. q * b = b * q
    BY <1>0, <2>1
  <2>4. q \in Bytes /\ r \in Bytes /\ (q * b) + r = x
    BY <1>0, <2>1, <2>2, <2>3
  <2>. QED
    BY <2>4 DEF q, r
<1>. QED
  BY <1>1, <1>3, <1>4, <1>5, <1>6 DEF b, w

(* Adding a byte adds it to what the word holds. *)
LEMMA AddHolds ==
    ASSUME NEW hi, NEW lo, NEW x \in Nat, Holds(hi, lo, x), NEW value \in Bytes
    PROVE  Holds(AddByte(hi, lo, value).high, AddByte(hi, lo, value).low, x + value)
<1>. DEFINE b == Base
            w == Whole
            total == lo + value
            q == x \div w
            p == w * q
            u == hi * b
<1>1. b \in Nat \ {0} /\ Bytes = 0..b - 1 /\ w \in Nat \ {0} /\ b <= w
      /\ hi \in 0..b - 1 /\ lo \in 0..b - 1 /\ value \in 0..b - 1
  BY Layout, Digits DEF Holds, Bytes
<1>2. q \in Nat /\ x = p + (u + lo)
  <2>1. q \in Nat /\ x = (w * q) + (x % w)
    BY <1>1, Division
  <2>. QED
    BY <2>1 DEF Holds
<1>3. p \in Nat /\ u \in Nat
  BY <1>1, <1>2
<1>4. /\ AddByte(hi, lo, value).low = total % b
      /\ AddByte(hi, lo, value).high = (hi + Carry(total)) % b
  BY DEF AddByte
<1>5. ASSUME NEW h \in 0..b - 1, NEW l \in 0..b - 1, NEW k \in Nat,
             x + value = (w * k) + ((h * b) + l)
      PROVE  Holds(h, l, x + value)
  <2>1. (h * b) + l \in 0..w - 1
    BY <1>1, Digits
  <2>2. ((w * k) + ((h * b) + l)) % w = (h * b) + l
    BY <1>1, <2>1, Division
  <2>3. (x + value) % w = (h * b) + l
    BY <1>5, <2>2
  <2>. QED
    BY <1>1, <2>3 DEF Holds
<1>6. CASE total < b
  <2>1. Carry(total) = 0 /\ total % b = total /\ hi % b = hi /\ hi + 0 = hi
    <3>1. total \in 0..b - 1 /\ hi \in 0..b - 1 /\ ~(total > b - 1)
      BY <1>1, <1>6
    <3>2. total % b = total /\ hi % b = hi
      BY <1>1, <3>1, Division
    <3>. QED
      BY <1>1, <3>1, <3>2 DEF Carry
  <2>2. x + value = p + (u + total)
    <3>. HIDE DEF p, u
    <3>. QED
      BY <1>1, <1>2, <1>3
  <2>3. Holds(hi, total, x + value)
    <3>1. hi \in 0..b - 1 /\ total \in 0..b - 1
      BY <1>1, <1>6
    <3>. HIDE DEF q
    <3>. QED
      BY <1>2, <1>5, <2>2, <3>1
  <2>. QED
    BY <1>4, <2>1, <2>3
<1>7. CASE total >= b
  <2>1. Carry(total) = 1 /\ total % b = total - b /\ total - b \in 0..b - 1
    <3>1. total - b \in 0..b - 1 /\ total > b - 1 /\ b + (total - b) = total
      BY <1>1, <1>7
    <3>2. (b + (total - b)) % b = total - b
      BY <1>1, <3>1, Division
    <3>. QED
      BY <3>1, <3>2 DEF Carry
  <2>2. (hi + 1) * b = u + b
    BY <1>1
  <2>3. CASE hi < b - 1
    <3>1. hi + 1 \in 0..b - 1
      BY <1>1, <2>3
    <3>2. (hi + 1) % b = hi + 1
      BY <1>1, <3>1, Division
    <3>3. x + value = p + ((u + b) + (total - b))
      <4>. HIDE DEF p, u
      <4>. QED
        BY <1>1, <1>2, <1>3
    <3>4. Holds(hi + 1, total - b, x + value)
      BY <1>2, <1>5, <2>1, <2>2, <3>1, <3>3
    <3>. QED
      BY <1>4, <2>1, <3>2, <3>4
  <2>4. CASE hi = b - 1
    <3>1. hi + 1 = b
      BY <1>1, <2>4
    <3>2. (hi + 1) % b = 0
      BY <1>1, <3>1
    <3>3. w = u + b
      BY <1>1, <2>2, <3>1 DEF Whole
    <3>4. w * (q + 1) = p + w
      BY <1>1, <1>2
    <3>5. x + value = (p + w) + (0 + (total - b))
      <4>. HIDE DEF p, u, w
      <4>. QED
        BY <1>1, <1>2, <1>3, <3>3
    <3>6. 0 * b = 0 /\ 0 \in 0..b - 1 /\ q + 1 \in Nat
      BY <1>1, <1>2
    <3>7. Holds(0, total - b, x + value)
      BY <1>5, <2>1, <3>4, <3>5, <3>6
    <3>. QED
      BY <1>4, <2>1, <3>2, <3>7
  <2>. QED
    BY <1>1, <2>3, <2>4
<1>. QED
  BY <1>1, <1>6, <1>7

Words == [low : Bytes, high : Bytes]

(* The register loop's partial sums of an image.                            *)
LEMMA WordFacts ==
    \A img \in Images :
        /\ WordSums(img) \in [0..SumEnd -> Words]
        /\ WordSums(img)[0] = [low |-> 0, high |-> 0]
        /\ \A n \in 1..SumEnd :
              WordSums(img)[n] =
                AddByte(WordSums(img)[n - 1].high, WordSums(img)[n - 1].low, img[n - 1])
<1>. TAKE img \in Images
<1>. DEFINE zero == [low |-> 0, high |-> 0]
            step == [i \in 1..SumEnd |-> [w \in Words |-> AddByte(w.high, w.low, img[i - 1])]]
            Sums(f) == f = [n \in 0..SumEnd |->
                              IF n = 0 THEN zero
                              ELSE AddByte(f[n - 1].high, f[n - 1].low, img[n - 1])]
<1>0. SumEnd \in Nat /\ Base \in Nat \ {0} /\ zero \in Words
  BY Layout DEF Words, Bytes
<1>1. \A w \in Words : \A i \in 1..SumEnd : AddByte(w.high, w.low, img[i - 1]) \in Words
  <2>. SUFFICES ASSUME NEW w \in Words, NEW i \in 1..SumEnd
                PROVE  AddByte(w.high, w.low, img[i - 1]) \in Words
    OBVIOUS
  <2>1. i - 1 \in Offsets
    BY Layout
  <2>2. w.high \in Nat /\ w.low \in Nat /\ img[i - 1] \in Nat
    BY <2>1 DEF Images, Bytes, Words
  <2>3. \A x \in Nat : x % Base \in 0..Base - 1
    BY <1>0, Division
  <2>4. w.low + img[i - 1] \in Nat /\ w.high + Carry(w.low + img[i - 1]) \in Nat
    BY <2>2 DEF Carry
  <2>. QED
    BY <2>3, <2>4 DEF AddByte, Words, Bytes
<1>2. step \in [1..SumEnd -> [Words -> Words]]
  BY <1>1
<1>3. PICK f : Iterates(Words, zero, step, SumEnd, f)
  <2>. HIDE DEF step, zero
  <2>. QED
    BY <1>0, <1>2, IterationExists
<1>4. Sums(f)
  <2>. HIDE DEF zero
  <2>1. f \in [0..SumEnd -> Words] /\ f[0] = zero
        /\ \A i \in 1..SumEnd : f[i] = step[i][f[i - 1]]
    BY <1>3 DEF Iterates
  <2>2. ASSUME NEW n \in 1..SumEnd
        PROVE  f[n] = AddByte(f[n - 1].high, f[n - 1].low, img[n - 1])
    <3>1. n - 1 \in 0..SumEnd
      BY <1>0
    <3>2. f[n - 1] \in Words
      BY <2>1, <3>1
    <3>3. step[n][f[n - 1]] = AddByte(f[n - 1].high, f[n - 1].low, img[n - 1])
      BY <3>2
    <3>. QED
      BY <2>1, <3>3
  <2>3. \A n \in 0..SumEnd : f[n] = IF n = 0 THEN zero
                                    ELSE AddByte(f[n - 1].high, f[n - 1].low, img[n - 1])
    <3>. HIDE DEF step
    <3>. QED
      BY <1>0, <2>1, <2>2
  <2>4. f = [n \in 0..SumEnd |-> f[n]]
    BY <2>1
  <2>. QED
    BY <2>3, <2>4
<1>5. WordSums(img) = CHOOSE h : Sums(h)
  BY DEF WordSums
<1>6. Sums(WordSums(img))
  <2>. HIDE DEF Sums
  <2>. QED
    BY <1>4, <1>5, Zenon
<1>. DEFINE s == WordSums(img)
<1>7. s = [n \in 0..SumEnd |-> IF n = 0 THEN zero
                               ELSE AddByte(s[n - 1].high, s[n - 1].low, img[n - 1])]
  BY <1>6
<1>. HIDE DEF s, step, zero
<1>8. /\ s[0] = zero
      /\ \A n \in 1..SumEnd : s[n] = AddByte(s[n - 1].high, s[n - 1].low, img[n - 1])
  BY <1>0, <1>7
<1>9. \A n \in 0..SumEnd : s[n] \in Words
  <2>. DEFINE T == {n \in 0..SumEnd : s[n] \notin Words}
  <2>. SUFFICES ASSUME T # {} PROVE FALSE
    OBVIOUS
  <2>1. T \subseteq Nat
    OBVIOUS
  <2>2. PICK n \in T : \A k \in T : n <= k
    <3>. HIDE DEF T
    <3>. QED
      BY <2>1, FirstPlace, Zenon
  <2>3. n # 0
    BY <1>0, <1>8
  <2>4. n \in 1..SumEnd /\ n - 1 \in 0..SumEnd /\ n - 1 \notin T
    BY <1>0, <2>2, <2>3
  <2>5. s[n - 1] \in Words
    BY <2>4
  <2>. QED
    BY <1>1, <1>8, <2>4, <2>5
<1>10. s \in [0..SumEnd -> Words]
  BY <1>7, <1>9
<1>. QED
  BY <1>8, <1>10 DEF s, zero

(* After every byte the two registers hold the sum so far. *)
LEMMA WordsHoldSums ==
    ASSUME NEW img \in Images, NEW n \in 0..SumEnd
    PROVE  Holds(WordSums(img)[n].high, WordSums(img)[n].low, PartialSums(img)[n])
<1>. DEFINE s == PartialSums(img)
            w == WordSums(img)
            T == {k \in 0..SumEnd : ~Holds(w[k].high, w[k].low, s[k])}
<1>0. SumEnd \in Nat /\ Base \in Nat \ {0} /\ Whole \in Nat \ {0}
  BY Layout, Digits
<1>1. /\ s \in [0..SumEnd -> Nat] /\ s[0] = 0
      /\ \A k \in 1..SumEnd : s[k] = s[k - 1] + img[k - 1]
  BY SumFacts
<1>2. /\ w[0].low = 0 /\ w[0].high = 0
      /\ \A k \in 1..SumEnd : w[k] = AddByte(w[k - 1].high, w[k - 1].low, img[k - 1])
  BY WordFacts
<1>. HIDE DEF s, w
<1>3. Holds(w[0].high, w[0].low, s[0])
  <2>1. 0 % Whole = 0 /\ 0 * Base + 0 = 0 /\ 0 \in Bytes
    BY <1>0 DEF Bytes
  <2>. QED
    BY <1>1, <1>2, <2>1 DEF Holds
<1>4. SUFFICES ASSUME T # {} PROVE FALSE
  BY DEF s, w
<1>5. PICK k \in T : \A j \in T : k <= j
  <2>1. T \subseteq Nat
    OBVIOUS
  <2>. HIDE DEF T
  <2>. QED
    BY <1>4, <2>1, FirstPlace, Zenon
<1>6. k \in 1..SumEnd /\ k - 1 \in 0..SumEnd /\ k - 1 \notin T
  <2>1. k # 0
    BY <1>3
  <2>. QED
    BY <1>0, <1>5, <2>1
<1>7. Holds(w[k - 1].high, w[k - 1].low, s[k - 1]) /\ s[k - 1] \in Nat /\ img[k - 1] \in Bytes
  BY <1>1, <1>6, Layout DEF Images
<1>8. Holds(w[k].high, w[k].low, s[k])
  BY <1>1, <1>2, <1>6, <1>7, AddHolds
<1>. QED
  BY <1>5, <1>8

(* The complement of the word is the checksum. *)
LEMMA HeldChecksum ==
    ASSUME NEW img \in Images, NEW hi, NEW lo, Holds(hi, lo, Sum(img))
    PROVE  /\ Base - 1 - hi \in Bytes /\ Base - 1 - lo \in Bytes
           /\ (Base - 1 - hi) * Base + (Base - 1 - lo) = Checksum(img)
<1>1. Base - 1 - hi \in Bytes /\ Base - 1 - lo \in Bytes
  BY Layout DEF Holds, Bytes
<1>2. Checksum(img) = Whole - 1 - (hi * Base + lo)
  BY DEF Checksum, Complement, Holds, Whole
<1>3. (Base - 1 - hi) * Base + (Base - 1 - lo) = Whole - 1 - (hi * Base + lo)
  BY Digits DEF Holds
<1>. QED
  BY <1>1, <1>2, <1>3

LEMMA TranscriptionAgrees ==
    ASSUME NEW img \in Images PROVE ComplementedSum(img) = Checksum(img)
<1>1. SumEnd \in 0..SumEnd
  BY Layout
<1>2. Holds(WordSums(img)[SumEnd].high, WordSums(img)[SumEnd].low, Sum(img))
  BY <1>1, WordsHoldSums DEF Sum
<1>. QED
  BY <1>2, HeldChecksum DEF ComplementedSum

-----------------------------------------------------------------------------
(* Sums of images that differ *)

(* Images with the same bytes below the end of the sum have the same sum.   *)
LEMMA SameSum ==
    ASSUME NEW f \in Images, NEW g \in Images, \A i \in 0..SumEnd - 1 : f[i] = g[i]
    PROVE  Sum(f) = Sum(g)
<1>. DEFINE s == PartialSums(f)
            t == PartialSums(g)
            T == {n \in 0..SumEnd : s[n] # t[n]}
<1>0. SumEnd \in Nat /\ SumEnd \in 0..SumEnd
  BY Layout
<1>1. /\ s[0] = 0 /\ \A n \in 1..SumEnd : s[n] = s[n - 1] + f[n - 1]
      /\ t[0] = 0 /\ \A n \in 1..SumEnd : t[n] = t[n - 1] + g[n - 1]
  BY SumFacts
<1>. HIDE DEF s, t
<1>2. T = {}
  <2>. SUFFICES ASSUME T # {} PROVE FALSE
    OBVIOUS
  <2>1. PICK n \in T : \A j \in T : n <= j
    <3>1. T \subseteq Nat
      OBVIOUS
    <3>. HIDE DEF T
    <3>. QED
      BY <3>1, FirstPlace, Zenon
  <2>2. n # 0
    BY <1>1
  <2>3. n \in 1..SumEnd /\ n - 1 \in 0..SumEnd /\ n - 1 \notin T /\ n - 1 \in 0..SumEnd - 1
    BY <1>0, <2>1, <2>2
  <2>4. s[n - 1] = t[n - 1] /\ f[n - 1] = g[n - 1]
    BY <2>3
  <2>. QED
    BY <1>1, <2>1, <2>3, <2>4
<1>3. s[SumEnd] = t[SumEnd]
  BY <1>0, <1>2
<1>. QED
  BY <1>3 DEF Sum, s, t

(* A byte that differs changes the sum by as much. *)
LEMMA OtherSum ==
    ASSUME NEW f \in Images, NEW g \in Images, NEW o \in 0..SumEnd - 1,
           \A i \in 0..SumEnd - 1 : i # o => f[i] = g[i]
    PROVE  Sum(f) + g[o] = Sum(g) + f[o] /\ Sum(f) \in Nat /\ Sum(g) \in Nat
<1>. DEFINE s == PartialSums(f)
            t == PartialSums(g)
            Agrees(n) == IF n <= o THEN s[n] = t[n] ELSE s[n] + g[o] = t[n] + f[o]
            T == {n \in 0..SumEnd : ~Agrees(n)}
<1>0. SumEnd \in Nat \ {0} /\ SumEnd \in 0..SumEnd /\ o \in Offsets /\ f[o] \in Nat /\ g[o] \in Nat
  <2>1. SumEnd \in Nat \ {0} /\ o \in Offsets
    BY Layout
  <2>. QED
    BY <2>1 DEF Images, Bytes
<1>1. /\ s \in [0..SumEnd -> Nat] /\ t \in [0..SumEnd -> Nat] /\ s[0] = 0 /\ t[0] = 0
      /\ \A n \in 1..SumEnd : s[n] = s[n - 1] + f[n - 1]
      /\ \A n \in 1..SumEnd : t[n] = t[n - 1] + g[n - 1]
  BY SumFacts
<1>2. \A i \in 0..SumEnd - 1 : f[i] \in Nat /\ g[i] \in Nat
  BY Layout DEF Images, Bytes
<1>. HIDE DEF s, t
<1>3. T = {}
  <2>. SUFFICES ASSUME T # {} PROVE FALSE
    OBVIOUS
  <2>1. PICK n \in T : \A j \in T : n <= j
    <3>1. T \subseteq Nat
      OBVIOUS
    <3>. HIDE DEF T
    <3>. QED
      BY <3>1, FirstPlace, Zenon
  <2>2. n # 0
    BY <1>0, <1>1
  <2>3. n \in 1..SumEnd /\ n - 1 \in 0..SumEnd /\ n - 1 \in 0..SumEnd - 1 /\ n - 1 \notin T
    BY <1>0, <2>1, <2>2
  <2>4. Agrees(n - 1)
    BY <2>3
  <2>5. /\ s[n] = s[n - 1] + f[n - 1] /\ t[n] = t[n - 1] + g[n - 1]
        /\ s[n - 1] \in Nat /\ t[n - 1] \in Nat /\ f[n - 1] \in Nat /\ g[n - 1] \in Nat
    BY <1>1, <1>2, <2>3
  <2>6. CASE n - 1 = o
    <3>1. s[n - 1] = t[n - 1] /\ ~(n <= o)
      BY <1>0, <2>3, <2>4, <2>6
    <3>2. s[n] + g[o] = t[n] + f[o]
      BY <2>5, <2>6, <3>1
    <3>. QED
      BY <2>1, <3>1, <3>2
  <2>7. CASE n - 1 # o
    <3>1. f[n - 1] = g[n - 1]
      BY <2>3, <2>7
    <3>2. CASE n - 1 <= o
      <4>1. n <= o /\ s[n - 1] = t[n - 1]
        BY <1>0, <2>3, <2>4, <2>7, <3>2
      <4>2. s[n] = t[n]
        BY <2>5, <3>1, <4>1
      <4>. QED
        BY <2>1, <4>1, <4>2
    <3>3. CASE ~(n - 1 <= o)
      <4>1. ~(n <= o) /\ s[n - 1] + g[o] = t[n - 1] + f[o]
        BY <1>0, <2>3, <2>4, <3>3
      <4>2. s[n] + g[o] = t[n] + f[o]
        BY <1>0, <2>5, <3>1, <4>1
      <4>. QED
        BY <2>1, <4>1, <4>2
    <3>. QED
      BY <3>2, <3>3
  <2>. QED
    BY <2>6, <2>7
<1>4. ~(SumEnd <= o) /\ Agrees(SumEnd)
  BY <1>0, <1>3
<1>5. s[SumEnd] + g[o] = t[SumEnd] + f[o] /\ s[SumEnd] \in Nat /\ t[SumEnd] \in Nat
  BY <1>0, <1>1, <1>4
<1>. QED
  BY <1>5 DEF Sum, s, t

(* Numbers less than a modulus apart have other remainders. *)
LEMMA OtherRemainder ==
    ASSUME NEW m \in Nat \ {0}, NEW x \in Nat, NEW y \in Nat, x < y, y - x < m
    PROVE  x % m # y % m
<1>. SUFFICES ASSUME x % m = y % m PROVE FALSE
  OBVIOUS
<1>. DEFINE p == x \div m
            q == y \div m
            r == x % m
<1>1. p \in Nat /\ q \in Nat /\ r \in 0..m - 1 /\ x = (m * p) + r /\ y = (m * q) + r
  BY Division
<1>. HIDE DEF p, q, r
<1>. DEFINE a == m * p
            b == m * q
<1>2. a \in Nat /\ b \in Nat
  BY <1>1
<1>3. CASE q <= p
  <2>1. b <= a
    BY <1>1, <1>3, Products
  <2>. HIDE DEF a, b
  <2>2. FALSE
    <3>1. x = a + r /\ y = b + r
      BY <1>1 DEF a, b
    <3>. QED
      BY <1>1, <1>2, <2>1, <3>1
  <2>. QED
    BY <2>2
<1>4. CASE p + 1 <= q
  <2>1. m * (p + 1) <= b /\ m * (p + 1) = a + m
    BY <1>1, <1>4, Products
  <2>. HIDE DEF a, b
  <2>2. FALSE
    <3>1. x = a + r /\ y = b + r
      BY <1>1 DEF a, b
    <3>. QED
      BY <1>1, <1>2, <2>1, <3>1
  <2>. QED
    BY <2>2
<1>. QED
  BY <1>1, <1>3, <1>4

LEMMA ChecksumFacts ==
    ASSUME NEW img \in Images
    PROVE  /\ Sum(img) \in Nat /\ Checksum(img) \in 0..Whole - 1
           /\ Checksum(img) = Whole - 1 - (Sum(img) % Whole)
<1>1. Sum(img) \in Nat
  BY SumFacts, Layout DEF Sum
<1>2. Whole \in Nat \ {0} /\ Sum(img) % Whole \in 0..Whole - 1
  BY <1>1, Digits, Division
<1>3. Checksum(img) = Whole - 1 - (Sum(img) % Whole)
  BY DEF Checksum, Complement, Whole
<1>. QED
  BY <1>1, <1>2, <1>3

(* One byte that differs below the end of the sum changes the checksum. *)
LEMMA OtherChecksum ==
    ASSUME NEW f \in Images, NEW g \in Images, NEW o \in 0..SumEnd - 1, f[o] # g[o],
           \A i \in 0..SumEnd - 1 : i # o => f[i] = g[i]
    PROVE  Checksum(f) # Checksum(g)
<1>1. /\ Sum(f) + g[o] = Sum(g) + f[o] /\ Sum(f) \in Nat /\ Sum(g) \in Nat
  BY OtherSum
<1>2. f[o] \in 0..Base - 1 /\ g[o] \in 0..Base - 1
  BY Layout DEF Images, Bytes
<1>3. Base \in Nat /\ Whole \in Nat \ {0} /\ Base <= Whole
  BY Layout, Digits
<1>4. Sum(f) % Whole # Sum(g) % Whole
  <2>1. CASE f[o] < g[o]
    <3>1. Sum(f) < Sum(g) /\ Sum(g) - Sum(f) < Whole
      BY <1>1, <1>2, <1>3, <2>1
    <3>. QED
      BY <1>1, <1>3, <3>1, OtherRemainder
  <2>2. CASE g[o] < f[o]
    <3>1. Sum(g) < Sum(f) /\ Sum(f) - Sum(g) < Whole
      BY <1>1, <1>2, <1>3, <2>2
    <3>. QED
      BY <1>1, <1>3, <3>1, OtherRemainder
  <2>. QED
    BY <1>2, <1>3, <2>1, <2>2
<1>5. Sum(f) % Whole \in 0..Whole - 1 /\ Sum(g) % Whole \in 0..Whole - 1
  BY <1>1, <1>3, Division
<1>6. /\ Checksum(f) = Whole - 1 - (Sum(f) % Whole)
      /\ Checksum(g) = Whole - 1 - (Sum(g) % Whole)
  BY ChecksumFacts
<1>. QED
  BY <1>3, <1>4, <1>5, <1>6

-----------------------------------------------------------------------------
(* What is built *)

(* Signature, end of the sum, checksum and trampolines follow each other.   *)
LEMMA ImagePlaces ==
    /\ Signature \in Offsets /\ Signature + 1 \in Offsets /\ Stored \in Offsets
    /\ Stored + 1 \in Offsets /\ Signature + 1 = SumEnd /\ Stored = SumEnd + 1
    /\ Trampoline = Stored + 2 /\ Trampoline \in Nat
BY Layout DEF Signature, Stored, Trampoline, Offsets

(* The builder writes an image with the signature and its own checksum.     *)
LEMMA BuiltImage ==
    ASSUME NEW p \in Payloads
    PROVE  /\ Build(p) \in Images /\ Signed(Build(p), Signature)
           /\ Word(Build(p), Stored) = Checksum(Build(p))
<1>. DEFINE plain == [o \in Offsets |->
                        CASE o < Len(p) -> p[o + 1]
                          [] o = Signature -> MarkHi
                          [] o = Signature + 1 -> MarkLo
                          [] OTHER -> 0]
            c == Checksum(plain)
            img == [o \in Offsets |->
                        CASE o = Stored -> c \div Base
                          [] o = Stored + 1 -> c % Base
                          [] o >= Trampoline -> Template[o]
                          [] OTHER -> plain[o]]
<1>1. Build(p) = img
  BY DEF Build
<1>2. p \in Seq(Bytes) /\ Len(p) \in Nat /\ Len(p) <= Signature
      /\ MarkHi \in Bytes /\ MarkLo \in Bytes /\ Template \in [Offsets -> Bytes] /\ 0 \in Bytes
      /\ SumEnd \in Nat \ {0} /\ Offsets \subseteq Nat
  BY LayoutAssumption DEF Bytes, Offsets
<1>3. plain \in Images
  <2>1. ASSUME NEW o \in Offsets PROVE plain[o] \in Bytes
    <3>1. CASE o < Len(p)
      <4>1. o + 1 \in 1..Len(p)
        BY <1>2, <3>1
      <4>2. p[o + 1] \in Bytes
        BY <1>2, <4>1
      <4>3. o # Signature /\ o # Signature + 1
        BY <1>2, <3>1, ImagePlaces
      <4>. QED
        BY <3>1, <4>2, <4>3
    <3>2. CASE ~(o < Len(p))
      BY <1>2, <3>2
    <3>. QED
      BY <3>1, <3>2
  <2>. QED
    BY <2>1 DEF Images
<1>4. plain[Signature] = MarkHi /\ plain[Signature + 1] = MarkLo
  <2>1. /\ ~(Signature < Len(p)) /\ ~(Signature + 1 < Len(p)) /\ Signature + 1 # Signature
    BY <1>2, ImagePlaces
  <2>. QED
    BY <2>1, ImagePlaces
<1>. HIDE DEF plain
<1>5. c \div Base \in Bytes /\ c % Base \in Bytes /\ (c \div Base) * Base + (c % Base) = c
  BY <1>3, ChecksumFacts, Digits
<1>. HIDE DEF c
<1>6. img \in Images
  BY <1>2, <1>3, <1>5 DEF Images
<1>7. img[Stored] = c \div Base /\ img[Stored + 1] = c % Base
  BY <1>2, ImagePlaces
<1>8. /\ \A i \in 0..SumEnd - 1 : img[i] = plain[i]
      /\ img[Signature] = MarkHi /\ img[Signature + 1] = MarkLo
  <2>1. ASSUME NEW i \in 0..SumEnd PROVE img[i] = plain[i]
    <3>1. i \in Offsets /\ i # Stored /\ i # Stored + 1 /\ ~(i >= Trampoline)
      BY <1>2, Layout, ImagePlaces DEF Offsets
    <3>. QED
      BY <3>1
  <2>2. Signature \in 0..SumEnd /\ Signature + 1 \in 0..SumEnd /\ 0..SumEnd - 1 \subseteq 0..SumEnd
    BY <1>2 DEF Signature
  <2>. HIDE DEF img
  <2>. QED
    BY <1>4, <2>1, <2>2
<1>. HIDE DEF img
<1>9. Checksum(img) = c
  <2>1. Sum(img) = Sum(plain)
    BY <1>3, <1>6, <1>8, SameSum
  <2>. QED
    BY <2>1 DEF Checksum, c
<1>. QED
  BY <1>1, <1>5, <1>6, <1>7, <1>8, <1>9 DEF Signed, Word

(* An image that differs from a valid one in one byte is not valid. *)
LEMMA SeesEveryByte ==
    ASSUME NEW f \in Images, NEW g \in Images, NEW o \in 0..Trampoline - 1,
           Signed(g, Signature), Word(g, Stored) = Checksum(g),
           f[o] # g[o], \A i \in Offsets \ {o} : f[i] = g[i]
    PROVE  ~(Signed(f, Signature) /\ Word(f, Stored) = Checksum(f))
<1>. SUFFICES ASSUME Signed(f, Signature), Word(f, Stored) = Checksum(f) PROVE FALSE
  OBVIOUS
<1>0. SumEnd \in Nat \ {0} /\ 0..SumEnd - 1 \subseteq Offsets /\ o \in Nat
  BY Layout
<1>1. CASE o \in 0..SumEnd - 1
  <2>1. \A i \in 0..SumEnd - 1 : i # o => f[i] = g[i]
    BY <1>0
  <2>2. Checksum(f) # Checksum(g)
    BY <1>1, <2>1, OtherChecksum
  <2>3. Stored # o /\ Stored + 1 # o
    BY <1>0, <1>1, ImagePlaces
  <2>4. Word(f, Stored) = Word(g, Stored)
    BY <2>3, ImagePlaces DEF Word
  <2>. QED
    BY <2>2, <2>4
<1>2. CASE o = SumEnd
  BY <1>2, ImagePlaces DEF Signed
<1>3. CASE o = Stored \/ o = Stored + 1
  <2>1. \A i \in 0..SumEnd - 1 : f[i] = g[i]
    <3>1. ASSUME NEW i \in 0..SumEnd - 1 PROVE i \in Offsets /\ i # o
      BY <1>0, <1>3, ImagePlaces
    <3>. QED
      BY <3>1
  <2>2. Word(f, Stored) = Word(g, Stored)
    BY <2>1, SameSum DEF Checksum
  <2>3. /\ f[Stored] \in Bytes /\ f[Stored + 1] \in Bytes
        /\ g[Stored] \in Bytes /\ g[Stored + 1] \in Bytes
    BY ImagePlaces DEF Images
  <2>4. f[Stored] = g[Stored] /\ f[Stored + 1] = g[Stored + 1]
    <3>1. f[Stored] * Base + f[Stored + 1] = g[Stored] * Base + g[Stored + 1]
      BY <2>2 DEF Word
    <3>2. \A a, b, c, d \in Bytes : a * Base + b = c * Base + d => a = c /\ b = d
      BY Digits, Zenon
    <3>. QED
      BY <2>3, <3>1, <3>2
  <2>. QED
    BY <1>3, <2>4
<1>. QED
  BY <1>0, <1>1, <1>2, <1>3, ImagePlaces

-----------------------------------------------------------------------------
(* The register loop of the emulator *)

(* The subtraction with borrow compares the two addresses. *)
LEMMA Compares ==
    ASSUME NEW h \in Bytes, NEW l \in Bytes, NEW g \in Bytes, NEW k \in Bytes
    PROVE  h >= g + (IF l < k THEN 1 ELSE 0) <=> h * Base + l >= g * Base + k
<1>. DEFINE b == Base
            u == h * b
            v == g * b
<1>0. b \in Nat \ {0} /\ Bytes = 0..b - 1 /\ h \in Nat /\ g \in Nat
  BY Layout DEF Bytes
<1>. HIDE DEF b
<1>1. u \in Nat /\ v \in Nat /\ u = b * h /\ v = b * g
  BY <1>0
<1>2. CASE h = g
  <2>1. u = v
    BY <1>2
  <2>. HIDE DEF u, v
  <2>2. h >= g + (IF l < k THEN 1 ELSE 0) <=> u + l >= v + k
    BY <1>0, <1>1, <1>2, <2>1
  <2>. QED
    BY <2>2 DEF u, v, b
<1>3. CASE g + 1 <= h
  <2>1. b * (g + 1) <= b * h /\ b * (g + 1) = (b * g) + b
    BY <1>0, <1>3, Products
  <2>2. v + b <= u
    BY <1>1, <2>1
  <2>. HIDE DEF u, v
  <2>3. h >= g + (IF l < k THEN 1 ELSE 0) <=> u + l >= v + k
    BY <1>0, <1>1, <1>3, <2>2
  <2>. QED
    BY <2>3 DEF u, v, b
<1>4. CASE h + 1 <= g
  <2>1. b * (h + 1) <= b * g /\ b * (h + 1) = (b * h) + b
    BY <1>0, <1>4, Products
  <2>2. u + b <= v
    BY <1>1, <2>1
  <2>. HIDE DEF u, v
  <2>3. h >= g + (IF l < k THEN 1 ELSE 0) <=> u + l >= v + k
    BY <1>0, <1>1, <1>4, <2>2
  <2>. QED
    BY <2>3 DEF u, v, b
<1>. QED
  BY <1>0, <1>2, <1>3, <1>4

(* The increment with carry counts, below the last address. *)
LEMMA Increments ==
    ASSUME NEW h \in Bytes, NEW l \in Bytes, (h * Base + l) + 1 \in 0..Whole - 1,
           NEW next, next = (l + 1) % Base,
           NEW up, up = IF next = 0 THEN (h + 1) % Base ELSE h
    PROVE  up \in Bytes /\ next \in Bytes /\ up * Base + next = (h * Base + l) + 1
<1>. DEFINE b == Base
            u == h * b
<1>0. b \in Nat \ {0} /\ Bytes = 0..b - 1 /\ h \in Nat /\ l \in Nat /\ Whole = b * b
  BY Layout DEF Bytes, Whole
<1>1. u \in Nat /\ (h + 1) * b = u + b
  BY <1>0
<1>2. CASE l + 1 < b
  <2>1. l + 1 \in 0..b - 1
    BY <1>0, <1>2
  <2>2. next = l + 1 /\ next # 0
    <3>1. (l + 1) % b = l + 1
      BY <1>0, <2>1, Division, Zenon
    <3>. QED
      BY <1>0, <3>1
  <2>3. up = h
    BY <2>2
  <2>. HIDE DEF b
  <2>. QED
    <3>1. u + (l + 1) = (u + l) + 1
      <4>. HIDE DEF u
      <4>. QED
        BY <1>0, <1>1
    <3>. QED
      BY <1>0, <2>1, <2>2, <2>3, <3>1 DEF b
<1>3. CASE l + 1 = b
  <2>1. next = 0
    BY <1>0, <1>3
  <2>2. h + 1 < b
    <3>. SUFFICES ASSUME h + 1 = b PROVE FALSE
      BY <1>0
    <3>1. b * b = u + b
      BY <1>1
    <3>2. (u + l) + 1 \in 0..Whole - 1
      OBVIOUS
    <3>. HIDE DEF u, b
    <3>. QED
      BY <1>0, <1>1, <1>3, <3>1, <3>2
  <2>3. up = h + 1
    <3>1. h + 1 \in 0..b - 1
      BY <1>0, <2>2
    <3>. QED
      BY <1>0, <2>1, <3>1, Division
  <2>4. u + b = (u + l) + 1
    <3>. HIDE DEF u, b
    <3>. QED
      BY <1>0, <1>1, <1>3
  <2>. QED
    BY <1>0, <1>1, <2>1, <2>2, <2>3, <2>4
<1>. QED
  BY <1>0, <1>2, <1>3

-----------------------------------------------------------------------------
(* The verdicts *)

(* While the loop runs, it stands behind the bytes that r4 and r5 hold the  *)
(* sum of; afterwards they hold the sum, and the path is the one decided.   *)
SoFar ==
    \E n \in 0..SumEnd :
        /\ Address = XBase + n
        /\ Holds(register.r4, register.r5, PartialSums(image)[n])

Decided ==
    path = IF Signed(image, Stored) /\ Signed(image, Signature) THEN "marker-wait"
           ELSE IF image[Stored + 1] # Result.lo \/ image[Stored] # Result.hi
                THEN "Checksum Failed"
           ELSE "Checksum Good"

ImageInv ==
    /\ image \in Images /\ built \in {Build(p) : p \in Payloads}
    /\ register \in [r4 : Bytes, r5 : Bytes, r6 : Bytes, r7 : Bytes]
    /\ at \in {"idle", "sum", "done"}
    /\ at = "sum" => SoFar
    /\ at = "done" => Holds(register.r4, register.r5, Sum(image)) /\ Decided

(* The loop ends at the end of the sum. *)
LEMMA EndAddress ==
    /\ End.hi \in Bytes /\ End.lo \in Bytes /\ End.hi * Base + End.lo = XBase + SumEnd
    /\ XBase + SumEnd \in 0..Whole - 1 /\ XBase \in 0..Whole - 1
<1>1. XBase + SumEnd \in 0..Whole - 1 /\ XBase \in 0..Whole - 1
  <2>1. XBase + Size <= Whole
    BY LayoutAssumption DEF Whole
  <2>. QED
    BY <2>1, Layout, Digits
<1>. QED
  BY <1>1, Digits DEF End

LEMMA ReachesEnd ==
    ASSUME register \in [r4 : Bytes, r5 : Bytes, r6 : Bytes, r7 : Bytes]
    PROVE  Reached <=> Address >= XBase + SumEnd
<1>1. register.r6 \in Bytes /\ register.r7 \in Bytes
  OBVIOUS
<1>. QED
  BY <1>1, EndAddress, Compares DEF Reached, Address

LEMMA ImageStart == ImageInit => ImageInv
<1>. SUFFICES ASSUME ImageInit PROVE ImageInv
  OBVIOUS
<1>1. built \in {Build(p) : p \in Payloads} /\ image = built /\ at = "idle"
      /\ register = [r4 |-> 0, r5 |-> 0, r6 |-> 0, r7 |-> 0]
  BY DEF ImageInit
<1>2. image \in Images
  BY <1>1, BuiltImage
<1>3. 0 \in Bytes
  BY Layout DEF Bytes
<1>. QED
  BY <1>1, <1>2, <1>3 DEF ImageInv

LEMMA ImageStep == ImageInv /\ [ImageNext]_imageVars => ImageInv'
<1>. SUFFICES ASSUME ImageInv, [ImageNext]_imageVars PROVE ImageInv'
  OBVIOUS
<1>0. SumEnd \in Nat \ {0} /\ 0 \in Bytes /\ XBase \in Nat /\ Base \in Nat \ {0}
  BY Layout DEF Bytes
<1>1. /\ image \in Images /\ built \in {Build(p) : p \in Payloads}
      /\ register \in [r4 : Bytes, r5 : Bytes, r6 : Bytes, r7 : Bytes]
      /\ at \in {"idle", "sum", "done"}
  BY DEF ImageInv
<1>2. CASE Lose
  <2>1. at = "idle" /\ at' = at /\ built' = built /\ register' = register
    BY <1>2 DEF Lose
  <2>2. image' \in Images
    BY <1>1, <1>2 DEF Lose, Images
  <2>. QED
    BY <1>1, <2>1, <2>2 DEF ImageInv
<1>3. CASE StartSum
  <2>1. /\ at' = "sum" /\ image' = image /\ built' = built
        /\ register' = [r4 |-> 0, r5 |-> 0, r6 |-> XBase \div Base, r7 |-> 0]
    BY <1>3 DEF StartSum
  <2>2. XBase \div Base \in Bytes /\ (XBase \div Base) * Base + 0 = XBase
    <3>1. XBase % Base = 0
      BY LayoutAssumption
    <3>. QED
      BY <3>1, EndAddress, Digits
  <2>3. Holds(0, 0, PartialSums(image)[0])
    <3>1. PartialSums(image)[0] = 0
      BY <1>1, SumFacts
    <3>2. 0 % Whole = 0 /\ 0 * Base + 0 = 0
      BY <1>0, Digits
    <3>. QED
      BY <1>0, <3>1, <3>2 DEF Holds
  <2>4. SoFar'
    <3>1. Address' = XBase + 0 /\ 0 \in 0..SumEnd
      BY <1>0, <2>1, <2>2 DEF Address
    <3>2. Holds(register'.r4, register'.r5, PartialSums(image')[0])
      BY <2>1, <2>3
    <3>. QED
      BY <3>1, <3>2 DEF SoFar, Holds
  <2>. QED
    BY <1>0, <1>1, <2>1, <2>2, <2>4 DEF ImageInv
<1>4. CASE AddNext
  <2>. DEFINE v == image[Address - XBase]
              sum == AddByte(register.r4, register.r5, v)
              next == (register.r7 + 1) % Base
              up == IF next = 0 THEN (register.r6 + 1) % Base ELSE register.r6
  <2>1. /\ at = "sum" /\ at' = "sum" /\ image' = image /\ built' = built /\ ~Reached
        /\ register' = [r4 |-> sum.high, r5 |-> sum.low, r6 |-> up, r7 |-> next]
    BY <1>4 DEF AddNext
  <2>2. PICK n \in 0..SumEnd :
            Address = XBase + n /\ Holds(register.r4, register.r5, PartialSums(image)[n])
    BY <2>1 DEF ImageInv, SoFar
  <2>3. n < SumEnd
    BY <1>0, <1>1, <2>1, <2>2, ReachesEnd
  <2>4. n + 1 \in 1..SumEnd /\ (n + 1) - 1 = n /\ Address - XBase = n /\ n \in 0..SumEnd - 1
    BY <1>0, <2>2, <2>3
  <2>5. v \in Bytes /\ v = image[n]
    BY <1>1, <2>4, Layout DEF Images
  <2>6. PartialSums(image)[n + 1] = PartialSums(image)[n] + v /\ PartialSums(image)[n] \in Nat
    BY <1>1, <2>4, <2>5, SumFacts
  <2>7. Holds(sum.high, sum.low, PartialSums(image)[n + 1])
    <3>. HIDE DEF v
    <3>. QED
      BY <2>2, <2>5, <2>6, AddHolds
  <2>8. up \in Bytes /\ next \in Bytes /\ up * Base + next = Address + 1
    <3>1. register.r6 \in Bytes /\ register.r7 \in Bytes
      BY <1>1
    <3>2. Address + 1 \in 0..Whole - 1
      BY <1>0, <2>2, <2>3, EndAddress, Digits
    <3>3. (register.r6 * Base + register.r7) + 1 \in 0..Whole - 1
      BY <3>2 DEF Address
    <3>4. up \in Bytes /\ next \in Bytes
          /\ up * Base + next = (register.r6 * Base + register.r7) + 1
      BY <3>1, <3>3, Increments
    <3>. QED
      BY <3>4 DEF Address
  <2>. HIDE DEF sum, up, next, v
  <2>9. SoFar'
    <3>1. Address' = XBase + (n + 1) /\ n + 1 \in 0..SumEnd
      BY <1>0, <2>1, <2>2, <2>4, <2>8 DEF Address
    <3>2. Holds(register'.r4, register'.r5, PartialSums(image')[n + 1])
      BY <2>1, <2>7
    <3>. QED
      BY <3>1, <3>2 DEF SoFar, Holds
  <2>10. register' \in [r4 : Bytes, r5 : Bytes, r6 : Bytes, r7 : Bytes]
    BY <2>1, <2>7, <2>8 DEF Holds
  <2>. QED
    BY <1>1, <2>1, <2>9, <2>10 DEF ImageInv
<1>5. CASE StartupValidation
  <2>1. /\ at = "sum" /\ Reached /\ at' = "done" /\ UNCHANGED <<image, built, register>>
    BY <1>5 DEF StartupValidation
  <2>2. PICK n \in 0..SumEnd :
            Address = XBase + n /\ Holds(register.r4, register.r5, PartialSums(image)[n])
    BY <2>1 DEF ImageInv, SoFar
  <2>3. n = SumEnd
    BY <1>0, <1>1, <2>1, <2>2, ReachesEnd
  <2>4. Holds(register'.r4, register'.r5, Sum(image'))
    BY <2>1, <2>2, <2>3 DEF Sum
  <2>5. Decided'
    BY <1>5, <2>1 DEF StartupValidation, Decided, Result, Signed
  <2>6. (at' = "done" => Holds(register.r4, register.r5, Sum(image))' /\ Decided')
    BY <2>4, <2>5 DEF Holds
  <2>. QED
    BY <1>1, <2>1, <2>6 DEF ImageInv
<1>6. CASE UNCHANGED imageVars
  BY <1>6 DEF imageVars, ImageInv, SoFar, Decided, Address, Result, Signed, Holds
<1>. QED
  BY <1>2, <1>3, <1>4, <1>5, <1>6 DEF ImageNext

(* The register loop of the emulator (checksum_037c) and the independent    *)
(* transcription compute the builder's checksum, the emulator and the uCsim *)
(* runner judge an image alike, the emulated start-up check accepts what    *)
(* validate accepts, and validate sees every single lost byte: for any      *)
(* base, layout, payload and any number of bytes lost before the check.     *)
THEOREM VerdictsAreOne == Spec => []VerdictsAgree
<1>1. Init => ImageInv
  BY ImageStart DEF Init
<1>2. ImageInv /\ [Next]_benchVars => ImageInv'
  BY ImageStep DEF Next, benchVars
<1>3. ImageInv => VerdictsAgree
  <2>. SUFFICES ASSUME ImageInv, at = "done" PROVE
            /\ Result.hi * Base + Result.lo = Checksum(image)
            /\ ComplementedSum(image) = Checksum(image)
            /\ path = ProjectedPath(image)
            /\ Validate(image) = {} => path # "Checksum Failed"
            /\ OneByteLost => Validate(image) # {}
    BY DEF VerdictsAgree
  <2>1. image \in Images /\ Holds(register.r4, register.r5, Sum(image)) /\ Decided
    BY DEF ImageInv
  <2>2. /\ Result.hi \in Bytes /\ Result.lo \in Bytes
        /\ Result.hi * Base + Result.lo = Checksum(image)
    BY <2>1, HeldChecksum DEF Result
  <2>3. ComplementedSum(image) = Checksum(image)
    BY <2>1, TranscriptionAgrees
  <2>4. Word(image, Stored) = Checksum(image)
          <=> image[Stored] = Result.hi /\ image[Stored + 1] = Result.lo
    <3>1. image[Stored] \in Bytes /\ image[Stored + 1] \in Bytes
      BY <2>1, ImagePlaces DEF Images
    <3>2. \A a, b, c, d \in Bytes : a * Base + b = c * Base + d => a = c /\ b = d
      BY Digits, Zenon
    <3>. QED
      BY <2>2, <3>1, <3>2 DEF Word
  <2>5. path = ProjectedPath(image)
    BY <2>1, <2>4 DEF Decided, ProjectedPath, Checksum
  <2>6. Validate(image) = {} <=> Signed(image, Signature) /\ Word(image, Stored) = Checksum(image)
    BY DEF Validate
  <2>7. Validate(image) = {} => path # "Checksum Failed"
    BY <2>1, <2>4, <2>6 DEF Decided
  <2>8. OneByteLost => Validate(image) # {}
    <3>. SUFFICES ASSUME NEW o \in 0..Trampoline - 1, image[o] # built[o],
                         \A i \in Offsets \ {o} : image[i] = built[i]
                  PROVE  Validate(image) # {}
      BY DEF OneByteLost
    <3>1. built \in Images /\ Signed(built, Signature) /\ Word(built, Stored) = Checksum(built)
      BY BuiltImage DEF ImageInv
    <3>. QED
      BY <2>1, <2>6, <3>1, SeesEveryByte
  <2>. QED
    BY <2>2, <2>3, <2>5, <2>7, <2>8
<1>. QED
  BY <1>1, <1>2, <1>3, PTL DEF Spec
=============================================================================
