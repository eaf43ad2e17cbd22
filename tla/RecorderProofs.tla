--------------------------- MODULE RecorderProofs ---------------------------
(***************************************************************************)
(* Proofs about the recorder, for every number of tracks, every ring,      *)
(* block and segment size, and every schedule.  Five parts: the invariant  *)
(* and what follows from it at once; what the WAV files hold whatever      *)
(* fails (frames in order, tracks of the same length); how a recording     *)
(* ends (what stays behind in the ring, which files stay open, whether     *)
(* status file and exit status tell the same story); that it takes only    *)
(* steps of RecorderProcess, the fairness of that left to model checking;  *)
(* and that its files, joined, are a CaptureStream.                        *)
(***************************************************************************)
EXTENDS RecorderStatusRefinement, RecorderRefinement, SequenceTheorems,
        WellFoundedInduction, TLAPS

(* How the counters of ring, block and disk are ordered, and what the      *)
(* writer has opened at each point of its program.                         *)
Counters ==
  /\ written <= taken /\ taken <= drained /\ drained <= accepted
  /\ pc # "append" => taken = drained
  /\ pc = "begin" => Current = 0 /\ ~next.open /\ written = 0
  /\ pc \notin {"begin", "done"} => Current > 0
  /\ retired => Current > 1
  /\ next.open => next = FreshSegment(Current * SegmentFrames)

(* The inductive invariant.                                                *)
IInv == TypeOK /\ Counters /\ Tiled /\ WrittenOnDisk /\ ExactRecording

-----------------------------------------------------------------------------
(* The next segment starts where a full one ends.                          *)
LEMMA NextStart ==
  ASSUME NEW n \in Nat, NEW f \in Nat
  PROVE  /\ n * f \in Nat
         /\ n # 0 => (n - 1) * f + f = n * f /\ (n - 1) * f \in Nat
  BY SMT

(* A fresh segment is well formed and, with no frames, exact.              *)
LEMMA FreshSegmentExact ==
  ASSUME NEW start \in Nat
  PROVE  /\ FreshSegment(start) \in Segment
         /\ Exact(FreshSegment(start))
         /\ FreshSegment(start).count = 0
         /\ FreshSegment(start).start = start
         /\ FreshSegment(start).open
  BY DEF FreshSegment, Segment, Exact

(* Two sequences of segments that differ only in open and finalized.       *)
SameFrames(s, r) ==
  /\ s \in Seq(Segment) /\ r \in Seq(Segment)
  /\ Len(s) = Len(r)
  /\ \A i \in 1..Len(s) : /\ s[i].start = r[i].start
                          /\ s[i].count = r[i].count
                          /\ s[i].data = r[i].data

LEMMA FinishedKeepsFrames ==
  ASSUME NEW s \in Segment, NEW f \in BOOLEAN, NEW ok \in BOOLEAN
  PROVE  /\ Finished(s, f, ok) \in Segment
         /\ Finished(s, f, ok).start = s.start
         /\ Finished(s, f, ok).count = s.count
         /\ Finished(s, f, ok).data = s.data
  BY DEF Finished, Segment

LEMMA CloseRetiredKeepsFrames ==
  ASSUME segments \in Seq(Segment), retired => Current > 1, NEW ok \in BOOLEAN
  PROVE  SameFrames(CloseRetired(ok), segments)
<1>1. CASE ~retired
  BY <1>1 DEF CloseRetired, SameFrames
<1>2. CASE retired
  <2>. DEFINE j == Current - 1
  <2>1. j \in 1..Len(segments) /\ segments[j] \in Segment
    BY <1>2 DEF Current
  <2>. DEFINE f == Finished(segments[j], TRUE, ok)
  <2>2. CloseRetired(ok) = [segments EXCEPT ![j] = f]
    BY <1>2 DEF CloseRetired
  <2>3. /\ f \in Segment /\ f.start = segments[j].start
        /\ f.count = segments[j].count /\ f.data = segments[j].data
    BY <2>1, FinishedKeepsFrames
  <2>. HIDE DEF f, j
  <2>4. /\ [segments EXCEPT ![j] = f] \in Seq(Segment)
        /\ Len([segments EXCEPT ![j] = f]) = Len(segments)
    BY <2>1, <2>3
  <2>5. \A i \in 1..Len(segments) : [segments EXCEPT ![j] = f][i] = IF i = j THEN f ELSE segments[i]
    BY <2>1
  <2>. QED
    BY <2>2, <2>3, <2>4, <2>5 DEF SameFrames
<1>. QED
  BY <1>1, <1>2

(* Closing segments disturbs neither the tiling nor the recorded frames.   *)
LEMMA ClosingKeepsInvariant ==
  ASSUME Tiled, WrittenOnDisk, ExactRecording, SameFrames(segments', segments),
         written' = written, taken' \in Nat, taken \in Nat, written \in Nat,
         taken <= taken',
         next'.open => next'.start = Current * SegmentFrames
  PROVE  Tiled' /\ WrittenOnDisk' /\ ExactRecording'
<1>1. Current' = Current
  BY DEF SameFrames, Current
<1>2. Tiled'
  BY <1>1 DEF Tiled, SameFrames, Current
<1>3. WrittenOnDisk'
  BY <1>1, SMT DEF WrittenOnDisk, OnDisk, SameFrames, Current
<1>4. ExactRecording'
  BY <1>1 DEF ExactRecording, SameFrames, Exact, Current
<1>. QED
  BY <1>2, <1>3, <1>4

-----------------------------------------------------------------------------
LEMMA InitIInv == Init => IInv
<1>. SUFFICES ASSUME Init PROVE IInv
  OBVIOUS
<1>. USE DEF Init
<1>1. TypeOK
  <2>1. status \in [state : StatusStates, frames : Nat]
    BY DEF NoStatus, StatusStates
  <2>2. segments \in Seq(Segment)
    OBVIOUS
  <2>. QED
    BY <2>1, <2>2 DEF TypeOK, Reasons, None
<1>2. Counters
  BY DEF Counters, Current, NoSegment
<1>3. Tiled /\ WrittenOnDisk /\ ExactRecording
  BY DEF Tiled, WrittenOnDisk, ExactRecording, OnDisk, Current, NoSegment
<1>. QED
  BY <1>1, <1>2, <1>3 DEF IInv

(* Steps that leave the files alone: the callback, the signals, main, the  *)
(* volume, and the writer between two blocks.                              *)
QuietStep ==
  \/ Callback \/ Stop \/ DiskLostStop \/ MainExit \/ VolumeLost \/ SpaceChanges
  \/ WriterDrain \/ PromoteLost \/ PromoteRefused
  \/ WriterCheck \/ WriterLeave \/ WriterReport

LEMMA ReportType ==
  ASSUME status \in [state : StatusStates, frames : Nat], NEW s \in StatusStates,
         NEW n \in Nat, Report(s, n)
  PROVE  status' \in [state : StatusStates, frames : Nat]
<1>1. CASE volume = "gone"
  BY <1>1 DEF Report
<1>2. CASE volume # "gone"
  <2>1. PICK ok \in Outcomes : status' = IF ok THEN [state |-> s, frames |-> n] ELSE status
    BY <1>2, Zenon DEF Report
  <2>. QED
    BY <2>1
<1>. QED
  BY <1>1, <1>2

LEMMA ReasonType ==
  ASSUME stopReason \in Reasons, NEW r \in {Clean, Full, Failure, DiskLost}, SetReason(r)
  PROVE  stopReason' \in Reasons
  BY DEF SetReason, Reasons

LEMMA QuietTypeOK == TypeOK /\ QuietStep => TypeOK'
<1>. SUFFICES ASSUME TypeOK, QuietStep PROVE TypeOK'
  OBVIOUS
<1>. USE RecorderAssumption DEF TypeOK, Alive, flags, ring, files, env
<1>1. CASE CallbackEnter
  BY <1>1 DEF CallbackEnter
<1>2. CASE CallbackCopy
  BY <1>2 DEF CallbackCopy
<1>3. CASE CallbackOverflow
  <2>1. dropped' \in Nat
    BY <1>3, dropped \in Nat, callback \in Nat DEF CallbackOverflow
  <2>2. stopReason' \in Reasons
    BY <1>3, ReasonType DEF CallbackOverflow
  <2>3. /\ running' = FALSE /\ callback' = 0
        /\ UNCHANGED <<ioFailure, accepted, drained, taken, written, pc,
                        finalize, segments, next, retired, status, exit,
                        volume, space>>
    BY <1>3 DEF CallbackOverflow
  <2>. QED
    BY ZenonT(60), <2>1, <2>2, <2>3
<1>4. CASE Stop
  <2>1. stopReason' \in Reasons
    BY <1>4, ReasonType DEF Stop
  <2>. QED
    BY ZenonT(60), <1>4, <2>1 DEF Stop
<1>5. CASE DiskLostStop
  <2>1. stopReason' \in Reasons
    BY <1>5 DEF DiskLostStop, Reasons
  <2>. QED
    BY ZenonT(60), <1>5, <2>1 DEF DiskLostStop
<1>6. CASE MainExit
  BY <1>6 DEF MainExit
<1>7. CASE VolumeLost
  BY <1>7 DEF VolumeLost
<1>8. CASE SpaceChanges
  BY <1>8 DEF SpaceChanges
<1>9. CASE WriterDrain
  BY <1>9 DEF WriterDrain, Least
<1>10. CASE PromoteLost
  <2>1. stopReason' \in Reasons
    BY <1>10, ReasonType DEF PromoteLost
  <2>. QED
    BY <1>10, <2>1 DEF PromoteLost, GiveUp
<1>11. CASE PromoteRefused
  <2>1. stopReason' \in Reasons
    BY <1>11, ReasonType DEF PromoteRefused
  <2>. QED
    BY <1>11, <2>1 DEF PromoteRefused, GiveUp
<1>12. CASE WriterCheck
  <2>1. status' \in [state : StatusStates, frames : Nat]
    BY <1>12, ReportType DEF WriterCheck, StatusStates
  <2>2. stopReason' \in Reasons /\ running' \in BOOLEAN
    BY <1>12, ReasonType DEF WriterCheck
  <2>. QED
    BY <1>12, <2>1, <2>2 DEF WriterCheck
<1>13. CASE WriterLeave
  BY <1>13 DEF WriterLeave
<1>14. CASE WriterReport
  <2>1. FinalState \in StatusStates
    BY DEF FinalState, StatusStates
  <2>2. status' \in [state : StatusStates, frames : Nat]
    BY <1>14, <2>1, ReportType DEF WriterReport
  <2>. QED
    BY <1>14, <2>2 DEF WriterReport
<1>. QED
  BY <1>1, <1>2, <1>3, <1>4, <1>5, <1>6, <1>7, <1>8, <1>9, <1>10, <1>11, <1>12,
     <1>13, <1>14 DEF QuietStep, Callback

(* Quiet steps keep the invariant: the counters move in order, and frames  *)
(* given up only widen the gap between written and taken.                  *)
LEMMA QuietIInv == IInv /\ QuietStep => IInv'
<1>. SUFFICES ASSUME IInv, QuietStep PROVE IInv'
  OBVIOUS
<1>. USE DEF IInv, flags, ring, files, env
<1>1. TypeOK'
  BY QuietTypeOK
<1>2. UNCHANGED <<segments, next, retired, written>> /\ taken' \in {taken, drained}
  BY DEF QuietStep, Callback, CallbackEnter, CallbackCopy, CallbackOverflow,
         Stop, DiskLostStop, MainExit, VolumeLost, SpaceChanges, WriterDrain,
         PromoteLost, PromoteRefused, GiveUp, WriterCheck, WriterLeave,
         WriterReport
<1>3. /\ written' <= taken' /\ taken' <= drained' /\ drained' <= accepted'
      /\ pc' # "append" => taken' = drained'
  <2>0. /\ written \in Nat /\ taken \in Nat /\ drained \in Nat /\ accepted \in Nat
        /\ written <= taken /\ taken <= drained /\ drained <= accepted
        /\ callback \in Nat /\ MaxBlock \in Nat
        /\ pc # "append" => taken = drained
    BY RecorderAssumption DEF TypeOK, Counters
  <2>. HIDE DEF IInv
  <2>1. CASE WriterDrain
    BY <2>0, <2>1 DEF WriterDrain, Least
  <2>2. CASE CallbackCopy
    BY <2>0, <2>2 DEF CallbackCopy
  <2>3. CASE PromoteLost
    BY <2>0, <2>3 DEF PromoteLost, GiveUp
  <2>4. CASE PromoteRefused
    BY <2>0, <2>4 DEF PromoteRefused, GiveUp
  <2>5. CASE WriterCheck
    BY <2>0, <2>5 DEF WriterCheck
  <2>6. CASE WriterLeave \/ WriterReport
    BY <2>0, <2>6 DEF WriterLeave, WriterReport
  <2>7. CASE \/ CallbackEnter \/ CallbackOverflow \/ Stop \/ DiskLostStop
             \/ MainExit \/ VolumeLost \/ SpaceChanges
    BY <2>0, <2>7 DEF CallbackEnter, CallbackOverflow, Stop, DiskLostStop,
                      MainExit, VolumeLost, SpaceChanges
  <2>. QED
    BY <2>1, <2>2, <2>3, <2>4, <2>5, <2>6, <2>7 DEF QuietStep, Callback
<1>4. /\ pc' = "begin" => pc = "begin"
      /\ pc' \notin {"begin", "done"} => pc \notin {"begin", "done"}
  BY DEF QuietStep, Callback, CallbackEnter, CallbackCopy, CallbackOverflow,
         Stop, DiskLostStop, MainExit, VolumeLost, SpaceChanges, WriterDrain,
         PromoteLost, PromoteRefused, GiveUp, WriterCheck, WriterLeave,
         WriterReport
<1>5. Counters'
  BY <1>2, <1>3, <1>4 DEF Counters, Current, FreshSegment
<1>6. Tiled' /\ WrittenOnDisk' /\ ExactRecording'
  <2>1. SameFrames(segments', segments)
    BY <1>2 DEF SameFrames, TypeOK
  <2>2. taken \in Nat /\ taken' \in Nat /\ written \in Nat /\ taken <= taken'
    BY <1>2 DEF TypeOK, Counters
  <2>3. next'.open => next'.start = Current * SegmentFrames
    BY <1>2 DEF Tiled
  <2>. QED
    BY <1>2, <2>1, <2>2, <2>3, ClosingKeepsInvariant
<1>. QED
  BY <1>1, <1>5, <1>6

-----------------------------------------------------------------------------
(* Steps that close segments and perhaps stage the next one.               *)
ClosingStep ==
  \/ PromoteFails \/ AppendDone \/ AppendDoneRetireFails
  \/ AppendDonePrepareFails \/ WriterFinish

(* What such a step does to the files.                                     *)
LEMMA ClosingFiles ==
  ASSUME IInv, ClosingStep
  PROVE  /\ SameFrames(segments', segments)
         /\ retired' = FALSE
         /\ next' \in {next, NoSegment, FreshSegment(Current * SegmentFrames)}
         /\ written' = written /\ taken' \in {taken, drained}
<1>. USE DEF IInv, flags, ring, files, env
<1>1. segments \in Seq(Segment) /\ (retired => Current > 1)
  BY DEF TypeOK, Counters
<1>2. \A ok \in BOOLEAN : SameFrames(CloseRetired(ok), segments)
  BY <1>1, CloseRetiredKeepsFrames
<1>3. CASE PromoteFails
  BY <1>2, <1>3 DEF PromoteFails, GiveUp
<1>4. CASE AppendDone
  <2>1. WantsNext => segments[Current].start + SegmentFrames = Current * SegmentFrames
    <3>1. Current \in Nat \ {0} /\ segments[Current].start = (Current - 1) * SegmentFrames
      BY <1>1, <1>4 DEF AppendDone, Counters, Tiled, Current
    <3>. QED
      BY <3>1, NextStart, RecorderAssumption
  <2>. QED
    BY <1>2, <1>4, <2>1 DEF AppendDone
<1>5. CASE AppendDoneRetireFails
  BY <1>2, <1>5 DEF AppendDoneRetireFails
<1>6. CASE AppendDonePrepareFails
  BY <1>2, <1>6 DEF AppendDonePrepareFails
<1>7. CASE WriterFinish
  <2>1. PICK closed \in BOOLEAN, last \in BOOLEAN :
          segments' = [CloseRetired(closed) EXCEPT ![Current] = Finished(@, finalize, last)]
    BY <1>7 DEF WriterFinish, Outcomes
  <2>. DEFINE kept == CloseRetired(closed)
              f == Finished(kept[Current], finalize, last)
  <2>2. SameFrames(kept, segments) /\ Current \in 1..Len(kept)
    BY <1>1, <1>2, <1>7 DEF WriterFinish, Counters, SameFrames, Current
  <2>3. kept \in Seq(Segment) /\ kept[Current] \in Segment /\ finalize \in BOOLEAN
    BY <2>2 DEF SameFrames, TypeOK
  <2>5. segments' = [kept EXCEPT ![Current] = f]
    BY <2>1
  <2>. HIDE DEF kept
  <2>4. /\ f \in Segment /\ f.start = kept[Current].start
        /\ f.count = kept[Current].count /\ f.data = kept[Current].data
    BY Zenon, <2>3, FinishedKeepsFrames
  <2>. HIDE DEF f
  <2>6. /\ segments' \in Seq(Segment) /\ Len(segments') = Len(kept)
        /\ \A i \in 1..Len(kept) : segments'[i] = IF i = Current THEN f ELSE kept[i]
    BY <2>2, <2>3, <2>4, <2>5
  <2>7. SameFrames(segments', segments)
    BY <2>2, <2>4, <2>6 DEF SameFrames
  <2>. QED
    BY <1>7, <2>7 DEF WriterFinish
<1>. QED
  BY <1>3, <1>4, <1>5, <1>6, <1>7 DEF ClosingStep

LEMMA ClosingTypeOK ==
  ASSUME IInv, ClosingStep
  PROVE  TypeOK'
<1>. USE DEF flags, ring, files, env
<1>1. /\ segments' \in Seq(Segment) /\ retired' \in BOOLEAN
      /\ taken' \in Nat /\ written' \in Nat
  BY ClosingFiles DEF SameFrames, IInv, TypeOK
<1>2. next' = NoSegment \/ next' \in Segment
  <2>1. Current * SegmentFrames \in Nat
    BY NextStart, RecorderAssumption DEF Current, IInv, TypeOK
  <2>. QED
    BY <2>1, ClosingFiles, FreshSegmentExact DEF IInv, TypeOK
<1>3. /\ running' \in BOOLEAN /\ stopReason' \in Reasons /\ ioFailure' \in BOOLEAN
  <2>. USE DEF IInv, TypeOK, SetReason, GiveUp, Reasons, None, Clean, Full, Failure, DiskLost
  <2>1. CASE PromoteFails
    BY <2>1 DEF PromoteFails
  <2>2. CASE AppendDone
    BY <2>2 DEF AppendDone
  <2>3. CASE AppendDoneRetireFails
    BY <2>3 DEF AppendDoneRetireFails
  <2>4. CASE AppendDonePrepareFails
    BY <2>4 DEF AppendDonePrepareFails
  <2>5. CASE WriterFinish
    <3>1. ioFailure' \in BOOLEAN
      BY <2>5, Zenon DEF WriterFinish
    <3>. QED
      BY <2>5, <3>1 DEF WriterFinish
  <2>. QED
    BY <2>1, <2>2, <2>3, <2>4, <2>5 DEF ClosingStep
<1>4. /\ UNCHANGED <<dropped, callback, accepted, drained, finalize, status, exit,
                     volume, space>>
      /\ pc' \in {"check", "report"}
  BY DEF ClosingStep, PromoteFails, AppendDone, AppendDoneRetireFails,
         AppendDonePrepareFails, WriterFinish, GiveUp
<1>. QED
  BY <1>1, <1>2, <1>3, <1>4 DEF IInv, TypeOK

LEMMA ClosingIInv == IInv /\ ClosingStep => IInv'
<1>. SUFFICES ASSUME IInv, ClosingStep PROVE IInv'
  OBVIOUS
<1>. USE DEF flags, ring, files, env
<1>0. /\ SameFrames(segments', segments)
      /\ retired' = FALSE
      /\ next' \in {next, NoSegment, FreshSegment(Current * SegmentFrames)}
      /\ written' = written /\ taken' \in {taken, drained}
  BY ClosingFiles
<1>1. TypeOK'
  BY ClosingTypeOK
<1>2. Current' = Current /\ Current > 0
  BY <1>0 DEF SameFrames, Current, ClosingStep, PromoteFails, AppendDone,
     AppendDoneRetireFails, AppendDonePrepareFails, WriterFinish, IInv, Counters
<1>3. /\ drained' = drained /\ accepted' = accepted
      /\ taken' = drained' /\ pc' \in {"check", "report"}
  BY DEF ClosingStep, PromoteFails, AppendDone, AppendDoneRetireFails,
         AppendDonePrepareFails, WriterFinish, GiveUp, IInv, Counters
<1>4. next'.open => next' = FreshSegment(Current * SegmentFrames)
  BY <1>0 DEF IInv, Counters, NoSegment
<1>5. Counters'
  <2>1. taken' \in Nat /\ written' = written /\ written' <= taken' /\ drained <= accepted
    BY <1>3, <1>0 DEF IInv, Counters, TypeOK
  <2>. QED
    BY <1>2, <1>3, <1>4, <2>1, <1>0 DEF Counters, Current
<1>6. Tiled' /\ WrittenOnDisk' /\ ExactRecording'
  <2>1. taken \in Nat /\ taken' \in Nat /\ written \in Nat /\ taken <= taken'
    BY <1>0 DEF IInv, TypeOK, Counters
  <2>2. Current * SegmentFrames \in Nat
    BY NextStart, RecorderAssumption, <1>2 DEF Current, IInv, TypeOK
  <2>3. next'.open => next'.start = Current * SegmentFrames
    BY <1>4, <2>2, FreshSegmentExact
  <2>. QED
    BY <2>1, <2>3, <1>0, ClosingKeepsInvariant DEF IInv
<1>. QED
  BY <1>1, <1>5, <1>6 DEF IInv

-----------------------------------------------------------------------------
(* The writer's first step: one fresh segment, or none.                    *)
BeginStep == WriterBegin \/ WriterBeginFails

LEMMA BeginIInv == IInv /\ BeginStep => IInv'
<1>. SUFFICES ASSUME IInv, BeginStep PROVE IInv'
  OBVIOUS
<1>. USE DEF flags, ring, files, env
<1>1. TypeOK /\ pc = "begin" /\ written = 0 /\ Current = 0 /\ ~next.open
      /\ ~retired /\ taken = drained
  <2>1. pc = "begin"
    BY DEF BeginStep, WriterBegin, WriterBeginFails
  <2>. QED
    BY <2>1 DEF IInv, Counters
<1>2. /\ UNCHANGED <<accepted, drained, taken, written, retired, callback, dropped, finalize, exit,
                     volume, space>>
      /\ pc' \in {"loop", "done"}
  BY DEF BeginStep, WriterBegin, WriterBeginFails
<1>3. /\ segments' = << >> \/ segments' = <<FreshSegment(0)>>
      /\ pc' = "loop" => segments' = <<FreshSegment(0)>>
  BY DEF BeginStep, WriterBegin, WriterBeginFails
<1>4. next' \in {next, NoSegment, FreshSegment(SegmentFrames)}
      /\ (next' # next => segments' = <<FreshSegment(0)>>)
  BY DEF BeginStep, WriterBegin, WriterBeginFails
<1>5. /\ FreshSegment(0) \in Segment /\ FreshSegment(SegmentFrames) \in Segment
      /\ FreshSegment(0).start = 0 /\ FreshSegment(0).count = 0 /\ Exact(FreshSegment(0))
      /\ FreshSegment(SegmentFrames).start = SegmentFrames
  BY FreshSegmentExact, RecorderAssumption
<1>6. /\ segments' \in Seq(Segment) /\ Current' \in {0, 1}
      /\ Current' = 1 => segments'[1] = FreshSegment(0)
      /\ segments' = <<FreshSegment(0)>> => Current' = 1
  <2>1. CASE segments' = << >>
    BY <2>1 DEF Current
  <2>2. CASE segments' = <<FreshSegment(0)>>
    BY <1>5, <2>2 DEF Current
  <2>. QED
    BY <1>3, <2>1, <2>2
<1>7. TypeOK'
  <2>1. /\ running' \in BOOLEAN /\ stopReason' \in Reasons /\ ioFailure' \in BOOLEAN
    BY <1>1 DEF BeginStep, WriterBegin, WriterBeginFails, SetReason, TypeOK, Reasons, None,
       Clean, Full, Failure, DiskLost
  <2>2. status' \in [state : StatusStates, frames : Nat]
    BY <1>1, ReportType DEF BeginStep, WriterBegin, WriterBeginFails, TypeOK, StatusStates
  <2>3. next' = NoSegment \/ next' \in Segment
    BY <1>1, <1>4, <1>5 DEF TypeOK
  <2>. QED
    BY <1>1, <1>2, <1>6, <2>1, <2>2, <2>3 DEF TypeOK
<1>8. next'.open => next' = FreshSegment(SegmentFrames) /\ Current' = 1
  BY <1>1, <1>4, <1>6 DEF NoSegment
<1>9. Counters'
  <2>1. 1 * SegmentFrames = SegmentFrames
    BY RecorderAssumption
  <2>2. written' <= taken' /\ taken' <= drained' /\ drained' <= accepted' /\ taken' = drained'
    BY <1>1, <1>2 DEF IInv, Counters
  <2>3. pc' = "loop" => Current' = 1
    BY <1>3, <1>6
  <2>4. next'.open => next' = FreshSegment(Current' * SegmentFrames)
    BY <1>8, <2>1
  <2>5. ~retired'
    BY <1>1, <1>2
  <2>. HIDE DEF Current
  <2>6. /\ pc' # "begin"
        /\ pc' \notin {"begin", "done"} => Current' > 0
    BY <1>2, <2>3
  <2>. QED
    BY <2>2, <2>4, <2>5, <2>6 DEF Counters, FreshSegment
<1>10. Tiled'
  <2>1. next'.open => next'.start = 1 * SegmentFrames /\ Current' = 1
    BY <1>5, <1>8, RecorderAssumption
  <2>2. ASSUME NEW i \in 1..Current'
        PROVE  i = 1 /\ Current' = 1 /\ segments'[i] = FreshSegment(0)
    BY <1>6
  <2>. QED
    BY <1>5, <2>1, <2>2, RecorderAssumption DEF Tiled
<1>11. WrittenOnDisk' /\ ExactRecording'
  BY SMTT(20), <1>1, <1>2, <1>5, <1>6, RecorderAssumption DEF WrittenOnDisk, OnDisk, ExactRecording, TypeOK, IInv, Counters
<1>. QED
  BY <1>7, <1>9, <1>10, <1>11 DEF IInv

-----------------------------------------------------------------------------
(* Rotation: the staged segment is empty and starts where the full one     *)
(* ends.                                                                   *)
LEMMA PromoteIInv == IInv /\ Promote => IInv'
<1>. SUFFICES ASSUME IInv, Promote PROVE IInv'
  OBVIOUS
<1>. USE DEF flags, ring, files, env
<1>. DEFINE kept == CloseRetired(TRUE)
<1>1. /\ TypeOK /\ pc = "append" /\ Current > 0 /\ Current \in Nat
      /\ segments[Current].count = SegmentFrames
      /\ next.open /\ next = FreshSegment(Current * SegmentFrames)
      /\ next' = NoSegment /\ retired' = TRUE
      /\ UNCHANGED <<flags, ring, drained, taken, written, pc, finalize, status, exit, env>>
  BY DEF IInv, Promote, Counters, CurrentFull, TypeOK, Current
<1>2. SameFrames(kept, segments)
  BY <1>1, CloseRetiredKeepsFrames DEF IInv, TypeOK, Counters
<1>3. segments' = Append(kept, next)
  BY DEF Promote
<1>. HIDE DEF kept
<1>4. Current * SegmentFrames \in Nat /\ Current * SegmentFrames = (Current - 1) * SegmentFrames + SegmentFrames
  BY <1>1, NextStart, RecorderAssumption
<1>5. /\ next \in Segment /\ Exact(next) /\ next.count = 0
      /\ next.start = Current * SegmentFrames
  BY <1>1, <1>4, FreshSegmentExact
<1>6. /\ segments' \in Seq(Segment) /\ Current' = Current + 1
      /\ \A i \in 1..Current : segments'[i] = kept[i]
      /\ segments'[Current + 1] = next
  BY <1>2, <1>3, <1>5 DEF SameFrames, Current
<1>7. \A i \in 1..Current : /\ segments'[i].start = segments[i].start
                            /\ segments'[i].count = segments[i].count
                            /\ segments'[i].data = segments[i].data
  BY <1>2, <1>6 DEF SameFrames, Current
<1>8. TypeOK'
  BY <1>1, <1>6 DEF TypeOK
<1>9. Counters'
  BY <1>1, <1>6 DEF IInv, Counters, NoSegment
<1>10. Tiled'
  <2>1. ASSUME NEW i \in 1..Current'
        PROVE  /\ segments'[i].start = (i - 1) * SegmentFrames
               /\ segments'[i].count <= SegmentFrames
               /\ i < Current' => segments'[i].count = SegmentFrames
    <3>1. CASE i = Current + 1
      BY <1>1, <1>5, <1>6, <3>1, RecorderAssumption
    <3>2. CASE i \in 1..Current
      <4>1. /\ segments[i].start = (i - 1) * SegmentFrames
            /\ i # Current => segments[i].count = SegmentFrames
        BY <1>1, <3>2 DEF IInv, Tiled
      <4>2. segments[i].count = SegmentFrames
        BY <1>1, <4>1
      <4>. QED
        BY <1>7, <3>2, <4>1, <4>2, RecorderAssumption
    <3>. QED
      BY <1>1, <1>6, <3>1, <3>2
  <2>. QED
    BY <1>1, <2>1 DEF Tiled, NoSegment
<1>11. WrittenOnDisk'
  <2>1. OnDisk = (Current - 1) * SegmentFrames + SegmentFrames /\ written = OnDisk
    BY <1>1 DEF IInv, WrittenOnDisk, OnDisk
  <2>2. OnDisk' = Current * SegmentFrames
    BY <1>1, <1>4, <1>5, <1>6 DEF OnDisk
  <2>. QED
    BY <1>1, <1>4, <2>1, <2>2 DEF WrittenOnDisk
<1>12. ExactRecording'
  <2>1. ASSUME written = taken, NEW i \in 1..Current'
        PROVE  Exact(segments'[i])
    <3>1. CASE i = Current + 1
      BY <1>5, <1>6, <3>1
    <3>2. CASE i \in 1..Current
      BY <1>7, <2>1, <3>2 DEF IInv, ExactRecording, Exact
    <3>. QED
      BY <1>1, <1>6, <3>1, <3>2
  <2>. QED
    BY <1>1, <2>1 DEF IInv, ExactRecording
<1>. QED
  BY <1>8, <1>9, <1>10, <1>11, <1>12 DEF IInv

-----------------------------------------------------------------------------
(* A run of frame numbers continued by the run that follows it.            *)
LEMMA ConcatRun ==
  ASSUME NEW a \in Nat, NEW m \in Nat, NEW n \in Nat
  PROVE  [k \in 1..m |-> a + k] \o [i \in 1..n |-> (a + m) + i]
           = [k \in 1..(m + n) |-> a + k]
<1>. DEFINE p == [k \in 1..m |-> a + k]
            q == [i \in 1..n |-> (a + m) + i]
            r == [k \in 1..(m + n) |-> a + k]
<1>1. p \in Seq(Nat) /\ q \in Seq(Nat) /\ r \in Seq(Nat)
      /\ Len(p) = m /\ Len(q) = n /\ Len(r) = m + n
  OBVIOUS
<1>2. \A k \in 1..(m + n) : (p \o q)[k] = r[k]
  <2>. TAKE k \in 1..(m + n)
  <2>1. CASE k <= m
    BY <1>1, <2>1
  <2>2. CASE k > m
    BY <1>1, <2>2
  <2>. QED
    BY <2>1, <2>2
<1>3. p \o q \in Seq(Nat) /\ Len(p \o q) = m + n
  BY <1>1
<1>. QED
  BY <1>1, <1>2, <1>3

(* What segment_write has to work with.                                    *)
LEMMA WriteFacts ==
  ASSUME IInv, pc = "append", taken < drained, ~CurrentFull
  PROVE  /\ Current \in Nat /\ Current > 0 /\ Current \in 1..Len(segments)
         /\ segments \in Seq(Segment) /\ segments[Current] \in Segment
         /\ segments[Current].count \in Nat
         /\ segments[Current].start \in Nat
         /\ Take \in Nat /\ Take > 0 /\ Take <= drained - taken
         /\ segments[Current].count + Take <= SegmentFrames
         /\ taken \in Nat /\ drained \in Nat /\ written \in Nat
         /\ written <= taken
<1>1. /\ Current \in Nat /\ Current > 0 /\ Current \in 1..Len(segments)
      /\ segments \in Seq(Segment)
  BY DEF IInv, TypeOK, Counters, Current
<1>2. segments[Current] \in Segment
  BY <1>1
<1>3. segments[Current].count \in Nat /\ segments[Current].start \in Nat
  BY <1>2 DEF Segment
<1>4. segments[Current].count <= SegmentFrames /\ segments[Current].count # SegmentFrames
  BY <1>1 DEF IInv, Tiled, CurrentFull
<1>5. taken \in Nat /\ drained \in Nat /\ written \in Nat /\ written <= taken
  BY DEF IInv, TypeOK, Counters
<1>. QED
  BY <1>1, <1>2, <1>3, <1>4, <1>5, RecorderAssumption DEF Take, Least

LEMMA FramesType ==
  ASSUME taken \in Nat, NEW n \in Nat
  PROVE  Frames(n) \in Seq(Nat)
  BY DEF Frames

LEMMA ExtendedType ==
  ASSUME taken \in Nat, NEW s \in Segment, NEW n \in Nat
  PROVE  /\ Extended(s, n) \in Segment
         /\ Extended(s, n).start = s.start
         /\ Extended(s, n).count = s.count + n
         /\ \A t \in 1..Tracks : Extended(s, n).data[t] = s.data[t] \o Frames(n)
<1>. DEFINE d == [t \in 1..Tracks |-> s.data[t] \o Frames(n)]
<1>1. ASSUME NEW t \in 1..Tracks PROVE s.data[t] \o Frames(n) \in Seq(Nat)
  <2>1. s.data[t] \in Seq(Nat) /\ Frames(n) \in Seq(Nat)
    BY FramesType DEF Segment
  <2>. QED
    BY <2>1
<1>2. d \in [1..Tracks -> Seq(Nat)]
  BY <1>1
<1>3. Extended(s, n) = [s EXCEPT !.count = s.count + n, !.data = d]
  BY DEF Extended
<1>4. \A t \in 1..Tracks : d[t] = s.data[t] \o Frames(n)
  OBVIOUS
<1>. HIDE DEF d
<1>5. s.count + n \in Nat
  BY DEF Segment
<1>6. Extended(s, n) \in Segment /\ Extended(s, n).data = d
      /\ Extended(s, n).start = s.start /\ Extended(s, n).count = s.count + n
  BY <1>2, <1>3, <1>5 DEF Segment
<1>. QED
  BY <1>4, <1>6

LEMMA TornType ==
  ASSUME taken \in Nat, NEW s \in Segment, NEW n \in Nat, NEW k \in 1..Tracks,
         NEW p \in Nat
  PROVE  /\ Torn(s, n, k, p) \in Segment
         /\ Torn(s, n, k, p).start = s.start
         /\ Torn(s, n, k, p).count = s.count
<1>. DEFINE m(t) == IF t < k THEN n ELSE IF t = k THEN p ELSE 0
            d == [t \in 1..Tracks |-> s.data[t] \o Frames(m(t))]
<1>1. ASSUME NEW t \in 1..Tracks PROVE s.data[t] \o Frames(m(t)) \in Seq(Nat)
  <2>1. m(t) \in Nat
    OBVIOUS
  <2>2. s.data[t] \in Seq(Nat) /\ Frames(m(t)) \in Seq(Nat)
    BY <2>1, FramesType DEF Segment
  <2>. QED
    BY <2>2
<1>2. d \in [1..Tracks -> Seq(Nat)]
  BY <1>1
<1>3. Torn(s, n, k, p) = [s EXCEPT !.data = d]
  BY DEF Torn
<1>. HIDE DEF d
<1>. QED
  BY <1>2, <1>3 DEF Segment

LEMMA SegmentWriteIInv == IInv /\ SegmentWrite => IInv'
<1>. SUFFICES ASSUME IInv, SegmentWrite PROVE IInv'
  OBVIOUS
<1>. USE DEF flags, ring, files, env
<1>. DEFINE c == Current
            s == segments[c]
            n == Take
            w == Extended(s, n)
<1>1. /\ pc = "append" /\ taken < drained /\ ~CurrentFull
      /\ segments' = [segments EXCEPT ![c] = w]
      /\ written' = written + n
      /\ taken' \in {taken + n, drained}
      /\ pc' \in {"append", "check"}
      /\ pc' = "check" => taken' = drained
      /\ stopReason' \in {stopReason, Full}
      /\ running' \in {running, FALSE}
      /\ UNCHANGED <<ioFailure, dropped, ring, drained, finalize, next, retired, status, exit, env>>
  BY DEF SegmentWrite, GiveUp, SetReason
<1>2. /\ c \in Nat /\ c > 0 /\ c \in 1..Len(segments)
      /\ segments \in Seq(Segment) /\ s \in Segment /\ s.count \in Nat /\ s.start \in Nat
      /\ n \in Nat /\ n > 0 /\ n <= drained - taken /\ s.count + n <= SegmentFrames
      /\ taken \in Nat /\ drained \in Nat /\ written \in Nat /\ written <= taken
  BY <1>1, WriteFacts
<1>3. /\ w \in Segment /\ w.start = s.start /\ w.count = s.count + n
      /\ \A t \in 1..Tracks : w.data[t] = s.data[t] \o Frames(n)
  BY <1>2, ExtendedType
<1>. HIDE DEF n, w, c
<1>4. /\ segments' \in Seq(Segment) /\ Len(segments') = Len(segments) /\ Current' = Current
      /\ \A i \in 1..Current : segments'[i] = IF i = c THEN w ELSE segments[i]
  BY <1>1, <1>2, <1>3 DEF Current
<1>5. TypeOK'
  <2>1. taken' \in Nat /\ written' \in Nat
    BY <1>1, <1>2
  <2>2. stopReason' \in Reasons /\ running' \in BOOLEAN
    BY <1>1 DEF IInv, TypeOK, Reasons, Full
  <2>. QED
    BY <1>1, <1>4, <2>1, <2>2 DEF IInv, TypeOK
<1>6. Counters'
  BY <1>1, <1>2, <1>4 DEF IInv, Counters, c
<1>7. Tiled'
  BY SMTT(20), <1>1, <1>2, <1>3, <1>4 DEF IInv, Tiled, c
<1>8. WrittenOnDisk'
  <2>1. (c - 1) * SegmentFrames \in Nat
    BY <1>2, NextStart, RecorderAssumption
  <2>2. written = (c - 1) * SegmentFrames + s.count
    BY <1>2 DEF IInv, WrittenOnDisk, OnDisk, c
  <2>3. OnDisk' = (c - 1) * SegmentFrames + w.count
    BY <1>2, <1>4 DEF OnDisk, c
  <2>. QED
    BY <1>1, <1>2, <1>3, <2>1, <2>2, <2>3 DEF WrittenOnDisk
<1>9. ExactRecording'
  <2>1. written' <= taken'
    BY <1>1, <1>2
  <2>2. ASSUME written' = taken', NEW i \in 1..Current
        PROVE  Exact(segments'[i])
    <3>1. written = taken
      BY <1>1, <1>2, <2>2
    <3>2. Exact(segments[i])
      BY <3>1 DEF IInv, ExactRecording
    <3>3. CASE i # c
      BY <1>4, <3>2, <3>3
    <3>4. CASE i = c
      <4>1. taken = s.start + s.count
        BY <1>2, <3>1 DEF IInv, WrittenOnDisk, OnDisk, Tiled, c
      <4>2. ASSUME NEW t \in 1..Tracks
            PROVE  w.data[t] = [k \in 1..w.count |-> w.start + k]
        <5>1. s.data[t] = [k \in 1..s.count |-> s.start + k]
          BY <3>2, <3>4 DEF Exact
        <5>2. Frames(n) = [k \in 1..n |-> (s.start + s.count) + k]
          BY <4>1 DEF Frames
        <5>3. w.data[t] = s.data[t] \o Frames(n)
          BY <1>3
        <5>4. [k \in 1..s.count |-> s.start + k] \o [k \in 1..n |-> (s.start + s.count) + k]
                = [k \in 1..(s.count + n) |-> s.start + k]
          BY <1>2, ConcatRun, ZenonT(60)
        <5>. QED
          BY <1>3, <5>1, <5>2, <5>3, <5>4
      <4>. QED
        BY <1>4, <3>4, <4>2 DEF Exact
    <3>. QED
      BY <3>3, <3>4
  <2>. QED
    BY <1>4, <2>1, <2>2 DEF ExactRecording
<1>. QED
  BY <1>5, <1>6, <1>7, <1>8, <1>9 DEF IInv

LEMMA SegmentWriteFailsIInv == IInv /\ SegmentWriteFails => IInv'
<1>. SUFFICES ASSUME IInv, SegmentWriteFails PROVE IInv'
  OBVIOUS
<1>. USE DEF flags, ring, files, env
<1>1. /\ pc = "append" /\ taken < drained /\ ~CurrentFull
      /\ taken' = drained /\ pc' = "check" /\ running' = FALSE /\ ioFailure' = TRUE
      /\ stopReason' \in {stopReason, Failure}
      /\ UNCHANGED <<dropped, ring, drained, written, finalize, next, retired, status, exit, env>>
  BY DEF SegmentWriteFails, GiveUp, SetReason
<1>2. /\ Current \in Nat /\ Current > 0 /\ Current \in 1..Len(segments)
      /\ segments \in Seq(Segment) /\ segments[Current] \in Segment
      /\ Take \in Nat /\ Take > 0
      /\ taken \in Nat /\ drained \in Nat /\ written \in Nat /\ written <= taken
  BY <1>1, WriteFacts
<1>3. PICK k \in 1..Tracks, p \in 0..(Take - 1) :
        segments' = [segments EXCEPT ![Current] = Torn(@, Take, k, p)]
  BY DEF SegmentWriteFails
<1>. DEFINE s == segments[Current]
            w == Torn(s, Take, k, p)
<1>4. w \in Segment /\ w.start = s.start /\ w.count = s.count
  <2>1. p \in Nat /\ k \in 1..Tracks
    BY <1>2, <1>3
  <2>2. s \in Segment /\ Take \in Nat /\ taken \in Nat
    BY <1>2
  <2>. HIDE DEF s
  <2>. QED
    BY <2>1, <2>2, TornType
<1>5. segments' = [segments EXCEPT ![Current] = w]
  BY <1>3
<1>. HIDE DEF w
<1>6. /\ segments' \in Seq(Segment) /\ Len(segments') = Len(segments) /\ Current' = Current
      /\ \A i \in 1..Current : segments'[i] = IF i = Current THEN w ELSE segments[i]
  BY <1>2, <1>4, <1>5 DEF Current
<1>7. TypeOK'
  BY <1>1, <1>2, <1>6 DEF IInv, TypeOK, Reasons, Failure
<1>8. Counters'
  BY <1>1, <1>2, <1>6 DEF IInv, Counters
<1>9. Tiled'
  BY <1>1, <1>2, <1>4, <1>6 DEF IInv, Tiled
<1>10. WrittenOnDisk' /\ ExactRecording'
  BY <1>1, <1>2, <1>4, <1>6 DEF IInv, WrittenOnDisk, OnDisk, ExactRecording
<1>. QED
  BY <1>7, <1>8, <1>9, <1>10 DEF IInv

-----------------------------------------------------------------------------
LEMMA NextIInv == IInv /\ [Next]_vars => IInv'
<1>. SUFFICES ASSUME IInv, [Next]_vars PROVE IInv'
  OBVIOUS
<1>1. CASE QuietStep
  BY <1>1, QuietIInv
<1>2. CASE ClosingStep
  BY <1>2, ClosingIInv
<1>3. CASE BeginStep
  BY <1>3, BeginIInv
<1>4. CASE Promote
  BY <1>4, PromoteIInv
<1>5. CASE SegmentWrite
  BY <1>5, SegmentWriteIInv
<1>6. CASE SegmentWriteFails
  BY <1>6, SegmentWriteFailsIInv
<1>7. CASE UNCHANGED vars
  BY <1>7 DEF vars, IInv, TypeOK, Counters, Tiled, WrittenOnDisk, OnDisk,
              ExactRecording, Exact, Current, FreshSegment
<1>. QED
  BY <1>1, <1>2, <1>3, <1>4, <1>5, <1>6, <1>7
     DEF Next, Callback, Writer, QuietStep, ClosingStep, BeginStep

(* The inductive invariant holds in every reachable state.                 *)
THEOREM Invariance == Spec => []IInv
  BY InitIInv, NextIInv, PTL DEF Spec

(* Type correctness of the recorder.                                       *)
THEOREM RecorderTypes == Spec => []TypeOK
  BY Invariance, PTL DEF IInv

(* Rotation tiles the time line, for every segment length, block size and  *)
(* schedule: segment i starts at i times the segment length, and all but   *)
(* the last are full.                                                      *)
THEOREM RotationTiles == Spec => []Tiled
  BY Invariance, PTL DEF IInv

(* The reported frames_written is what is on disk.                         *)
THEOREM ReportedIsOnDisk == Spec => []WrittenOnDisk
  BY Invariance, PTL DEF IInv

(* As long as the writer gave up no frame it drained, every track of every *)
(* segment is exactly the capture.                                         *)
THEOREM RecordingIsExact == Spec => []ExactRecording
  BY Invariance, PTL DEF IInv

LEMMA StepKeepsReason ==
  ASSUME Next
  PROVE  stopReason # None => stopReason' \in {stopReason, DiskLost}
<1>. USE DEF SetReason, flags, GiveUp
<1>1. CASE Callback
  BY <1>1 DEF Callback, CallbackEnter, CallbackCopy, CallbackOverflow
<1>2. CASE WriterBegin \/ WriterBeginFails \/ WriterDrain \/ WriterCheck
  BY <1>2 DEF WriterBegin, WriterBeginFails, WriterDrain, WriterCheck
<1>3. CASE PromoteLost \/ PromoteRefused \/ Promote \/ PromoteFails
  BY <1>3 DEF PromoteLost, PromoteRefused, Promote, PromoteFails
<1>4. CASE SegmentWrite \/ SegmentWriteFails
  BY <1>4 DEF SegmentWrite, SegmentWriteFails
<1>5. CASE AppendDone \/ AppendDoneRetireFails \/ AppendDonePrepareFails
  BY <1>5 DEF AppendDone, AppendDoneRetireFails, AppendDonePrepareFails
<1>6. CASE WriterLeave \/ WriterFinish \/ WriterReport
  BY <1>6 DEF WriterLeave, WriterFinish, WriterReport
<1>7. CASE Stop \/ DiskLostStop \/ MainExit \/ VolumeLost \/ SpaceChanges
  BY <1>7 DEF Stop, DiskLostStop, MainExit, VolumeLost, SpaceChanges
<1>. QED
  BY <1>1, <1>2, <1>3, <1>4, <1>5, <1>6, <1>7 DEF Next, Writer

(* Whatever stopped the recorder first stays the reason, except that the   *)
(* disk-loss signal replaces it.                                           *)
THEOREM FirstReasonStays == Spec => ReasonKept
<1>. DEFINE Kept == stopReason # None => stopReason' \in {stopReason, DiskLost}
<1>2. [Next]_vars => [Kept]_vars
  BY StepKeepsReason
<1>. QED
  BY <1>2, PTL DEF Spec, ReasonKept

-----------------------------------------------------------------------------
(* What the files hold.                                                    *)

(* No file holds a frame that writer_append has not come to.               *)
Passed ==
  \A i \in 1..Current : \A t \in 1..Tracks :
    \A a \in 1..Len(segments[i].data[t]) : segments[i].data[t][a] <= taken

(* The invariant of the files; IInv supplies types and counters.           *)
Files == InOrder /\ Passed /\ TracksAligned

-----------------------------------------------------------------------------
(* The elements of a file after n frames of the block were appended.       *)
LEMMA AppendedFrames ==
  ASSUME taken \in Nat, NEW s \in Seq(Nat), NEW n \in Nat
  PROVE  /\ Len(s \o Frames(n)) = Len(s) + n
         /\ \A a \in 1..(Len(s) + n) :
              (s \o Frames(n))[a] = IF a <= Len(s) THEN s[a] ELSE taken + (a - Len(s))
<1>1. Frames(n) \in Seq(Nat) /\ Len(Frames(n)) = n /\ \A i \in 1..n : Frames(n)[i] = taken + i
  BY DEF Frames
<1>2. Len(s) \in Nat
  OBVIOUS
<1>. DEFINE q == Frames(n)
<1>. HIDE DEF q
<1>3. q \in Seq(Nat) /\ Len(q) = n /\ \A i \in 1..n : q[i] = taken + i
  BY <1>1 DEF q
<1>4. /\ Len(s \o q) = Len(s) + n
      /\ \A a \in 1..(Len(s) + n) : (s \o q)[a] = IF a <= Len(s) THEN s[a] ELSE q[a - Len(s)]
  BY <1>2, <1>3
<1>5. ASSUME NEW a \in 1..(Len(s) + n), ~(a <= Len(s))
      PROVE  q[a - Len(s)] = taken + (a - Len(s))
  <2>1. a - Len(s) \in 1..n
    BY <1>2, <1>5
  <2>. QED
    BY <2>1, <1>3
<1>. QED
  BY <1>4, <1>5 DEF q

(* Steps that leave the frames alone keep all three.                       *)
LEMMA SameFramesKeepFiles ==
  ASSUME IInv, IInv', Files, SameFrames(segments', segments), taken <= taken',
         ~ioFailure' => ~ioFailure
  PROVE  Files'
<1>0. Current' = Current /\ Len(segments') = Current
  BY DEF SameFrames, Current
<1>1. /\ Current' = Current
      /\ \A i \in 1..Current : segments'[i].data = segments[i].data
      /\ \A i \in 1..Current : segments'[i].count = segments[i].count
  BY <1>0 DEF SameFrames
<1>2. InOrder'
  <2>. SUFFICES ASSUME NEW t \in 1..Tracks, NEW i \in 1..Current, NEW j \in 1..Current,
                       NEW a \in 1..Len(segments'[i].data[t]),
                       NEW b \in 1..Len(segments'[j].data[t]),
                       i < j \/ (i = j /\ a < b)
                PROVE  segments'[i].data[t][a] < segments'[j].data[t][b]
    BY <1>0 DEF InOrder
  <2>1. segments'[i].data = segments[i].data /\ segments'[j].data = segments[j].data
    BY <1>1
  <2>. QED
    BY <2>1 DEF Files, InOrder
<1>3. Passed'
  <2>. SUFFICES ASSUME NEW i \in 1..Current, NEW t \in 1..Tracks,
                       NEW a \in 1..Len(segments[i].data[t])
                PROVE  segments[i].data[t][a] <= taken'
    BY <1>1 DEF Passed
  <2>1. segments[i].data[t][a] <= taken
    BY DEF Files, Passed
  <2>2. segments[i].data[t] \in Seq(Nat)
    <3>1. segments \in Seq(Segment) /\ i \in 1..Len(segments)
      BY DEF IInv, TypeOK, Current
    <3>2. segments[i] \in Segment
      BY <3>1
    <3>. QED
      BY <3>2 DEF Segment
  <2>3. segments[i].data[t][a] \in Nat
    <3>1. \A s \in Seq(Nat) : \A k \in 1..Len(s) : s[k] \in Nat
      OBVIOUS
    <3>. QED
      BY <2>2, <3>1, Zenon
  <2>4. taken \in Nat /\ taken' \in Nat
    BY DEF IInv, TypeOK
  <2>. QED
    BY <2>1, <2>3, <2>4
<1>4. TracksAligned'
  BY <1>1 DEF Files, TracksAligned
<1>. QED
  BY <1>2, <1>3, <1>4 DEF Files

(* A segment with empty files comes last: the start and a promotion.       *)
LEMMA EmptyLastKeepsFiles ==
  ASSUME IInv, Files, NEW kept \in Seq(Segment), Len(kept) = Current,
         \A i \in 1..Current : /\ kept[i].data = segments[i].data
                               /\ kept[i].count = segments[i].count,
         NEW start \in Nat, segments' = Append(kept, FreshSegment(start)),
         taken' = taken, ioFailure' = ioFailure
  PROVE  Files'
<1>. DEFINE fresh == FreshSegment(start)
<1>1. /\ fresh \in Segment /\ fresh.count = 0
      /\ \A t \in 1..Tracks : fresh.data[t] = << >>
  BY FreshSegmentExact DEF FreshSegment
<1>2. Current \in Nat
  BY DEF IInv, TypeOK, Current
<1>. HIDE DEF fresh
<1>3. /\ Current' = Current + 1
      /\ \A i \in 1..Current : segments'[i] = kept[i]
      /\ segments'[Current + 1] = fresh
  BY <1>1, <1>2 DEF Current, fresh
<1>4. \A i \in 1..Current' : i \in 1..Current \/ i = Current + 1
  BY <1>2, <1>3
<1>5. \A i \in 1..Current' : \A t \in 1..Tracks :
        \/ i \in 1..Current /\ segments'[i].data[t] = segments[i].data[t]
                            /\ segments'[i].count = segments[i].count
        \/ Len(segments'[i].data[t]) = 0 /\ segments'[i].count = 0
  BY <1>1, <1>3, <1>4
<1>6. \A i \in 1..Current' : \A t \in 1..Tracks : \A a \in 1..Len(segments'[i].data[t]) :
        i \in 1..Current /\ segments'[i].data[t] = segments[i].data[t]
  <2>. SUFFICES ASSUME NEW i \in 1..Current', NEW t \in 1..Tracks,
                       NEW a \in 1..Len(segments'[i].data[t])
                PROVE  i \in 1..Current /\ segments'[i].data[t] = segments[i].data[t]
    OBVIOUS
  <2>. DEFINE n == Len(segments'[i].data[t])
  <2>1. n = 0 \/ (i \in 1..Current /\ segments'[i].data[t] = segments[i].data[t])
    BY <1>5, Zenon
  <2>2. a \in 1..n
    OBVIOUS
  <2>. HIDE DEF n
  <2>3. n # 0
    BY <2>2
  <2>. QED
    BY <2>1, <2>3
<1>7. InOrder'
  <2>. SUFFICES ASSUME NEW t \in 1..Tracks, NEW i \in 1..Current', NEW j \in 1..Current',
                       NEW a \in 1..Len(segments'[i].data[t]),
                       NEW b \in 1..Len(segments'[j].data[t]),
                       i < j \/ (i = j /\ a < b)
                PROVE  segments'[i].data[t][a] < segments'[j].data[t][b]
    BY DEF InOrder
  <2>1. /\ i \in 1..Current /\ segments'[i].data[t] = segments[i].data[t]
        /\ j \in 1..Current /\ segments'[j].data[t] = segments[j].data[t]
    BY <1>6
  <2>. QED
    BY <2>1 DEF Files, InOrder
<1>8. Passed'
  BY <1>6 DEF Files, Passed
<1>9. TracksAligned'
  <2>. SUFFICES ASSUME ~ioFailure, NEW i \in 1..Current', NEW t \in 1..Tracks
                PROVE  Len(segments'[i].data[t]) = segments'[i].count
    BY DEF TracksAligned
  <2>1. CASE i \in 1..Current /\ segments'[i].data[t] = segments[i].data[t]
                               /\ segments'[i].count = segments[i].count
    BY <2>1 DEF Files, TracksAligned
  <2>2. CASE Len(segments'[i].data[t]) = 0 /\ segments'[i].count = 0
    BY <2>2
  <2>. QED
    BY <1>5, <2>1, <2>2
<1>. QED
  BY <1>7, <1>8, <1>9 DEF Files

(* Frames of the block are appended to the files of the current segment,   *)
(* not equally many to each track if the write failed.                     *)
LEMMA WriteKeepsOrder ==
  ASSUME IInv, InOrder, Passed, pc = "append", taken < drained, ~CurrentFull,
         NEW w, NEW m \in [1..Tracks -> Nat],
         \A t \in 1..Tracks : /\ m[t] <= Take
                              /\ w.data[t] = segments[Current].data[t] \o Frames(m[t]),
         segments' = [segments EXCEPT ![Current] = w],
         taken' \in Nat, taken + Take <= taken'
  PROVE  InOrder' /\ Passed'
<1>1. /\ Current \in Nat /\ Current > 0 /\ segments \in Seq(Segment)
      /\ taken \in Nat /\ Take \in Nat
  BY WriteFacts
<1>2. /\ Current' = Current
      /\ segments'[Current] = w
      /\ \A i \in 1..Current : i # Current => segments'[i] = segments[i]
  BY <1>1 DEF Current
<1>. DEFINE old(i, t) == segments[i].data[t]
            new(i, t) == segments'[i].data[t]
<1>3. \A i \in 1..Current : \A t \in 1..Tracks : old(i, t) \in Seq(Nat)
  <2>. SUFFICES ASSUME NEW i \in 1..Current, NEW t \in 1..Tracks
                PROVE  segments[i].data[t] \in Seq(Nat)
    OBVIOUS
  <2>1. segments[i] \in Segment
    BY <1>1 DEF Current
  <2>. QED
    BY <2>1 DEF Segment
<1>4. ASSUME NEW i \in 1..Current, NEW t \in 1..Tracks, NEW a \in 1..Len(new(i, t))
      PROVE  \/ /\ a \in 1..Len(old(i, t)) /\ new(i, t)[a] = old(i, t)[a]
                /\ new(i, t)[a] \in Nat /\ new(i, t)[a] <= taken
             \/ /\ i = Current /\ a > Len(old(i, t)) /\ Len(old(i, t)) \in Nat
                /\ new(i, t)[a] = taken + (a - Len(old(i, t)))
                /\ a - Len(old(i, t)) <= Take
  <2>0. old(i, t) \in Seq(Nat)
    BY <1>3
  <2>1. CASE i # Current
    <3>1. new(i, t) = old(i, t)
      BY <1>2, <2>1
    <3>2. a \in 1..Len(old(i, t)) /\ old(i, t)[a] \in Nat
      <4>1. a \in 1..Len(old(i, t))
        BY <3>1
      <4>. HIDE DEF old, new
      <4>. QED
        BY <2>0, <4>1
    <3>3. old(i, t)[a] <= taken
      BY <3>2 DEF Passed
    <3>. QED
      BY <3>1, <3>2, <3>3
  <2>2. CASE i = Current
    <3>1. new(i, t) = old(i, t) \o Frames(m[t]) /\ m[t] \in Nat /\ m[t] <= Take
      BY <1>2, <2>2
    <3>2. /\ a \in 1..(Len(old(i, t)) + m[t]) /\ Len(old(i, t)) \in Nat
          /\ new(i, t)[a] = IF a <= Len(old(i, t)) THEN old(i, t)[a]
                            ELSE taken + (a - Len(old(i, t)))
      <4>. HIDE DEF old, new
      <4>1. /\ Len(new(i, t)) = Len(old(i, t)) + m[t]
            /\ \A b \in 1..(Len(old(i, t)) + m[t]) :
                 new(i, t)[b] = IF b <= Len(old(i, t)) THEN old(i, t)[b]
                                ELSE taken + (b - Len(old(i, t)))
        <5>1. m[t] \in Nat /\ old(i, t) \in Seq(Nat) /\ taken \in Nat
          BY <1>1, <2>0, <3>1
        <5>2. /\ Len(old(i, t) \o Frames(m[t])) = Len(old(i, t)) + m[t]
              /\ \A b \in 1..(Len(old(i, t)) + m[t]) :
                   (old(i, t) \o Frames(m[t]))[b] =
                     IF b <= Len(old(i, t)) THEN old(i, t)[b]
                     ELSE taken + (b - Len(old(i, t)))
          BY <5>1, AppendedFrames, Zenon
        <5>. QED
          BY <3>1, <5>2, Zenon
      <4>2. Len(old(i, t)) \in Nat
        BY <2>0
      <4>3. a \in 1..(Len(old(i, t)) + m[t])
        BY <4>1
      <4>. QED
        BY <4>1, <4>2, <4>3, Zenon
    <3>3. CASE a <= Len(old(i, t))
      <4>1. a \in 1..Len(old(i, t)) /\ old(i, t)[a] \in Nat
        <5>. HIDE DEF old, new
        <5>. QED
          BY <2>0, <3>1, <3>2, <3>3
      <4>2. old(i, t)[a] <= taken
        BY <4>1 DEF Passed
      <4>. QED
        BY <3>2, <3>3, <4>1, <4>2
    <3>4. CASE a > Len(old(i, t))
      <4>. HIDE DEF old, new
      <4>. QED
        BY <1>1, <2>2, <3>1, <3>2, <3>4
    <3>. QED
      BY <3>2, <3>3, <3>4
  <2>. QED
    BY <2>1, <2>2
<1>5. InOrder'
  <2>. SUFFICES ASSUME NEW t \in 1..Tracks, NEW i \in 1..Current, NEW j \in 1..Current,
                       NEW a \in 1..Len(new(i, t)), NEW b \in 1..Len(new(j, t)),
                       i < j \/ (i = j /\ a < b)
                PROVE  new(i, t)[a] < new(j, t)[b]
    <3>1. Current' = Current
      BY <1>2
    <3>2. (\A t \in 1..Tracks : \A i, j \in 1..Current' :
             \A a \in 1..Len(segments'[i].data[t]), b \in 1..Len(segments'[j].data[t]) :
               i < j \/ (i = j /\ a < b) => segments'[i].data[t][a] < segments'[j].data[t][b])
          => InOrder'
      BY Zenon DEF InOrder
    <3>. QED
      BY <3>1, <3>2, Zenon
  <2>1. CASE a \in 1..Len(old(i, t)) /\ b \in 1..Len(old(j, t))
    <3>1. old(i, t)[a] < old(j, t)[b]
      BY <2>1 DEF InOrder
    <3>2. new(i, t)[a] = old(i, t)[a] /\ new(j, t)[b] = old(j, t)[b]
      <4>. HIDE DEF old, new
      <4>. QED
        BY <1>4, <2>1
    <3>. QED
      BY <3>1, <3>2
  <2>. HIDE DEF old, new
  <2>2. CASE a \in 1..Len(old(i, t)) /\ b \notin 1..Len(old(j, t))
    <3>1. new(i, t)[a] \in Nat /\ new(i, t)[a] <= taken
      BY <1>4, <2>2
    <3>2. new(j, t)[b] = taken + (b - Len(old(j, t))) /\ b > Len(old(j, t)) /\ Len(old(j, t)) \in Nat
      BY <1>4, <2>2
    <3>. QED
      BY <1>1, <3>1, <3>2
  <2>3. CASE a \notin 1..Len(old(i, t))
    <3>1. /\ i = Current /\ a > Len(old(i, t)) /\ Len(old(i, t)) \in Nat
          /\ new(i, t)[a] = taken + (a - Len(old(i, t)))
      BY <1>4, <2>3
    <3>0. i \in Nat /\ j \in Nat /\ j <= i
      BY <1>1, <3>1
    <3>2. j = i /\ a < b
      BY <3>0
    <3>3. b \notin 1..Len(old(j, t))
      BY <3>1, <3>2
    <3>4. new(j, t)[b] = taken + (b - Len(old(j, t)))
      BY <1>4, <3>3
    <3>. QED
      BY <1>1, <3>1, <3>2, <3>4
  <2>. QED
    BY <2>1, <2>2, <2>3
<1>6. Passed'
  <2>. SUFFICES ASSUME NEW i \in 1..Current, NEW t \in 1..Tracks, NEW a \in 1..Len(new(i, t))
                PROVE  new(i, t)[a] <= taken'
    BY <1>2 DEF Passed
  <2>. HIDE DEF old, new
  <2>1. CASE new(i, t)[a] \in Nat /\ new(i, t)[a] <= taken
    BY <1>1, <2>1
  <2>2. CASE /\ new(i, t)[a] = taken + (a - Len(old(i, t))) /\ Len(old(i, t)) \in Nat
             /\ a > Len(old(i, t)) /\ a - Len(old(i, t)) <= Take
    BY <1>1, <2>2
  <2>. QED
    BY <1>4, <2>1, <2>2
<1>. QED
  BY <1>5, <1>6

-----------------------------------------------------------------------------
LEMMA SegmentWriteFiles ==
  ASSUME IInv, Files, SegmentWrite
  PROVE  Files'
<1>1. /\ pc = "append" /\ taken < drained /\ ~CurrentFull
      /\ segments' = [segments EXCEPT ![Current] = Extended(@, Take)]
      /\ taken' \in {taken + Take, drained} /\ ioFailure' = ioFailure
  BY DEF SegmentWrite, GiveUp
<1>2. /\ Current \in Nat /\ Current > 0 /\ segments \in Seq(Segment)
      /\ segments[Current] \in Segment /\ segments[Current].count \in Nat
      /\ Take \in Nat /\ Take <= drained - taken
      /\ taken \in Nat /\ drained \in Nat
  BY <1>1, WriteFacts
<1>. DEFINE s == segments[Current]
            w == Extended(s, Take)
<1>3. /\ w.count = s.count + Take
      /\ \A t \in 1..Tracks : w.data[t] = s.data[t] \o Frames(Take)
  BY <1>2, ExtendedType
<1>4. segments' = [segments EXCEPT ![Current] = w]
  BY <1>1
<1>. HIDE DEF w
<1>5. InOrder' /\ Passed'
  <2>. DEFINE m == [t \in 1..Tracks |-> Take]
  <2>1. m \in [1..Tracks -> Nat] /\ \A t \in 1..Tracks : m[t] = Take
    BY <1>2
  <2>2. taken' \in Nat /\ taken + Take <= taken'
    BY <1>1, <1>2
  <2>. HIDE DEF m
  <2>3. \A t \in 1..Tracks : m[t] <= Take /\ w.data[t] = segments[Current].data[t] \o Frames(m[t])
    <3>. TAKE t \in 1..Tracks
    <3>1. m[t] = Take /\ Take <= Take
      BY <1>2, <2>1
    <3>. QED
      BY <1>3, <3>1
  <2>. QED
    BY <1>1, <1>4, <2>1, <2>2, <2>3, WriteKeepsOrder DEF Files
<1>6. TracksAligned'
  <2>. SUFFICES ASSUME ~ioFailure, NEW i \in 1..Current', NEW t \in 1..Tracks
                PROVE  Len(segments'[i].data[t]) = segments'[i].count
    BY <1>1 DEF TracksAligned
  <2>1. i \in 1..Current /\ segments'[i] = IF i = Current THEN w ELSE segments[i]
    BY <1>2, <1>4 DEF Current
  <2>2. Len(segments[i].data[t]) = segments[i].count
    BY <2>1 DEF Files, TracksAligned
  <2>3. CASE i = Current
    <3>1. s.data[t] \in Seq(Nat)
      BY <1>2 DEF Segment
    <3>2. Len(s.data[t] \o Frames(Take)) = Len(s.data[t]) + Take
      BY <1>2, <3>1, AppendedFrames
    <3>. QED
      BY <1>3, <2>1, <2>2, <2>3, <3>2
  <2>. QED
    BY <2>1, <2>2, <2>3
<1>. QED
  BY <1>5, <1>6 DEF Files

LEMMA SegmentWriteFailsFiles ==
  ASSUME IInv, Files, SegmentWriteFails
  PROVE  Files'
<1>1. /\ pc = "append" /\ taken < drained /\ ~CurrentFull
      /\ taken' = drained /\ ioFailure'
  BY DEF SegmentWriteFails, GiveUp
<1>2. /\ Current \in Nat /\ Current > 0 /\ segments \in Seq(Segment)
      /\ Take \in Nat /\ Take <= drained - taken
      /\ taken \in Nat /\ drained \in Nat
  BY <1>1, WriteFacts
<1>3. PICK k \in 1..Tracks, p \in 0..(Take - 1) :
        segments' = [segments EXCEPT ![Current] = Torn(@, Take, k, p)]
  BY DEF SegmentWriteFails
<1>. DEFINE w == Torn(segments[Current], Take, k, p)
            m == [t \in 1..Tracks |-> IF t < k THEN Take ELSE IF t = k THEN p ELSE 0]
<1>4. p \in Nat /\ p <= Take
  BY <1>2
<1>5. /\ m \in [1..Tracks -> Nat]
      /\ \A t \in 1..Tracks : m[t] <= Take
  BY <1>2, <1>4
<1>6. \A t \in 1..Tracks : w.data[t] = segments[Current].data[t] \o Frames(m[t])
  <2>1. segments[Current] \in Segment
    BY <1>1, WriteFacts
  <2>. QED
    BY <2>1 DEF Torn, Segment
<1>7. segments' = [segments EXCEPT ![Current] = w]
  BY <1>3
<1>8. taken' \in Nat /\ taken + Take <= taken'
  BY <1>1, <1>2
<1>. HIDE DEF w, m
<1>9. InOrder' /\ Passed'
  BY <1>1, <1>5, <1>6, <1>7, <1>8, WriteKeepsOrder DEF Files
<1>10. TracksAligned'
  BY <1>1 DEF TracksAligned
<1>. QED
  BY <1>9, <1>10 DEF Files

-----------------------------------------------------------------------------
LEMMA NextFiles == IInv /\ IInv' /\ Files /\ [Next]_vars => Files'
<1>. SUFFICES ASSUME IInv, IInv', Files, [Next]_vars PROVE Files'
  OBVIOUS
<1>. USE DEF flags, ring, files, env
<1>0. taken \in Nat /\ drained \in Nat /\ taken <= drained /\ segments \in Seq(Segment)
  BY DEF IInv, TypeOK, Counters
<1>1. CASE QuietStep \/ UNCHANGED vars
  <2>1. segments' = segments /\ taken' \in {taken, drained} /\ ioFailure' = ioFailure
    BY <1>1 DEF QuietStep, Callback, CallbackEnter, CallbackCopy, CallbackOverflow,
       Stop, DiskLostStop, MainExit, VolumeLost, SpaceChanges, WriterDrain,
       PromoteLost, PromoteRefused, GiveUp, WriterCheck, WriterLeave,
       WriterReport, vars
  <2>2. SameFrames(segments', segments)
    BY <1>0, <2>1 DEF SameFrames
  <2>. QED
    BY <1>0, <2>1, <2>2, SameFramesKeepFiles
<1>2. CASE ClosingStep
  <2>1. SameFrames(segments', segments) /\ taken' \in {taken, drained}
    BY <1>2, ClosingFiles
  <2>2. ~ioFailure' => ~ioFailure
    BY <1>2 DEF ClosingStep, PromoteFails, AppendDone, AppendDoneRetireFails,
       AppendDonePrepareFails, WriterFinish
  <2>. QED
    BY <1>0, <2>1, <2>2, SameFramesKeepFiles
<1>3. CASE BeginStep
  <2>1. segments = << >> /\ taken' = taken
    <3>1. pc = "begin" /\ taken' = taken
      BY <1>3 DEF BeginStep, WriterBegin, WriterBeginFails
    <3>2. Len(segments) = 0
      BY <3>1 DEF IInv, Counters, Current
    <3>. QED
      BY <1>0, <3>1, <3>2
  <2>2. CASE segments' = << >>
    BY <2>2 DEF Files, InOrder, Passed, TracksAligned, Current
  <2>3. CASE segments' = <<FreshSegment(0)>>
    <3>1. /\ Current' = 1 /\ segments'[1].count = 0
          /\ \A t \in 1..Tracks : segments'[1].data[t] = << >>
      BY <2>3 DEF Current, FreshSegment
    <3>. QED
      BY <3>1 DEF Files, InOrder, Passed, TracksAligned
  <2>. QED
    BY <1>3, <2>2, <2>3 DEF BeginStep, WriterBegin, WriterBeginFails
<1>4. CASE Promote
  <2>1. /\ segments' = Append(CloseRetired(TRUE), next) /\ next.open
        /\ taken' = taken /\ ioFailure' = ioFailure
    BY <1>4 DEF Promote
  <2>2. SameFrames(CloseRetired(TRUE), segments)
    BY <1>0, CloseRetiredKeepsFrames DEF IInv, Counters
  <2>3. next = FreshSegment(Current * SegmentFrames) /\ Current * SegmentFrames \in Nat
    BY <1>0, <2>1, NextStart, RecorderAssumption DEF IInv, Counters, Current
  <2>4. /\ CloseRetired(TRUE) \in Seq(Segment) /\ Len(CloseRetired(TRUE)) = Current
        /\ \A i \in 1..Current : /\ CloseRetired(TRUE)[i].data = segments[i].data
                                 /\ CloseRetired(TRUE)[i].count = segments[i].count
    BY <2>2 DEF SameFrames, Current
  <2>. QED
    BY <2>1, <2>3, <2>4, EmptyLastKeepsFiles
<1>5. CASE SegmentWrite
  BY <1>5, SegmentWriteFiles
<1>6. CASE SegmentWriteFails
  BY <1>6, SegmentWriteFailsFiles
<1>. QED
  BY <1>1, <1>2, <1>3, <1>4, <1>5, <1>6
     DEF Next, Callback, Writer, QuietStep, ClosingStep, BeginStep

LEMMA FilesInvariance == Spec => []Files
<1>1. Init => Files
  BY DEF Init, Files, InOrder, Passed, TracksAligned, Current
<1>. QED
  BY <1>1, NextFiles, Invariance, PTL DEF Spec

(* No frame is recorded twice or out of order on any track, even after     *)
(* torn writes (writer_append, segment_write).                             *)
THEOREM FramesInOrder == Spec => []InOrder
  BY FilesInvariance, PTL DEF Files

(* Until io_failure is set all tracks of a segment have frame_count frames *)
(* (segment_write).                                                        *)
THEOREM TracksStayAligned == Spec => []TracksAligned
  BY FilesInvariance, PTL DEF Files

-----------------------------------------------------------------------------

(* A period that JACK delivers fits into the callback's buffer and into an *)
(* empty ring.  A larger one is refused by process, so after the report it *)
(* would still end the process with 4 behind a file that says STOPPED.     *)
PeriodsFit == \A n \in CallbackBlocks : n <= MaxBlock /\ n <= RingFrames

(* At most one period is on its way, and the loop is left only when        *)
(* stopping.                                                               *)
Stopping ==
  /\ callback \in CallbackBlocks \cup {0}
  /\ pc \in {"finish", "report"} => ~running
EndInv == Stopping /\ OnePeriodLate
ExitLast == pc # "done" => exit = Alive

(* Behind a status file that says STOPPED nothing has failed, and there is *)
(* room for the period that may still be on its way.                       *)
StoppedCleanly ==
  status.state = "STOPPED" =>
    /\ pc = "done" /\ ~running /\ ~ioFailure
    /\ dropped = 0 /\ (callback = 0 \/ accepted = drained)
    /\ exit \in {Alive, 0}

-----------------------------------------------------------------------------
(* The end of the ring.                                                    *)
LEMMA EndStep == IInv /\ EndInv /\ [Next]_vars => EndInv'
<1>. SUFFICES ASSUME IInv, EndInv, [Next]_vars PROVE EndInv'
  OBVIOUS
<1>. USE DEF flags, ring, files, env
<1>0. /\ accepted \in Nat /\ drained \in Nat /\ callback \in Nat
      /\ CallbackBlocks \subseteq Nat \ {0}
  BY RecorderAssumption DEF IInv, TypeOK
<1>1. CASE CallbackEnter
  <2>1. pc \notin {"finish", "report"} /\ pc' = pc
    BY <1>1 DEF CallbackEnter, EndInv, Stopping
  <2>2. callback' \in CallbackBlocks
    BY <1>1 DEF CallbackEnter
  <2>. QED
    BY <2>1, <2>2 DEF EndInv, Stopping, OnePeriodLate
<1>2. CASE CallbackCopy
  <2>1. /\ callback > 0 /\ callback' = 0 /\ accepted' = accepted + callback
        /\ drained' = drained /\ pc' = pc
    BY <1>2 DEF CallbackCopy
  <2>2. Stopping'
    BY <1>2, <2>1 DEF CallbackCopy, EndInv, Stopping
  <2>3. OnePeriodLate'
    <3>. SUFFICES ASSUME pc \in {"finish", "report"}
                  PROVE  callback' = 0 /\ accepted' - drained' \in CallbackBlocks
      BY <2>1 DEF OnePeriodLate
    <3>1. accepted = drained
      BY <1>0, <2>1 DEF EndInv, OnePeriodLate
    <3>2. callback \in CallbackBlocks
      BY <1>0, <2>1 DEF EndInv, Stopping
    <3>3. accepted' - drained' = callback
      BY <1>0, <2>1, <3>1
    <3>. QED
      BY <2>1, <3>2, <3>3
  <2>. QED
    BY <2>2, <2>3 DEF EndInv
<1>3. CASE CallbackOverflow
  <2>1. callback' = 0 /\ UNCHANGED <<accepted, drained, pc>>
    BY <1>3 DEF CallbackOverflow
  <2>2. ~running'
    BY <1>3 DEF CallbackOverflow
  <2>3. Stopping'
    BY <2>1, <2>2 DEF EndInv, Stopping
  <2>4. OnePeriodLate'
    BY <2>1 DEF EndInv, OnePeriodLate
  <2>. QED
    BY <2>3, <2>4 DEF EndInv
<1>4. CASE Stop \/ DiskLostStop
  <2>1. ~running' /\ UNCHANGED <<callback, accepted, drained, pc>>
    BY <1>4 DEF Stop, DiskLostStop
  <2>. QED
    BY <2>1 DEF EndInv, Stopping, OnePeriodLate
<1>5. CASE MainExit \/ VolumeLost \/ SpaceChanges \/ UNCHANGED vars
  <2>1. UNCHANGED <<running, callback, accepted, drained, pc>>
    BY <1>5 DEF MainExit, VolumeLost, SpaceChanges, vars
  <2>. QED
    BY <2>1 DEF EndInv, Stopping, OnePeriodLate
<1>6. CASE WriterLeave \/ WriterFinish
  <2>1. UNCHANGED <<running, callback, accepted, drained>>
    BY <1>6 DEF WriterLeave, WriterFinish
  <2>2. ~running /\ OnePeriodLate'
    BY <1>6, <2>1 DEF WriterLeave, WriterFinish, EndInv, Stopping, OnePeriodLate
  <2>. QED
    BY <2>1, <2>2 DEF EndInv, Stopping
<1>7. CASE Writer /\ ~(WriterLeave \/ WriterFinish)
  <2>1. callback' = callback /\ pc' \notin {"finish", "report"}
    BY <1>7 DEF Writer, WriterBegin, WriterBeginFails, WriterDrain, PromoteLost,
       PromoteRefused, Promote, PromoteFails, GiveUp, SegmentWrite, SegmentWriteFails,
       AppendDone, AppendDoneRetireFails, AppendDonePrepareFails, WriterCheck,
       WriterReport
  <2>. QED
    BY <2>1 DEF EndInv, Stopping, OnePeriodLate
<1>. QED
  BY <1>1, <1>2, <1>3, <1>4, <1>5, <1>6, <1>7 DEF Next, Callback

(* main exits after the writer.                                            *)
LEMMA ExitStep ==
  ASSUME ExitLast, [Next]_vars
  PROVE  ExitLast'
<1>. USE DEF flags, ring, files, env
<1>1. CASE MainExit \/ UNCHANGED vars
  BY <1>1 DEF MainExit, vars, ExitLast
<1>2. CASE ~(MainExit \/ UNCHANGED vars)
  <2>1. exit' = exit
    BY <1>2 DEF Next, Callback, CallbackEnter, CallbackCopy, CallbackOverflow, Stop,
       DiskLostStop, VolumeLost, SpaceChanges, Writer, WriterBegin, WriterBeginFails,
       WriterDrain, PromoteLost, PromoteRefused, Promote, PromoteFails, SegmentWrite,
       SegmentWriteFails, AppendDone, AppendDoneRetireFails, AppendDonePrepareFails,
       WriterCheck, WriterLeave, WriterFinish, WriterReport
  <2>2. pc = "done" => pc' = "done"
    BY <1>2 DEF Next, Callback, CallbackEnter, CallbackCopy, CallbackOverflow, Stop,
       DiskLostStop, VolumeLost, SpaceChanges, Writer, WriterBegin, WriterBeginFails,
       WriterDrain, PromoteLost, PromoteRefused, Promote, PromoteFails, SegmentWrite,
       SegmentWriteFails, AppendDone, AppendDoneRetireFails, AppendDonePrepareFails,
       WriterCheck, WriterLeave, WriterFinish, WriterReport
  <2>. QED
    BY <2>1, <2>2 DEF ExitLast
<1>. QED
  BY <1>1, <1>2

LEMMA EndInvariance == Spec => [](EndInv /\ ExitLast)
<1>1. Init => EndInv /\ ExitLast
  BY DEF Init, EndInv, Stopping, OnePeriodLate, ExitLast
<1>2. ExitLast /\ [Next]_vars => ExitLast'
  BY ExitStep
<1>. QED
  BY <1>1, <1>2, EndStep, Invariance, PTL DEF Spec

(* Whatever was in the ring when the writer left its loop is the one       *)
(* period that was being copied then (process, writer).                    *)
THEOREM StopLosesOnePeriod == Spec => []OnePeriodLate
  BY EndInvariance, PTL DEF EndInv

-----------------------------------------------------------------------------
(* A report writes the given state or leaves the file.                     *)
LEMMA ReportState ==
  ASSUME NEW s, NEW n, Report(s, n)
  PROVE  status' = status \/ status' = [state |-> s, frames |-> n]
<1>1. CASE volume = "gone"
  BY <1>1 DEF Report
<1>2. CASE volume # "gone"
  <2>1. PICK ok \in Outcomes : status' = IF ok THEN [state |-> s, frames |-> n] ELSE status
    BY <1>2, Zenon DEF Report
  <2>. QED
    BY <2>1
<1>. QED
  BY <1>1, <1>2

(* Once STOPPED is reported nothing is left to go wrong: the last period   *)
(* fits, and main finds no failure.                                        *)
LEMMA StoppedStep ==
  ASSUME PeriodsFit, IInv, EndInv, ExitLast, StoppedCleanly, [Next]_vars
  PROVE  StoppedCleanly'
<1>. SUFFICES ASSUME status'.state = "STOPPED"
              PROVE  /\ pc' = "done" /\ ~running' /\ ~ioFailure'
                     /\ dropped' = 0 /\ (callback' = 0 \/ accepted' = drained')
                     /\ exit' \in {Alive, 0}
  BY DEF StoppedCleanly
<1>. USE DEF flags, ring, files, env
<1>0. /\ accepted \in Nat /\ drained \in Nat /\ callback \in Nat
      /\ RingFrames \in Nat /\ dropped \in Nat
  BY RecorderAssumption DEF IInv, TypeOK
<1>1. CASE Writer
  <2>1. pc # "done" /\ status.state # "STOPPED" /\ exit = Alive
    <3>1. pc # "done"
      BY <1>1 DEF Writer, WriterBegin, WriterBeginFails, WriterDrain, PromoteLost,
         PromoteRefused, Promote, PromoteFails, SegmentWrite, SegmentWriteFails,
         AppendDone, AppendDoneRetireFails, AppendDonePrepareFails, WriterCheck,
         WriterLeave, WriterFinish, WriterReport
    <3>. QED
      BY <3>1 DEF StoppedCleanly, ExitLast
  <2>2. CASE WriterReport
    <3>1. /\ pc' = "done" /\ pc = "report" /\ exit' = exit
          /\ UNCHANGED <<running, ioFailure, dropped, callback, accepted, drained>>
      BY <2>2 DEF WriterReport
    <3>2. status'.state = FinalState
      <4>1. Report(FinalState, written)
        BY <2>2, Zenon DEF WriterReport
      <4>2. status' = status \/ status' = [state |-> FinalState, frames |-> written]
        BY <4>1, ReportState, Zenon
      <4>3. status' # status
        BY <2>1
      <4>. QED
        BY <4>2, <4>3
    <3>3. ~ioFailure /\ ~(dropped > 0)
      BY <3>2 DEF FinalState
    <3>4. dropped = 0
      BY <1>0, <3>3
    <3>5. ~running /\ (callback = 0 \/ accepted = drained)
      BY <3>1 DEF EndInv, Stopping, OnePeriodLate
    <3>6. /\ ~running' /\ ~ioFailure' /\ dropped' = 0
          /\ (callback' = 0 \/ accepted' = drained')
      BY <3>1, <3>3, <3>4, <3>5
    <3>. QED
      BY <2>1, <3>1, <3>6
  <2>3. CASE WriterBegin \/ WriterCheck
    <3>1. \A s, n : Report(s, n) => status' \in {status, [state |-> s, frames |-> n]}
      BY ReportState
    <3>2. \/ status' = status
          \/ \E s \in {"RECORDING", "FINAL_SEGMENT"}, n \in {0, written} : Report(s, n)
      BY <2>3 DEF WriterBegin, WriterCheck
    <3>3. \/ status' = status
          \/ \E s \in {"RECORDING", "FINAL_SEGMENT"}, n \in {0, written} :
               status' = [state |-> s, frames |-> n]
      BY <3>1, <3>2, <2>1
    <3>. QED
      BY <2>1, <3>3
  <2>4. CASE ~(WriterReport \/ WriterBegin \/ WriterCheck)
    <3>1. status' = status
      BY <1>1, <2>4 DEF Writer, WriterBeginFails, WriterDrain, PromoteLost,
         PromoteRefused, Promote, PromoteFails, SegmentWrite, SegmentWriteFails,
         AppendDone, AppendDoneRetireFails, AppendDonePrepareFails,
         WriterLeave, WriterFinish
    <3>. QED
      BY <2>1, <3>1
  <2>. QED
    BY <2>2, <2>3, <2>4
<1>2. CASE ~Writer
  <2>1. status' = status /\ pc' = pc /\ ioFailure' = ioFailure /\ drained' = drained
    BY <1>2 DEF Next, Callback, CallbackEnter, CallbackCopy, CallbackOverflow, Stop,
       DiskLostStop, MainExit, VolumeLost, SpaceChanges, vars
  <2>2. /\ pc = "done" /\ ~running /\ ~ioFailure /\ dropped = 0
        /\ (callback = 0 \/ accepted = drained) /\ exit \in {Alive, 0}
    BY <2>1 DEF StoppedCleanly
  <2>3. ~CallbackEnter
    BY <2>2 DEF CallbackEnter
  <2>4. ~CallbackOverflow
    <3>. SUFFICES ASSUME CallbackOverflow PROVE FALSE
      OBVIOUS
    <3>1. callback > 0 /\ ~RingHasRoom
      BY DEF CallbackOverflow
    <3>2. accepted = drained /\ callback \in CallbackBlocks
      BY <1>0, <2>2, <3>1 DEF EndInv, Stopping
    <3>3. callback <= MaxBlock /\ callback <= RingFrames
      BY <3>2 DEF PeriodsFit
    <3>4. RingFrames - (accepted - drained) = RingFrames
      BY <1>0, <3>2
    <3>. QED
      BY <3>1, <3>3, <3>4 DEF RingHasRoom
  <2>5. ~running' /\ dropped' = dropped
    BY <1>2, <2>2, <2>3, <2>4 DEF Next, Callback, CallbackCopy, Stop,
       DiskLostStop, MainExit, VolumeLost, SpaceChanges, vars
  <2>6. callback' = 0 \/ accepted' = drained'
    BY <1>2, <2>1, <2>2, <2>3, <2>4 DEF Next, Callback, CallbackCopy, Stop,
       DiskLostStop, MainExit, VolumeLost, SpaceChanges, vars
  <2>7. exit' \in {Alive, 0}
    <3>1. CASE MainExit
      <4>1. ~(dropped > 0)
        BY <1>0, <2>2
      <4>. QED
        BY <2>2, <3>1, <4>1 DEF MainExit
    <3>2. CASE ~MainExit
      BY <1>2, <2>2, <2>3, <2>4, <3>2 DEF Next, Callback, CallbackCopy, Stop,
         DiskLostStop, VolumeLost, SpaceChanges, vars
    <3>. QED
      BY <3>1, <3>2
  <2>8. pc' = "done" /\ ~ioFailure' /\ dropped' = 0
    BY <2>1, <2>2, <2>5
  <2>. QED
    BY <2>5, <2>6, <2>7, <2>8
<1>. QED
  BY <1>1, <1>2

(* A recorder whose status file says STOPPED exits with 0, also if the     *)
(* callback finishes its copy after the report (writer, main).             *)
THEOREM StoppedMeansZero ==
  ASSUME PeriodsFit
  PROVE  Spec => []StoppedExitsZero
<1>1. Init => StoppedCleanly
  BY DEF Init, NoStatus, StoppedCleanly
<1>2. IInv /\ EndInv /\ ExitLast /\ StoppedCleanly /\ [Next]_vars => StoppedCleanly'
  BY StoppedStep, PeriodsFit
<1>3. StoppedCleanly => StoppedExitsZero
  BY DEF StoppedCleanly, StoppedExitsZero
<1>. QED
  BY <1>1, <1>2, <1>3, Invariance, EndInvariance, PTL DEF Spec

-----------------------------------------------------------------------------
(* Closing the retired segment leaves no other open than the current one.  *)
LEMMA CloseRetiredCloses ==
  ASSUME IInv, FilesClosed, NEW ok \in BOOLEAN
  PROVE  /\ CloseRetired(ok) \in Seq(Segment) /\ Len(CloseRetired(ok)) = Current
         /\ \A i \in 1..Current : CloseRetired(ok)[i].open => i = Current
<1>0. /\ segments \in Seq(Segment) /\ Current = Len(segments) /\ Current \in Nat
      /\ retired => Current > 1
  BY DEF IInv, TypeOK, Counters, Current
<1>1. CASE ~retired
  BY <1>0, <1>1 DEF CloseRetired, FilesClosed
<1>2. CASE retired
  <2>. DEFINE f == Finished(segments[Current - 1], TRUE, ok)
  <2>1. Current - 1 \in 1..Len(segments) /\ segments[Current - 1] \in Segment
    BY <1>0, <1>2
  <2>2. f \in Segment /\ ~f.open
    BY <2>1, FinishedKeepsFrames DEF Finished, Segment
  <2>3. CloseRetired(ok) = [segments EXCEPT ![Current - 1] = f]
    BY <1>2 DEF CloseRetired
  <2>. HIDE DEF f
  <2>4. /\ CloseRetired(ok) \in Seq(Segment) /\ Len(CloseRetired(ok)) = Current
        /\ \A i \in 1..Current : CloseRetired(ok)[i] = IF i = Current - 1 THEN f ELSE segments[i]
    BY <1>0, <2>1, <2>2, <2>3
  <2>5. \A i \in 1..Current : CloseRetired(ok)[i].open => i = Current
    BY <2>2, <2>4 DEF FilesClosed
  <2>. QED
    BY <2>4, <2>5
<1>. QED
  BY <1>1, <1>2

(* A write leaves the files open or closed as they were.                   *)
LEMMA WriteKeepsOpen ==
  ASSUME IInv, SegmentWrite \/ SegmentWriteFails
  PROVE  /\ Len(segments') = Len(segments)
         /\ \A i \in 1..Current : segments'[i].open = segments[i].open
<1>0. /\ segments \in Seq(Segment) /\ Current = Len(segments)
      /\ Current \in 1..Len(segments) /\ segments[Current] \in Segment
      /\ taken \in Nat /\ Take \in Nat
  <2>1. pc = "append" /\ taken < drained /\ ~CurrentFull
    BY DEF SegmentWrite, SegmentWriteFails
  <2>. QED
    BY <2>1, WriteFacts DEF Current
<1>1. PICK w : /\ segments' = [segments EXCEPT ![Current] = w]
               /\ w.open = segments[Current].open
  <2>1. CASE SegmentWrite
    <3>1. Extended(segments[Current], Take).open = segments[Current].open
      BY <1>0 DEF Extended, Segment
    <3>2. segments' = [segments EXCEPT ![Current] = Extended(@, Take)]
      BY <2>1 DEF SegmentWrite
    <3>. QED
      BY <3>1, <3>2
  <2>2. CASE SegmentWriteFails
    <3>1. PICK k \in 1..Tracks, p \in 0..(Take - 1) :
            segments' = [segments EXCEPT ![Current] = Torn(@, Take, k, p)]
      BY <2>2 DEF SegmentWriteFails
    <3>2. Torn(segments[Current], Take, k, p).open = segments[Current].open
      BY <1>0 DEF Torn, Segment
    <3>. QED
      BY <3>1, <3>2
  <2>. QED
    BY <2>1, <2>2
<1>. QED
  BY <1>0, <1>1

LEMMA ClosedStep ==
  ASSUME IInv, FilesClosed, [Next]_vars
  PROVE  FilesClosed'
<1>. USE DEF flags, ring, files, env
<1>0. segments \in Seq(Segment) /\ Current = Len(segments) /\ Current \in Nat
  BY DEF IInv, TypeOK, Current
<1>1. CASE QuietStep \/ UNCHANGED vars
  <2>1. segments' = segments /\ next' = next /\ retired' = retired
        /\ (pc' = "report" => pc = "report")
    BY <1>1 DEF QuietStep, Callback, CallbackEnter, CallbackCopy, CallbackOverflow,
       Stop, DiskLostStop, MainExit, VolumeLost, SpaceChanges, WriterDrain,
       PromoteLost, PromoteRefused, GiveUp, WriterCheck, WriterLeave,
       WriterReport, vars
  <2>2. Current' = Current
    BY <2>1 DEF Current
  <2>. QED
    BY <2>1, <2>2 DEF FilesClosed
<1>2. CASE BeginStep
  <2>1. pc' \in {"loop", "done"} /\ segments' \in {<< >>, <<FreshSegment(0)>>}
    BY <1>2 DEF BeginStep, WriterBegin, WriterBeginFails
  <2>2. \A i \in 1..Current' : i = Current'
    BY <2>1 DEF Current
  <2>. QED
    BY <2>1, <2>2 DEF FilesClosed
<1>3. CASE Promote
  <2>1. /\ segments' = Append(CloseRetired(TRUE), next) /\ retired' /\ pc' = "append"
        /\ next.open
    BY <1>3 DEF Promote
  <2>2. next \in Segment
    <3>1. Current * SegmentFrames \in Nat
      BY <1>0, NextStart, RecorderAssumption
    <3>. QED
      BY <2>1, <3>1, FreshSegmentExact DEF IInv, Counters
  <2>. DEFINE kept == CloseRetired(TRUE)
  <2>3. /\ kept \in Seq(Segment) /\ Len(kept) = Current
        /\ \A i \in 1..Current : kept[i].open => i = Current
    BY CloseRetiredCloses
  <2>4. segments' = Append(kept, next)
    BY <2>1
  <2>. HIDE DEF kept
  <2>5. /\ Current' = Current + 1
        /\ \A i \in 1..Current : segments'[i] = kept[i]
    BY <1>0, <2>2, <2>3, <2>4 DEF Current
  <2>6. ASSUME NEW i \in 1..Current', segments'[i].open
        PROVE  i = Current' \/ i = Current' - 1
    <3>1. CASE i \in 1..Current
      BY <1>0, <2>3, <2>5, <2>6, <3>1
    <3>2. CASE i \notin 1..Current
      BY <1>0, <2>5, <3>2
    <3>. QED
      BY <3>1, <3>2
  <2>. QED
    BY <2>1, <2>6 DEF FilesClosed
<1>4. CASE PromoteFails \/ AppendDone \/ AppendDoneRetireFails \/ AppendDonePrepareFails
  <2>1. pc' = "check" /\ \E ok \in BOOLEAN : segments' = CloseRetired(ok)
    BY <1>4 DEF PromoteFails, AppendDone, AppendDoneRetireFails, AppendDonePrepareFails,
       GiveUp
  <2>2. PICK ok \in BOOLEAN : segments' = CloseRetired(ok)
    BY <2>1
  <2>3. Current' = Current /\ \A i \in 1..Current : segments'[i].open => i = Current
    BY <2>2, CloseRetiredCloses DEF Current
  <2>. QED
    BY <2>1, <2>3 DEF FilesClosed
<1>5. CASE SegmentWrite \/ SegmentWriteFails
  <2>1. Current' = Current /\ \A i \in 1..Current : segments'[i].open = segments[i].open
    BY <1>0, <1>5, WriteKeepsOpen DEF Current
  <2>2. retired' = retired /\ pc' # "report"
    BY <1>5 DEF SegmentWrite, SegmentWriteFails, GiveUp
  <2>. QED
    BY <2>1, <2>2 DEF FilesClosed
<1>6. CASE WriterFinish
  <2>1. PICK closed \in BOOLEAN, last \in BOOLEAN :
          segments' = [CloseRetired(closed) EXCEPT ![Current] = Finished(@, finalize, last)]
    BY <1>6 DEF WriterFinish, Outcomes
  <2>. DEFINE kept == CloseRetired(closed)
              f == Finished(kept[Current], finalize, last)
  <2>2. /\ kept \in Seq(Segment) /\ Len(kept) = Current
        /\ \A i \in 1..Current : kept[i].open => i = Current
    BY CloseRetiredCloses
  <2>3. Current \in 1..Current
    BY <1>0, <1>6 DEF WriterFinish, IInv, Counters
  <2>4. segments' = [kept EXCEPT ![Current] = f]
    BY <2>1
  <2>. HIDE DEF kept
  <2>5. ~f.open
    <3>1. kept[Current] \in Segment
      BY <2>2, <2>3
    <3>. QED
      BY <3>1 DEF Finished, Segment
  <2>. HIDE DEF f
  <2>6. /\ Len(segments') = Current
        /\ \A i \in 1..Current : segments'[i] = IF i = Current THEN f ELSE kept[i]
    BY <1>0, <2>2, <2>3, <2>4
  <2>7. Current' = Current /\ \A i \in 1..Current : ~segments'[i].open
    BY <2>2, <2>5, <2>6 DEF Current
  <2>8. ~next'.open
    BY <1>6 DEF WriterFinish, NoSegment
  <2>. QED
    BY <2>7, <2>8 DEF FilesClosed
<1>. QED
  BY <1>1, <1>2, <1>3, <1>4, <1>5, <1>6
     DEF Next, Callback, Writer, QuietStep, BeginStep

(* The writer keeps at most the current, the staged and the retired        *)
(* segment open, and closes them all before it reports how it ended.       *)
THEOREM AllFilesClosed == Spec => []FilesClosed
<1>1. Init => FilesClosed
  BY DEF Init, FilesClosed, Current
<1>2. IInv /\ FilesClosed /\ [Next]_vars => FilesClosed'
  BY ClosedStep
<1>. QED
  BY <1>1, <1>2, Invariance, PTL DEF Spec

-----------------------------------------------------------------------------
(* The recorder as a RecorderProcess.                                      *)

(* How flags, program counter, status file and exit hang together.         *)
StopFlags ==
  /\ ~running => stopReason # None
  /\ pc \in {"finish", "report", "done"} => ~running
StatusInv ==
  /\ stopReason \in Reasons
  /\ pc \in {"begin", "loop", "append", "check", "finish", "report", "done"}
  /\ exit \in {Alive, 0, 4}
  /\ pc # "done" => exit = Alive
  /\ pc = "begin" => status.state = "NONE" /\ stopReason # Full
  /\ StopFlags

ProcessSteps == Process!PInit /\ [][Process!PNext]_(Process!processVars)

-----------------------------------------------------------------------------
(* The recorder starts as a RecorderProcess does.                          *)
LEMMA InitStatus == Init => StatusInv /\ Process!PInit
  BY DEF Init, StatusInv, StopFlags, Reasons, None, Full, NoStatus, Alive,
         Process!PInit, Process!Unset

(* A report replaces the file or leaves it.                                *)
LEMMA ReportFact ==
  ASSUME NEW s, NEW n, Report(s, n)
  PROVE  status'.state \in {status.state, s}
<1>1. CASE volume = "gone"
  BY <1>1 DEF Report
<1>2. CASE volume # "gone"
  <2>1. PICK ok \in Outcomes : status' = IF ok THEN [state |-> s, frames |-> n] ELSE status
    BY <1>2 DEF Report
  <2>. QED
    BY <2>1
<1>. QED
  BY <1>1, <1>2

(* A reason is kept, or set for the first time.                            *)
LEMMA ReasonFact ==
  ASSUME stopReason \in Reasons, NEW r \in {Clean, Full, Failure, DiskLost}, SetReason(r)
  PROVE  /\ stopReason' \in Reasons \ {None}
         /\ stopReason' = stopReason \/ (stopReason = None /\ stopReason' = r)
<1>1. CASE stopReason = None
  BY <1>1 DEF SetReason, Reasons, None, Clean, Full, Failure, DiskLost
<1>2. CASE stopReason # None
  BY <1>2 DEF SetReason
<1>. QED
  BY <1>1, <1>2

(* Steps of a running process that concern neither its end nor a signal.   *)
Running ==
  /\ pc \notin {"finish", "report", "done"}
  /\ pc' \in {"begin", "loop", "append", "check", "finish"}
  /\ exit' = exit
  /\ \/ stopReason' = stopReason /\ running' = running
     \/ ~running' /\ stopReason' = stopReason /\ stopReason # None
     \/ ~running' /\ stopReason = None /\ stopReason' \in {Full, Failure, DiskLost}
  /\ pc' = "begin" => /\ pc = "begin" /\ status' = status
                      /\ stopReason' # Full
  /\ pc' = "finish" => ~running'
  /\ status'.state \in {status.state,
                        IF stopReason = Full THEN "FINAL_SEGMENT" ELSE "RECORDING"}

(* Each of them is Progress of the process.                                *)
LEMMA RunningSteps ==
  ASSUME StatusInv, Running
  PROVE  StatusInv' /\ Process!PNext
<1>1. StatusInv'
  <2>1. stopReason' \in Reasons /\ (~running' => stopReason' # None)
    <3>1. CASE stopReason' = stopReason /\ running' = running
      BY <3>1 DEF StatusInv, StopFlags
    <3>2. CASE stopReason' = stopReason /\ stopReason # None
      BY <3>2 DEF StatusInv
    <3>3. CASE stopReason' \in {Full, Failure, DiskLost}
      BY <3>3 DEF Reasons, None, Full, Failure, DiskLost
    <3>. QED
      BY <3>1, <3>2, <3>3 DEF Running
  <2>2. /\ pc' \in {"begin", "loop", "append", "check", "finish"}
        /\ exit' = Alive /\ (pc' \in {"finish", "report", "done"} => ~running')
    BY DEF StatusInv, Running
  <2>. QED
    BY <2>1, <2>2 DEF StatusInv, StopFlags, Running
<1>2. Process!Progress
  BY DEF StatusInv, Running, None, Full, Failure, DiskLost, Process!Progress,
         Process!OwnReason, Process!Unset, Process!Full, Process!Failure, Process!DiskLost
<1>. QED
  BY <1>1, <1>2 DEF Process!PNext

-----------------------------------------------------------------------------
(* The writer opens and writes segments.                                   *)
WritingStep ==
  \/ WriterBegin \/ WriterDrain \/ PromoteLost \/ PromoteRefused \/ Promote
  \/ PromoteFails \/ SegmentWrite \/ SegmentWriteFails \/ AppendDone
  \/ AppendDoneRetireFails \/ AppendDonePrepareFails \/ WriterCheck \/ WriterLeave

(* All of them are steps of a running process.                             *)
LEMMA WritingRuns ==
  ASSUME StatusInv, WritingStep
  PROVE  Running
<1>. USE DEF flags, files, ring, env
<1>1. CASE WriterBegin
  <2>1. status'.state \in {status.state, "RECORDING"}
    BY <1>1, ReportFact DEF WriterBegin
  <2>. QED
    BY <1>1, <2>1 DEF WriterBegin, Running, StatusInv
<1>2. CASE WriterDrain \/ Promote \/ AppendDone
  BY <1>2 DEF WriterDrain, Promote, AppendDone, Running
<1>3. CASE PromoteLost \/ PromoteRefused \/ PromoteFails \/ SegmentWriteFails
  <2>1. \E r \in {Full, Failure, DiskLost} : SetReason(r)
    BY <1>3 DEF PromoteLost, PromoteRefused, PromoteFails, SegmentWriteFails
  <2>2. PICK r \in {Full, Failure, DiskLost} : SetReason(r)
    BY <2>1
  <2>3. /\ pc = "append" /\ pc' = "check" /\ ~running'
        /\ UNCHANGED <<status, exit>>
    BY <1>3 DEF PromoteLost, PromoteRefused, PromoteFails, SegmentWriteFails, GiveUp
  <2>. QED
    BY <2>2, <2>3, ReasonFact DEF Running, StatusInv, Reasons
<1>4. CASE SegmentWrite
  <2>1. /\ pc = "append" /\ pc' \in {"append", "check"} /\ UNCHANGED <<status, exit>>
        /\ \/ SetReason(Full) /\ ~running'
           \/ UNCHANGED <<stopReason, running>>
    BY <1>4 DEF SegmentWrite, GiveUp
  <2>. QED
    BY <2>1, ReasonFact DEF Running, StatusInv, Reasons
<1>5. CASE AppendDoneRetireFails \/ AppendDonePrepareFails
  <2>1. PICK r \in {Failure, DiskLost} : SetReason(r)
    BY <1>5 DEF AppendDoneRetireFails, AppendDonePrepareFails
  <2>2. /\ pc = "append" /\ pc' = "check" /\ ~running'
        /\ UNCHANGED <<status, exit>>
    BY <1>5 DEF AppendDoneRetireFails, AppendDonePrepareFails
  <2>. QED
    BY <2>1, <2>2, ReasonFact DEF Running, StatusInv, Reasons
<1>6. CASE WriterCheck
  <2>1. status'.state \in {status.state,
                           IF stopReason = Full THEN "FINAL_SEGMENT" ELSE "RECORDING"}
    BY <1>6, ReportFact DEF WriterCheck
  <2>2. /\ pc = "check" /\ pc' = "loop" /\ UNCHANGED exit
        /\ \/ UNCHANGED <<stopReason, running>>
           \/ ~running' /\ \E r \in {Full, DiskLost} : SetReason(r)
    BY <1>6 DEF WriterCheck
  <2>. QED
    BY <2>1, <2>2, ReasonFact DEF Running, StatusInv, Reasons
<1>7. CASE WriterLeave
  BY <1>7 DEF WriterLeave, Running
<1>. QED
  BY <1>1, <1>2, <1>3, <1>4, <1>5, <1>6, <1>7 DEF WritingStep

-----------------------------------------------------------------------------
(* The final state belongs to the reason.                                  *)
LEMMA FinalFact ==
  ASSUME stopReason \in Reasons \ {None}
  PROVE  FinalState \in Process!EndStates(stopReason)
  BY DEF FinalState, Reasons, None, Clean, Full, Failure, DiskLost,
         Process!EndStates, Process!Full, Process!DiskLost, Process!Failure

(* The writer thread returns.                                              *)
LEMMA EndingSteps ==
  ASSUME StatusInv, WriterBeginFails \/ WriterFinish \/ WriterReport
  PROVE  /\ StatusInv'
         /\ Process!PNext \/ UNCHANGED Process!processVars
<1>. USE DEF flags, files, ring, env
<1>1. CASE WriterBeginFails
  <2>1. /\ pc = "begin" /\ pc' = "done" /\ ~running'
        /\ UNCHANGED <<status, exit>> /\ exit = Alive /\ status.state = "NONE"
    BY <1>1 DEF WriterBeginFails, StatusInv
  <2>2. /\ stopReason' \in Reasons \ {None}
        /\ \/ stopReason' = stopReason /\ stopReason # None
           \/ stopReason = None /\ stopReason' \in {Failure, DiskLost}
    BY <1>1, ReasonFact DEF WriterBeginFails, StatusInv
  <2>3. StatusInv'
    BY <2>1, <2>2 DEF StatusInv, StopFlags
  <2>4. Process!Abandon
    BY <2>1, <2>2 DEF Process!Abandon, Process!Unset, Process!Failure,
       Process!DiskLost, None, Failure, DiskLost
  <2>. QED
    BY <2>3, <2>4 DEF Process!PNext
<1>2. CASE WriterFinish
  <2>1. /\ pc = "finish" /\ pc' = "report"
        /\ UNCHANGED <<running, stopReason, status, exit>>
    BY <1>2 DEF WriterFinish
  <2>2. StatusInv'
    BY <2>1 DEF StatusInv, StopFlags
  <2>3. UNCHANGED Process!processVars
    BY <2>1 DEF Process!processVars
  <2>. QED
    BY <2>2, <2>3
<1>3. CASE WriterReport
  <2>1. /\ pc = "report" /\ pc' = "done" /\ exit = Alive
        /\ UNCHANGED <<running, stopReason, exit>>
        /\ stopReason \in Reasons \ {None}
    BY <1>3 DEF WriterReport, StatusInv, StopFlags
  <2>2. status'.state \in {status.state, FinalState}
    BY <1>3, ReportFact DEF WriterReport
  <2>3. StatusInv'
    BY <2>1 DEF StatusInv, StopFlags
  <2>4. Process!Finish
    BY <2>1, <2>2, FinalFact DEF Process!Finish, Process!Unset, None
  <2>. QED
    BY <2>3, <2>4 DEF Process!PNext
<1>. QED
  BY <1>1, <1>2, <1>3

(* The callback, the signals, main and the volume.                         *)
LEMMA OtherSteps ==
  ASSUME StatusInv, Callback \/ Stop \/ DiskLostStop \/ MainExit \/ VolumeLost
                    \/ SpaceChanges
  PROVE  /\ StatusInv'
         /\ Process!PNext \/ UNCHANGED Process!processVars
<1>. USE DEF flags, files, ring, env
<1>1. CASE CallbackEnter \/ CallbackCopy \/ VolumeLost \/ SpaceChanges
  <2>1. UNCHANGED <<running, stopReason, pc, status, exit>>
    BY <1>1 DEF CallbackEnter, CallbackCopy, VolumeLost, SpaceChanges
  <2>. QED
    BY <2>1 DEF StatusInv, StopFlags, Process!processVars
<1>2. CASE CallbackOverflow
  <2>1. SetReason(Failure) /\ ~running' /\ UNCHANGED <<pc, status, exit>>
    BY <1>2 DEF CallbackOverflow
  <2>2. /\ stopReason' \in Reasons \ {None}
        /\ stopReason' = stopReason \/ (stopReason = None /\ stopReason' = Failure)
    BY <2>1, ReasonFact DEF StatusInv
  <2>3. StatusInv'
    BY <2>1, <2>2 DEF StatusInv, StopFlags, Failure, Full
  <2>4. CASE stopReason' = stopReason
    BY <2>1, <2>3, <2>4 DEF Process!processVars
  <2>5. CASE stopReason = None /\ stopReason' = Failure
    <3>1. pc # "done" /\ exit = Alive
      BY <2>5 DEF StatusInv, StopFlags
    <3>2. Process!Progress
      BY <2>1, <2>5, <3>1 DEF Process!Progress, Process!OwnReason, Process!Unset,
         Process!Failure, None, Failure
    <3>. QED
      BY <2>3, <3>2 DEF Process!PNext
  <2>. QED
    BY <2>2, <2>4, <2>5
<1>3. CASE Stop
  <2>1. /\ exit = Alive /\ SetReason(Clean) /\ ~running'
        /\ UNCHANGED <<pc, status, exit>>
    BY <1>3 DEF Stop
  <2>2. StatusInv'
    BY <2>1, ReasonFact DEF StatusInv, StopFlags, Clean, Full
  <2>3. Process!Terminated
    BY <2>1 DEF SetReason, None, Clean, Process!Terminated, Process!Unset, Process!Clean
  <2>. QED
    BY <2>2, <2>3 DEF Process!PNext
<1>4. CASE DiskLostStop
  <2>1. /\ exit = Alive /\ stopReason' = DiskLost /\ ~running'
        /\ UNCHANGED <<pc, status, exit>>
    BY <1>4 DEF DiskLostStop
  <2>2. StatusInv'
    BY <2>1 DEF StatusInv, StopFlags, Reasons, None, Full, DiskLost
  <2>3. Process!ToldDiskLost
    BY <2>1 DEF DiskLost, Process!ToldDiskLost, Process!DiskLost
  <2>. QED
    BY <2>2, <2>3 DEF Process!PNext
<1>5. CASE MainExit
  <2>1. /\ exit = Alive /\ exit' \in {0, 4} /\ pc = "done"
        /\ UNCHANGED <<running, stopReason, pc, status>>
    BY <1>5 DEF MainExit
  <2>2. StatusInv'
    BY <2>1 DEF StatusInv, StopFlags
  <2>3. Process!Exit
    BY <2>1 DEF Process!Exit, Alive
  <2>. QED
    BY <2>2, <2>3 DEF Process!PNext
<1>. QED
  BY <1>1, <1>2, <1>3, <1>4, <1>5 DEF Callback

(* Every step of the recorder is one of RecorderProcess or a stutter.      *)
LEMMA EachStep ==
  ASSUME StatusInv, [Next]_vars
  PROVE  /\ StatusInv'
         /\ Process!PNext \/ UNCHANGED Process!processVars
<1>1. CASE Writer
  BY <1>1, WritingRuns, RunningSteps, EndingSteps DEF Writer, WritingStep
<1>2. CASE Callback \/ Stop \/ DiskLostStop \/ MainExit \/ VolumeLost \/ SpaceChanges
  BY <1>2, OtherSteps
<1>3. CASE UNCHANGED vars
  BY <1>3 DEF vars, StatusInv, StopFlags, Process!processVars
<1>. QED
  BY <1>1, <1>2, <1>3 DEF Next

(* Whatever the callback, the writer, the signals, failing calls and the   *)
(* volume do, the process its parent sees takes only the steps of          *)
(* RecorderProcess: it reports RECORDING, then FINAL_SEGMENT, then once    *)
(* the word that belongs to its stop reason, and exits after it.  This is  *)
(* what RecorderManager is composed with.                                  *)
THEOREM RecorderIsProcess == Spec => ProcessSteps
<1>1. Init => StatusInv /\ Process!PInit
  BY InitStatus
<1>2. StatusInv /\ [Next]_vars => StatusInv' /\ [Process!PNext]_(Process!processVars)
  BY EachStep
<1>. QED
  BY <1>1, <1>2, PTL DEF Spec, ProcessSteps

-----------------------------------------------------------------------------
(* The recorder as a CaptureStream.                                        *)

(* A set of numbers has a least one.                                       *)
LEMMA LeastNumber ==
  ASSUME NEW T, T \subseteq Nat, T # {}
  PROVE  \E n \in T : \A m \in T : n <= m
<1>1. PICK n \in T : \A m \in T : ~(<<m, n>> \in OpToRel(<, Nat))
  BY WFMin, NatLessThanWellFounded, Zenon
<1>2. ASSUME NEW m \in T PROVE n <= m
  <2>1. ~(<<m, n>> \in OpToRel(<, Nat))
    BY <1>1
  <2>2. m \in Nat /\ n \in Nat
    OBVIOUS
  <2>. QED
    BY <2>1, <2>2 DEF OpToRel
<1>. QED
  BY <1>2

(* f[i] joins the first i of the sequences s.                              *)
Joins(s, n, f) ==
  f = [i \in 1..n |-> IF i = 1 THEN s[i] ELSE f[i - 1] \o s[i]]

LEMMA JoinsExist ==
  ASSUME NEW s, NEW n \in Nat
  PROVE  \E f : Joins(s, n, f)
<1>. DEFINE T == {m \in Nat : ~ \E f : Joins(s, m, f)}
<1>. SUFFICES ASSUME n \in T PROVE FALSE
  OBVIOUS
<1>1. T \subseteq Nat /\ T # {}
  OBVIOUS
<1>2. PICK m \in T : \A k \in T : m <= k
  <2>. HIDE DEF T
  <2>. QED
    BY <1>1, LeastNumber, Zenon
<1>3. m \in Nat /\ ~ \E f : Joins(s, m, f)
  OBVIOUS
<1>4. CASE m = 0
  <2>. DEFINE f == [i \in 1..0 |-> 0]
  <2>1. Joins(s, 0, f)
    <3>1. 1..0 = {}
      OBVIOUS
    <3>. QED
      BY <3>1 DEF Joins
  <2>. QED
    BY <1>3, <1>4, <2>1
<1>5. CASE m # 0
  <2>1. m - 1 \in Nat /\ ~(m - 1 \in T)
    BY <1>2, <1>3, <1>5
  <2>2. PICK f : Joins(s, m - 1, f)
    BY <2>1
  <2>. DEFINE g == [i \in 1..m |-> IF i = m
                                   THEN IF m = 1 THEN s[m] ELSE f[m - 1] \o s[m]
                                   ELSE f[i]]
  <2>3. ASSUME NEW i \in 1..m
        PROVE  g[i] = IF i = 1 THEN s[i] ELSE g[i - 1] \o s[i]
    <3>0. i \in Nat /\ i >= 1 /\ i <= m
      BY <1>3
    <3>1. CASE i = m
      <4>1. g[i] = IF m = 1 THEN s[m] ELSE f[m - 1] \o s[m]
        BY <3>1
      <4>2. ASSUME m # 1 PROVE g[m - 1] = f[m - 1]
        <5>1. m - 1 \in 1..m /\ m - 1 # m
          BY <1>3, <1>5, <4>2
        <5>. QED
          BY <5>1
      <4>. HIDE DEF g
      <4>. QED
        BY <3>1, <4>1, <4>2, Zenon
    <3>2. CASE i # m
      <4>1. i \in 1..(m - 1)
        BY <1>3, <3>0, <3>2
      <4>2. f[i] = IF i = 1 THEN s[i] ELSE f[i - 1] \o s[i]
        <5>1. f = [j \in 1..(m - 1) |-> IF j = 1 THEN s[j] ELSE f[j - 1] \o s[j]]
          BY <2>2 DEF Joins
        <5>. QED
          BY <4>1, <5>1
      <4>3. g[i] = f[i]
        BY <3>2
      <4>4. ASSUME i # 1 PROVE g[i - 1] = f[i - 1]
        <5>1. i - 1 \in 1..m /\ i - 1 # m
          BY <1>3, <3>0, <4>4
        <5>. QED
          BY <5>1
      <4>. HIDE DEF g
      <4>. QED
        BY <4>2, <4>3, <4>4, Zenon
    <3>. QED
      BY <3>1, <3>2
  <2>4. Joins(s, m, g)
    <3>1. g = [i \in 1..m |-> g[i]]
      OBVIOUS
    <3>. HIDE DEF g
    <3>2. [i \in 1..m |-> g[i]]
            = [i \in 1..m |-> IF i = 1 THEN s[i] ELSE g[i - 1] \o s[i]]
      BY <2>3
    <3>. QED
      BY <3>1, <3>2, Zenon DEF Joins
  <2>. QED
    BY <1>3, <2>4
<1>. QED
  BY <1>4, <1>5

(* The first m of them do not depend on what comes after.                  *)
SameStart(s, r, m) == \A i \in 1..m : s[i] = r[i]

LEMMA JoinsAgree ==
  \A m, n \in Nat : \A s, r, f, g :
    /\ m <= n /\ SameStart(s, r, m)
    /\ Joins(s, m, f) /\ Joins(r, n, g)
    => SameStart(f, g, m)
<1>. SUFFICES ASSUME NEW m \in Nat, NEW n \in Nat, NEW s, NEW r, NEW f, NEW g,
                     m <= n, \A i \in 1..m : s[i] = r[i],
                     Joins(s, m, f), Joins(r, n, g)
              PROVE  \A i \in 1..m : f[i] = g[i]
  BY DEF SameStart
<1>. DEFINE T == {i \in 1..m : f[i] # g[i]}
<1>. SUFFICES ASSUME T # {} PROVE FALSE
  OBVIOUS
<1>1. T \subseteq Nat
  OBVIOUS
<1>2. PICK i \in T : \A k \in T : i <= k
  <2>. HIDE DEF T
  <2>. QED
    BY <1>1, LeastNumber, Zenon
<1>3. i \in 1..m /\ f[i] # g[i] /\ i \in 1..n
  OBVIOUS
<1>4. f[i] = IF i = 1 THEN s[i] ELSE f[i - 1] \o s[i]
  <2>1. f = [j \in 1..m |-> IF j = 1 THEN s[j] ELSE f[j - 1] \o s[j]]
    BY DEF Joins
  <2>. QED
    BY <1>3, <2>1
<1>5. g[i] = IF i = 1 THEN r[i] ELSE g[i - 1] \o r[i]
  <2>1. g = [j \in 1..n |-> IF j = 1 THEN r[j] ELSE g[j - 1] \o r[j]]
    BY DEF Joins
  <2>. QED
    BY <1>3, <2>1
<1>6. i # 1 => f[i - 1] = g[i - 1]
  <2>. HAVE i # 1
  <2>1. i - 1 \in 1..m /\ ~(i <= i - 1)
    BY <1>3
  <2>2. ~(i - 1 \in T)
    BY <1>2, <2>1
  <2>. QED
    BY <2>1, <2>2
<1>7. s[i] = r[i]
  BY <1>3
<1>. HIDE DEF T
<1>. QED
  BY <1>3, <1>4, <1>5, <1>6, <1>7, Zenon

LEMMA JoinsType ==
  ASSUME NEW s \in Seq(Seq(Nat)), NEW f, Joins(s, Len(s), f)
  PROVE  \A i \in 1..Len(s) : f[i] \in Seq(Nat)
<1>. DEFINE T == {i \in 1..Len(s) : ~(f[i] \in Seq(Nat))}
<1>. SUFFICES ASSUME T # {} PROVE FALSE
  OBVIOUS
<1>1. T \subseteq Nat
  OBVIOUS
<1>2. PICK i \in T : \A k \in T : i <= k
  <2>. HIDE DEF T
  <2>. QED
    BY <1>1, LeastNumber, Zenon
<1>3. i \in 1..Len(s) /\ ~(f[i] \in Seq(Nat)) /\ Len(s) \in Nat
  OBVIOUS
<1>4. f[i] = IF i = 1 THEN s[i] ELSE f[i - 1] \o s[i]
  <2>1. f = [j \in 1..Len(s) |-> IF j = 1 THEN s[j] ELSE f[j - 1] \o s[j]]
    BY DEF Joins
  <2>. QED
    BY <1>3, <2>1
<1>5. i # 1 => f[i - 1] \in Seq(Nat)
  <2>. HAVE i # 1
  <2>1. i - 1 \in 1..Len(s) /\ ~(i <= i - 1)
    BY <1>3
  <2>2. ~(i - 1 \in T)
    BY <1>2, <2>1
  <2>. QED
    BY <2>1, <2>2
<1>6. s[i] \in Seq(Nat)
  BY <1>3
<1>7. i # 1 => f[i - 1] \o s[i] \in Seq(Nat)
  BY <1>5, <1>6
<1>. HIDE DEF T
<1>. QED
  BY <1>3, <1>4, <1>6, <1>7, Zenon

(* FlattenSeq is the last of the joins.                                    *)
LEMMA FlattenIsJoin ==
  ASSUME NEW s \in Seq(Seq(Nat)), Len(s) > 0
  PROVE  \E f : Joins(s, Len(s), f) /\ FlattenSeq(s) = f[Len(s)]
<1>. DEFINE J == CHOOSE f : f = [i \in 1..Len(s) |->
                                   IF i = 1 THEN s[i] ELSE f[i - 1] \o s[i]]
<1>0. Len(s) \in Nat
  OBVIOUS
<1>1. \E f : Joins(s, Len(s), f)
  BY <1>0, JoinsExist
<1>2. Joins(s, Len(s), J)
  BY <1>1 DEF Joins
<1>3. FlattenSeq(s) = J[Len(s)]
  BY DEF FlattenSeq
<1>. QED
  BY <1>2, <1>3

LEMMA FlattenType ==
  ASSUME NEW s \in Seq(Seq(Nat))
  PROVE  FlattenSeq(s) \in Seq(Nat)
<1>0. Len(s) \in Nat
  OBVIOUS
<1>1. CASE Len(s) = 0
  <2>1. FlattenSeq(s) = << >>
    BY <1>1 DEF FlattenSeq
  <2>2. << >> \in Seq(Nat)
    OBVIOUS
  <2>. QED
    BY <2>1, <2>2, Zenon
<1>2. CASE Len(s) > 0
  <2>1. PICK f : Joins(s, Len(s), f) /\ FlattenSeq(s) = f[Len(s)]
    BY <1>2, FlattenIsJoin
  <2>2. Len(s) \in 1..Len(s)
    BY <1>0, <1>2
  <2>. QED
    BY <2>1, <2>2, JoinsType
<1>. QED
  BY <1>0, <1>1, <1>2

(* One more sequence is appended to the join of the others.                *)
LEMMA FlattenAppend ==
  ASSUME NEW s \in Seq(Seq(Nat)), NEW x \in Seq(Nat)
  PROVE  FlattenSeq(Append(s, x)) = FlattenSeq(s) \o x
<1>. DEFINE r == Append(s, x)
            n == Len(s)
<1>1. /\ r \in Seq(Seq(Nat)) /\ n \in Nat /\ Len(r) = n + 1 /\ Len(r) > 0
      /\ r[n + 1] = x /\ \A i \in 1..n : s[i] = r[i]
  OBVIOUS
<1>2. PICK g : Joins(r, Len(r), g) /\ FlattenSeq(r) = g[Len(r)]
  <2>. HIDE DEF r
  <2>. QED
    BY <1>1, FlattenIsJoin
<1>3. g[n + 1] = IF n + 1 = 1 THEN r[n + 1] ELSE g[n] \o r[n + 1]
  <2>1. g = [j \in 1..Len(r) |-> IF j = 1 THEN r[j] ELSE g[j - 1] \o r[j]]
    BY <1>2 DEF Joins
  <2>2. n + 1 \in 1..Len(r) /\ (n + 1) - 1 = n
    BY <1>1
  <2>. HIDE DEF r, n
  <2>3. g[n + 1] = IF n + 1 = 1 THEN r[n + 1] ELSE g[(n + 1) - 1] \o r[n + 1]
    BY <2>1, <2>2
  <2>. QED
    BY <2>2, <2>3, Zenon
<1>4. CASE n = 0
  <2>1. s = << >> /\ FlattenSeq(s) = s
    BY <1>4 DEF FlattenSeq
  <2>2. FlattenSeq(r) = x
    BY <1>1, <1>2, <1>3, <1>4
  <2>3. << >> \o x = x
    BY ConcatEmptySeq
  <2>. HIDE DEF r
  <2>4. FlattenSeq(r) = FlattenSeq(s) \o x
    BY <2>1, <2>2, <2>3
  <2>. QED
    BY <2>4 DEF r
<1>5. CASE n > 0
  <2>1. PICK f : Joins(s, n, f) /\ FlattenSeq(s) = f[n]
    BY <1>5, FlattenIsJoin
  <2>2. n \in 1..n /\ n <= Len(r) /\ Len(r) \in Nat /\ n + 1 # 1
    BY <1>1, <1>5
  <2>3. f[n] = g[n]
    <3>. HIDE DEF r, n
    <3>. DEFINE k == Len(r)
    <3>0. /\ n \in Nat /\ k \in Nat /\ n <= k
          /\ SameStart(s, r, n)
          /\ Joins(s, n, f) /\ Joins(r, k, g)
      BY <1>1, <1>2, <2>1, <2>2, Zenon DEF SameStart
    <3>. HIDE DEF k
    <3>1. SameStart(f, g, n)
      BY <3>0, JoinsAgree, Zenon
    <3>. QED
      BY <2>2, <3>1 DEF SameStart
  <2>. HIDE DEF r, n
  <2>4. FlattenSeq(r) = FlattenSeq(s) \o x
    BY <1>1, <1>2, <1>3, <2>1, <2>2, <2>3, Zenon
  <2>. QED
    BY <2>4 DEF r
<1>. QED
  BY <1>1, <1>4, <1>5

LEMMA AppendTwice ==
  \A u, v, w \in Seq(Nat) : (u \o v) \o w = u \o (v \o w)
<1>. TAKE u, v, w \in Seq(Nat)
<1>. DEFINE l == (u \o v) \o w
            r == u \o (v \o w)
<1>1. l \in Seq(Nat) /\ r \in Seq(Nat)
  OBVIOUS
<1>2. Len(l) = Len(r)
  OBVIOUS
<1>3. \A i \in 1..Len(l) : l[i] = r[i]
  OBVIOUS
<1>. HIDE DEF l, r
<1>4. l = r
  BY <1>1, <1>2, <1>3, SeqEqual
<1>. QED
  BY <1>4 DEF l, r

(* What is appended to the last sequence is appended to the join.          *)
LEMMA FlattenLast ==
  \A n \in Nat \ {0}, q \in Seq(Nat) : \A s, r :
    /\ s \in [1..n -> Seq(Nat)] /\ r \in [1..n -> Seq(Nat)]
    /\ SameStart(r, s, n - 1) /\ r[n] = s[n] \o q
    => FlattenSeq(r) = FlattenSeq(s) \o q
<1>. SUFFICES ASSUME NEW n \in Nat \ {0}, NEW q \in Seq(Nat), NEW s, NEW r,
                     s \in [1..n -> Seq(Nat)], r \in [1..n -> Seq(Nat)],
                     SameStart(r, s, n - 1), r[n] = s[n] \o q
              PROVE  FlattenSeq(r) = FlattenSeq(s) \o q
  OBVIOUS
<1>. DEFINE front == [i \in 1..(n - 1) |-> s[i]]
<1>0. s \in Seq(Seq(Nat)) /\ r \in Seq(Seq(Nat)) /\ Len(s) = n /\ Len(r) = n /\ n \in 1..n
  OBVIOUS
<1>1. front \in Seq(Seq(Nat)) /\ Len(front) = n - 1
      /\ \A i \in 1..(n - 1) : front[i] = s[i]
  <2>1. \A i \in 1..(n - 1) : s[i] \in Seq(Nat)
    OBVIOUS
  <2>. QED
    BY <2>1
<1>. HIDE DEF front
<1>2. ASSUME NEW u, u \in [1..n -> Seq(Nat)], \A i \in 1..(n - 1) : u[i] = front[i]
      PROVE  u = Append(front, u[n])
  <2>1. u[n] \in Seq(Nat) /\ u \in Seq(Seq(Nat)) /\ Len(u) = n
    BY <1>2
  <2>2. /\ Append(front, u[n]) \in Seq(Seq(Nat)) /\ Len(Append(front, u[n])) = n
        /\ \A i \in 1..n : Append(front, u[n])[i] = IF i = n THEN u[n] ELSE front[i]
    BY <1>1, <2>1
  <2>3. \A i \in 1..n : i # n => i \in 1..(n - 1)
    OBVIOUS
  <2>4. \A i \in 1..Len(u) : Append(front, u[n])[i] = u[i]
    BY <1>2, <2>1, <2>2, <2>3
  <2>. QED
    BY <2>1, <2>2, <2>4, SeqEqual
<1>3. s = Append(front, s[n])
  BY <1>1, <1>2
<1>4. r = Append(front, s[n] \o q)
  <2>1. \A i \in 1..(n - 1) : r[i] = front[i]
    BY <1>1 DEF SameStart
  <2>. QED
    BY <1>2, <2>1
<1>5. s[n] \in Seq(Nat) /\ s[n] \o q \in Seq(Nat) /\ FlattenSeq(front) \in Seq(Nat)
  BY <1>0, <1>1, FlattenType
<1>6. FlattenSeq(Append(front, s[n])) = FlattenSeq(front) \o s[n]
  BY <1>1, <1>5, FlattenAppend
<1>7. FlattenSeq(Append(front, s[n] \o q)) = FlattenSeq(front) \o (s[n] \o q)
  BY <1>1, <1>5, FlattenAppend
<1>8. (FlattenSeq(front) \o s[n]) \o q = FlattenSeq(front) \o (s[n] \o q)
  <2>. DEFINE F == FlattenSeq(front)
              l == s[n]
  <2>1. F \in Seq(Nat) /\ l \in Seq(Nat) /\ q \in Seq(Nat)
    BY <1>5
  <2>. HIDE DEF F, l
  <2>2. (F \o l) \o q = F \o (l \o q)
    BY <2>1, AppendTwice
  <2>. QED
    BY <2>2 DEF F, l
<1>. QED
  BY <1>3, <1>4, <1>6, <1>7, <1>8

-----------------------------------------------------------------------------
(* Track t of the recording, over all of its segments.                     *)
Stream(segs, t) == FlattenSeq([i \in 1..Len(segs) |-> segs[i].data[t]])

LEMMA StreamType ==
  ASSUME NEW segs \in Seq(Segment), NEW t \in 1..Tracks
  PROVE  /\ [i \in 1..Len(segs) |-> segs[i].data[t]] \in Seq(Seq(Nat))
         /\ Len([i \in 1..Len(segs) |-> segs[i].data[t]]) = Len(segs)
         /\ Stream(segs, t) \in Seq(Nat)
<1>. DEFINE d == [i \in 1..Len(segs) |-> segs[i].data[t]]
<1>1. \A i \in 1..Len(segs) : segs[i].data[t] \in Seq(Nat)
  <2>. TAKE i \in 1..Len(segs)
  <2>1. segs[i] \in Segment
    OBVIOUS
  <2>. QED
    BY <2>1 DEF Segment
<1>2. Len(segs) \in Nat
  OBVIOUS
<1>3. d \in Seq(Seq(Nat)) /\ Len(d) = Len(segs)
  BY <1>1, <1>2
<1>. HIDE DEF d
<1>4. FlattenSeq(d) \in Seq(Nat)
  BY <1>3, FlattenType
<1>. QED
  BY <1>3, <1>4 DEF d, Stream

(* What closing segments leaves alone.                                     *)
LEMMA SameStream ==
  ASSUME NEW s, NEW r, SameFrames(s, r), NEW t \in 1..Tracks
  PROVE  Stream(s, t) = Stream(r, t)
<1>1. [i \in 1..Len(s) |-> s[i].data[t]] = [i \in 1..Len(r) |-> r[i].data[t]]
  BY DEF SameFrames
<1>. QED
  BY <1>1, Zenon DEF Stream

LEMMA EmptyStream ==
  ASSUME NEW t
  PROVE  Stream(<< >>, t) = << >>
<1>. DEFINE e == [i \in 1..Len(<< >>) |-> << >>[i].data[t]]
<1>1. e = << >>
  OBVIOUS
<1>2. FlattenSeq(<< >>) = << >>
  BY DEF FlattenSeq
<1>. HIDE DEF e
<1>3. FlattenSeq(e) = << >>
  BY <1>1, <1>2
<1>. QED
  BY <1>3 DEF Stream, e

(* A new segment adds its frames to each track.                            *)
LEMMA StreamAppend ==
  ASSUME NEW segs \in Seq(Segment), NEW x \in Segment, NEW t \in 1..Tracks
  PROVE  Stream(Append(segs, x), t) = Stream(segs, t) \o x.data[t]
<1>. DEFINE d == [i \in 1..Len(segs) |-> segs[i].data[t]]
            r == Append(segs, x)
            e == [i \in 1..Len(r) |-> r[i].data[t]]
            q == x.data[t]
<1>1. d \in Seq(Seq(Nat)) /\ Len(d) = Len(segs) /\ q \in Seq(Nat) /\ Len(segs) \in Nat
  <2>1. q \in Seq(Nat)
    BY DEF Segment
  <2>2. Len(segs) \in Nat
    OBVIOUS
  <2>. HIDE DEF q
  <2>. QED
    BY <2>1, <2>2, StreamType
<1>2. /\ r \in Seq(Segment) /\ Len(r) = Len(segs) + 1
      /\ r[Len(segs) + 1] = x /\ \A i \in 1..Len(segs) : r[i] = segs[i]
  OBVIOUS
<1>3. e \in Seq(Seq(Nat)) /\ Len(e) = Len(segs) + 1
  <2>. HIDE DEF r
  <2>. QED
    BY <1>2, StreamType
<1>4. \A i \in 1..Len(e) : e[i] = IF i = Len(segs) + 1 THEN q ELSE d[i]
  <2>. TAKE i \in 1..Len(e)
  <2>1. i \in 1..(Len(segs) + 1) /\ e[i] = r[i].data[t]
    <3>1. i \in 1..Len(r)
      BY <1>2, <1>3
    <3>. HIDE DEF r
    <3>. QED
      BY <1>2, <1>3, <3>1
  <2>2. CASE i = Len(segs) + 1
    BY <1>2, <2>1, <2>2, Zenon
  <2>3. CASE i # Len(segs) + 1
    <3>1. i \in 1..Len(segs)
      BY <1>1, <2>1, <2>3
    <3>2. d[i] = segs[i].data[t]
      BY <3>1
    <3>. QED
      BY <1>2, <2>1, <2>3, <3>1, <3>2, Zenon
  <2>. QED
    BY <2>2, <2>3
<1>. HIDE DEF e, d, q, r
<1>5. e = Append(d, q)
  <2>1. Append(d, q) \in Seq(Seq(Nat)) /\ Len(Append(d, q)) = Len(segs) + 1
    BY <1>1
  <2>2. \A i \in 1..(Len(segs) + 1) :
          Append(d, q)[i] = IF i = Len(segs) + 1 THEN q ELSE d[i]
    BY <1>1
  <2>3. \A i \in 1..Len(e) : e[i] = Append(d, q)[i]
    BY <1>3, <1>4, <2>2
  <2>. QED
    BY <1>3, <2>1, <2>3, SeqEqual
<1>6. FlattenSeq(Append(d, q)) = FlattenSeq(d) \o q
  BY <1>1, FlattenAppend
<1>. QED
  BY <1>5, <1>6, Zenon DEF Stream, d, e, q, r

(* What is written to the last segment goes to the end of the tracks.      *)
LEMMA StreamLast ==
  ASSUME NEW segs \in Seq(Segment), Len(segs) > 0, NEW w \in Segment,
         NEW t \in 1..Tracks, NEW q \in Seq(Nat),
         w.data[t] = segs[Len(segs)].data[t] \o q
  PROVE  Stream([segs EXCEPT ![Len(segs)] = w], t) = Stream(segs, t) \o q
<1>. DEFINE n == Len(segs)
            r == [segs EXCEPT ![n] = w]
            d == [i \in 1..n |-> segs[i].data[t]]
            e == [i \in 1..Len(r) |-> r[i].data[t]]
<1>1. n \in Nat \ {0} /\ n \in 1..n
  OBVIOUS
<1>2. r \in Seq(Segment) /\ Len(r) = n /\ \A i \in 1..n : r[i] = IF i = n THEN w ELSE segs[i]
  OBVIOUS
<1>3. d \in Seq(Seq(Nat)) /\ Len(d) = n
  BY StreamType
<1>. HIDE DEF r
<1>4. e \in Seq(Seq(Nat)) /\ Len(e) = n
  BY <1>2, StreamType
<1>5. \A i \in 1..n : d[i] = segs[i].data[t] /\ e[i] = r[i].data[t]
  BY <1>2
<1>. HIDE DEF n, d, e
<1>6. d \in [1..n -> Seq(Nat)] /\ e \in [1..n -> Seq(Nat)]
  BY <1>3, <1>4
<1>7. SameStart(e, d, n - 1)
  <2>. SUFFICES ASSUME NEW i \in 1..(n - 1) PROVE e[i] = d[i]
    BY DEF SameStart
  <2>1. i \in 1..n /\ i # n
    BY <1>1
  <2>. QED
    BY <1>2, <1>5, <2>1, Zenon
<1>8. e[n] = d[n] \o q
  <2>1. w.data[t] = segs[n].data[t] \o q
    BY DEF n
  <2>. QED
    BY <1>1, <1>2, <1>5, <2>1, Zenon
<1>9. FlattenSeq(e) = FlattenSeq(d) \o q
  BY <1>1, <1>6, <1>7, <1>8, FlattenLast, Zenon
<1>. QED
  BY <1>9, Zenon DEF Stream, n, d, e, r

-----------------------------------------------------------------------------
(* The current segment is full and there is no way on: no staged segment,  *)
(* no space for one, or no volume.                                         *)
Stuck == /\ CurrentFull
         /\ ~next.open \/ space # "ample" \/ volume = "gone"
(* The frames of a track come in the order of the capture.                 *)
Rising == \A t \in 1..Tracks :
            /\ Capture!Increasing(Stream(segments, t))
            /\ \A i \in 1..Len(Stream(segments, t)) : Stream(segments, t)[i] <= taken
(* Until the recorder knows of a failure each track is the capture up to   *)
(* the frames written, and frames are given up only where it is stuck.     *)
Settled == written = taken \/ Stuck
Whole == KnownSound => /\ \A t \in 1..Tracks : Stream(segments, t) = Capture!Prefix(written)
                       /\ Settled
StreamInv == /\ callback \in CallbackBlocks \cup {0}
             /\ pc = "begin" => taken = 0
             /\ Rising /\ Whole

(* No call fails while the volume is there, and free space does not grow.  *)
NoFaults == ~MayFail /\ ~MayRecover

LEMMA ReassembledStreams ==
  /\ Reassembled = [t \in 1..Tracks |-> Stream(segments, t)]
  /\ Reassembled' = [t \in 1..Tracks |-> Stream(segments', t)]
  BY Zenon DEF Reassembled, Stream, Current

(* What the recorder knows it never forgets.                               *)
LEMMA KnownStays ==
  ASSUME [Next]_vars, KnownSound'
  PROVE  KnownSound
<1>. USE DEF flags, ring, files, env
<1>1. ~ioFailure' /\ stopReason' # DiskLost
  BY DEF KnownSound
<1>2. stopReason # DiskLost
  <2>1. CASE Next
    BY <1>1, <2>1, StepKeepsReason DEF DiskLost, None
  <2>2. CASE UNCHANGED vars
    BY <1>1, <2>2 DEF vars
  <2>. QED
    BY <2>1, <2>2
<1>3. CASE Next
  <2>. SUFFICES ioFailure => ioFailure'
    BY <1>1, <1>2 DEF KnownSound
  <2>1. CASE Callback
    BY <2>1 DEF Callback, CallbackEnter, CallbackCopy, CallbackOverflow
  <2>2. CASE WriterBegin \/ WriterBeginFails \/ WriterDrain \/ WriterCheck
    BY <2>2 DEF WriterBegin, WriterBeginFails, WriterDrain, WriterCheck
  <2>3. CASE PromoteLost \/ PromoteRefused \/ Promote \/ PromoteFails
    BY <2>3 DEF PromoteLost, PromoteRefused, Promote, PromoteFails
  <2>4. CASE SegmentWrite \/ SegmentWriteFails
    BY <2>4 DEF SegmentWrite, SegmentWriteFails
  <2>5. CASE AppendDone \/ AppendDoneRetireFails \/ AppendDonePrepareFails
    BY <2>5 DEF AppendDone, AppendDoneRetireFails, AppendDonePrepareFails
  <2>6. CASE WriterLeave \/ WriterFinish \/ WriterReport
    BY <2>6 DEF WriterLeave, WriterFinish, WriterReport
  <2>7. CASE Stop \/ DiskLostStop \/ MainExit \/ VolumeLost \/ SpaceChanges
    BY <2>7 DEF Stop, DiskLostStop, MainExit, VolumeLost, SpaceChanges
  <2>. QED
    BY <1>3, <2>1, <2>2, <2>3, <2>4, <2>5, <2>6, <2>7 DEF Next, Writer
<1>4. CASE UNCHANGED vars
  BY <1>1, <1>2, <1>4 DEF KnownSound, vars
<1>. QED
  BY <1>3, <1>4

(* A step that writes nothing.                                             *)
LEMMA StreamsStay ==
  ASSUME IInv, IInv', StreamInv,
         \A t \in 1..Tracks : Stream(segments', t) = Stream(segments, t),
         written' = written, taken' \in {taken, drained},
         callback' \in {callback, 0} \cup CallbackBlocks,
         pc' = "begin" => pc = "begin" /\ taken' = taken,
         KnownSound' => KnownSound /\ Settled'
  PROVE  StreamInv'
<1>1. taken \in Nat /\ taken' \in Nat /\ taken <= taken' /\ drained \in Nat
  BY DEF IInv, TypeOK, Counters
<1>2. Rising'
  <2>. SUFFICES ASSUME NEW t \in 1..Tracks
                PROVE  /\ Capture!Increasing(Stream(segments', t))
                       /\ \A i \in 1..Len(Stream(segments', t)) : Stream(segments', t)[i] <= taken'
    BY DEF Rising, Capture!Increasing
  <2>. DEFINE s == Stream(segments, t)
  <2>1. s \in Seq(Nat) /\ Stream(segments', t) = s
    BY StreamType DEF IInv, TypeOK
  <2>2. Capture!Increasing(s) /\ \A i \in 1..Len(s) : s[i] <= taken
    BY DEF StreamInv, Rising
  <2>. HIDE DEF s
  <2>3. \A i \in 1..Len(s) : s[i] <= taken'
    <3>. TAKE i \in 1..Len(s)
    <3>1. s[i] \in Nat /\ s[i] <= taken
      BY <2>1, <2>2
    <3>. QED
      BY <1>1, <3>1
  <2>. QED
    BY <2>1, <2>2, <2>3
<1>3. Whole'
  BY DEF StreamInv, Whole
<1>. QED
  BY <1>2, <1>3 DEF StreamInv

(* Closing segments does not make room.                                    *)
LEMMA StaysFull ==
  ASSUME SameFrames(segments', segments), Current > 0, CurrentFull
  PROVE  CurrentFull'
<1>1. Len(segments') = Len(segments) /\ Len(segments) \in Nat
      /\ \A i \in 1..Len(segments') : segments'[i].count = segments[i].count
  BY DEF SameFrames
<1>2. Len(segments) \in 1..Len(segments')
  BY <1>1 DEF Current
<1>3. segments'[Len(segments)].count = segments[Len(segments)].count
  BY <1>1, <1>2
<1>. QED
  BY <1>1, <1>3 DEF CurrentFull, Current

(* Without faults frames are given up only where the writer is stuck, and  *)
(* it stays stuck.                                                         *)
LEMMA QuietSettled ==
  ASSUME NoFaults, IInv, QuietStep, Settled
  PROVE  Settled'
<1>. USE DEF flags, ring, files, env, GiveUp, Settled, Stuck, CurrentFull, Current
<1>1. CASE Callback \/ Stop \/ DiskLostStop \/ MainExit
  BY <1>1 DEF Callback, CallbackEnter, CallbackCopy, CallbackOverflow,
     Stop, DiskLostStop, MainExit
<1>2. CASE VolumeLost
  BY <1>2 DEF VolumeLost
<1>3. CASE SpaceChanges
  <2>1. /\ UNCHANGED <<segments, next, taken, written, volume>>
        /\ space = "ample" \/ space' # "ample"
    BY <1>3 DEF SpaceChanges, NoFaults
  <2>. QED
    BY <2>1
<1>4. CASE WriterDrain \/ WriterCheck \/ WriterLeave \/ WriterReport
  BY <1>4 DEF WriterDrain, WriterCheck, WriterLeave, WriterReport
<1>5. CASE PromoteLost
  <2>1. CurrentFull /\ volume = "gone"
    BY <1>5 DEF PromoteLost, Probes, NoFaults
  <2>2. UNCHANGED <<segments, volume>>
    BY <1>5 DEF PromoteLost
  <2>. QED
    BY <2>1, <2>2
<1>6. CASE PromoteRefused
  <2>1. CurrentFull /\ (space # "ample" \/ ~next.open)
    BY <1>6 DEF PromoteRefused
  <2>2. UNCHANGED <<segments, next, space>>
    BY <1>6 DEF PromoteRefused
  <2>. QED
    BY <2>1, <2>2
<1>. QED
  BY <1>1, <1>2, <1>3, <1>4, <1>5, <1>6 DEF QuietStep

LEMMA ClosingSettled ==
  ASSUME IInv, ClosingStep, Settled, ~ioFailure'
  PROVE  Settled'
<1>. USE DEF flags, ring, files, env
<1>1. SameFrames(segments', segments) /\ written' = written
  BY ClosingFiles
<1>2. Current > 0
  BY DEF IInv, Counters, ClosingStep, PromoteFails, AppendDone, AppendDoneRetireFails,
         AppendDonePrepareFails, WriterFinish
<1>3. CASE PromoteFails \/ AppendDoneRetireFails
  BY <1>3 DEF PromoteFails, AppendDoneRetireFails
<1>4. CASE AppendDone
  <2>1. /\ taken' = taken /\ UNCHANGED <<space, volume>>
        /\ CurrentFull => next' = next
    BY <1>4 DEF AppendDone, WantsNext
  <2>2. CASE written = taken
    BY <1>1, <2>1, <2>2 DEF Settled
  <2>3. CASE Stuck
    BY <1>1, <1>2, <2>1, <2>3, StaysFull DEF Settled, Stuck
  <2>. QED
    BY <2>2, <2>3 DEF Settled
<1>5. CASE AppendDonePrepareFails
  <2>1. ~CurrentFull /\ taken' = taken
    BY <1>5 DEF AppendDonePrepareFails, WantsNext
  <2>. QED
    BY <1>1, <2>1 DEF Settled, Stuck
<1>6. CASE WriterFinish
  <2>1. taken' = taken /\ next' = NoSegment
    BY <1>6 DEF WriterFinish
  <2>2. ~next'.open
    BY <2>1 DEF NoSegment
  <2>3. CASE written = taken
    BY <1>1, <2>1, <2>3 DEF Settled
  <2>4. CASE Stuck
    BY <1>1, <1>2, <2>2, <2>4, StaysFull DEF Settled, Stuck
  <2>. QED
    BY <2>3, <2>4 DEF Settled
<1>. QED
  BY <1>3, <1>4, <1>5, <1>6 DEF ClosingStep

(* What the callback and the program counter do in any step.               *)
LEMMA OutsideFiles ==
  ASSUME [Next]_vars
  PROVE  /\ callback' \in {callback, 0} \cup CallbackBlocks
         /\ pc' = "begin" => pc = "begin" /\ taken' = taken
         /\ pc \in {"report", "done"} => pc' \in {"report", "done"}
<1>. USE DEF flags, ring, files, env
<1>1. CASE Callback
  BY <1>1 DEF Callback, CallbackEnter, CallbackCopy, CallbackOverflow
<1>2. CASE WriterBegin \/ WriterBeginFails \/ WriterDrain \/ WriterCheck
  BY <1>2 DEF WriterBegin, WriterBeginFails, WriterDrain, WriterCheck
<1>3. CASE PromoteLost \/ PromoteRefused \/ Promote \/ PromoteFails
  BY <1>3 DEF PromoteLost, PromoteRefused, Promote, PromoteFails, GiveUp
<1>4. CASE SegmentWrite \/ SegmentWriteFails
  BY <1>4 DEF SegmentWrite, SegmentWriteFails, GiveUp
<1>5. CASE AppendDone \/ AppendDoneRetireFails \/ AppendDonePrepareFails
  BY <1>5 DEF AppendDone, AppendDoneRetireFails, AppendDonePrepareFails
<1>6. CASE WriterLeave \/ WriterFinish \/ WriterReport
  BY <1>6 DEF WriterLeave, WriterFinish, WriterReport
<1>7. CASE Stop \/ DiskLostStop \/ MainExit \/ VolumeLost \/ SpaceChanges
  BY <1>7 DEF Stop, DiskLostStop, MainExit, VolumeLost, SpaceChanges
<1>8. CASE UNCHANGED vars
  BY <1>8 DEF vars
<1>. QED
  BY <1>1, <1>2, <1>3, <1>4, <1>5, <1>6, <1>7, <1>8 DEF Next, Writer

-----------------------------------------------------------------------------
(* A track that goes on with frames of the block at hand.                  *)
LEMMA RiseOn ==
  ASSUME taken \in Nat, NEW s \in Seq(Nat), NEW n \in Nat,
         Capture!Increasing(s), \A i \in 1..Len(s) : s[i] <= taken
  PROVE  /\ s \o Frames(n) \in Seq(Nat)
         /\ Capture!Increasing(s \o Frames(n))
         /\ \A i \in 1..Len(s \o Frames(n)) : (s \o Frames(n))[i] <= taken + n
         /\ Capture!Extends(s, s \o Frames(n))
<1>. DEFINE q == Frames(n)
            r == s \o q
<1>1. Len(s) \in Nat /\ q \in Seq(Nat)
  BY FramesType
<1>2. /\ Len(r) = Len(s) + n
      /\ \A a \in 1..(Len(s) + n) : r[a] = IF a <= Len(s) THEN s[a] ELSE taken + (a - Len(s))
  BY AppendedFrames
<1>3. r \in Seq(Nat)
  <2>. HIDE DEF q
  <2>. QED
    BY <1>1
<1>. HIDE DEF r, q
<1>4. \A i \in 1..Len(s) : s[i] \in Nat /\ s[i] <= taken
  OBVIOUS
<1>5. Capture!Increasing(r)
  <2>. SUFFICES ASSUME NEW i \in 1..(Len(r) - 1) PROVE r[i] < r[i + 1]
    BY DEF Capture!Increasing
  <2>1. i \in 1..(Len(s) + n) /\ i + 1 \in 1..(Len(s) + n) /\ i \in Nat
    BY <1>1, <1>2
  <2>2. CASE i + 1 <= Len(s)
    <3>1. i \in 1..(Len(s) - 1) /\ i <= Len(s)
      BY <1>1, <2>1, <2>2
    <3>2. s[i] < s[i + 1]
      BY <3>1 DEF Capture!Increasing
    <3>. QED
      BY <1>2, <2>1, <2>2, <3>1, <3>2
  <2>3. CASE i <= Len(s) /\ ~(i + 1 <= Len(s))
    <3>1. r[i] = s[i] /\ r[i + 1] = taken + (i + 1 - Len(s)) /\ i = Len(s)
      BY <1>1, <1>2, <2>1, <2>3
    <3>2. i \in 1..Len(s)
      BY <2>1, <2>3, <1>1
    <3>3. s[i] \in Nat /\ s[i] <= taken
      BY <1>4, <3>2
    <3>. QED
      BY <1>1, <3>1, <3>3
  <2>4. CASE ~(i <= Len(s))
    <3>1. r[i] = taken + (i - Len(s)) /\ r[i + 1] = taken + (i + 1 - Len(s))
      BY <1>1, <1>2, <2>1, <2>4
    <3>. QED
      BY <1>1, <2>1, <3>1
  <2>. QED
    BY <2>2, <2>3, <2>4
<1>6. \A i \in 1..Len(r) : r[i] <= taken + n
  <2>. TAKE i \in 1..Len(r)
  <2>1. i \in 1..(Len(s) + n) /\ i \in Nat
    BY <1>1, <1>2
  <2>2. CASE i <= Len(s)
    <3>1. i \in 1..Len(s) /\ r[i] = s[i]
      BY <1>1, <1>2, <2>1, <2>2
    <3>2. s[i] \in Nat /\ s[i] <= taken
      BY <1>4, <3>1
    <3>. QED
      BY <3>1, <3>2
  <2>3. CASE ~(i <= Len(s))
    <3>1. r[i] = taken + (i - Len(s))
      BY <1>2, <2>1, <2>3
    <3>. QED
      BY <1>1, <2>1, <2>3, <3>1
  <2>. QED
    BY <2>2, <2>3
<1>7. Capture!Extends(s, r)
  <2>1. Len(s) <= Len(r)
    BY <1>1, <1>2
  <2>2. \A i \in 1..Len(s) : r[i] = s[i] /\ r[i] \in Nat
    BY <1>1, <1>2, <1>4
  <2>3. /\ SubSeq(r, 1, Len(s)) \in Seq(Nat)
        /\ Len(SubSeq(r, 1, Len(s))) = Len(s)
        /\ \A i \in 1..Len(s) : SubSeq(r, 1, Len(s))[i] = s[i]
    <3>. DEFINE u == SubSeq(r, 1, Len(s))
    <3>1. /\ u \in Seq(Nat)
          /\ Len(u) = IF 1 <= Len(s) THEN Len(s) - 1 + 1 ELSE 0
          /\ \A i \in 1..(Len(s) - 1 + 1) : u[i] = r[1 + i - 1]
      BY <1>1, <2>2, SubSeqProperties
    <3>. HIDE DEF u
    <3>2. Len(s) - 1 + 1 = Len(s) /\ \A i \in 1..Len(s) : 1 + i - 1 = i
      BY <1>1
    <3>3. \A i \in 1..Len(s) : u[i] = s[i]
      BY <3>1, <3>2, <2>2
    <3>4. u \in Seq(Nat) /\ Len(u) = Len(s)
      BY <1>1, <3>1
    <3>. QED
      BY <3>3, <3>4 DEF u
  <2>. DEFINE u == SubSeq(r, 1, Len(s))
  <2>4. u = s
    <3>. HIDE DEF u
    <3>. QED
      BY <2>3, SeqEqual DEF u
  <2>. QED
    BY <2>1, <2>4 DEF Capture!Extends
<1>. QED
  BY <1>3, <1>5, <1>6, <1>7 DEF r, q

(* What a write of m[t] frames to each track t adds to the streams.        *)
LEMMA WrittenStreams ==
  ASSUME IInv, pc = "append", taken < drained, ~CurrentFull,
         NEW w \in Segment, NEW m \in [1..Tracks -> Nat],
         \A t \in 1..Tracks : w.data[t] = segments[Current].data[t] \o Frames(m[t]),
         segments' = [segments EXCEPT ![Current] = w]
  PROVE  \A t \in 1..Tracks :
           Stream(segments', t) = Stream(segments, t) \o Frames(m[t])
<1>. TAKE t \in 1..Tracks
<1>1. segments \in Seq(Segment) /\ Len(segments) > 0 /\ taken \in Nat
  BY WriteFacts DEF Current
<1>2. m[t] \in Nat
  OBVIOUS
<1>3. Frames(m[t]) \in Seq(Nat)
  BY <1>1, <1>2, FramesType
<1>4. segments' = [segments EXCEPT ![Len(segments)] = w]
      /\ w.data[t] = segments[Len(segments)].data[t] \o Frames(m[t])
  BY DEF Current
<1>. HIDE DEF Frames
<1>5. Stream([segments EXCEPT ![Len(segments)] = w], t) = Stream(segments, t) \o Frames(m[t])
  BY <1>1, <1>3, <1>4, StreamLast
<1>. QED
  BY <1>4, <1>5, Zenon

(* Such a write keeps the order of the frames, and only adds to the tracks.*)
LEMMA WriteRises ==
  ASSUME taken \in Nat, taken' \in Nat, segments \in Seq(Segment), Rising,
         NEW m \in [1..Tracks -> Nat],
         \A t \in 1..Tracks : taken + m[t] <= taken',
         \A t \in 1..Tracks : Stream(segments', t) = Stream(segments, t) \o Frames(m[t])
  PROVE  /\ Rising'
         /\ \A t \in 1..Tracks : Capture!Extends(Stream(segments, t), Stream(segments', t))
<1>. SUFFICES ASSUME NEW t \in 1..Tracks
              PROVE  /\ Capture!Increasing(Stream(segments', t))
                     /\ \A i \in 1..Len(Stream(segments', t)) : Stream(segments', t)[i] <= taken'
                     /\ Capture!Extends(Stream(segments, t), Stream(segments', t))
  BY DEF Rising, Capture!Increasing
<1>. DEFINE s == Stream(segments, t)
            r == Stream(segments', t)
            n == m[t]
<1>1. s \in Seq(Nat) /\ n \in Nat /\ r = s \o Frames(n) /\ taken + n <= taken'
  BY StreamType
<1>2. Capture!Increasing(s) /\ \A i \in 1..Len(s) : s[i] <= taken
  BY DEF Rising
<1>. HIDE DEF s, r, n
<1>3. /\ r \in Seq(Nat) /\ Capture!Increasing(r)
      /\ \A i \in 1..Len(r) : r[i] <= taken + n
      /\ Capture!Extends(s, r)
  BY <1>1, <1>2, RiseOn
<1>4. \A i \in 1..Len(r) : r[i] <= taken'
  <2>. TAKE i \in 1..Len(r)
  <2>1. r[i] \in Nat /\ r[i] <= taken + n
    BY <1>3
  <2>. QED
    BY <1>1, <2>1
<1>. QED
  BY <1>3, <1>4 DEF s, r

(* A write that fails, or that comes after a failure, is RecordDamaged.    *)
LEMMA DamagedWrite ==
  ASSUME taken' \in Nat, accepted \in Nat, taken' <= accepted,
         segments' \in Seq(Segment), pc = "append", ~KnownSound', Rising',
         \A t \in 1..Tracks : Capture!Extends(Stream(segments, t), Stream(segments', t)),
         accepted' = accepted, pc' \notin {"report", "done"}
  PROVE  Capture!RecordDamaged
<1>1. ASSUME NEW t \in 1..Tracks
      PROVE  /\ Capture!Extends(Reassembled[t], Reassembled'[t])
             /\ Capture!Increasing(Reassembled'[t])
             /\ \A i \in 1..Len(Reassembled'[t]) : Reassembled'[t][i] <= accepted
  <2>. DEFINE r == Stream(segments', t)
  <2>1. Reassembled[t] = Stream(segments, t) /\ Reassembled'[t] = r
    BY ReassembledStreams
  <2>2. Capture!Increasing(r) /\ \A i \in 1..Len(r) : r[i] <= taken'
    BY DEF Rising, Capture!Increasing
  <2>3. r \in Seq(Nat)
    BY StreamType
  <2>. HIDE DEF r
  <2>4. \A i \in 1..Len(r) : r[i] <= accepted
    <3>. TAKE i \in 1..Len(r)
    <3>1. r[i] \in Nat /\ r[i] <= taken'
      BY <2>2, <2>3
    <3>. QED
      BY <3>1
  <2>5. Capture!Extends(Stream(segments, t), r)
    BY DEF r
  <2>. QED
    BY <2>1, <2>2, <2>4, <2>5, Zenon
<1>2. accepted' = accepted
      /\ (pc' \in {"report", "done"}) = (pc \in {"report", "done"})
  OBVIOUS
<1>. QED
  BY <1>1, <1>2, Zenon DEF Capture!RecordDamaged

(* The prefix of the capture goes on with the frames written.              *)
LEMMA PrefixGrows ==
  ASSUME written \in Nat, taken = written, NEW n \in Nat
  PROVE  Capture!Prefix(written) \o Frames(n) = Capture!Prefix(written + n)
<1>1. [k \in 1..written |-> 0 + k] \o [i \in 1..n |-> (0 + written) + i]
        = [k \in 1..(written + n) |-> 0 + k]
  BY ConcatRun
<1>2. /\ [k \in 1..written |-> 0 + k] = [k \in 1..written |-> k]
      /\ [i \in 1..n |-> (0 + written) + i] = [i \in 1..n |-> taken + i]
      /\ [k \in 1..(written + n) |-> 0 + k] = [k \in 1..(written + n) |-> k]
  OBVIOUS
<1>. QED
  BY <1>1, <1>2, Zenon DEF Capture!Prefix, Frames

LEMMA WriteStream ==
  ASSUME IInv, IInv', StreamInv, [Next]_vars, SegmentWrite
  PROVE  StreamInv' /\ Capture!ANext
<1>1. /\ pc = "append" /\ taken < drained /\ ~CurrentFull
      /\ segments' = [segments EXCEPT ![Current] = Extended(@, Take)]
      /\ written' = written + Take /\ accepted' = accepted
      /\ callback' = callback /\ next' = next /\ ioFailure' = ioFailure
      /\ pc' \in {"append", "check"}
  BY DEF SegmentWrite, GiveUp, ring
<1>2. /\ Current \in Nat /\ Current > 0 /\ segments \in Seq(Segment)
      /\ segments[Current] \in Segment
      /\ Take \in Nat /\ Take > 0 /\ Take <= drained - taken
      /\ taken \in Nat /\ drained \in Nat /\ written \in Nat
  BY <1>1, WriteFacts
<1>. DEFINE w == Extended(segments[Current], Take)
            m == [t \in 1..Tracks |-> Take]
<1>3. /\ w \in Segment /\ w.count = segments[Current].count + Take
      /\ \A t \in 1..Tracks : w.data[t] = segments[Current].data[t] \o Frames(Take)
  BY <1>2, ExtendedType
<1>4. segments' = [segments EXCEPT ![Current] = w]
  BY <1>1
<1>5. m \in [1..Tracks -> Nat] /\ \A t \in 1..Tracks : m[t] = Take
  BY <1>2
<1>. HIDE DEF w, m
<1>6. \A t \in 1..Tracks : w.data[t] = segments[Current].data[t] \o Frames(m[t])
  BY <1>3, <1>5, Zenon
<1>7. \A t \in 1..Tracks : Stream(segments', t) = Stream(segments, t) \o Frames(m[t])
  BY <1>1, <1>3, <1>4, <1>5, <1>6, WrittenStreams
<1>8. \/ /\ taken' = drained
         /\ segments[Current].count + Take = SegmentFrames /\ ~next.open
      \/ taken' = taken + Take
  BY DEF SegmentWrite, GiveUp
<1>9. taken' \in Nat /\ taken + Take <= taken' /\ taken' <= drained
  BY <1>2, <1>8
<1>10. /\ Rising'
       /\ \A t \in 1..Tracks : Capture!Extends(Stream(segments, t), Stream(segments', t))
  <2>1. \A t \in 1..Tracks : taken + m[t] <= taken'
    BY <1>5, <1>9
  <2>. QED
    BY <1>2, <1>5, <1>7, <1>9, <2>1, WriteRises DEF StreamInv
<1>11. accepted \in Nat /\ drained <= accepted /\ segments' \in Seq(Segment)
  BY DEF IInv, TypeOK, Counters
<1>12. ASSUME KnownSound
       PROVE  /\ taken = written
              /\ \A t \in 1..Tracks : Stream(segments, t) = Capture!Prefix(written)
              /\ \A t \in 1..Tracks : Stream(segments', t) = Capture!Prefix(written')
  <2>1. taken = written /\ \A t \in 1..Tracks : Stream(segments, t) = Capture!Prefix(written)
    BY <1>1, <1>12 DEF StreamInv, Whole, Settled, Stuck
  <2>2. Capture!Prefix(written) \o Frames(Take) = Capture!Prefix(written')
    BY <1>1, <1>2, <2>1, PrefixGrows
  <2>3. \A t \in 1..Tracks : Stream(segments', t) = Capture!Prefix(written')
    BY <1>5, <1>7, <2>1, <2>2, Zenon
  <2>. QED
    BY <2>1, <2>3
<1>13. KnownSound => Settled'
  <2>. HAVE KnownSound
  <2>1. CASE taken' = taken + Take
    BY <1>1, <1>12, <2>1 DEF Settled
  <2>2. CASE /\ segments[Current].count + Take = SegmentFrames
             /\ ~next.open
    <3>1. segments' \in Seq(Segment) /\ Len(segments') = Current /\ segments'[Current] = w
      BY <1>2, <1>3, <1>4 DEF Current
    <3>2. CurrentFull'
      BY <1>3, <2>2, <3>1 DEF CurrentFull, Current
    <3>. QED
      BY <1>1, <2>2, <3>2 DEF Settled, Stuck
  <2>. QED
    BY <1>8, <2>1, <2>2
<1>14. KnownSound' => KnownSound
  BY KnownStays
<1>15. StreamInv'
  <2>1. Whole'
    BY <1>12, <1>13, <1>14 DEF Whole
  <2>. QED
    BY <1>1, <1>10, <2>1 DEF StreamInv
<1>16. CASE KnownSound'
  <2>. DEFINE k == written + Take
              l == written + 1
  <2>1. k \in 1..accepted /\ l \in 1..accepted /\ l <= k /\ l - 1 = written
    BY <1>2, <1>9, <1>11, <1>12, <1>14, <1>16
  <2>2. Reassembled = [t \in 1..Tracks |-> Capture!Prefix(l - 1)]
    <3>. HIDE DEF l
    <3>. QED
      BY <1>12, <1>14, <1>16, <2>1, ReassembledStreams
  <2>3. Reassembled' = [t \in 1..Tracks |-> Capture!Prefix(k)]
    <3>1. k = written'
      BY <1>1
    <3>. HIDE DEF k
    <3>. QED
      BY <1>12, <1>14, <1>16, <3>1, ReassembledStreams
  <2>4. /\ KnownSound /\ KnownSound' = KnownSound /\ accepted' = accepted
        /\ ~(pc \in {"report", "done"})
        /\ (pc' \in {"report", "done"}) = (pc \in {"report", "done"})
    BY <1>1, <1>14, <1>16
  <2>. HIDE DEF k, l
  <2>5. Capture!Record
    BY <2>1, <2>2, <2>3, <2>4, Zenon DEF Capture!Record
  <2>. QED
    BY <1>15, <2>5 DEF Capture!ANext
<1>17. CASE ~KnownSound'
  <2>1. Capture!RecordDamaged
    <3>1. taken' <= accepted
      BY <1>2, <1>9, <1>11
    <3>2. pc' \notin {"report", "done"}
      BY <1>1
    <3>. QED
      BY <1>1, <1>9, <1>10, <1>11, <1>17, <3>1, <3>2, DamagedWrite
  <2>. QED
    BY <1>15, <2>1 DEF Capture!ANext
<1>. QED
  BY <1>16, <1>17

LEMMA WriteFailsStream ==
  ASSUME IInv, IInv', StreamInv, SegmentWriteFails
  PROVE  StreamInv' /\ Capture!ANext
<1>1. /\ pc = "append" /\ taken < drained /\ ~CurrentFull
      /\ taken' = drained /\ ioFailure' = TRUE /\ pc' = "check"
      /\ accepted' = accepted /\ callback' = callback
  BY DEF SegmentWriteFails, GiveUp, ring
<1>2. /\ Current \in Nat /\ Current > 0 /\ segments \in Seq(Segment)
      /\ segments[Current] \in Segment
      /\ Take \in Nat /\ Take <= drained - taken
      /\ taken \in Nat /\ drained \in Nat
  BY <1>1, WriteFacts
<1>3. PICK k \in 1..Tracks, p \in 0..(Take - 1) :
        segments' = [segments EXCEPT ![Current] = Torn(@, Take, k, p)]
  BY DEF SegmentWriteFails
<1>. DEFINE w == Torn(segments[Current], Take, k, p)
            m == [t \in 1..Tracks |-> IF t < k THEN Take ELSE IF t = k THEN p ELSE 0]
<1>4. p \in Nat /\ p <= Take
  BY <1>2
<1>5. m \in [1..Tracks -> Nat] /\ \A t \in 1..Tracks : m[t] \in Nat /\ m[t] <= Take
  BY <1>2, <1>4
<1>6. \A t \in 1..Tracks : w.data[t] = segments[Current].data[t] \o Frames(m[t])
  BY <1>2 DEF Torn, Segment
<1>7. segments' = [segments EXCEPT ![Current] = w] /\ w \in Segment
  BY <1>2, <1>3, <1>4, TornType
<1>. HIDE DEF w, m
<1>8. \A t \in 1..Tracks : Stream(segments', t) = Stream(segments, t) \o Frames(m[t])
  BY <1>1, <1>5, <1>6, <1>7, WrittenStreams
<1>9. /\ Rising'
      /\ \A t \in 1..Tracks : Capture!Extends(Stream(segments, t), Stream(segments', t))
  <2>1. taken' \in Nat /\ \A t \in 1..Tracks : taken + m[t] <= taken'
    BY <1>1, <1>2, <1>5
  <2>. QED
    BY <1>2, <1>5, <1>8, <2>1, WriteRises DEF StreamInv
<1>10. ~KnownSound'
  BY <1>1 DEF KnownSound
<1>11. StreamInv'
  BY <1>1, <1>9, <1>10 DEF StreamInv, Whole
<1>12. Capture!RecordDamaged
  <2>1. /\ taken' \in Nat /\ accepted \in Nat /\ taken' <= accepted
        /\ segments' \in Seq(Segment) /\ pc' \notin {"report", "done"}
    BY <1>1 DEF IInv, TypeOK, Counters
  <2>. QED
    BY <1>1, <1>9, <1>10, <2>1, DamagedWrite
<1>. QED
  BY <1>11, <1>12 DEF Capture!ANext

-----------------------------------------------------------------------------
(* The steps that write nothing.                                           *)
StillStep == QuietStep \/ ClosingStep \/ BeginStep \/ Promote \/ UNCHANGED vars

LEMMA BeginStreams ==
  ASSUME IInv, BeginStep, NEW t \in 1..Tracks
  PROVE  Stream(segments', t) = Stream(segments, t)
<1>. DEFINE x == FreshSegment(0)
<1>1. segments = << >>
  <2>1. Len(segments) = 0 /\ segments \in Seq(Segment)
    BY DEF BeginStep, WriterBegin, WriterBeginFails, IInv, TypeOK, Counters, Current
  <2>. QED
    BY <2>1
<1>2. segments' = << >> \/ segments' = <<x>>
  BY DEF BeginStep, WriterBegin, WriterBeginFails
<1>3. Stream(<<x>>, t) = << >>
  <2>1. x \in Segment /\ x.data[t] = << >>
    <3>1. x \in Segment
      BY FreshSegmentExact
    <3>. QED
      BY <3>1 DEF FreshSegment
  <2>. HIDE DEF x
  <2>2. << >> \in Seq(Segment) /\ Append(<< >>, x) = <<x>>
    BY <2>1
  <2>3. Stream(Append(<< >>, x), t) = Stream(<< >>, t) \o x.data[t]
    BY <2>1, <2>2, StreamAppend
  <2>4. << >> \o << >> = << >>
    OBVIOUS
  <2>. QED
    BY <2>1, <2>2, <2>3, <2>4, EmptyStream, Zenon
<1>. QED
  BY <1>1, <1>2, <1>3, EmptyStream, Zenon

LEMMA PromoteStreams ==
  ASSUME IInv, Promote, NEW t \in 1..Tracks
  PROVE  Stream(segments', t) = Stream(segments, t)
<1>. DEFINE c == CloseRetired(TRUE)
<1>1. segments' = Append(c, next) /\ next.open
  BY DEF Promote
<1>2. SameFrames(c, segments)
  BY CloseRetiredKeepsFrames DEF IInv, TypeOK, Counters
<1>3. c \in Seq(Segment)
  BY <1>2 DEF SameFrames
<1>4. next \in Segment /\ next.data[t] = << >>
  <2>1. next = FreshSegment(Current * SegmentFrames) /\ next \in Segment
    <3>1. next # NoSegment
      BY <1>1 DEF NoSegment
    <3>. QED
      BY <1>1, <3>1 DEF IInv, TypeOK, Counters
  <2>2. next.data = [u \in 1..Tracks |-> << >>]
    BY <2>1 DEF FreshSegment
  <2>. QED
    BY <2>1, <2>2
<1>. HIDE DEF c
<1>5. Stream(segments', t) = Stream(c, t) \o << >>
  BY <1>1, <1>3, <1>4, StreamAppend
<1>6. Stream(c, t) \in Seq(Nat) /\ Stream(c, t) = Stream(segments, t)
  BY <1>2, <1>3, SameStream, StreamType
<1>7. Stream(c, t) \o << >> = Stream(c, t)
  <2>. DEFINE s == Stream(c, t)
  <2>1. s \in Seq(Nat)
    BY <1>6
  <2>. HIDE DEF s
  <2>2. s \o << >> = s
    BY <2>1
  <2>. QED
    BY <2>2 DEF s
<1>. QED
  BY <1>5, <1>6, <1>7, Zenon

LEMMA StillStreams ==
  ASSUME IInv, StillStep
  PROVE  /\ \A t \in 1..Tracks : Stream(segments', t) = Stream(segments, t)
         /\ written' = written /\ taken' \in {taken, drained}
<1>. USE DEF flags, ring, files, env
<1>1. CASE QuietStep \/ UNCHANGED vars
  <2>1. segments' = segments /\ written' = written /\ taken' \in {taken, drained}
    BY <1>1 DEF QuietStep, Callback, CallbackEnter, CallbackCopy, CallbackOverflow,
       Stop, DiskLostStop, MainExit, VolumeLost, SpaceChanges, WriterDrain,
       PromoteLost, PromoteRefused, GiveUp, WriterCheck, WriterLeave,
       WriterReport, vars
  <2>. QED
    BY <2>1
<1>2. CASE ClosingStep
  BY <1>2, ClosingFiles, SameStream
<1>3. CASE BeginStep
  <2>1. written' = written /\ taken' = taken
    BY <1>3 DEF BeginStep, WriterBegin, WriterBeginFails
  <2>. QED
    BY <1>3, <2>1, BeginStreams
<1>4. CASE Promote
  <2>1. written' = written /\ taken' = taken
    BY <1>4 DEF Promote
  <2>. QED
    BY <1>4, <2>1, PromoteStreams
<1>. QED
  BY <1>1, <1>2, <1>3, <1>4 DEF StillStep

LEMMA StillSettled ==
  ASSUME NoFaults, IInv, StreamInv, StillStep, KnownSound, KnownSound'
  PROVE  Settled'
<1>. USE DEF flags, ring, files, env
<1>1. Settled /\ ~ioFailure'
  BY DEF StreamInv, Whole, KnownSound
<1>2. CASE QuietStep
  BY <1>1, <1>2, QuietSettled
<1>3. CASE ClosingStep
  BY <1>1, <1>3, ClosingSettled
<1>4. CASE BeginStep
  <2>1. pc = "begin" /\ written' = written /\ taken' = taken
    BY <1>4 DEF BeginStep, WriterBegin, WriterBeginFails
  <2>2. written = 0 /\ taken = 0
    BY <2>1 DEF IInv, Counters, StreamInv
  <2>. QED
    BY <2>1, <2>2 DEF Settled
<1>5. CASE Promote
  <2>1. /\ written' = written /\ taken' = taken /\ next.open
        /\ space = "ample" /\ TRUE \in Probes
    BY <1>5 DEF Promote
  <2>2. written = taken
    BY <1>1, <2>1 DEF Settled, Stuck, Probes
  <2>. QED
    BY <2>1, <2>2 DEF Settled
<1>6. CASE UNCHANGED vars
  BY <1>1, <1>6 DEF vars, Settled, Stuck, CurrentFull, Current
<1>. QED
  BY <1>2, <1>3, <1>4, <1>5, <1>6 DEF StillStep

(* Such a step shows as a failure, as the end, or not at all.              *)
LEMMA StillShows ==
  ASSUME Reassembled' = Reassembled, accepted' = accepted, KnownSound' => KnownSound,
         pc \in {"report", "done"} => pc' \in {"report", "done"}
  PROVE  Capture!ANext \/ UNCHANGED Capture!avars
<1>. DEFINE c == pc \in {"report", "done"}
            d == pc' \in {"report", "done"}
<1>1. KnownSound' = KnownSound \/ KnownSound' = FALSE
  BY DEF KnownSound
<1>2. CASE ~c /\ d
  <2>1. Capture!Close
    BY <1>1, <1>2 DEF Capture!Close
  <2>. QED
    BY <2>1 DEF Capture!ANext
<1>3. CASE c = d
  <2>1. CASE KnownSound' = KnownSound
    BY <1>3, <2>1 DEF Capture!avars
  <2>2. CASE KnownSound' = FALSE
    <3>1. Capture!Fail
      BY <1>3, <2>2 DEF Capture!Fail
    <3>. QED
      BY <3>1 DEF Capture!ANext
  <2>. QED
    BY <1>1, <2>1, <2>2
<1>. QED
  BY <1>2, <1>3

LEMMA EachStreamStep ==
  ASSUME NoFaults, IInv, IInv', StreamInv, [Next]_vars
  PROVE  StreamInv' /\ (Capture!ANext \/ UNCHANGED Capture!avars)
<1>1. /\ KnownSound' => KnownSound
      /\ callback' \in {callback, 0} \cup CallbackBlocks
      /\ pc' = "begin" => pc = "begin" /\ taken' = taken
      /\ pc \in {"report", "done"} => pc' \in {"report", "done"}
  BY KnownStays, OutsideFiles
<1>2. CASE SegmentWrite
  BY <1>2, WriteStream
<1>3. CASE SegmentWriteFails
  BY <1>3, WriteFailsStream
<1>4. CASE StillStep
  <2>1. /\ \A t \in 1..Tracks : Stream(segments', t) = Stream(segments, t)
        /\ written' = written /\ taken' \in {taken, drained}
    BY <1>4, StillStreams
  <2>2. StreamInv'
    <3>1. KnownSound' => KnownSound /\ Settled'
      BY <1>1, <1>4, StillSettled
    <3>. QED
      BY <1>1, <2>1, <3>1, StreamsStay
  <2>3. Reassembled' = Reassembled
    BY <2>1, ReassembledStreams
  <2>4. CASE CallbackCopy
    <3>1. /\ callback \in CallbackBlocks /\ accepted' = accepted + callback
          /\ UNCHANGED <<ioFailure, stopReason, pc>>
      BY <2>4, RecorderAssumption DEF CallbackCopy, StreamInv, flags
    <3>2. Capture!Offer
      BY <2>3, <3>1 DEF Capture!Offer, KnownSound
    <3>. QED
      BY <2>2, <3>2 DEF Capture!ANext
  <2>5. CASE ~CallbackCopy
    <3>. USE DEF flags, ring, files, env
    <3>1. accepted' = accepted
      BY <1>4, <2>5 DEF StillStep, QuietStep, Callback, CallbackEnter, CallbackOverflow,
         Stop, DiskLostStop, MainExit, VolumeLost, SpaceChanges, WriterDrain,
         PromoteLost, PromoteRefused, WriterCheck, WriterLeave, WriterReport,
         ClosingStep, PromoteFails, AppendDone, AppendDoneRetireFails,
         AppendDonePrepareFails, WriterFinish, BeginStep, WriterBegin,
         WriterBeginFails, Promote, vars
    <3>. QED
      BY <1>1, <2>2, <2>3, <3>1, StillShows
  <2>. QED
    BY <2>4, <2>5
<1>. QED
  BY <1>2, <1>3, <1>4
     DEF Next, Callback, Writer, StillStep, QuietStep, ClosingStep, BeginStep

(* An empty recording starts as a capture does.                            *)
LEMMA InitStream == Init => StreamInv /\ Capture!AInit
<1>. SUFFICES ASSUME Init PROVE StreamInv /\ Capture!AInit
  OBVIOUS
<1>1. segments = << >> /\ callback = 0 /\ taken = 0 /\ written = 0 /\ accepted = 0
      /\ ioFailure = FALSE /\ stopReason = 0 /\ pc = "begin"
  BY DEF Init, None
<1>2. \A t \in 1..Tracks : Stream(segments, t) = << >>
  BY <1>1, EmptyStream, Zenon
<1>3. Rising
  BY <1>2 DEF Rising, Capture!Increasing
<1>4. Capture!Prefix(0) = << >>
  BY DEF Capture!Prefix
<1>5. Whole
  BY <1>1, <1>2, <1>4 DEF Whole, Settled
<1>6. Reassembled = [t \in 1..Tracks |-> << >>]
  BY <1>2, ReassembledStreams
<1>7. KnownSound = TRUE
  BY <1>1 DEF KnownSound, DiskLost
<1>. QED
  BY <1>1, <1>3, <1>5, <1>6, <1>7 DEF StreamInv, Capture!AInit

(* Reassembling the segments gives the capture: whatever the period sizes, *)
(* the ring, the rotation, the signals, the end of free space and the loss *)
(* of the volume do, every step of the recorder shows in the joined WAV    *)
(* files as a step of CaptureStream or not at all.  Both hypotheses are    *)
(* needed: with a call that fails for no reason but its own, or space that *)
(* comes back, the writer goes on after frames were given up.              *)
THEOREM RecorderIsCapture ==
  ASSUME NoFaults
  PROVE  Spec => ImplementsCaptureStream
<1>1. Init => StreamInv /\ Capture!AInit
  BY InitStream
<1>2. IInv /\ IInv' /\ StreamInv /\ [Next]_vars
        => StreamInv' /\ [Capture!ANext]_(Capture!avars)
  BY EachStreamStep
<1>. QED
  BY <1>1, <1>2, Invariance, PTL DEF Spec, ImplementsCaptureStream, Capture!ASpec
=============================================================================
