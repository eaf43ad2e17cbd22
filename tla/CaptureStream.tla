---------------------------- MODULE CaptureStream ----------------------------
(***************************************************************************)
(* What a multitrack recording promises, whatever rings, blocks, segments  *)
(* and threads are behind it.  Captured frames are numbered 1, 2, 3...     *)
(* While the recorder is sound every track is the same prefix of the       *)
(* capture; once something failed, and the recorder knows it, tracks may   *)
(* miss frames but never repeat or reorder them; once closed, the tracks   *)
(* never change.                                                           *)
(***************************************************************************)
EXTENDS Naturals, Sequences

CONSTANTS
  TrackIds, (* the tracks                                                  *)
  Periods   (* the numbers of frames offered at a time                     *)

VARIABLES
  offered,  (* frames captured so far                                      *)
  stream,   (* for each track its frames, over all segments                *)
  sound,    (* nothing has failed                                          *)
  closed    (* the recording is finalized, or abandoned                    *)

avars == <<offered, stream, sound, closed>>

AInit == /\ offered = 0 /\ stream = [t \in TrackIds |-> << >>]
         /\ sound = TRUE /\ closed = FALSE

Offer == /\ \E n \in Periods : offered' = offered + n
         /\ UNCHANGED <<stream, sound, closed>>

(* All tracks get the next k captured frames, without a gap.               *)
Prefix(n) == [i \in 1..n |-> i]
Record == /\ sound /\ ~closed
          /\ \E n, k \in 1..offered :
               /\ stream = [t \in TrackIds |-> Prefix(n - 1)]
               /\ n <= k
               /\ stream' = [t \in TrackIds |-> Prefix(k)]
          /\ UNCHANGED <<offered, sound, closed>>

(* With or after a failure the tracks may miss frames, each its own.       *)
Extends(s, t) == Len(s) <= Len(t) /\ SubSeq(t, 1, Len(s)) = s
Increasing(s) == \A i \in 1..(Len(s) - 1) : s[i] < s[i + 1]
RecordDamaged == /\ ~sound' /\ ~closed
                 /\ \A t \in TrackIds :
                      /\ Extends(stream[t], stream'[t])
                      /\ Increasing(stream'[t])
                      /\ \A i \in 1..Len(stream'[t]) : stream'[t][i] <= offered
                 /\ UNCHANGED <<offered, closed>>

Fail == sound' = FALSE /\ UNCHANGED <<offered, stream, closed>>

Close == /\ ~closed /\ closed' = TRUE
         /\ sound' \in {sound, FALSE}
         /\ UNCHANGED <<offered, stream>>

ANext == Offer \/ Record \/ RecordDamaged \/ Fail \/ Close
ASpec == AInit /\ [][ANext]_avars
=============================================================================
