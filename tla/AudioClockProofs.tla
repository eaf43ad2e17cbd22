-------------------------- MODULE AudioClockProofs --------------------------
(***************************************************************************)
(* Proofs about the clock command, for every set of sources and rates: its *)
(* verdict is true, and the clock is quiet while it changes.               *)
(***************************************************************************)
EXTENDS AudioClock, TLAPS

(* The places where a call on the card is still to come. *)
Changing == {"mode", "source", "verify", "undo", "undo source"}

Verdicts == {"none", "refused", "changed", "wrong rate", "unhealthy", "unread",
             "rolled back", "error"}

ClockTypes ==
    /\ card \in Card
    /\ cmd \in [goal: Goals, old: Card, running: SUBSET Services,
               ignored: SUBSET {"mode", "source"}, verdict: Verdicts]
    /\ up \subseteq Services

(* What is known of the source when no source was asked for. *)
SourceKept == cmd.goal.mode # "autosync" => card.source = cmd.old.source

(* What holds of the card at each place, so that the verdict of the last    *)
(* place is true.                                                           *)
Untouched == pc \in {"stop", "mode"} => card = cmd.old
SourceAsked == pc = "source" => cmd.goal.mode = "autosync"
SourceReady == pc \in {"source", "verify"} => SourceKept
ModeBack == pc = "undo source" /\ "mode" \notin cmd.ignored => card.mode = cmd.old.mode
VerdictNamed ==
    /\ pc = "restart" => cmd.verdict \in {"changed", "rolled back", "error"}
    /\ pc = "after" => cmd.verdict = "changed"
VerdictTrue ==
    pc \in {"restart", "after", "done"} =>
        /\ cmd.verdict \in {"changed", "unhealthy", "wrong rate", "unread"} => Applied /\ SourceKept
        /\ cmd.verdict = "refused" => card = cmd.old
        /\ cmd.verdict = "rolled back" =>
              /\ "mode" \notin cmd.ignored => card.mode = cmd.old.mode
              /\ "source" \notin cmd.ignored => card.source = cmd.old.source

(* Between the first write and the last JACK is down. *)
Stopped == pc \in Changing /\ ~blind => "audio" \notin up

CInv ==
    /\ ClockTypes
    /\ Untouched /\ SourceAsked /\ SourceReady /\ ModeBack
    /\ VerdictNamed /\ VerdictTrue
    /\ Stopped

(* The command waits for its first call. *)
LEMMA ClockInit == Init => CInv
<1>. SUFFICES ASSUME Init PROVE CInv
  OBVIOUS
<1>1. /\ card \in Card /\ cmd.old = card /\ up \subseteq Services /\ pc = "idle"
      /\ cmd = [goal |-> [mode |-> "master", source |-> None], old |-> card,
                running |-> {}, ignored |-> {}, verdict |-> "none"]
  BY DEF Init, Services
<1>2. ClockTypes
  <2>1. [mode |-> "master", source |-> None] \in Goals
    BY DEF Goals, Modes
  <2>. QED
    BY <1>1, <2>1 DEF ClockTypes, Verdicts
<1>. QED
  BY <1>1, <1>2 DEF CInv, Untouched, SourceAsked, SourceReady, ModeBack, VerdictNamed,
                    VerdictTrue, Stopped, Changing

(* Each step keeps it. *)
LEMMA ClockStep == CInv /\ [Next]_vars => CInv'
<1>. SUFFICES ASSUME CInv, [Next]_vars PROVE CInv'
  OBVIOUS
<1>. DEFINE Facts == /\ Untouched' /\ SourceAsked' /\ SourceReady' /\ ModeBack'
                     /\ VerdictNamed' /\ VerdictTrue'
<1>. USE DEF CInv
<1>1. ASSUME NEW goal \in Goals, Look(goal) PROVE CInv'
  <2>1. PICK running \in ServicesRunning, refused \in BOOLEAN :
           /\ cmd' = [goal |-> goal, old |-> card, running |-> running, ignored |-> {},
                      verdict |-> IF refused THEN "refused" ELSE "none"]
           /\ pc' = IF refused THEN "done" ELSE IF running # {} THEN "stop" ELSE "mode"
           /\ blind' = (running # up)
    <3>1. PICK read \in BOOLEAN, running \in ServicesRunning, rate \in JackRate :
             LET refused == ~read \/ rate \notin {None, Required}
             IN  /\ cmd' = [goal |-> goal, old |-> card, running |-> running, ignored |-> {},
                            verdict |-> IF refused THEN "refused" ELSE "none"]
                 /\ pc' = IF refused THEN "done" ELSE IF running # {} THEN "stop" ELSE "mode"
                 /\ blind' = (running # up)
      BY <1>1 DEF Look
    <3>. QED
      BY <3>1
  <2>2. UNCHANGED <<card, up>>
    BY <1>1 DEF Look
  <2>3. running \subseteq Services
    BY DEF ServicesRunning, ClockTypes
  <2>4. ClockTypes'
    BY <2>1, <2>2, <2>3 DEF ClockTypes, Verdicts
  <2>5. Facts
    BY <2>1, <2>2 DEF Untouched, SourceAsked, SourceReady, ModeBack, VerdictNamed, VerdictTrue
  <2>6. Stopped'
    <3>1. pc' \in Changing => running = {}
      BY <2>1 DEF Changing
    <3>2. running = {} /\ ~blind' => up = {}
      BY <2>1
    <3>. QED
      BY <3>1, <3>2, <2>2 DEF Stopped
  <2>. QED
    BY <2>4, <2>5, <2>6
<1>2. CASE Stop
  <2>1. pc' = "mode" /\ pc = "stop" /\ UNCHANGED <<card, cmd>> /\ up' \subseteq Services
    BY <1>2 DEF Stop, ClockTypes
  <2>2. ~blind' => up' = {}
    BY <1>2, Zenon DEF Stop
  <2>3. ClockTypes' /\ Facts
    BY <2>1 DEF ClockTypes, Verdicts, Untouched, SourceAsked, SourceReady, ModeBack, VerdictNamed, VerdictTrue
  <2>. QED
    BY <2>2, <2>3 DEF Stopped
<1>3. CASE WriteMode
  <2>1. /\ pc = "mode" /\ pc' \in {"source", "verify", "undo"}
        /\ card' \in {card, [card EXCEPT !.mode = cmd.goal.mode]}
        /\ pc' = "source" => cmd.goal.mode = "autosync"
        /\ UNCHANGED <<up, cmd, blind>>
    BY <1>3 DEF WriteMode, Write
  <2>2. card' \in Card /\ card'.source = card.source
    <3>1. cmd.goal.mode \in Modes
      BY DEF ClockTypes, Goals
    <3>2. card \in Card
      BY DEF ClockTypes
    <3>. QED
      BY <2>1, <3>1, <3>2 DEF Card
  <2>3. ClockTypes'
    BY <2>1, <2>2 DEF ClockTypes, Verdicts
  <2>4. Facts
    BY <2>1, <2>2 DEF Untouched, SourceAsked, SourceReady, SourceKept, ModeBack, VerdictNamed, VerdictTrue
  <2>5. Stopped'
    BY <2>1 DEF Stopped, Changing
  <2>. QED
    BY <2>3, <2>4, <2>5
<1>4. CASE WriteSource
  <2>1. /\ pc = "source" /\ pc' \in {"verify", "undo"}
        /\ card' \in {card, [card EXCEPT !.source = cmd.goal.source]}
        /\ UNCHANGED <<up, cmd, blind>>
    BY <1>4 DEF WriteSource, Write
  <2>2. cmd.goal.mode = "autosync"
    BY <2>1 DEF SourceAsked
  <2>3. card' \in Card
    <3>1. CASE card' = card
      BY <3>1 DEF ClockTypes, Verdicts
    <3>2. CASE card' = [card EXCEPT !.source = cmd.goal.source]
      <4>1. cmd.goal \in Goals
        BY DEF ClockTypes, Verdicts
      <4>2. cmd.goal.source \in Sources
        BY <2>2, <4>1 DEF Goals
      <4>. QED
        BY <3>2, <4>2 DEF ClockTypes, Verdicts, Card
    <3>. QED
      BY <2>1, <3>1, <3>2
  <2>4. ClockTypes'
    BY <2>1, <2>3 DEF ClockTypes, Verdicts
  <2>5. Facts
    BY <2>1, <2>2 DEF Untouched, SourceAsked, SourceReady, SourceKept, ModeBack, VerdictNamed, VerdictTrue
  <2>6. Stopped'
    BY <2>1 DEF Stopped, Changing
  <2>. QED
    BY <2>4, <2>5, <2>6
<1>5. CASE Verify
  <2>1. /\ pc = "verify" /\ UNCHANGED <<card, up, blind>>
        /\ \/ Applied /\ pc' = "restart" /\ cmd' = [cmd EXCEPT !.verdict = "changed"]
           \/ pc' = "undo" /\ cmd' = cmd
    BY <1>5 DEF Verify
  <2>2. CASE pc' = "undo" /\ cmd' = cmd
    BY <2>1, <2>2 DEF ClockTypes, Verdicts, Untouched, SourceAsked, SourceReady, ModeBack, VerdictNamed,
                      VerdictTrue, Stopped, Changing
  <2>3. CASE Applied /\ pc' = "restart" /\ cmd' = [cmd EXCEPT !.verdict = "changed"]
    <3>1. /\ cmd'.verdict = "changed" /\ cmd'.goal = cmd.goal /\ cmd'.old = cmd.old
          /\ ClockTypes'
      BY <2>1, <2>3 DEF ClockTypes, Verdicts
    <3>2. Applied' /\ SourceKept'
      BY <2>1, <2>3, <3>1 DEF Applied, SourceKept, SourceReady
    <3>3. Facts
      BY <2>3, <3>1, <3>2 DEF Untouched, SourceAsked, SourceReady, ModeBack, VerdictNamed, VerdictTrue
    <3>. QED
      BY <2>3, <3>1, <3>3 DEF Stopped, Changing
  <2>. QED
    BY <2>1, <2>2, <2>3
<1>6. CASE UndoMode
  <2>1. pc = "undo" /\ UNCHANGED <<up, blind>>
    BY <1>6 DEF UndoMode
  <2>2. CASE /\ card' = [card EXCEPT !.mode = cmd.old.mode]
             /\ pc' = "undo source" /\ cmd' = cmd
    <3>1. card' \in Card /\ card'.mode = cmd'.old.mode
      BY <2>2 DEF ClockTypes, Verdicts, Card
    <3>2. ClockTypes'
      BY <2>1, <2>2, <3>1 DEF ClockTypes, Verdicts
    <3>3. Facts
      BY <2>2, <3>1 DEF Untouched, SourceAsked, SourceReady, ModeBack, VerdictNamed, VerdictTrue
    <3>. QED
      BY <2>1, <2>2, <3>2, <3>3 DEF Stopped, Changing
  <2>3. CASE /\ card' = card
             /\ pc' = "undo source" /\ cmd' = [cmd EXCEPT !.ignored = {"mode"}]
    <3>1. "mode" \in cmd'.ignored /\ ClockTypes'
      BY <2>1, <2>3 DEF ClockTypes, Verdicts
    <3>2. Facts
      BY <2>3, <3>1 DEF Untouched, SourceAsked, SourceReady, ModeBack, VerdictNamed, VerdictTrue
    <3>. QED
      BY <2>1, <2>3, <3>1, <3>2 DEF Stopped, Changing
  <2>4. CASE card' = card /\ pc' = "restart" /\ cmd' = [cmd EXCEPT !.verdict = "error"]
    <3>1. cmd'.verdict = "error" /\ ClockTypes'
      BY <2>1, <2>4 DEF ClockTypes, Verdicts
    <3>2. Facts
      BY <2>4, <3>1 DEF Untouched, SourceAsked, SourceReady, ModeBack, VerdictNamed, VerdictTrue
    <3>. QED
      BY <2>4, <3>1, <3>2 DEF Stopped, Changing
  <2>. QED
    BY <1>6, <2>2, <2>3, <2>4 DEF UndoMode
<1>7. CASE UndoSource
  <2>1. pc = "undo source" /\ pc' = "restart" /\ UNCHANGED <<up, blind>>
    BY <1>7 DEF UndoSource
  <2>2. CASE /\ card' = [card EXCEPT !.source = cmd.old.source]
             /\ cmd' = [cmd EXCEPT !.verdict = "rolled back"]
    <3>1. /\ cmd'.verdict = "rolled back" /\ cmd'.old = cmd.old /\ cmd'.ignored = cmd.ignored
          /\ card' \in Card /\ card'.mode = card.mode /\ card'.source = cmd.old.source
      BY <2>2 DEF ClockTypes, Verdicts, Card
    <3>2. ClockTypes'
      BY <2>1, <2>2, <3>1 DEF ClockTypes, Verdicts
    <3>3. Facts
      BY <2>1, <3>1 DEF Untouched, SourceAsked, SourceReady, ModeBack, VerdictNamed, VerdictTrue
    <3>. QED
      BY <2>1, <3>2, <3>3 DEF Stopped, Changing
  <2>3. CASE /\ card' = card
             /\ cmd' = [cmd EXCEPT !.verdict = "rolled back", !.ignored = @ \cup {"source"}]
    <3>1. /\ cmd'.verdict = "rolled back" /\ cmd'.old = cmd.old
          /\ cmd'.ignored = cmd.ignored \cup {"source"} /\ ClockTypes'
      BY <2>1, <2>3 DEF ClockTypes, Verdicts
    <3>2. Facts
      BY <2>1, <2>3, <3>1 DEF Untouched, SourceAsked, SourceReady, ModeBack, VerdictNamed, VerdictTrue
    <3>. QED
      BY <2>1, <3>1, <3>2 DEF Stopped, Changing
  <2>4. CASE card' = card /\ cmd' = [cmd EXCEPT !.verdict = "error"]
    <3>1. cmd'.verdict = "error" /\ ClockTypes'
      BY <2>1, <2>4 DEF ClockTypes, Verdicts
    <3>2. Facts
      BY <2>1, <3>1 DEF Untouched, SourceAsked, SourceReady, ModeBack, VerdictNamed, VerdictTrue
    <3>. QED
      BY <2>1, <3>1, <3>2 DEF Stopped, Changing
  <2>. QED
    BY <1>7, <2>2, <2>3, <2>4 DEF UndoSource
<1>8. CASE Restart
  <2>1. /\ pc = "restart" /\ UNCHANGED <<card, blind>>
        /\ up' \subseteq Services
        /\ \/ /\ cmd' = cmd
              /\ pc' = IF cmd.verdict = "changed" THEN "after" ELSE "done"
           \/ /\ cmd' = [cmd EXCEPT !.verdict = "error"]
              /\ pc' = "done"
    <3>1. ToStart \subseteq Services
      BY DEF ToStart, ClockTypes
    <3>. QED
      BY <1>8, <3>1 DEF Restart, ClockTypes
  <2>2. CASE cmd' = cmd /\ pc' = IF cmd.verdict = "changed" THEN "after" ELSE "done"
    <3>1. ClockTypes'
      BY <2>1, <2>2 DEF ClockTypes, Verdicts
    <3>2. Applied' = Applied /\ SourceKept' = SourceKept
      BY <2>1, <2>2 DEF Applied, SourceKept
    <3>3. Facts
      BY <2>1, <2>2, <3>2 DEF Untouched, SourceAsked, SourceReady, ModeBack, VerdictNamed, VerdictTrue
    <3>. QED
      BY <2>2, <3>1, <3>3 DEF Stopped, Changing
  <2>3. CASE cmd' = [cmd EXCEPT !.verdict = "error"] /\ pc' = "done"
    <3>1. cmd'.verdict = "error" /\ ClockTypes'
      BY <2>1, <2>3 DEF ClockTypes, Verdicts
    <3>2. Facts
      BY <2>3, <3>1 DEF Untouched, SourceAsked, SourceReady, ModeBack, VerdictNamed, VerdictTrue
    <3>. QED
      BY <2>3, <3>1, <3>2 DEF Stopped, Changing
  <2>. QED
    BY <2>1, <2>2, <2>3
<1>9. CASE After
  <2>1. PICK verdict \in {"wrong rate", "changed", "unhealthy", "unread"} :
           cmd' = [cmd EXCEPT !.verdict = verdict]
    <3>1. pc = "after" => cmd.verdict = "changed"
      BY DEF VerdictNamed
    <3>2. cmd.verdict = "changed" => cmd = [cmd EXCEPT !.verdict = "changed"]
      BY DEF ClockTypes, Verdicts
    <3>. QED
      BY <1>9, <3>1, <3>2 DEF After
  <2>2. pc = "after" /\ pc' = "done" /\ UNCHANGED <<card, up, blind>>
    BY <1>9 DEF After
  <2>3. /\ cmd'.verdict = verdict /\ cmd'.goal = cmd.goal /\ cmd'.old = cmd.old
        /\ ClockTypes'
    BY <2>1, <2>2 DEF ClockTypes, Verdicts
  <2>4. Applied' /\ SourceKept'
    BY <2>2, <2>3 DEF Applied, SourceKept, VerdictNamed, VerdictTrue
  <2>5. Facts
    BY <2>2, <2>3, <2>4 DEF Untouched, SourceAsked, SourceReady, ModeBack, VerdictNamed, VerdictTrue
  <2>. QED
    BY <2>2, <2>3, <2>5 DEF Stopped, Changing
<1>10. CASE Finish
  <2>1. /\ pc' = "idle" /\ UNCHANGED <<card, up>>
        /\ cmd' = [goal |-> [mode |-> "master", source |-> None], old |-> card,
                   running |-> {}, ignored |-> {}, verdict |-> "none"]
    BY <1>10 DEF Finish
  <2>2. [mode |-> "master", source |-> None] \in Goals
    BY DEF Goals, Modes
  <2>3. ClockTypes'
    BY <2>1, <2>2 DEF ClockTypes, Verdicts
  <2>. QED
    BY <2>1, <2>3 DEF Untouched, SourceAsked, SourceReady, ModeBack, VerdictNamed, VerdictTrue,
                      Stopped, Changing
<1>11. ASSUME UNCHANGED <<card, pc, cmd>>,
              \/ UNCHANGED <<up, blind>>
              \/ up' \subseteq up /\ UNCHANGED blind
              \/ up' \subseteq Services /\ blind' = (pc # "idle")
       PROVE  CInv'
  <2>1. Facts
    BY <1>11 DEF Untouched, SourceAsked, SourceReady, SourceKept, Applied, ModeBack,
                 VerdictNamed, VerdictTrue
  <2>2. ClockTypes'
    BY <1>11 DEF ClockTypes, Verdicts
  <2>3. Stopped'
    <3>1. pc # "idle" <=> pc' # "idle"
      BY <1>11
    <3>2. CASE UNCHANGED <<up, blind>>
      BY <1>11, <3>2, Zenon DEF Stopped
    <3>3. CASE up' \subseteq up /\ UNCHANGED blind
      BY <1>11, <3>3, Zenon DEF Stopped
    <3>4. CASE up' \subseteq Services /\ blind' = (pc # "idle")
      BY <1>11, <3>4 DEF Stopped, Changing
    <3>. QED
      BY <1>11, <3>2, <3>3, <3>4
  <2>. QED
    BY <2>1, <2>2, <2>3
<1>12. CASE StartChecks \/ World \/ UNCHANGED vars
  BY <1>11, <1>12, Zenon DEF StartChecks, World, vars
<1>13. CASE StartServices
  BY <1>11, <1>13 DEF StartServices
<1>14. CASE StopServices
  BY <1>11, <1>14 DEF StopServices
<1>. QED
  BY <1>1, <1>2, <1>3, <1>4, <1>5, <1>6, <1>7, <1>8, <1>9, <1>10, <1>12, <1>13, <1>14
  DEF Next, Command

(* The verdict of a finished command is true, for any sources and rates and *)
(* whichever of its calls fail; of a rollback, as far as the card took the  *)
(* writes it accepted.                                                      *)
THEOREM VerdictIsTrue == Spec => []OutcomeIsTrue
<1>1. Init => CInv
  BY ClockInit
<1>2. CInv /\ [Next]_vars => CInv'
  BY ClockStep
<1>3. CInv => OutcomeIsTrue
  BY DEF CInv, VerdictTrue, SourceKept, OutcomeIsTrue
<1>. QED
  BY <1>1, <1>2, <1>3, PTL DEF Spec

(* A step that changes the card is one of the four calls on it.             *)
LEMMA OnlyWhileChanging == [Next]_vars /\ card' # card => pc \in Changing
<1>. SUFFICES ASSUME [Next]_vars, card' # card PROVE pc \in Changing
  OBVIOUS
<1>. QED
  BY DEF Next, Command, Changing, Look, Stop, WriteMode, WriteSource, Write, Verify, UndoMode,
         UndoSource, Restart, After, Finish, StartChecks, StartServices, StopServices, World, vars

(* While docker does as it is told and no mixer is started beside it, the   *)
(* clock changes only when JACK is down.                                    *)
THEOREM ClockChangesQuietly == Spec => QuietChange
<1>1. Init => CInv
  BY ClockInit
<1>2. CInv /\ [Next]_vars => CInv'
  BY ClockStep
<1>3. CInv /\ [Next]_vars => [card' # card /\ ~blind => "audio" \notin up]_vars
  BY OnlyWhileChanging DEF CInv, Stopped
<1>. QED
  BY <1>1, <1>2, <1>3, PTL DEF Spec, QuietChange
=============================================================================
