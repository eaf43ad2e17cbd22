----------------------------- MODULE AudioClock -----------------------------
(***************************************************************************)
(* The clock of the RME card (audio/clock.py): "audio-clock set" stops the *)
(* mixer, writes two ALSA controls, reads them back, rolls back when that  *)
(* fails, and starts what it stopped.  Each amixer and each docker call is *)
(* a step of its own and may fail; a write may also be accepted and do     *)
(* nothing.  The two other commands that matter run beside it (scripts/    *)
(* mixer): "mixer start", with its preflight, and "mixer stop".            *)
(***************************************************************************)
CONSTANTS
    Sources,     \* the inputs the card can follow
    Checked,     \* those that have a Sync Check: the ADAT inputs
    None,        \* no source asked for
    Rates,       \* sample rates of JACK and of the card
    Required     \* the one the appliance runs at, 48000

ASSUME SourcesAssumption == Checked \subseteq Sources /\ None \notin Sources
ASSUME RatesAssumption == Required \in Rates

Modes == {"master", "autosync", "wordclock"}
Services == {"audio", "mixer"}

VARIABLES
    card,        \* the two ALSA controls
    locked,      \* inputs that are in Lock Sync
    hardware,    \* ADAT sample rate of the card
    up,          \* running services; JACK runs inside audio
    jack,        \* its sample rate while it runs
    pc,          \* where the set command is
    cmd,         \* its locals: goal, old, running, verdict; ignored is history
    starter,     \* mixer start: idle, or between preflight and compose up
    blind        \* since the command looked, docker has failed it or a start came in

worldVars == <<locked, hardware, starter>>
vars == <<card, locked, hardware, up, jack, pc, cmd, starter, blind>>

Goals == {g \in [mode: Modes, source: Sources \cup {None}] :
             (g.mode = "autosync") <=> (g.source # None)}
Card == [mode: Modes, source: Sources]

-----------------------------------------------------------------------------
(* Reading the clock *)

Follows == card.source \in Checked /\ card.source \in locked

(* status: Word Clock is never healthy, nor is a source without a check. *)
Healthy(rate) ==
    /\ rate \in {None, Required}
    /\ card.mode = "master" \/ (card.mode = "autosync" /\ Follows)

(* jack_rate: None when JACK is not there, or docker could not say. *)
JackRate == {None} \cup (IF "audio" \in up THEN {jack} ELSE {})

(* preflight: JACK is stopped, or docker could not say that it runs. *)
Preflight ==
    /\ None \in JackRate
    /\ hardware = Required
    /\ card.mode = "master" \/ (card.mode = "autosync" /\ Follows)

(* services_running: nothing, when docker could not say. *)
ServicesRunning == {up, {}}

-----------------------------------------------------------------------------
(* audio-clock set *)

Init ==
    /\ card \in Card
    /\ locked \in SUBSET Checked
    /\ hardware \in Rates
    /\ up \in {{}, {"audio"}, Services}
    /\ jack = Required
    /\ pc = "idle"
    /\ cmd = [goal |-> [mode |-> "master", source |-> None], old |-> card,
              running |-> {}, ignored |-> {}, verdict |-> "none"]
    /\ starter = "idle"
    /\ blind = FALSE

(* The reads before the change; the command is refused when the card cannot *)
(* be read, and at a wrong rate.                                            *)
Look(goal) ==
    /\ pc = "idle"
    /\ \E read \in BOOLEAN, running \in ServicesRunning, rate \in JackRate :
          LET refused == ~read \/ rate \notin {None, Required}
          IN  /\ cmd' = [goal |-> goal, old |-> card, running |-> running, ignored |-> {},
                         verdict |-> IF refused THEN "refused" ELSE "none"]
              /\ pc' = IF refused THEN "done" ELSE IF running # {} THEN "stop" ELSE "mode"
              /\ blind' = (running # up)
    /\ UNCHANGED <<card, up, jack, worldVars>>

(* Slip: only the mixer is stopped before the change. *)
StopMixerOnly ==
    /\ pc = "stop"
    /\ \/ up' = up \ {"mixer"} /\ blind' = blind
       \/ up' \in SUBSET up /\ blind' = TRUE
    /\ pc' = "mode"
    /\ UNCHANGED <<card, jack, cmd, worldVars>>

(* service_stop ignores a failure. *)
Stop ==
    /\ pc = "stop"
    /\ \/ up' = {} /\ blind' = blind
       \/ up' \in SUBSET up /\ blind' = TRUE
    /\ pc' = "mode"
    /\ UNCHANGED <<card, jack, cmd, worldVars>>

(* amixer cset: done, accepted without effect, or failed. *)
Write(new, next) ==
    /\ \/ card' = new /\ pc' = next
       \/ card' = card /\ pc' = next
       \/ card' = card /\ pc' = "undo"
    /\ UNCHANGED <<up, jack, cmd, blind, worldVars>>

WriteMode ==
    /\ pc = "mode"
    /\ Write([card EXCEPT !.mode = cmd.goal.mode],
             IF cmd.goal.mode = "autosync" THEN "source" ELSE "verify")

WriteSource ==
    /\ pc = "source"
    /\ Write([card EXCEPT !.source = cmd.goal.source], "verify")

Applied ==
    /\ card.mode = cmd.goal.mode
    /\ cmd.goal.mode = "autosync" => card.source = cmd.goal.source

(* Slip: only the mode is read back. *)
VerifyMode ==
    /\ pc = "verify"
    /\ \/ /\ card.mode = cmd.goal.mode
          /\ pc' = "restart" /\ cmd' = [cmd EXCEPT !.verdict = "changed"]
       \/ pc' = "undo" /\ cmd' = cmd
    /\ UNCHANGED <<card, up, jack, blind, worldVars>>

(* The readback differs, or fails itself, or agrees. *)
Verify ==
    /\ pc = "verify"
    /\ \/ Applied /\ pc' = "restart" /\ cmd' = [cmd EXCEPT !.verdict = "changed"]
       \/ pc' = "undo" /\ cmd' = cmd
    /\ UNCHANGED <<card, up, jack, blind, worldVars>>

(* The rollback makes the same two calls with the old values: each is done, *)
(* accepted without effect, or failed, and when the first fails the second  *)
(* is not made.  Nothing is read back after it.  ignored keeps, for the     *)
(* properties, which of them had no effect.                                 *)
UndoMode ==
    /\ pc = "undo"
    /\ \/ /\ card' = [card EXCEPT !.mode = cmd.old.mode]
          /\ pc' = "undo source" /\ cmd' = cmd
       \/ /\ card' = card
          /\ pc' = "undo source" /\ cmd' = [cmd EXCEPT !.ignored = {"mode"}]
       \/ /\ card' = card
          /\ pc' = "restart" /\ cmd' = [cmd EXCEPT !.verdict = "error"]
    /\ UNCHANGED <<up, jack, blind, worldVars>>

UndoSource ==
    /\ pc = "undo source"
    /\ \/ /\ card' = [card EXCEPT !.source = cmd.old.source]
          /\ cmd' = [cmd EXCEPT !.verdict = "rolled back"]
       \/ /\ card' = card
          /\ cmd' = [cmd EXCEPT !.verdict = "rolled back", !.ignored = @ \cup {"source"}]
       \/ card' = card /\ cmd' = [cmd EXCEPT !.verdict = "error"]
    /\ pc' = "restart"
    /\ UNCHANGED <<up, jack, blind, worldVars>>

(* Slip: a rollback starts nothing. *)
NotAfterRollback == IF cmd.verdict = "rolled back" THEN {} ELSE cmd.running

ToStart == IF "mixer" \in cmd.running THEN Services ELSE cmd.running

JackStarts == IF "audio" \in up' \ up THEN jack' \in Rates ELSE jack' = jack

(* service_start, after the change and in the finally of the rollback. *)
Restart ==
    /\ pc = "restart"
    /\ \/ /\ up' = up \cup ToStart
          /\ pc' = IF cmd.verdict = "changed" THEN "after" ELSE "done"
          /\ cmd' = cmd
       \/ /\ \E some \in SUBSET ToStart : up' = up \cup some
          /\ pc' = "done"
          /\ cmd' = [cmd EXCEPT !.verdict = "error"]
    /\ JackStarts
    /\ UNCHANGED <<card, blind, worldVars>>

(* The rate after the change; then the report whose health is the exit code *)
(* reads the card once more, unless the card is master now.                 *)
After ==
    /\ pc = "after"
    /\ \/ \E rate \in JackRate \ {None, Required} :
             cmd' = [cmd EXCEPT !.verdict = "wrong rate"]
       \/ cmd.goal.mode = "master" /\ cmd' = cmd
       \/ /\ cmd.goal.mode # "master"
          /\ \/ cmd' = [cmd EXCEPT !.verdict = "unread"]
             \/ \E rate \in JackRate :
                   cmd' = [cmd EXCEPT !.verdict = IF Healthy(rate) THEN "changed" ELSE "unhealthy"]
    /\ pc' = "done"
    /\ UNCHANGED <<card, up, jack, blind, worldVars>>

Finish ==
    /\ pc = "done"
    /\ pc' = "idle"
    /\ blind' = FALSE
    /\ cmd' = [goal |-> [mode |-> "master", source |-> None], old |-> card,
               running |-> {}, ignored |-> {}, verdict |-> "none"]
    /\ UNCHANGED <<card, up, jack, worldVars>>

-----------------------------------------------------------------------------
(* The other commands, and the world.  The lock of mixer start is taken by  *)
(* no other command.  Its compose up makes every container anew, or fails   *)
(* somewhere on the way.                                                    *)

StartChecks ==
    /\ starter = "idle" /\ Preflight
    /\ starter' = "checked"
    /\ UNCHANGED <<card, locked, hardware, up, jack, pc, cmd, blind>>

StartServices ==
    /\ starter = "checked"
    /\ starter' = "idle"
    /\ up' \in SUBSET Services
    /\ jack' \in Rates
    /\ blind' = (pc # "idle")
    /\ UNCHANGED <<card, locked, hardware, pc, cmd>>

(* Also when it fails some of them may have gone. *)
StopServices ==
    /\ up # {} /\ up' \in SUBSET up
    /\ UNCHANGED <<card, locked, hardware, jack, pc, cmd, starter, blind>>

World ==
    /\ \/ locked' \in SUBSET Checked /\ UNCHANGED hardware
       \/ hardware' \in Rates /\ UNCHANGED locked
    /\ UNCHANGED <<card, up, jack, pc, cmd, starter, blind>>

Command ==
    \/ Stop \/ WriteMode \/ WriteSource \/ Verify \/ UndoMode \/ UndoSource
    \/ Restart \/ After

Next ==
    \/ \E goal \in Goals : Look(goal)
    \/ Command
    \/ Finish
    \/ StartChecks \/ StartServices \/ StopServices
    \/ World

(* A command that was begun goes on: amixer and docker calls return. *)
Spec == Init /\ [][Next]_vars /\ WF_vars(Command)

-----------------------------------------------------------------------------
(* What the command says is what the card has, whichever call failed: after *)
(* a change the asked mode and source, the old source when none was asked   *)
(* for; after a refusal both old values; after a rollback the old value of  *)
(* each control whose last write was not ignored by the card.  The code     *)
(* cannot know more, since it reads nothing back after the rollback.        *)
OutcomeIsTrue ==
    pc = "done" =>
        /\ cmd.verdict \in {"changed", "unhealthy", "wrong rate", "unread"} =>
              Applied /\ (cmd.goal.mode # "autosync" => card.source = cmd.old.source)
        /\ cmd.verdict = "refused" => card = cmd.old
        /\ cmd.verdict = "rolled back" =>
              /\ "mode" \notin cmd.ignored => card.mode = cmd.old.mode
              /\ "source" \notin cmd.ignored => card.source = cmd.old.source

(* The clock never changes under a running JACK, forward or back, unless    *)
(* docker failed the command or a mixer was started beside it.              *)
QuietChange == [][card' # card /\ ~blind => "audio" \notin up]_vars

(* What the command found running runs again at some time after it was      *)
(* stopped, whatever the amixer calls did, unless the command says it       *)
(* failed.                                                                  *)
ServicesReturn ==
    \A s \in Services :
        pc = "mode" /\ s \in cmd.running ~> s \in up \/ cmd.verdict = "error"

(* After "clock change rolled back" the card is what it was.  It need not   *)
(* be, when the card ignored a write of the rollback.                       *)
RolledBackIsRestored == pc = "done" /\ cmd.verdict = "rolled back" => card = cmd.old

(* "Clock changes ... must happen while JACK is stopped."                   *)
ChangeWhileStopped == [][card' # card => "audio" \notin up]_vars
=============================================================================
