----------------------------- MODULE U17Session -----------------------------
(***************************************************************************)
(* One run of the uCsim simulator under its harness                        *)
(* (dyaxis/analysis/u17_ucsim_runner.py): two processes joined by a        *)
(* pseudo-terminal.  The harness waits until the command file has set its  *)
(* breakpoints, types a bounded step, looks for the message of a           *)
(* breakpoint, asks for the state, and makes sure the child is gone.       *)
(*                                                                         *)
(* Of uCsim it is assumed that the command file ends with the message of   *)
(* its last breakpoint.  What is typed to a child that is gone goes        *)
(* nowhere: Linux accepts a write to the master of such a pseudo-terminal  *)
(* and fails only the read, which ends a loop.                             *)
(***************************************************************************)
EXTENDS Naturals, Sequences, FiniteSets

CONSTANTS
    Breaks,   \* addresses with a breakpoint
    NBreaks,  \* how many messages of the command file are waited for
    Limit,    \* the address where a bounded step without breakpoint ends
    Enough,   \* messages after which the harness waits no longer (2,000,000 bytes)
    MaxTalk,  \* bound: lines printed that no one waits for
    None

ASSUME BreaksAssumption == NBreaks \in Nat \ {0} /\ Limit \notin Breaks /\ None \notin Breaks
ASSUME OutputAssumption == Enough \in Nat \ {0} /\ MaxTalk \in Nat

VARIABLES
    sim,       \* the child: starting, loading, console, stuck or gone
    pc,        \* its program counter
    typed,     \* what the harness typed and the child has not read
    output,    \* what the child printed and the harness has not read
    swallowed, \* the step was read before the command file had ended
    harness,   \* what the harness does next
    text,      \* the output it has read
    late,      \* five seconds have passed
    stop       \* the stop it reports

sessionVars == <<sim, pc, typed, output, swallowed, harness, text, late, stop>>
Child == <<sim, pc, swallowed>>

Line(what, at) == [what |-> what, at |-> at]
Places(log, what) == {i \in 1..Len(log) : log[i].what = what}
Count(log) == Cardinality(Places(log, "break"))

SessionInit ==
    /\ sim = "starting" /\ pc = None /\ typed = <<>> /\ output = <<>> /\ swallowed = FALSE
    /\ harness = "load" /\ text = <<>> /\ late = FALSE /\ stop = None

-----------------------------------------------------------------------------
(* The child.  A message is read whole or not at all: the harness keeps all *)
(* it has read, so a split message is only recognised later.                *)

Prints(line) == output' = Append(output, line)
Installed == Count(text \o output)

Exec ==
    /\ sim = "starting"
    /\ \/ sim' = "loading" /\ UNCHANGED output
       \/ sim' = "gone" /\ Prints(Line("traceback", None))
    /\ UNCHANGED <<pc, typed, swallowed, harness, text, late, stop>>

Install ==
    /\ sim = "loading" /\ Prints(Line("break", None))
    /\ sim' = IF Installed + 1 = NBreaks THEN "console" ELSE "loading"
    /\ UNCHANGED <<pc, typed, swallowed, harness, text, late, stop>>

(* A line that is neither waited for nor looked for. *)
Talk ==
    /\ sim \in {"loading", "console"} /\ Prints(Line("other", None))
    /\ Cardinality(Places(text \o output, "other")) < MaxTalk
    /\ UNCHANGED <<Child, typed, harness, text, late, stop>>

Swallow ==
    /\ sim = "loading" /\ typed # <<>> /\ typed' = Tail(typed)
    /\ swallowed' = (swallowed \/ Head(typed) = "step")
    /\ UNCHANGED <<sim, pc, output, harness, text, late, stop>>

Commanded(command) ==
    /\ sim = "console" /\ typed # <<>> /\ Head(typed) = command /\ typed' = Tail(typed)
    /\ UNCHANGED <<swallowed, harness, text, late, stop>>

Step ==
    /\ Commanded("step")
    /\ pc' \in Breaks \cup {Limit}
    /\ Prints(Line(IF pc' = Limit THEN "stepped" ELSE "breakpoint", pc'))
    /\ UNCHANGED sim

State == Commanded("state") /\ Prints(Line("state", pc)) /\ UNCHANGED <<sim, pc>>

Quit == Commanded("quit") /\ sim' = "gone" /\ UNCHANGED <<pc, output>>

Hang ==
    /\ sim \in {"loading", "console"} /\ sim' = "stuck"
    /\ UNCHANGED <<pc, typed, output, swallowed, harness, text, late, stop>>

-----------------------------------------------------------------------------
(* The harness *)

Reads(n) ==
    /\ n \in 1..Len(output)
    /\ text' = text \o SubSeq(output, 1, n) /\ output' = SubSeq(output, n + 1, Len(output))

(* Neither wait goes on after five seconds, or with so much output.         *)
GaveUp == late \/ Len(text) >= Enough

(* The terminal ends when the child is gone and all it printed was read.    *)
Over == GaveUp \/ (sim = "gone" /\ output = <<>>)

(* Slip: the step is typed as soon as the child runs. *)
AwaitNothing ==
    /\ harness = "load" /\ harness' = "step"
    /\ UNCHANGED <<Child, typed, output, text, late, stop>>

AwaitBreakpoints ==
    /\ harness = "load"
    /\ \/ /\ ~GaveUp
          /\ \E n \in 1..Len(output) : Reads(n)
          /\ harness' = IF Count(text') >= NBreaks THEN "step" ELSE "load"
       \/ Over /\ harness' = "step" /\ UNCHANGED <<output, text>>
    /\ UNCHANGED <<Child, typed, late, stop>>

TypeStep ==
    /\ harness = "step" /\ harness' = "wait"
    /\ typed' = Append(typed, "step")
    /\ UNCHANGED <<Child, output, text, late, stop>>

(* The end of the bounded step is no stop. *)
Stops(log) == Places(log, "breakpoint")

AwaitStop ==
    /\ harness = "wait"
    /\ \/ /\ ~GaveUp
          /\ \E n \in 1..Len(output) : Reads(n)
          /\ \/ Stops(text') = {} /\ UNCHANGED <<harness, stop>>
             \/ \E i \in Stops(text') :
                  /\ \A j \in Stops(text') : j <= i
                  /\ harness' = "state" /\ stop' = text'[i].at
       \/ Over /\ harness' = "state" /\ UNCHANGED <<output, text, stop>>
    /\ UNCHANGED <<Child, typed, late>>

TypeState ==
    /\ harness = "state" /\ harness' = "drain"
    /\ typed' = typed \o <<"state", "quit">>
    /\ UNCHANGED <<Child, output, text, late, stop>>

(* One second, or a tenth without output. *)
Drain ==
    /\ harness = "drain"
    /\ \/ (\E n \in 1..Len(output) : Reads(n)) /\ UNCHANGED harness
       \/ harness' = "reap" /\ UNCHANGED <<output, text>>
    /\ UNCHANGED <<Child, typed, late, stop>>

(* Ten polls, then SIGTERM and a wait that ends with the child.             *)
Reap ==
    /\ harness = "reap" /\ harness' = "report"
    /\ sim' = "gone"
    /\ UNCHANGED <<pc, typed, output, swallowed, text, late, stop>>

Deadline ==
    /\ ~late /\ late' = TRUE
    /\ UNCHANGED <<Child, typed, output, harness, text, stop>>

SessionNext ==
    \/ Exec \/ Install \/ Talk \/ Swallow \/ Step \/ State \/ Quit \/ Hang
    \/ AwaitBreakpoints \/ TypeStep \/ AwaitStop \/ TypeState \/ Drain \/ Reap
    \/ Deadline

-----------------------------------------------------------------------------
(* The first state in the text. *)
StatePc == LET states == Places(text, "state")
           IN  IF states = {} THEN None
               ELSE text[CHOOSE i \in states : \A j \in states : i <= j].at

TimedOut == stop = None

(* The report is true: a stop it names is where the program really is, and  *)
(* so is the state it asked for; and unless the five seconds passed or the  *)
(* output grew too long to be waited for, no breakpoint that was reached    *)
(* goes unreported, and the step is not lost in the start of the simulator, *)
(* "the original false-timeout bug".                                        *)
ReportIsTrue ==
    /\ swallowed => GaveUp
    /\ harness = "report" =>
        /\ ~TimedOut => pc = stop /\ pc \in Breaks
        /\ StatePc \in {None, pc}
        /\ TimedOut /\ pc \in Breaks => GaveUp
=============================================================================
