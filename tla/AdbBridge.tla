----------------------------- MODULE AdbBridge -----------------------------
(***************************************************************************)
(* The bridge from the Apple keyboard and trackball of the Dyaxis to Linux *)
(* (dyaxis/bridge/adb_mouse_bridge.py).  One turn of its loop reads a line *)
(* of at most 20 ms, drains the LED events of Linux, looks after the       *)
(* repeating key and handles the line.  A line may be lost or cut short.   *)
(***************************************************************************)
EXTENDS Naturals, Sequences, SequencesExt

CONSTANTS
    Letters,     \* keys that repeat
    Modifiers,   \* keys that do not; Caps Lock is neither
    Buttons,     \* of the trackball
    Limit,       \* ticks after which a repeat ends, five seconds
    MaxStrokes,  \* bound: presses and releases
    MaxToggles   \* bound: lock changes that do not come from this keyboard

ASSUME LimitAssumption == Limit \in Nat \ {0}
ASSUME KeysAssumption == Letters \cap Modifiers = {}

VARIABLES
    held,      \* keys that are physically down
    wire,      \* packets on the serial line: sequences of tokens
    turn,      \* of the loop: read, leds, repeat or packet
    line,      \* the tokens of the line that was read
    lost,      \* a token has been lost
    down,      \* keys that Linux has down
    pressed,   \* the dictionaries pressed, repeat_next and repeat_started
    age,       \* of repeat_started
    taps,      \* Caps Lock taps that the desktop has not seen yet
    lock,      \* Caps Lock of the desktop
    events,    \* LED events on the way to the bridge
    mask,      \* the Caps bit of led_mask, as the keyboard was last told
    recent,    \* a tap within the last 0.1 s
    mouse,     \* [held, shown]: trackball buttons, and what Linux has of them
    strokes, toggles

vars == <<held, wire, turn, line, lost, down, pressed, age, taps, lock, events, mask, recent,
          mouse, strokes, toggles>>

Keys == Letters \cup Modifiers
Caps == "caps"
ASSUME CapsAssumption == Caps \notin Keys

Keyboard == <<held, wire, lost, strokes>>
Desktop == <<taps, lock, events, toggles>>
Linux == <<down, pressed, age>>
Leds == <<mask, recent>>

-----------------------------------------------------------------------------
(* The keyboard, the trackball and the serial line *)

(* Linux may begin with any lock; the bridge taps Caps Lock once when the   *)
(* LED was lit, and takes it for off from then on.  mask is its Caps bit    *)
(* only: the tap that seeds Num Lock, and the same LEDs sent once more when *)
(* the keyboard answers after its reset, are left out.                      *)
Init ==
    /\ held = {} /\ wire = <<>> /\ turn = "read" /\ line = <<>> /\ lost = FALSE
    /\ down = {} /\ pressed = {} /\ age = 0
    /\ lock \in BOOLEAN
    /\ taps = IF lock THEN 1 ELSE 0
    /\ events = <<>> /\ mask = FALSE /\ recent = FALSE
    /\ mouse = [held |-> {}, shown |-> {}]
    /\ strokes = 0 /\ toggles = 0

(* Two edges can share a packet. *)
Stroke(k) ==
    /\ strokes < MaxStrokes /\ strokes' = strokes + 1
    /\ held' = IF k \in held THEN held \ {k} ELSE held \cup {k}
    /\ LET token == [key |-> k, down |-> k \notin held]
       IN  \/ wire' = Append(wire, <<token>>)
           \/ /\ wire # <<>> /\ Len(Last(wire)) = 1
              /\ wire' = [wire EXCEPT ![Len(wire)] = Append(@, token)]
    /\ UNCHANGED <<lost, turn, line, Linux, Desktop, Leds, mouse>>

StrokeCaps ==
    /\ strokes < MaxStrokes /\ strokes' = strokes + 1
    /\ wire' = Append(wire, <<[key |-> Caps, down |-> FALSE]>>)
    /\ UNCHANGED <<held, lost, turn, line, Linux, Desktop, Leds, mouse>>

(* A line is complete, cut short, or nothing but a time-out of readline.    *)
Read ==
    /\ turn = "read" /\ turn' = "leds"
    /\ \/ line' = <<>> /\ UNCHANGED <<wire, lost>>
       \/ /\ wire # <<>> /\ wire' = Tail(wire)
          /\ \E n \in 0..Len(Head(wire)) :
                line' = SubSeq(Head(wire), 1, n) /\ lost' = (lost \/ n < Len(Head(wire)))
    /\ UNCHANGED <<held, strokes, Linux, Desktop, Leds, mouse>>

-----------------------------------------------------------------------------
(* The loop *)

(* Slip: only a lit LED is taken over. *)
LitOnly == IF \E i \in DOMAIN events : events[i] THEN TRUE ELSE mask

Authoritative == IF events = <<>> THEN mask ELSE Last(events)

LedEvents ==
    /\ turn = "leds" /\ turn' = "repeat"
    /\ mask' = Authoritative /\ events' = <<>>
    /\ UNCHANGED <<Keyboard, line, Linux, taps, lock, toggles, recent, mouse>>

(* Slip: a repeat that is over is forgotten, not released. *)
ForgetOld ==
    /\ turn = "repeat" /\ turn' = "packet"
    /\ IF age >= Limit
       THEN down' = down /\ pressed' = {} /\ age' = 0
       ELSE UNCHANGED <<down, pressed, age>>
    /\ UNCHANGED <<Keyboard, line, Desktop, Leds, mouse>>

(* A key that has been down for too long is released; repeats themselves    *)
(* change no state.                                                         *)
EndRepeat ==
    /\ turn = "repeat" /\ turn' = "packet"
    /\ IF age >= Limit
       THEN down' = down \ pressed /\ pressed' = {} /\ age' = 0
       ELSE UNCHANGED <<down, pressed, age>>
    /\ UNCHANGED <<Keyboard, line, Desktop, Leds, mouse>>

NextToken == Head(line)
Handled == line' = Tail(line) /\ UNCHANGED <<turn, Keyboard, mouse>>
Token(key) == turn = "packet" /\ line # <<>> /\ NextToken.key = key

(* Slip: the key that was tracked stays down. *)
KeepOld(k) == down \cup {k}

(* The key pressed last is the one that repeats; an older one is released.  *)
ReleaseOld(k) == (down \ pressed) \cup {k}

KeyDown(k) ==
    /\ Token(k) /\ NextToken.down
    /\ IF k \in Letters
       THEN down' = ReleaseOld(k) /\ pressed' = {k} /\ age' = 0
       ELSE down' = down \cup {k} /\ UNCHANGED <<pressed, age>>
    /\ Handled /\ UNCHANGED <<Desktop, Leds>>

(* Slip: only the key that repeats is released. *)
ReleaseTracked(k) == down \ ({k} \cap pressed)

Release(k) == down \ {k}

KeyUp(k) ==
    /\ Token(k) /\ ~NextToken.down
    /\ down' = Release(k)
    /\ pressed' = pressed \ {k}
    /\ age' = IF k \in pressed THEN 0 ELSE age
    /\ Handled /\ UNCHANGED <<Desktop, Leds>>

(* Either edge of Caps Lock is a tap, but not within 0.1 s of the last.     *)
CapsTap ==
    /\ Token(Caps)
    /\ IF recent THEN UNCHANGED <<taps, mask, recent>>
       ELSE taps' = taps + 1 /\ mask' = ~mask /\ recent' = TRUE
    /\ Handled /\ UNCHANGED <<Linux, lock, events, toggles>>

PacketDone ==
    /\ turn = "packet" /\ line = <<>> /\ turn' = "read"
    /\ UNCHANGED <<Keyboard, line, Linux, Desktop, Leds, mouse>>

(* A trackball packet holds both buttons; a cut one does not match.         *)
MousePacket ==
    /\ turn = "packet" /\ line = <<>> /\ turn' = "read"
    /\ mouse.shown # mouse.held
    /\ mouse' = [mouse EXCEPT !.shown = mouse.held]
    /\ UNCHANGED <<Keyboard, line, Linux, Desktop, Leds>>

-----------------------------------------------------------------------------
(* Linux, and time *)

(* The desktop toggles its lock for a tap and tells the LEDs. *)
Toggle ==
    /\ taps > 0 /\ taps' = taps - 1
    /\ lock' = ~lock /\ events' = Append(events, lock')
    /\ UNCHANGED <<Keyboard, turn, line, Linux, toggles, Leds, mouse>>

ToggleElsewhere ==
    /\ toggles < MaxToggles /\ toggles' = toggles + 1
    /\ lock' = ~lock /\ events' = Append(events, lock')
    /\ UNCHANGED <<Keyboard, turn, line, Linux, taps, Leds, mouse>>

(* The age stops at its limit. *)
Tick ==
    /\ turn = "read"
    /\ age' = IF pressed # {} /\ age < Limit THEN age + 1 ELSE age
    /\ recent' = FALSE
    /\ UNCHANGED <<Keyboard, turn, line, down, pressed, Desktop, mask, mouse>>

Click(b) ==
    /\ mouse' = [mouse EXCEPT !.held = IF b \in @ THEN @ \ {b} ELSE @ \cup {b}]
    /\ UNCHANGED <<Keyboard, turn, line, Linux, Desktop, Leds>>

Loop ==
    \/ Read \/ LedEvents \/ EndRepeat \/ CapsTap \/ PacketDone \/ MousePacket
    \/ \E k \in Keys : KeyDown(k) \/ KeyUp(k)

Next ==
    \/ Loop
    \/ \E k \in Keys : Stroke(k)
    \/ StrokeCaps
    \/ \E b \in Buttons : Click(b)
    \/ Toggle \/ ToggleElsewhere \/ Tick

(* The loop turns because readline has a time-out, and time passes while it *)
(* waits.                                                                   *)
Spec == Init /\ [][Next]_vars /\ WF_vars(Loop) /\ SF_vars(Tick)

-----------------------------------------------------------------------------
(* As long as nothing was lost, Linux has the modifiers that are held, and  *)
(* no letter that is not, once every packet is handled.                     *)
FollowsKeyboard ==
    wire = <<>> /\ line = <<>> /\ ~lost =>
        down \cap Modifiers = held \cap Modifiers /\ down \cap Letters \subseteq held

(* A letter that Linux has down is the one that is watched, whatever lines  *)
(* are lost: no other could be released again without its keyboard.         *)
NoOrphanKey == down \cap Letters \subseteq pressed

(* "If a release packet is lost, never allow a synthetic repeat to run      *)
(* forever": every letter that is down is released.                         *)
RepeatEnds == \A k \in Letters : k \in down ~> k \notin down

(* The LED shows the lock of the desktop when all taps and LED events are   *)
(* handled, though the bridge switches it before the desktop does and the   *)
(* lock also changes elsewhere.                                             *)
LedsAgree == taps = 0 /\ events = <<>> => mask = lock

(* The claim that a lost release is made up for holds for letters alone.    *)
ModifierEnds == \A k \in Modifiers : k \in down ~> k \notin down
=============================================================================
