----------------------------- MODULE U17Service -----------------------------
(***************************************************************************)
(* The service-byte dispatch of the U17 ROM as the host tool simulates it  *)
(* over the received bytes of a capture (dyaxis/host/u17_host_tool.py).    *)
(* Bytes and states have the values of the source.                         *)
(***************************************************************************)
EXTENDS Integers

CONSTANTS Values   \* the bytes that are received

ASSUME ValuesAssumption == Values \subseteq 0..255

VARIABLES
    state,   \* A8 of the ROM
    count,   \* A2 of the ROM
    asked,   \* the count that was accepted
    used     \* bytes of the transfer so far

serviceVars == <<state, count, asked, used>>

Wait == 0
Counting == 1
Command == 2
Block == 40      \* 0x28
Payload == 41    \* 0x29
Cleanup == 90    \* 0x5A
Transfer == {Block, Payload, Cleanup}

(* Slip: a counter that stops at zero. *)
StoppedLess(n) == IF n = 0 THEN 0 ELSE n - 1

OneLess(n) == (n - 1) % 256

ServiceInit == state = Wait /\ count = 0 /\ asked = 0 /\ used = 0

Arm(value) ==
    /\ state = Wait /\ value = 2
    /\ state' = Counting
    /\ UNCHANGED <<count, asked, used>>

TakeCount(value) ==
    /\ state = Counting
    /\ state' = Command /\ count' = value
    /\ UNCHANGED <<asked, used>>

Clear(value) ==
    /\ state = Command /\ value = 1
    /\ state' = Wait
    /\ UNCHANGED <<count, asked, used>>

Begin(value) ==
    /\ state = Command /\ value = 6
    /\ IF count \in 1..128
       THEN state' = Block /\ asked' = count /\ used' = 0
       ELSE state' = Wait /\ UNCHANGED <<asked, used>>
    /\ UNCHANGED count

CountDown ==
    /\ count' = OneLess(count)
    /\ used' = used + 1
    /\ UNCHANGED asked

Terminal(value) ==
    /\ state = Block /\ value = 255
    /\ CountDown
    /\ state' = IF count' = 0 THEN Wait ELSE Cleanup

SelectBlock(value) ==
    /\ state = Block /\ value # 255
    /\ CountDown
    /\ state' = IF value < 252 THEN Payload ELSE Cleanup

TakePayload ==
    /\ state = Payload
    /\ CountDown
    /\ state' = IF count' = 0 THEN Wait ELSE Payload

CleanUp ==
    /\ state = Cleanup
    /\ CountDown
    /\ state' = IF count' = 0 THEN Wait ELSE Cleanup

Ignore(value) ==
    /\ \/ state = Wait /\ value # 2
       \/ state = Command /\ value \notin {1, 6}
    /\ UNCHANGED serviceVars

SimulateServiceByte(value) ==
    \/ Arm(value) \/ TakeCount(value) \/ Clear(value) \/ Begin(value)
    \/ Terminal(value) \/ SelectBlock(value) \/ Ignore(value)
    \/ TakePayload \/ CleanUp

ServiceNext == \E value \in Values : SimulateServiceByte(value)

-----------------------------------------------------------------------------
(* The simulation is back in step with the sender exactly when as many      *)
(* bytes were taken as had been announced, on the good paths and on the     *)
(* error path alike, except that a transfer announced as one byte takes 257 *)
(* when that byte is not the terminal one: the selection of the block       *)
(* brings the counter to zero and the first payload byte takes it to 255.   *)
FrameLength ==
    [][(state \in Transfer /\ state' = Wait) =>
        used' = IF asked = 1 /\ state # Block THEN 257 ELSE asked]_serviceVars
=============================================================================
