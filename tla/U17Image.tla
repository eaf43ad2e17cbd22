------------------------------ MODULE U17Image ------------------------------
(***************************************************************************)
(* The offline tools for the application image of the U17 processor        *)
(* (dyaxis/analysis): the builder and validator, the instruction-level     *)
(* emulator of the start-up check, and the two independent transcriptions  *)
(* it is compared with.  The byte has Base values instead of 256, so that  *)
(* carries, borrows and wrapped sums happen in short images.               *)
(***************************************************************************)
EXTENDS Naturals, Sequences

CONSTANTS
    Base,         \* values of a byte
    XBase,        \* CPU address of the first byte of an image, 8000
    SumEnd,       \* offset behind the last summed byte, 7DFD
    Size,         \* of an image
    MarkHi, MarkLo,  \* AA and 55
    Payloads,     \* what is built: sequences of bytes
    Template,     \* the image whose trampolines are copied
    MaxLosses     \* bound: bytes that the memory loses

Signature == SumEnd - 1
Stored == SumEnd + 1
Trampoline == SumEnd + 3
Bytes == 0..Base - 1
Offsets == 0..Size - 1

ASSUME LayoutAssumption ==
    /\ {Base, XBase, SumEnd, Size} \subseteq Nat \ {0}
    /\ XBase % Base = 0 /\ Trampoline < Size /\ XBase + Size <= Base * Base
    /\ {MarkHi, MarkLo} \subseteq Bytes
    /\ Template \in [Offsets -> Bytes]
    /\ \A p \in Payloads : p \in Seq(Bytes) /\ Len(p) <= Signature

VARIABLES
    image,     \* offset to byte
    built,     \* what the builder wrote
    losses,
    at,        \* of the emulator: idle, sum or done
    register,  \* R4 and R5, the sum; R6 and R7, the address
    path       \* the startup path it reports

imageVars == <<image, built, losses, at, register, path>>

-----------------------------------------------------------------------------
(* The three ways to a checksum *)

PartialSums(img) ==
    LET sum[n \in 0..SumEnd] == IF n = 0 THEN 0 ELSE sum[n - 1] + img[n - 1] IN sum

Sum(img) == PartialSums(img)[SumEnd]

Complement(word) == Base * Base - 1 - word

Checksum(img) == Complement(Sum(img) % (Base * Base))

Carry(total) == IF total > Base - 1 THEN 1 ELSE 0
AddByte(hi, lo, value) ==
    [low |-> (lo + value) % Base, high |-> (hi + Carry(lo + value)) % Base]

WordSums(img) ==
    LET sum[n \in 0..SumEnd] ==
            IF n = 0 THEN [low |-> 0, high |-> 0]
            ELSE AddByte(sum[n - 1].high, sum[n - 1].low, img[n - 1])
    IN  sum

ComplementedSum(img) ==
    LET sum == WordSums(img)[SumEnd]
    IN  (Base - 1 - sum.high) * Base + (Base - 1 - sum.low)

-----------------------------------------------------------------------------
(* Building and validating *)

Build(payload) ==
    LET plain == [o \in Offsets |->
                    CASE o < Len(payload) -> payload[o + 1]
                      [] o = Signature -> MarkHi
                      [] o = Signature + 1 -> MarkLo
                      [] OTHER -> 0]
    IN  [o \in Offsets |->
            CASE o = Stored -> Checksum(plain) \div Base
              [] o = Stored + 1 -> Checksum(plain) % Base
              [] o >= Trampoline -> Template[o]
              [] OTHER -> plain[o]]

Signed(img, offset) == img[offset] = MarkHi /\ img[offset + 1] = MarkLo
Word(img, offset) == img[offset] * Base + img[offset + 1]

Validate(img) ==
    {error \in {"signature", "checksum"} :
        IF error = "signature" THEN ~Signed(img, Signature)
        ELSE Word(img, Stored) # Checksum(img)}

(* The projection of the uCsim runner, from a plain sum. *)
ProjectedPath(img) ==
    IF Signed(img, Stored) /\ Signed(img, Signature) THEN "marker-wait"
    ELSE IF Word(img, Stored) = Complement(Sum(img) % (Base * Base)) THEN "Checksum Good"
    ELSE "Checksum Failed"

-----------------------------------------------------------------------------
ImageInit ==
    /\ built \in {Build(p) : p \in Payloads}
    /\ image = built /\ losses = 0
    /\ at = "idle" /\ register = [r4 |-> 0, r5 |-> 0, r6 |-> 0, r7 |-> 0] /\ path = "none"

(* The battery-backed memory or its programmer changes a byte. *)
Lose ==
    /\ at = "idle" /\ losses < MaxLosses /\ losses' = losses + 1
    /\ \E o \in Offsets, b \in Bytes : image' = [image EXCEPT ![o] = b]
    /\ UNCHANGED <<built, at, register, path>>

StartSum ==
    /\ at = "idle" /\ at' = "sum"
    /\ register' = [r4 |-> 0, r5 |-> 0, r6 |-> XBase \div Base, r7 |-> 0]
    /\ UNCHANGED <<image, built, losses, path>>

End == [hi |-> (XBase + SumEnd) \div Base, lo |-> (XBase + SumEnd) % Base]
Address == register.r6 * Base + register.r7

(* Slip: the borrow of the low subtraction is not passed on. *)
ReachedHigh == register.r6 >= End.hi

(* SUBB of the low, then of the high byte with the borrow. *)
Reached == register.r6 >= End.hi + (IF register.r7 < End.lo THEN 1 ELSE 0)

AddNext ==
    /\ at = "sum" /\ ~Reached
    /\ LET sum == AddByte(register.r4, register.r5, image[Address - XBase])
           next == (register.r7 + 1) % Base
       IN  register' = [r4 |-> sum.high, r5 |-> sum.low,
                        r6 |-> IF next = 0 THEN (register.r6 + 1) % Base ELSE register.r6,
                        r7 |-> next]
    /\ UNCHANGED <<image, built, losses, at, path>>

Result == [hi |-> Base - 1 - register.r4, lo |-> Base - 1 - register.r5]

(* The markers decide first; then the low and the high byte are compared.   *)
StartupValidation ==
    /\ at = "sum" /\ Reached /\ at' = "done"
    /\ path' =
        IF Signed(image, Stored) /\ Signed(image, Signature) THEN "marker-wait"
        ELSE IF image[Stored + 1] # Result.lo \/ image[Stored] # Result.hi THEN "Checksum Failed"
        ELSE "Checksum Good"
    /\ UNCHANGED <<image, built, losses, register>>

ImageNext == Lose \/ StartSum \/ AddNext \/ StartupValidation

-----------------------------------------------------------------------------
(* One byte below the trampolines is not as it was built. *)
OneByteLost ==
    \E o \in 0..Trampoline - 1 :
        image[o] # built[o] /\ \A p \in Offsets \ {o} : image[p] = built[p]

(* The register loop, the independent transcription and the plain sum agree *)
(* on the checksum, the emulator and the runner on the path, whatever bytes *)
(* were lost.  An image that validate accepts never fails the emulated      *)
(* start-up check (the console itself has refused one: it may map its       *)
(* memory otherwise), and validate accepts none that lost one byte: the     *)
(* checksum sees every byte but the second of the signature, which validate *)
(* compares.                                                                *)
VerdictsAgree ==
    at = "done" =>
        /\ Result.hi * Base + Result.lo = Checksum(image)
        /\ ComplementedSum(image) = Checksum(image)
        /\ path = ProjectedPath(image)
        /\ Validate(image) = {} => path # "Checksum Failed"
        /\ OneByteLost => Validate(image) # {}
=============================================================================
