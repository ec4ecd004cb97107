---------------------------- MODULE ImageIntegrity ----------------------------
(***************************************************************************)
(* The check of the image at boot (src/image_integrity.c, src/crc32.c) and *)
(* the script that patches the expected value into the image after it is   *)
(* linked (scripts/patch_image_crc.py), for a CRC, bytes and an image of   *)
(* any size.  Between the two the image may be damaged.                    *)
(*                                                                         *)
(* A word is the set of its bits that are set: a shift to the right takes  *)
(* one from each, and exclusive or is symmetric difference.  The image is  *)
(* such a set too, bit b of byte i being i * BitsPerByte + b; this is the  *)
(* order in which the reflected CRC takes the bits.                        *)
(*                                                                         *)
(* BitsPerByte, Width   8 and 32                                           *)
(* CRC32_POLY           the reflected polynomial                           *)
(* Size                 bytes between __image_integrity_start and _end     *)
(* Slots                where __image_crc_slot may be; linker.ld puts it   *)
(*                      last                                               *)
(***************************************************************************)
EXTENDS Integers, SequencesExt, FiniteSetsExt

CONSTANTS BitsPerByte, Width, CRC32_POLY, Size, Slots

ASSUME ImageAssumption ==
    /\ {BitsPerByte, Width, Size} \subseteq Nat \ {0}
    /\ Width % BitsPerByte = 0
    /\ CRC32_POLY \subseteq 0 .. (Width - 1) /\ Width - 1 \in CRC32_POLY
    /\ Slots \subseteq 0 .. Size

Word      == 0 .. (Width - 1)
SlotBytes == Width \div BitsPerByte             \* sizeof(uint32_t)
Bits      == 0 .. (Size * BitsPerByte - 1)
SlotBits(slot) == slot * BitsPerByte .. (slot + SlotBytes) * BitsPerByte - 1

VARIABLES
    image,              \* the bits of the image that are set
    slot,               \* the byte __image_crc_slot points to
    phase,              \* "linked", "patched", "damaged" or "booted"
    patched,            \* history: the image was patched
    damage,             \* history: the bits that were inverted
    image_integrity_ok, image_integrity_computed, image_integrity_expected

verdict == <<image_integrity_ok, image_integrity_computed, image_integrity_expected>>
vars    == <<image, slot, phase, patched, damage, verdict>>

Xor(a, b) == (a \ b) \cup (b \ a)

-----------------------------------------------------------------------------
(* crc32_update, byte by byte and bit by bit; CRC32_INIT is all ones.  *)
CRC32_INIT == Word

ShiftUnchecked(crc, i) == Xor({b - 1 : b \in crc \ {0}}, CRC32_POLY)
Shift(crc, i) ==
    LET shifted == {b - 1 : b \in crc \ {0}} IN
    IF 0 \in crc THEN Xor(shifted, CRC32_POLY) ELSE shifted

UpdateByteOneShiftShort(crc, byte) ==
    FoldLeft(Shift, Xor(crc, byte), [i \in 1 .. (BitsPerByte - 1) |-> i])
UpdateByte(crc, byte) == FoldLeft(Shift, Xor(crc, byte), [i \in 1 .. BitsPerByte |-> i])
crc32_update(crc, data) == FoldLeft(UpdateByte, crc, data)

(* The bytes from first up to, but not including, last.  *)
BytesOf(bits, first, last) ==
    [i \in 1 .. (last - first) |->
        {b \in 0 .. (BitsPerByte - 1) : (first + i - 1) * BitsPerByte + b \in bits}]

(* image_integrity_crc_region_ex: one CRC over the two pieces round the    *)
(* slot.  Pointers out of order give 0.                                    *)
CrcRegion(start, at, end) ==
    IF at < start \/ end < at \/ at + SlotBytes > end THEN {}
    ELSE LET before == crc32_update(CRC32_INIT, BytesOf(image, start, at))
             after == crc32_update(before, BytesOf(image, at + SlotBytes, end))
         IN Xor(after, CRC32_INIT)

WordWithOneBitMore(at) == {b \in 0 .. Width : at * BitsPerByte + b \in image}
WordAt(at) == {b \in Word : at * BitsPerByte + b \in image}

-----------------------------------------------------------------------------
(* The linked image: any contents, and 0 in the slot (src/image_crc.c).    *)
Init ==
    /\ slot \in {s \in Slots : s + SlotBytes <= Size}
    /\ image \in SUBSET (Bits \ SlotBits(slot))
    /\ phase = "linked"
    /\ patched = FALSE
    /\ damage = {}
    /\ image_integrity_ok = TRUE
    /\ image_integrity_computed = {}
    /\ image_integrity_expected = {}

(* patch_kernel: crc32_ieee of the region without the slot, in one piece,  *)
(* stored in the slot with the lowest byte first.                          *)
crc32_ieee(data) == Xor(FoldLeft(UpdateByte, CRC32_INIT, data), CRC32_INIT)
Digest ==
    crc32_ieee(BytesOf(image, 0, slot) \o BytesOf(image, slot + SlotBytes, Size))

PatchKernel ==
    /\ phase = "linked"
    /\ image' = (image \ SlotBits(slot)) \cup {slot * BitsPerByte + b : b \in Digest}
    /\ phase' = "patched"
    /\ patched' = TRUE
    /\ UNCHANGED <<slot, damage, verdict>>

(* Damage after patching: a burst no longer than the CRC, or any two bits. *)
(* With a slot that is not last a burst does not reach across its edges,   *)
(* where the CRC does not take the bits in the order they have in memory.  *)
Window(first) == first .. Min({first + Width - 1, Max(Bits)})
Pieces ==
    IF slot + SlotBytes = Size THEN {Bits}
    ELSE {SlotBits(slot), {b \in Bits : b < slot * BitsPerByte},
          {b \in Bits : b >= (slot + SlotBytes) * BitsPerByte}}
Bursts == {d \in UNION {SUBSET Window(first) : first \in Bits} :
               d # {} /\ \E p \in Pieces : d \subseteq p}
Pairs  == {{a, b} : a \in Bits, b \in Bits}

Damage(bits) ==
    /\ phase = "patched"
    /\ image' = Xor(image, bits)
    /\ damage' = bits
    /\ phase' = "damaged"
    /\ UNCHANGED <<slot, patched, verdict>>

(* image_integrity_verify, once, from main before the scheduler starts.  *)
IsExpected(computed, expected) == computed = expected
IsAccepted(computed, expected) == expected # {} /\ computed = expected
Verify ==
    /\ phase # "booted"
    /\ image_integrity_expected' = WordAt(slot)
    /\ image_integrity_computed' = CrcRegion(0, slot, Size)
    /\ image_integrity_ok' = IsAccepted(image_integrity_computed', image_integrity_expected')
    /\ phase' = "booted"
    /\ UNCHANGED <<image, slot, patched, damage>>

Next == PatchKernel \/ (\E bits \in Bursts \cup Pairs : Damage(bits)) \/ Verify

Spec == Init /\ [][Next]_vars

-----------------------------------------------------------------------------
TypeOK ==
    /\ image \in SUBSET Bits
    /\ slot \in Slots
    /\ phase \in {"linked", "patched", "damaged", "booted"}
    /\ patched \in BOOLEAN
    /\ damage \in SUBSET Bits
    /\ image_integrity_ok \in BOOLEAN
    /\ image_integrity_computed \in SUBSET Word
    /\ image_integrity_expected \in SUBSET Word

(* An undamaged image is accepted if and only if it was patched and its    *)
(* CRC is not 0, the value that stands for "not patched": the two pieces   *)
(* the firmware takes the CRC of give what the script computes in one, and *)
(* the script writes the slot as the firmware reads it.                    *)
IntactIsAccepted ==
    phase = "booted" /\ damage = {} =>
        (image_integrity_ok <=> patched /\ image_integrity_computed # {})

(* A patched image with any burst of wrong bits as long as the CRC, or any *)
(* two wrong bits, is refused, wherever they are, the slot included.       *)
DamageIsRefused == phase = "booted" /\ damage # {} => ~image_integrity_ok

(* What the shifts and exclusive ors compute is the remainder of a         *)
(* polynomial division, which is what makes the CRC detect errors: the     *)
(* first bit has the highest power, the first Width bits are inverted, and *)
(* so is the result.                                                       *)
Generator == {Width} \cup {Width - 1 - b : b \in CRC32_POLY}
Subtract(p, e) == IF e \in p THEN Xor(p, {g + e - Width : g \in Generator}) ELSE p
Remainder(p, top) == FoldLeft(Subtract, p, [i \in 1 .. (top - Width + 1) |-> top + 1 - i])
Covered == [i \in 1 .. (Size - SlotBytes) * BitsPerByte |->
               IF i <= slot * BitsPerByte THEN i - 1 ELSE i - 1 + Width]
ReferenceCrc ==
    LET n == Len(Covered)
        message == {n - i + Width : i \in {j \in 1 .. n : Covered[j] \in image}}
        rest == Remainder(Xor(message, n .. (n + Width - 1)), n + Width - 1)
    IN {b \in Word : Width - 1 - b \notin rest}

CrcIsRemainder == phase = "booted" => image_integrity_computed = ReferenceCrc

(* The generator divides no sum of two powers whose distance fits into the *)
(* image: the order of the polynomial exceeds the bits of the image, which *)
(* CRC-32, of order 2^32 - 1, does for any image a board can hold.         *)
TwoBitsDiffer == \A d \in 1 .. (Size * BitsPerByte - 1) : Remainder({0, d}, d) # {}
=============================================================================
