------------------------------ MODULE Checksum ------------------------------
(***************************************************************************)
(* The checksum of a packet and the noise it has to notice.  A packet is   *)
(* built (stk_set_pack_checksumm), goes through wl_pack_break, and is      *)
(* tested (stk_test_pack_checksumm).  Tsm and Link take it that a packet   *)
(* with flipped bits fails the test; here is how far that is so.           *)
(*                                                                         *)
(* The loop of stk_crc16 runs twice over the same bytes, once before and   *)
(* once after the flips; the two passes do not touch each other and are    *)
(* taken side by side, one byte per step.  Bytes and words are the sets of *)
(* their one-bits.                                                         *)
(***************************************************************************)
EXTENDS PackBreak

CONSTANTS
  PackLen,   \* CONFIG_STK_PACK_CONST_LEN
  Messages   \* header and payload: what stk_llc_single_prepare may write

Byte == SUBSET (0 .. 7)
Word == SUBSET (0 .. 15)
MessageLen == PackLen - 2

ASSUME ChecksumAssumption ==
  /\ PackLen \in Nat /\ PackLen > 2
  /\ Bits = 8 * PackLen
  /\ Messages \subseteq [0 .. MessageLen - 1 -> Byte]

VARIABLES
  message,   \* data[0 .. 16], as built
  k,         \* bytes the loops have gone through
  sent,      \* crc of the sender's loop
  received   \* crc of the receiver's loop

sumVars == <<message, k, sent, received>>

-----------------------------------------------------------------------------
\* ^, >> and, on uint16_t, <<.
Xor(a, b) == (a \ b) \cup (b \ a)
Shr(a, n) == {b \in 0 .. 15 : b + n \in a}
Shl(a, n) == {b \in 0 .. 15 : b - n \in a}

\* Mutant: the line x ^= x >> 4 is missing.
Crc16StepUnfolded(crc, byte) ==
  LET x == Xor(Shr(crc, 8), byte)
  IN Xor(Xor(Shl(crc, 8), Shl(x, 12)), Xor(Shl(x, 5), x))

\* One turn of the loop of stk_crc16.
Crc16Step(crc, byte) ==
  LET y == Xor(Shr(crc, 8), byte)
      x == Xor(y, Shr(y, 4))
  IN Xor(Xor(Shl(crc, 8), Shl(x, 12)), Xor(Shl(x, 5), x))

\* The reference: division by x^16 + x^12 + x^5 + 1, most significant bit first.
BitStep(crc, bit) == Xor(Shl(crc, 1), IF (15 \in crc) # bit THEN {0, 5, 12} ELSE {})
Division(crc, byte) ==
  LET by(c, n) == BitStep(c, n \in byte)
  IN by(by(by(by(by(by(by(by(crc, 7), 6), 5), 4), 3), 2), 1), 0)

\* What the flips did to byte n of the packet.
FlipsIn(n) == {b \in 0 .. 7 : 8 * n + b \in flipped}

\* union stk_pack_checksum on a little-endian machine: hi is the low byte.
Lo(sum) == Shr(sum, 8)
Hi(sum) == {b \in sum : b < 8}

\* Mutant: only one byte of the sum is compared.
TestPackHalf == Lo(received) = Xor(Lo(sent), FlipsIn(PackLen - 2))

\* stk_test_pack_checksumm's comparison of data[STK_P_CRC_LO] and
\* data[STK_P_CRC_HI], as stk_set_pack_checksumm wrote them and as they arrived.
TestPack ==
  /\ Lo(received) = Xor(Lo(sent), FlipsIn(PackLen - 2))
  /\ Hi(received) = Xor(Hi(sent), FlipsIn(PackLen - 1))

-----------------------------------------------------------------------------
Build ==
  /\ message' \in Messages
  /\ k' = 0
  /\ sent' = 0 .. 15
  /\ received' = 0 .. 15

SumInit ==
  /\ Init
  /\ message \in Messages
  /\ k = 0
  /\ sent = 0 .. 15
  /\ received = 0 .. 15

Break == \/ Spare \/ Stop \/ Again
         \/ \E r \in DrawsNow : First(r) \/ Redraw(r)

\* while (length--)
SumByte ==
  /\ pc = "done" /\ k < MessageLen
  /\ sent' = Crc16Step(sent, message[k])
  /\ received' = Crc16Step(received, Xor(message[k], FlipsIn(k)))
  /\ k' = k + 1
  /\ UNCHANGED <<vars, message>>

Tested == pc = "done" /\ k = MessageLen

SumNext ==
  \/ Break /\ UNCHANGED sumVars
  \/ SumByte
  \/ Tested /\ Reload /\ Build

SumSpec == SumInit /\ [][SumNext]_<<vars, sumVars>>

-----------------------------------------------------------------------------
InPack == flipped \cap 0 .. Bits - 1

\* A packet passes the test exactly if it arrived as it was built, for up to
\* two flips anywhere in it, the checksum's own bytes included.
FlipsNoticed == Tested /\ Cardinality(InPack) <= 2 => (TestPack <=> InPack = {})

\* Any odd number of wrong bits is noticed, wherever they are and whatever the
\* packet says: x + 1 divides the polynomial.  A sum that notices every one and
\* every two wrong bits need not notice three.
OddNoticed == Tested /\ Cardinality(InPack) % 2 = 1 => ~TestPack

\* The byte-wise loop with its shifts and masks divides by the polynomial.
LoopDivides ==
  pc = "done" /\ k < MessageLen =>
    LET byte == Xor(message[k], FlipsIn(k))
    IN Crc16Step(received, byte) = Division(received, byte)
=============================================================================
