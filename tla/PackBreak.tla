----------------------------- MODULE PackBreak -----------------------------
(***************************************************************************)
(* wl_pack_break: the noise of the air, which flips bits of a packet and   *)
(* reports how many.  WlEnv only keeps that a packet may come out broken;  *)
(* here is which bits are flipped, and whether any really is.              *)
(***************************************************************************)
EXTENDS Integers, FiniteSets

CONSTANTS
  Bits,      \* CONFIG_WL_PACK_CONST_LEN * 8
  RAND_MAX,
  Draws,     \* the values rand_r returns
  LateDraws, \* bound: those it returns from the third flip on
  MaxFlips   \* bound: flips in one packet

ASSUME PackBreakAssumption ==
  /\ Bits \in Nat \ {0}
  /\ RAND_MAX \in Nat /\ RAND_MAX >= Bits
  /\ Draws \subseteq 0 .. RAND_MAX
  /\ LateDraws \subseteq Draws
  /\ MaxFlips \in Nat \ {0}

VARIABLES
  pc,
  flipped,            \* the bits in which send_data differs from what was put there
  bit_to_break_prev,
  ret

vars == <<pc, flipped, bit_to_break_prev, ret>>

\* rand_pack_bit
RandPackBit(r) == r \div (RAND_MAX \div Bits)

\* wl_pack_bit_flip: flipping a bit again restores it.
BitFlip(bit) == flipped' = IF bit \in flipped THEN flipped \ {bit} ELSE flipped \cup {bit}

Init == pc = "start" /\ flipped = {} /\ bit_to_break_prev = 0 /\ ret = 0

\* No bit is flipped: the first draw of the score says so.
Spare ==
  /\ pc = "start" /\ pc' = "done"
  /\ UNCHANGED <<flipped, bit_to_break_prev, ret>>

First(r) ==
  /\ pc = "start" /\ pc' = "loop"
  /\ bit_to_break_prev' = RandPackBit(r)
  /\ BitFlip(RandPackBit(r))
  /\ ret' = ret + 1

\* The while loop draws whether there is another flip.  bit_to_break_prev is a
\* local variable, gone with the return.
Stop ==
  /\ pc = "loop" /\ pc' = "done"
  /\ bit_to_break_prev' = 0
  /\ UNCHANGED <<flipped, ret>>

Again ==
  /\ pc = "loop" /\ ret < MaxFlips /\ pc' = "draw"
  /\ UNCHANGED <<flipped, bit_to_break_prev, ret>>

\* Mutant: any bit will do.
RedrawAny(r) ==
  /\ pc = "draw" /\ pc' = "loop"
  /\ BitFlip(RandPackBit(r))
  /\ ret' = ret + 1
  /\ UNCHANGED bit_to_break_prev

\* Mutant: the comparison moves on to the bit flipped last.
RedrawMoved(r) ==
  /\ pc = "draw" /\ RandPackBit(r) # bit_to_break_prev /\ pc' = "loop"
  /\ BitFlip(RandPackBit(r))
  /\ ret' = ret + 1
  /\ bit_to_break_prev' = RandPackBit(r)

\* The do loop draws until the bit is not the first one; bit_to_break_prev is
\* never moved on.
Redraw(r) ==
  /\ pc = "draw" /\ RandPackBit(r) # bit_to_break_prev /\ pc' = "loop"
  /\ BitFlip(RandPackBit(r))
  /\ ret' = ret + 1
  /\ UNCHANGED bit_to_break_prev

\* The next packet.
Reload ==
  /\ pc = "done" /\ pc' = "start"
  /\ flipped' = {} /\ ret' = 0
  /\ UNCHANGED bit_to_break_prev

\* The draws of the flip to come.
DrawsNow == IF ret < 2 THEN Draws ELSE LateDraws

Next ==
  \/ Spare \/ Stop \/ Again \/ Reload
  \/ \E r \in DrawsNow : First(r) \/ Redraw(r)

Spec == Init /\ [][Next]_vars

-----------------------------------------------------------------------------
\* "this implementation will work for error number <= 2": up to two reported
\* errors are that many wrong bits.
TwoFlipsDiffer == ret <= 2 => Cardinality(flipped) = ret

\* The FIXME fears that flips of one bit cancel and a buffer reported as broken
\* is whole.  Later flips may undo each other, from the third on, but never the
\* first one.  This is about the buffer: the bit behind the packet counts as
\* well, and a packet with that one alone is reported and whole (FlipsInPack).
FlipsNeverCancel == ret > 0 <=> flipped # {}

\* random-test.c: "rand_pack_bit random [0..LEN * 8 - 1]"; a bit beyond the
\* packet is flipped in the buffer but never sent.
FlipsInPack == flipped \subseteq 0 .. Bits - 1
=============================================================================
