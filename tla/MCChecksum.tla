----------------------------- MODULE MCChecksum -----------------------------
(* Checksum for TLC: a packet of the stack, and draws that reach every bit. *)
EXTENDS Checksum

ByteOf(n) == {b \in 0 .. 7 : (n \div 2 ^ b) % 2 = 1}

\* TYPE_SINGLE with transaction id 2 and length 16, and the payload 1, 2, ... 16.
MCMessages == {[n \in 0 .. MessageLen - 1 |-> ByteOf(IF n = 0 THEN 1 + 4 * 2 + 16 * 15 ELSE n)]}

\* One draw for each bit, and one that falls behind the packet.
MCDraws == {b * (RAND_MAX \div Bits) : b \in 0 .. Bits}

\* Two bits in the payload for the third and the fourth flip: they undo each
\* other, undo the second one, or add to it.
MCLateDraws == {b * (RAND_MAX \div Bits) : b \in {70, 94}}
=============================================================================
