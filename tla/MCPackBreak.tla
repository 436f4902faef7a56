---------------------------- MODULE MCPackBreak ----------------------------
(* PackBreak for TLC: the draws next to every border of rand_pack_bit. *)
EXTENDS PackBreak

Bucket == RAND_MAX \div Bits
MCDraws == {n * Bucket : n \in 0 .. Bits - 1} \cup {n * Bucket - 1 : n \in 1 .. Bits} \cup {RAND_MAX}
=============================================================================
