------------------------------- MODULE MCLink -------------------------------
(* Link for TLC: what the two loops send, and the timeouts they pass. *)
EXTENDS Link

MCPayload == {M!Single(id) : id \in M!TransId}
MCTimeouts == {2 * TimeOnAir, 3 * TimeOnAir, SlaveTimeout}
=============================================================================
