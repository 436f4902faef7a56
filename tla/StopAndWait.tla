---------------------------- MODULE StopAndWait ----------------------------
(***************************************************************************)
(* What the link of stack-comm.c promises, without packets, timers or a    *)
(* radio: transactions happen one at a time and in order, the slave takes  *)
(* up each of them exactly once, and the master ends one only after the    *)
(* slave has taken it up.                                                  *)
(***************************************************************************)
EXTENDS Integers

CONSTANTS MaxId, NoId  \* transactions are numbered 0 .. MaxId, cyclically

VARIABLES
  master,   \* the transaction the master is in, or was in last
  slave,    \* the transaction the slave took up last
  waiting,  \* the master waits for an answer
  busy      \* the slave is at work on its transaction

vars == <<master, slave, waiting, busy>>

Init == master = 0 /\ slave = NoId /\ waiting = FALSE /\ busy = FALSE

Begin ==
  /\ ~waiting /\ waiting' = TRUE
  /\ master' = (master + 1) % (MaxId + 1)
  /\ UNCHANGED <<slave, busy>>

TakeUp ==
  /\ waiting /\ slave # master
  /\ slave' = master /\ busy' = TRUE
  /\ UNCHANGED <<master, waiting>>

Done ==
  /\ busy /\ busy' = FALSE
  /\ UNCHANGED <<master, slave, waiting>>

End ==
  /\ waiting /\ slave = master /\ ~busy
  /\ waiting' = FALSE
  /\ UNCHANGED <<master, slave, busy>>

Next == Begin \/ TakeUp \/ Done \/ End

Spec == Init /\ [][Next]_vars
=============================================================================
