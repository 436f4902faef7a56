------------------------------- MODULE Master -------------------------------
(***************************************************************************)
(* stk_m_comm_loop: the master starts one transaction after another, sends *)
(* its packet, waits for an answer and sends it again when llc_timer has   *)
(* run out.                                                                *)
(***************************************************************************)
EXTENDS Tsm

CONSTANTS
  TimerInterval,  \* what tt_timer_start is given: 3 * CONFIG_WL_STD_TIME_ON_AIR_MS
  Stalls          \* the clock may advance while the thread only computes

ASSUME MasterAssumption == TimerInterval \in Nat \ {0} /\ Stalls \in BOOLEAN

VARIABLES
  test_trans_id,  \* the id of the last answer
  timer           \* time since tt_timer_start, at most TimerInterval

vars == <<tsmVars, test_trans_id, timer>>

Init ==
  /\ TsmInit(TRANS_ID_START)
  /\ test_trans_id = TRANS_ID_START
  /\ timer = 0

\* tt_timer_start and tt_timer_is_timeouted
TimerStart == timer' = 0
TimerIsTimeouted == timer = TimerInterval

\* Mutant: wraps one id too late.
NextTransIdLate(id) == IF id > TRANS_ID_MAX THEN TRANS_ID_START ELSE id + 1

\* stk_m_prep_trans_id
NextTransId(id) == IF id + 1 > TRANS_ID_MAX THEN TRANS_ID_START ELSE id + 1

-----------------------------------------------------------------------------
(* stk_m_llc_worker_v3, one action per way through its switch. *)

In(s) == pc = "llc" /\ llc = s

\* Mutant: the last packet is not taken off the resend list.
TransactNoClear ==
  /\ In("IDLE")
  /\ trans_id' = NextTransId(trans_id)
  /\ SendSingle(send_list_pool, llc_resend_list, llc_send_owned_counter, NextTransId(trans_id))
  /\ TimerStart
  /\ LlcTo("SEND_ALL")
  /\ UNCHANGED <<recvVars, test_trans_id>>

\* M_LLC_IDLE: begin a transaction; there is always something to send.
Transact ==
  /\ In("IDLE")
  /\ trans_id' = NextTransId(trans_id)
  /\ SendSingle(send_list_pool \o llc_resend_list, <<>>,
                llc_send_owned_counter - Len(llc_resend_list), NextTransId(trans_id))
  /\ TimerStart
  /\ LlcTo("SEND_ALL")
  /\ UNCHANGED <<recvVars, test_trans_id>>

\* M_LLC_SEND_ALL with an answer: type and id are only asserted, not tested.
Answer ==
  /\ In("SEND_ALL") /\ recv_list # <<>>
  /\ pack' = Head(recv_list)
  /\ test_trans_id' = data[Head(recv_list)].id
  /\ MarkAsReceived
  /\ LlcTo("RECEIVED_ALL")
  /\ UNCHANGED <<trans_id, sendVars, data, timer>>

\* Mutant: the timer is not asked.
TimeoutEarly ==
  /\ In("SEND_ALL") /\ recv_list = <<>>
  /\ LlcTo("RESEND")
  /\ UNCHANGED <<trans_id, sendVars, recvVars, data, pack, test_trans_id, timer>>

Timeout ==
  /\ In("SEND_ALL") /\ recv_list = <<>> /\ TimerIsTimeouted
  /\ LlcTo("RESEND")
  /\ UNCHANGED <<trans_id, sendVars, recvVars, data, pack, test_trans_id, timer>>

Wait ==
  /\ In("SEND_ALL") /\ recv_list = <<>> /\ ~TimerIsTimeouted
  /\ LlcTo("SEND_ALL")
  /\ UNCHANGED <<trans_id, sendVars, recvVars, data, pack, test_trans_id, timer>>

\* M_LLC_RECEIVED_ALL: the transaction is over.
Finish ==
  /\ In("RECEIVED_ALL")
  /\ LlcTo("IDLE")
  /\ UNCHANGED <<trans_id, sendVars, recvVars, data, pack, test_trans_id, timer>>

\* Mutant: the timer is not started again.
ResendTimerLeft ==
  /\ In("RESEND")
  /\ pack' = Head(llc_resend_list)
  /\ PackCommit(Head(llc_resend_list))
  /\ LlcTo("SEND_ALL")
  /\ UNCHANGED <<trans_id, send_list_pool, llc_resend_list, llc_send_owned_counter,
                 recvVars, data, test_trans_id, timer>>

Resend ==
  /\ In("RESEND")
  /\ pack' = Head(llc_resend_list)
  /\ PackCommit(Head(llc_resend_list))
  /\ TimerStart
  /\ LlcTo("SEND_ALL")
  /\ UNCHANGED <<trans_id, send_list_pool, llc_resend_list, llc_send_owned_counter,
                 recvVars, data, test_trans_id>>

LlcStep == Transact \/ Answer \/ Timeout \/ Wait \/ Finish \/ Resend

Advance == timer' = IF timer < TimerInterval THEN timer + 1 ELSE timer

\* Inside the radio calls time always passes; elsewhere only if the thread
\* can be stalled.
Tick ==
  /\ Stalls \/ pc \in {"send", "recv", "filled"}
  /\ Advance
  /\ UNCHANGED <<tsmVars, test_trans_id>>

Next ==
  \/ LlcStep
  \/ MacStep /\ UNCHANGED <<test_trans_id, timer>>
  \/ Tick

Spec == Init /\ [][Next]_vars

-----------------------------------------------------------------------------
\* Types; the counters stay within the pool size, ids within two bits.
TypeOK ==
  /\ TsmTypeOK
  /\ test_trans_id \in TransId
  /\ timer \in 0 .. TimerInterval

\* The assertion in M_LLC_RESEND: the resend list is not empty; it holds
\* exactly the packet of the transaction in progress, as it was built.
ResendIsCurrent ==
  llc # "IDLE" => /\ Len(llc_resend_list) = 1
                  /\ data[Head(llc_resend_list)] = Single(trans_id)

\* The assertion in stk_llc_pack_commit: nothing is queued for sending when the
\* LLC commits a pack, since chains are not supported.
CommitsToEmptyQueue == In("IDLE") \/ In("RESEND") => send_list = <<>>
=============================================================================
