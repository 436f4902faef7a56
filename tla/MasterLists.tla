---------------------------- MODULE MasterLists ----------------------------
(* stk_m_comm_loop on the lists of list.h. *)
EXTENDS Master, TsmLists

ListInit == Init /\ MemInit

LlcListStep ==
  \/ Transact /\ mem' = ListSendSingle(ListResendClear(mem))
  \/ Answer /\ mem' = ListMarkAsReceived(mem)
  \/ (Timeout \/ Wait \/ Finish) /\ UNCHANGED mem
  \/ Resend /\ mem' = ListCommit(mem, PackOfOwner(list_first(mem, LlcResendList)))

ListNext ==
  \/ LlcListStep
  \/ MacListStep /\ UNCHANGED <<test_trans_id, timer>>
  \/ Tick /\ UNCHANGED mem

ListSpec == ListInit /\ [][ListNext]_<<vars, mem>>
=============================================================================
