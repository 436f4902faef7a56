----------------------------- MODULE SlaveLists -----------------------------
(* stk_s_comm_loop on the lists of list.h. *)
EXTENDS Slave, TsmLists

ListInit == Init /\ MemInit

\* stk_llc_resend_get: an empty list leaves the pointer where it was, at the
\* received pack.
ListResendGet(m) ==
  IF list_empty(m, LlcResendList) THEN pack ELSE PackOfOwner(list_first(m, LlcResendList))

LlcListStep ==
  \/ (Listen \/ Finish) /\ UNCHANGED mem
  \/ (Reset \/ Repeated) /\ mem' = ListMarkAsReceived(mem)
  \/ Fresh /\ mem' = ListMarkAsReceived(ListResendClear(mem))
  \/ Reply /\ mem' = ListSendSingle(mem)
  \/ Resend /\ mem' = ListCommit(mem, ListResendGet(mem))

ListNext == LlcListStep \/ MacListStep

ListSpec == ListInit /\ [][ListNext]_<<tsmVars, mem>>
=============================================================================
