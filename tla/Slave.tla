------------------------------- MODULE Slave -------------------------------
(***************************************************************************)
(* stk_s_comm_loop: the slave answers every packet, a new one with a new   *)
(* answer, a repeated one with the answer it keeps in llc_resend_list.     *)
(***************************************************************************)
EXTENDS Tsm

Init == TsmInit(TRANS_ID_NONE)

-----------------------------------------------------------------------------
(* stk_s_llc_worker_v3, one action per way through its switch. *)

In(s) == pc = "llc" /\ llc = s
First == data[Head(recv_list)]

\* S_LLC_IDLE with nothing received.
Listen ==
  /\ In("IDLE") /\ recv_list = <<>>
  /\ LlcTo("IDLE")
  /\ UNCHANGED <<trans_id, sendVars, recvVars, data, pack>>

\* S_LLC_IDLE looks at the first received pack and gives it back to the pool.
Look ==
  /\ In("IDLE") /\ recv_list # <<>>
  /\ pack' = Head(recv_list)
  /\ MarkAsReceived
  /\ UNCHANGED <<send_list, send_link, data>>

\* A reset pack is not supported yet: an assertion, and it is dropped.
Reset ==
  /\ Look /\ First.type = "RESET"
  /\ LlcTo("IDLE")
  /\ UNCHANGED <<trans_id, send_list_pool, llc_resend_list, llc_send_owned_counter>>

\* The id of the last transaction: the master did not get the answer.
Repeated ==
  /\ Look /\ First.type # "RESET" /\ First.id = trans_id
  /\ LlcTo(IF First.type = "SINGLE" THEN "RESEND" ELSE "IDLE")
  /\ UNCHANGED <<trans_id, send_list_pool, llc_resend_list, llc_send_owned_counter>>

\* Mutants: the id is not compared; the id is not taken over.
FreshAlways ==
  /\ Look /\ First.type # "RESET"
  /\ ResendClearAll
  /\ IF First.type = "SINGLE"
     THEN trans_id' = First.id /\ LlcTo("RECEIVED_ALL")
     ELSE LlcTo("IDLE") /\ UNCHANGED trans_id
FreshOldId ==
  /\ Look /\ First.type # "RESET" /\ First.id # trans_id
  /\ ResendClearAll
  /\ LlcTo(IF First.type = "SINGLE" THEN "RECEIVED_ALL" ELSE "IDLE")
  /\ UNCHANGED trans_id

\* Another id: a new transaction.  The kept answer is given up before the type
\* is looked at.
Fresh ==
  /\ Look /\ First.type # "RESET" /\ First.id # trans_id
  /\ ResendClearAll
  /\ IF First.type = "SINGLE"
     THEN trans_id' = First.id /\ LlcTo("RECEIVED_ALL")
     ELSE LlcTo("IDLE") /\ UNCHANGED trans_id

\* Mutant: the answer goes out, but is not kept.
ReplyUnkept ==
  /\ In("RECEIVED_ALL") /\ send_list_pool # <<>>
  /\ data' = [data EXCEPT ![Head(send_list_pool)] = Single(trans_id)]
  /\ pack' = Head(send_list_pool)
  /\ PackCommit(Head(send_list_pool))
  /\ LlcTo("SEND_ALL")
  /\ UNCHANGED <<trans_id, send_list_pool, llc_resend_list, llc_send_owned_counter, recvVars>>

\* S_LLC_RECEIVED_ALL: build the answer.
Reply ==
  /\ In("RECEIVED_ALL")
  /\ SendSingle(send_list_pool, llc_resend_list, llc_send_owned_counter, trans_id)
  /\ LlcTo("SEND_ALL")
  /\ UNCHANGED <<trans_id, recvVars>>

\* S_LLC_SEND_ALL
Finish ==
  /\ In("SEND_ALL")
  /\ LlcTo("IDLE")
  /\ UNCHANGED <<trans_id, sendVars, recvVars, data, pack>>

\* S_LLC_RESEND: stk_llc_resend_get leaves pack as it is when the list is
\* empty, which is then the received pack that was just looked at.
Resend ==
  /\ In("RESEND")
  /\ pack' = IF llc_resend_list = <<>> THEN pack ELSE Head(llc_resend_list)
  /\ PackCommit(pack')
  /\ LlcTo("IDLE")
  /\ UNCHANGED <<trans_id, send_list_pool, llc_resend_list, llc_send_owned_counter,
                 recvVars, data>>

LlcStep == Listen \/ Reset \/ Repeated \/ Fresh \/ Reply \/ Finish \/ Resend

Next == LlcStep \/ MacStep

Spec == Init /\ [][Next]_tsmVars

-----------------------------------------------------------------------------
\* Types; the counters stay within the pool size, ids within two bits.
TypeOK == TsmTypeOK

\* The assertion in S_LLC_RESEND: there is an answer to repeat; it is the one
\* to the transaction the slave is in.
KeptAnswer ==
  trans_id # TRANS_ID_NONE /\ llc # "RECEIVED_ALL" =>
    /\ Len(llc_resend_list) = 1
    /\ data[Head(llc_resend_list)] = Single(trans_id)
=============================================================================
