-------------------------------- MODULE Tsm --------------------------------
(***************************************************************************)
(* struct stl_transmiter and the half of stack-comm.c that master and      *)
(* slave share: the packet pools, the send and receive queues, the resend  *)
(* list and the MAC worker.  A transmitter is private to its thread; its   *)
(* only contact with the other one is the radio call that MacSend and      *)
(* MacReceive begin and MacSent, MacFill, MacReceived and MacNothing end.  *)
(*                                                                         *)
(* A packet is its header: the payload and the length are the same         *)
(* constants in every packet the stack builds.  A list that is read in     *)
(* order is a sequence; llc_recv_owned, which is not, is a set, and        *)
(* llc_send_owned is left out because every pack put on it moves on to     *)
(* the resend list in the same step.                                       *)
(***************************************************************************)
EXTENDS Integers, Sequences, FiniteSets

CONSTANTS
  PoolSize,  \* STK_PACKET_POOL_SIZE
  Broken,    \* contents that fail the checksum, or were never written
  HeardTypes \* types of the packets that arrive with a good checksum: only what
             \* the stack sends, or all of them if the air may forge a checksum

\* RESET is TYPE_INTERNAL with the reset bit set.
Type == {"INTERNAL", "RESET", "SINGLE", "MULT", "MULT_LAST"}
TRANS_ID_START == 0
TRANS_ID_MAX == 3
TRANS_ID_NONE == 4
TransId == TRANS_ID_START .. TRANS_ID_MAX
Header == [type : Type, id : TransId]
Heard == [type : HeardTypes, id : TransId] \cup {Broken}
Single(id) == [type |-> "SINGLE", id |-> id]

ASSUME TsmAssumption ==
  PoolSize \in Nat \ {0} /\ HeardTypes \subseteq Type /\ Broken \notin Header

SendPack == 1 .. PoolSize                     \* send_list_pool_buff
RecvPack == PoolSize + 1 .. 2 * PoolSize      \* recv_list_pool_buff
Pack == SendPack \cup RecvPack

VARIABLES
  pc,                  \* where the communication loop is
  llc,                 \* llc_state_m or llc_state_s
  trans_id,
  send_list,           \* packs queued by their mac_node for sending
  send_link,           \* state of the queued mac_node's own links
  recv_list,           \* packs received and not yet looked at
  send_list_pool,
  recv_list_pool,
  llc_resend_list,
  llc_recv_owned,
  llc_send_owned_counter,
  llc_recv_owned_counter,
  data,                \* the header in each pack's buffer
  pack                 \* the local pointer of stk_mac_do_receive and of the LLC workers

sendVars == <<send_list, send_link, send_list_pool, llc_resend_list, llc_send_owned_counter>>
recvVars == <<recv_list, recv_list_pool, llc_recv_owned, llc_recv_owned_counter>>
tsmVars == <<pc, llc, trans_id, sendVars, recvVars, data, pack>>

PC == {"llc", "mac", "send", "recv", "filled", "crashed"}
State == {"IDLE", "RECEIVED_ALL", "SEND_ALL", "RESEND"}

TsmTypeOK ==
  /\ pc \in PC
  /\ llc \in State
  /\ trans_id \in TransId \cup {TRANS_ID_NONE}
  /\ send_list \in Seq(Pack)
  /\ send_link \in {"ok", "looped", "poisoned"}
  /\ recv_list \in Seq(RecvPack)
  /\ send_list_pool \in Seq(SendPack)
  /\ recv_list_pool \in Seq(RecvPack)
  /\ llc_resend_list \in Seq(SendPack)
  /\ llc_recv_owned \in SUBSET RecvPack
  /\ llc_send_owned_counter \in 0 .. PoolSize
  /\ llc_recv_owned_counter \in 0 .. PoolSize
  /\ data \in [Pack -> Header \cup {Broken}]
  /\ pack \in Pack

\* stk_c_tsm_init.  The pack pointer is not initialised by the code; it is
\* not read before it is set.
TsmInit(id) ==
  /\ pc = "llc"
  /\ llc = "IDLE"
  /\ trans_id = id
  /\ send_list = <<>>
  /\ send_link = "ok"
  /\ recv_list = <<>>
  /\ send_list_pool = [n \in 1 .. PoolSize |-> n]
  /\ recv_list_pool = [n \in 1 .. PoolSize |-> PoolSize + n]
  /\ llc_resend_list = <<>>
  /\ llc_recv_owned = {}
  /\ llc_send_owned_counter = 0
  /\ llc_recv_owned_counter = 0
  /\ data = [p \in Pack |-> Broken]
  /\ pack = 1

-----------------------------------------------------------------------------
(* The queues and pools. *)

\* list_add_tail of p->mac_node: on a node that is queued already it makes the
\* node its own successor and predecessor, while the head still leads to it.
PackCommit(p) ==
  IF \E n \in 1 .. Len(send_list) : send_list[n] = p
  THEN send_link' = "looped" /\ UNCHANGED send_list
  ELSE send_list' = Append(send_list, p) /\ UNCHANGED send_link

\* Mutants: the packs are dropped instead of moved (INIT_LIST_HEAD alone); the
\* counter is not taken down.
ResendDropAll ==
  /\ llc_resend_list' = <<>>
  /\ llc_send_owned_counter' = llc_send_owned_counter - Len(llc_resend_list)
  /\ UNCHANGED send_list_pool
ResendClearUncounted ==
  /\ send_list_pool' = send_list_pool \o llc_resend_list
  /\ llc_resend_list' = <<>>
  /\ UNCHANGED llc_send_owned_counter

\* stk_llc_resend_clear_all
ResendClearAll ==
  /\ send_list_pool' = send_list_pool \o llc_resend_list
  /\ llc_resend_list' = <<>>
  /\ llc_send_owned_counter' = llc_send_owned_counter - Len(llc_resend_list)

\* Mutant: the header is not written.
SendSingleUnprepared(pool, resend, counter, id) ==
  /\ pool # <<>>
  /\ send_list_pool' = Tail(pool)
  /\ llc_resend_list' = Append(resend, Head(pool))
  /\ llc_send_owned_counter' = counter + 1
  /\ pack' = Head(pool)
  /\ PackCommit(Head(pool))
  /\ UNCHANGED data

\* stk_get_send_packholder, stk_llc_single_prepare, stk_llc_pack_commit and
\* stk_llc_resend_add, called one after the other: a fresh packet from the pool.
SendSingle(pool, resend, counter, id) ==
  /\ pool # <<>>
  /\ send_list_pool' = Tail(pool)
  /\ llc_resend_list' = Append(resend, Head(pool))
  /\ llc_send_owned_counter' = counter + 1
  /\ data' = [data EXCEPT ![Head(pool)] = Single(id)]
  /\ pack' = Head(pool)
  /\ PackCommit(Head(pool))

\* Mutant: the counter is forgotten.
PutRecvPackholderUncounted(p) ==
  /\ recv_list_pool' = Append(recv_list_pool, p)
  /\ llc_recv_owned' = llc_recv_owned \ {p}
  /\ UNCHANGED llc_recv_owned_counter

\* stk_put_recv_packholder
PutRecvPackholder(p) ==
  /\ recv_list_pool' = Append(recv_list_pool, p)
  /\ llc_recv_owned' = llc_recv_owned \ {p}
  /\ llc_recv_owned_counter' = llc_recv_owned_counter - 1

\* stk_llc_mark_as_received
MarkAsReceived ==
  /\ recv_list' = Tail(recv_list)
  /\ PutRecvPackholder(Head(recv_list))

\* The LLC workers run again ("respin") until a pass leaves the state alone.
LlcTo(s) == llc' = s /\ pc' = IF s = llc THEN "mac" ELSE "llc"

-----------------------------------------------------------------------------
(* stk_mac_worker *)

MacSend ==
  /\ pc = "mac" /\ send_list # <<>>
  /\ pc' = "send"
  /\ UNCHANGED <<llc, trans_id, sendVars, recvVars, data, pack>>

\* list_del unlinks a healthy node, turns a looped one into a poisoned one the
\* head still leads to, and writes through LIST_POISON on a poisoned one.
MacSent ==
  /\ pc = "send"
  /\ \/ /\ send_link = "ok"
        /\ send_list' = Tail(send_list)
        /\ pc' = "llc"
        /\ UNCHANGED send_link
     \/ /\ send_link = "looped"
        /\ send_link' = "poisoned"
        /\ pc' = "llc"
        /\ UNCHANGED send_list
     \/ /\ send_link = "poisoned"
        /\ pc' = "crashed"
        /\ UNCHANGED <<send_list, send_link>>
  /\ UNCHANGED <<llc, trans_id, recvVars, send_list_pool, llc_resend_list,
                 llc_send_owned_counter, data, pack>>

MacReceive ==
  /\ pc = "mac" /\ send_list = <<>> /\ recv_list_pool # <<>>
  /\ pc' = "recv"
  /\ pack' = Head(recv_list_pool)
  /\ recv_list_pool' = Tail(recv_list_pool)
  /\ llc_recv_owned' = llc_recv_owned \cup {Head(recv_list_pool)}
  /\ llc_recv_owned_counter' = llc_recv_owned_counter + 1
  /\ UNCHANGED <<llc, trans_id, sendVars, recv_list, data>>

\* wl_receivePacketTimeout copies a packet with contents d into the buffer.
MacFill(d) ==
  /\ pc = "recv"
  /\ pc' = "filled"
  /\ data' = [data EXCEPT ![pack] = d]
  /\ UNCHANGED <<llc, trans_id, sendVars, recvVars, pack>>

\* Mutant: the pack is kept after a bad checksum.
MacReceivedLeak ==
  /\ pc = "filled"
  /\ pc' = "llc"
  /\ recv_list' = IF data[pack] = Broken THEN recv_list ELSE Append(recv_list, pack)
  /\ UNCHANGED <<recv_list_pool, llc_recv_owned, llc_recv_owned_counter>>
  /\ UNCHANGED <<llc, trans_id, sendVars, data, pack>>

MacReceived ==
  /\ pc = "filled"
  /\ pc' = "llc"
  /\ IF data[pack] = Broken
     THEN PutRecvPackholder(pack) /\ UNCHANGED recv_list
     ELSE /\ recv_list' = Append(recv_list, pack)
          /\ UNCHANGED <<recv_list_pool, llc_recv_owned, llc_recv_owned_counter>>
  /\ UNCHANGED <<llc, trans_id, sendVars, data, pack>>

MacNothing ==
  /\ pc = "recv"
  /\ pc' = "llc"
  /\ PutRecvPackholder(pack)
  /\ UNCHANGED <<llc, trans_id, sendVars, recv_list, data, pack>>

MacStep ==
  \/ MacSend \/ MacSent \/ MacReceive \/ MacReceived \/ MacNothing
  \/ \E d \in Heard : MacFill(d)

-----------------------------------------------------------------------------
(* Properties of any transmitter. *)

Listed(s) == {s[n] : n \in 1 .. Len(s)}
NoRepeat(s) == \A m, n \in 1 .. Len(s) : s[m] = s[n] => m = n

\* No pack is lost or in two places: each buffer's owner_node is on exactly
\* one of its lists, and the owned counters say how many have left the pools.
SendPoolWhole ==
  /\ NoRepeat(send_list_pool \o llc_resend_list)
  /\ Listed(send_list_pool \o llc_resend_list) = SendPack
  /\ llc_send_owned_counter = Len(llc_resend_list)
RecvPoolWhole ==
  /\ NoRepeat(recv_list_pool)
  /\ Listed(recv_list_pool) = RecvPack \ llc_recv_owned
  /\ llc_recv_owned_counter = Cardinality(llc_recv_owned)

\* Both pools are whole, whatever the master or the slave went through.
PoolsWhole == SendPoolWhole /\ RecvPoolWhole

\* A received pack stays owned until it is looked at, and the receive queue is
\* empty when the MAC commits to it (the assertion in stk_mac_pack_commit).
ReceivedIsOwned ==
  /\ Listed(recv_list) \subseteq llc_recv_owned
  /\ pc \in {"recv", "filled"} => recv_list = <<>> /\ llc_recv_owned = {pack}

\* What the MAC hands to the radio was written by the LLC and passed to it
\* once: the queue holds one healthy pack, with a header to put a checksum on.
SendsWhatWasBuilt ==
  pc = "send" => send_link = "ok" /\ Len(send_list) = 1 /\ data[Head(send_list)] # Broken
=============================================================================
