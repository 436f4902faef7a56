-------------------------------- MODULE Link --------------------------------
(***************************************************************************)
(* The whole system of mt-test-stk-v2: stk_m_comm_loop and stk_s_comm_loop *)
(* on two threads, joined by the radio emulator.  Master and Slave give    *)
(* the steps of the two loops, WlEnv those of the library calls they make; *)
(* this module says which call each loop makes, with what, and what comes  *)
(* back.                                                                   *)
(***************************************************************************)
EXTENDS WlEnv, Sequences, FiniteSets

CONSTANTS
  PoolSize,      \* STK_PACKET_POOL_SIZE
  SlaveTimeout,  \* the slave's mac_recv_timeout: 1000 times the time on air
  MaxLag         \* for how many ticks in a row a thread that does not rest
                 \* may be kept from running

ASSUME LinkAssumption ==
  /\ PoolSize \in Nat \ {0}
  /\ SlaveTimeout \in Nat \ {0}
  /\ MaxLag \in Nat
  /\ {2 * TimeOnAir, 3 * TimeOnAir, SlaveTimeout} \subseteq Timeouts

VARIABLES
  m_pc, m_llc, m_trans_id, m_send_list, m_send_link, m_recv_list, m_send_list_pool,
  m_recv_list_pool, m_llc_resend_list, m_llc_recv_owned, m_llc_send_owned_counter,
  m_llc_recv_owned_counter, m_data, m_pack, m_test_trans_id, m_timer,
  s_pc, s_llc, s_trans_id, s_send_list, s_send_link, s_recv_list, s_send_list_pool,
  s_recv_list_pool, s_llc_resend_list, s_llc_recv_owned, s_llc_send_owned_counter,
  s_llc_recv_owned_counter, s_data, s_pack,
  lag  \* for how many ticks each thread has been kept from running

masterVars ==
  <<m_pc, m_llc, m_trans_id, m_send_list, m_send_link, m_recv_list, m_send_list_pool,
    m_recv_list_pool, m_llc_resend_list, m_llc_recv_owned, m_llc_send_owned_counter,
    m_llc_recv_owned_counter, m_data, m_pack, m_test_trans_id>>
slaveVars ==
  <<s_pc, s_llc, s_trans_id, s_send_list, s_send_link, s_recv_list, s_send_list_pool,
    s_recv_list_pool, s_llc_resend_list, s_llc_recv_owned, s_llc_send_owned_counter,
    s_llc_recv_owned_counter, s_data, s_pack>>
linkVars == <<vars, masterVars, m_timer, slaveVars, lag>>

\* A packet with flipped bits fails its checksum.
M == INSTANCE Master WITH
  Broken <- Garbled, HeardTypes <- {"SINGLE"}, TimerInterval <- 3 * TimeOnAir, Stalls <- TRUE,
  pc <- m_pc, llc <- m_llc, trans_id <- m_trans_id, send_list <- m_send_list,
  send_link <- m_send_link, recv_list <- m_recv_list, send_list_pool <- m_send_list_pool,
  recv_list_pool <- m_recv_list_pool, llc_resend_list <- m_llc_resend_list,
  llc_recv_owned <- m_llc_recv_owned, llc_send_owned_counter <- m_llc_send_owned_counter,
  llc_recv_owned_counter <- m_llc_recv_owned_counter, data <- m_data, pack <- m_pack,
  test_trans_id <- m_test_trans_id, timer <- m_timer

S == INSTANCE Slave WITH
  Broken <- Garbled, HeardTypes <- {"SINGLE"},
  pc <- s_pc, llc <- s_llc, trans_id <- s_trans_id, send_list <- s_send_list,
  send_link <- s_send_link, recv_list <- s_recv_list, send_list_pool <- s_send_list_pool,
  recv_list_pool <- s_recv_list_pool, llc_resend_list <- s_llc_resend_list,
  llc_recv_owned <- s_llc_recv_owned, llc_send_owned_counter <- s_llc_send_owned_counter,
  llc_recv_owned_counter <- s_llc_recv_owned_counter, data <- s_data, pack <- s_pack

\* All packets are single packets of the stack.
ASSUME PacketAssumption ==
  Payload = {M!Single(id) : id \in M!TransId} /\ Garbled \notin M!Header

ID_M == 0  \* "always use 0 as master id"
ID_S == 1  \* "always use 1 as slave id"

LinkInit == Init /\ M!Init /\ S!Init /\ lag = [i \in ID |-> 0]

-----------------------------------------------------------------------------
MasterMac ==
  \/ M!MacSend /\ SendCall(ID_M, 2 * TimeOnAir)
  \/ M!MacReceive /\ RecvCall(ID_M, 3 * TimeOnAir)
  \/ M!MacSent /\ SendChecker(ID_M)
  \/ RecvTake(ID_M) /\ M!MacFill(recv_data[ID_M])
  \/ M!MacReceived /\ RecvChecker(ID_M)
  \/ M!MacNothing /\ DataWake(ID_M) /\ Returns(ID_M)

MasterStep ==
  /\ \/ M!LlcStep /\ UNCHANGED vars
     \/ MasterMac /\ UNCHANGED <<m_test_trans_id, m_timer>>
     \/ /\ Inside(ID_M) \/ SendPut(ID_M, m_data[Head(m_send_list)])
        /\ UNCHANGED <<masterVars, m_timer>>
  /\ UNCHANGED <<slaveVars, lag>>

SlaveMac ==
  \/ S!MacSend /\ SendCall(ID_S, 2 * TimeOnAir)
  \/ S!MacReceive /\ RecvCall(ID_S, SlaveTimeout)
  \/ S!MacSent /\ SendChecker(ID_S)
  \/ RecvTake(ID_S) /\ S!MacFill(recv_data[ID_S])
  \/ S!MacReceived /\ RecvChecker(ID_S)
  \/ S!MacNothing /\ DataWake(ID_S) /\ Returns(ID_S)

SlaveStep ==
  /\ \/ S!LlcStep /\ UNCHANGED vars
     \/ SlaveMac
     \/ /\ Inside(ID_S) \/ SendPut(ID_S, s_data[Head(s_send_list)])
        /\ UNCHANGED slaveVars
  /\ UNCHANGED <<masterVars, m_timer, lag>>

\* Before its loop the master's thread sleeps for a second: it has built nothing yet.
Starting == m_llc = "IDLE" /\ m_llc_resend_list = <<>>
Rests(i) == Asleep(i) \/ (i = ID_M /\ Starting)

\* Time passes for both; it waits for no thread longer than MaxLag ticks, but for
\* one that rests.
LinkTick ==
  /\ \A i \in ID : Rests(i) \/ lag[i] < MaxLag
  /\ Tick
  /\ M!Advance
  /\ lag' = [i \in ID |-> IF Rests(i) THEN 0 ELSE lag[i] + 1]
  /\ UNCHANGED <<masterVars, slaveVars>>

LinkNext == MasterStep \/ SlaveStep \/ LinkTick

LinkSpec == LinkInit /\ [][LinkNext]_linkVars

\* The packet of src lands as it was sent.  The air loses and breaks packets
\* at random, so that one sent again and again gets through in the end.
GetsThrough(src) ==
  /\ ~is_send[src] /\ is_send'[src]
  /\ ~is_recieved[Peer(src)] /\ is_recieved'[Peer(src)]
  /\ recv_data'[Peer(src)] = send_data[src]

LinkFairness ==
  /\ WF_linkVars(MasterStep)
  /\ WF_linkVars(SlaveStep)
  /\ WF_linkVars(LinkTick)
  /\ \A src \in ID : SF_linkVars((MasterStep \/ SlaveStep) /\ GetsThrough(src))

LinkFairSpec == LinkSpec /\ LinkFairness

-----------------------------------------------------------------------------
(* Properties. *)

LinkTypeOK == TypeOK /\ M!TypeOK /\ S!TypeOK /\ lag \in [ID -> 0 .. MaxLag]

\* Transactions are taken up by the slave exactly once and in order, and none
\* is acknowledged that was not: two bits of id and a timer are enough as long
\* as no thread is kept waiting too long.
SAW == INSTANCE StopAndWait WITH
         MaxId <- M!TRANS_ID_MAX, NoId <- M!TRANS_ID_NONE,
         master <- m_trans_id, slave <- s_trans_id,
         waiting <- m_llc \in {"SEND_ALL", "RESEND"},
         busy <- s_llc = "RECEIVED_ALL"
ImplementsStopAndWait == SAW!Spec

\* The assertion in M_LLC_RECEIVED_ALL: the answer that ended a transaction
\* carries its id.
AckMatches == m_llc = "RECEIVED_ALL" => m_trans_id = m_test_trans_id

\* The assertion in stk_llc_pack_commit, for the master: its timer never runs
\* out with the packet still queued, so no node is queued twice.
MasterCommitsToEmptyQueue == M!CommitsToEmptyQueue

\* What the master hands to the radio is one pack, healthy in its queue, whose
\* header has been written.
MasterSendsWhatWasBuilt == M!SendsWhatWasBuilt

\* The assertion in S_LLC_RESEND: there is an answer to repeat, and it is the
\* one to the transaction the slave is in.
SlaveKeptAnswer == S!KeptAnswer

\* The timing of the two loops keeps the half-duplex radio free of errors: no
\* collision, no packet overwritten on the air, none arriving at a full buffer.
RadioErrorFree == err = 0

\* Every transaction ends, however many packets are lost and garbled on the
\* way, as long as not all of them are.
TransactionEnds == m_llc = "SEND_ALL" ~> m_llc = "IDLE"
=============================================================================
