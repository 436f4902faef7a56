---------------------------- MODULE MasterProofs ----------------------------
(***************************************************************************)
(* The master's pools and its resend list, for every pool size, timer      *)
(* interval and set of packet types, stalled or not: SEND_ALL is the LLC   *)
(* state in which the MAC worker runs.                                     *)
(***************************************************************************)
EXTENDS MasterLists, TsmProofs

IInv ==
  /\ TsmInv("SEND_ALL")
  /\ trans_id \in TransId
  /\ test_trans_id \in TransId
  /\ timer \in 0 .. TimerInterval
  /\ ResendIsCurrent

LEMMA NextTransIdType ==
  \A id \in TransId \cup {TRANS_ID_NONE} : NextTransId(id) \in TransId
  BY DEF NextTransId, TransId, TRANS_ID_START, TRANS_ID_MAX, TRANS_ID_NONE

LEMMA MasterInit == Init => IInv
<1> SUFFICES ASSUME Init PROVE IInv
  OBVIOUS
<1>1. "SEND_ALL" \in State /\ TRANS_ID_START \in TransId
  BY DEF State, TransId, TRANS_ID_START, TRANS_ID_MAX
<1>2. TsmInv("SEND_ALL")
  BY <1>1, InitKeeps DEF Init
<1>3. QED
  BY <1>1, <1>2, MasterAssumption DEF IInv, Init, TsmInit, ResendIsCurrent

-----------------------------------------------------------------------------
(* One lemma per action of the LLC. *)

\* A transaction begins: every pack is back in the pool, one is taken out.
LEMMA TransactKeeps == IInv /\ Transact => IInv'
<1> SUFFICES ASSUME IInv, Transact PROVE IInv'
  OBVIOUS
<1> DEFINE pool == send_list_pool \o llc_resend_list
           id == NextTransId(trans_id)
<1>1. /\ TsmTypeOK /\ SendPoolWhole /\ RecvPoolWhole /\ ReceiveQueue("SEND_ALL") /\ SendQueue
      /\ pc = "llc" /\ llc = "IDLE" /\ llc' = "SEND_ALL" /\ pc' = "llc"
  BY DEF IInv, TsmInv, PoolsWhole, Transact, In, LlcTo
<1>2. /\ pool \in Seq(SendPack) /\ NoRepeat(pool) /\ Listed(pool) = SendPack
      /\ llc_send_owned_counter - Len(llc_resend_list) = 0
  <2>1. send_list_pool \in Seq(SendPack) /\ llc_resend_list \in Seq(SendPack)
    BY <1>1 DEF TsmTypeOK
  <2>2. pool \in Seq(SendPack) /\ Len(llc_resend_list) \in Nat
    BY <2>1
  <2>3. QED
    BY <1>1, <2>2 DEF SendPoolWhole
<1>3. id \in TransId
  BY <1>1, NextTransIdType DEF TsmTypeOK
<1>4. SendSingle(pool, <<>>, llc_send_owned_counter - Len(llc_resend_list), id)
  BY DEF Transact
<1>5. /\ SendPoolWhole' /\ send_list_pool' \in Seq(SendPack)
      /\ llc_resend_list' = <<pack'>> /\ pack' \in SendPack /\ llc_send_owned_counter' = 1
      /\ data' \in [Pack -> Header \cup {Broken}] /\ data'[pack'] = Single(id)
      /\ PackCommit(pack')
  <2> HIDE DEF pool, id
  <2>1. QED
    BY <1>1, <1>2, <1>3, <1>4, BuildKeeps
<1>6. /\ recv_list = <<>> /\ llc_recv_owned = {} /\ recv_list' = <<>> /\ llc_recv_owned' = {}
      /\ recv_list_pool' = recv_list_pool /\ llc_recv_owned_counter' = llc_recv_owned_counter
      /\ trans_id' = id /\ test_trans_id' = test_trans_id /\ timer' = 0
  <2>1. recv_list = <<>> /\ llc_recv_owned = Listed(recv_list)
    BY <1>1 DEF ReceiveQueue
  <2>2. QED
    BY <2>1 DEF Transact, recvVars, TimerStart, Listed
<1>7. send_list' \in Seq(Pack) /\ send_link' \in {"ok", "looped", "poisoned"}
  BY <1>1, <1>5, CommitFacts, PackFacts
<1>8. llc_resend_list' \in Seq(SendPack) /\ Len(llc_resend_list') = 1 /\ Head(llc_resend_list') = pack'
  BY <1>5
<1>9. TsmTypeOK'
  <2>1. pack' \in Pack /\ 1 \in 0 .. PoolSize
    BY <1>5, PackFacts, TsmAssumption
  <2> HIDE DEF pool, id
  <2>2. QED
    BY <1>1, <1>3, <1>5, <1>6, <1>7, <1>8, <2>1 DEF TsmTypeOK, PC, State
<1>10. RecvPoolWhole'
  BY <1>1, <1>6 DEF RecvPoolWhole
<1>11. ReceiveQueue("SEND_ALL")' /\ SendQueue'
  BY <1>1, <1>6, <1>8 DEF ReceiveQueue, SendQueue, Listed
<1>12. ResendIsCurrent'
  BY <1>5, <1>6, <1>8 DEF ResendIsCurrent
<1>13. test_trans_id' \in TransId /\ timer' \in 0 .. TimerInterval
  BY <1>6, MasterAssumption DEF IInv
<1>14. QED
  BY <1>3, <1>5, <1>6, <1>9, <1>10, <1>11, <1>12, <1>13 DEF IInv, TsmInv, PoolsWhole

\* An answer is looked at and its pack goes back to the pool.
LEMMA AnswerKeeps == IInv /\ Answer => IInv'
<1> SUFFICES ASSUME IInv, Answer PROVE IInv'
  OBVIOUS
<1>1. TsmInv("SEND_ALL") /\ "SEND_ALL" \in State
  BY DEF IInv, State
<1>2. recv_list # <<>> /\ MarkAsReceived
  BY DEF Answer
<1>3. /\ Head(recv_list) \in RecvPack /\ data[Head(recv_list)] \in Header
      /\ recv_list' = <<>> /\ RecvPoolWhole' /\ recv_list_pool' \in Seq(RecvPack)
      /\ llc_recv_owned' = {} /\ llc_recv_owned_counter' = 0
  BY <1>1, <1>2, LookKeeps
<1>4. /\ llc = "SEND_ALL" /\ llc' = "RECEIVED_ALL" /\ pc' = "llc"
      /\ test_trans_id' = data[Head(recv_list)].id /\ pack' = Head(recv_list)
      /\ UNCHANGED <<trans_id, sendVars, data, timer>>
  BY DEF Answer, In, LlcTo
<1>5. test_trans_id' \in TransId
  BY <1>3, <1>4 DEF Header
<1>6. pack' \in Pack /\ 0 \in 0 .. PoolSize
  BY <1>3, <1>4, PackFacts, TsmAssumption
<1>7. TsmTypeOK'
  BY <1>1, <1>3, <1>4, <1>6 DEF TsmInv, TsmTypeOK, sendVars, PC, State
<1>8. SendPoolWhole'
  BY <1>1, <1>4 DEF TsmInv, PoolsWhole, SendPoolWhole, sendVars
<1>9. ReceiveQueue("SEND_ALL")' /\ SendQueue'
  BY <1>1, <1>3, <1>4 DEF TsmInv, ReceiveQueue, SendQueue, sendVars, Listed
<1>10. ResendIsCurrent'
  BY <1>4 DEF IInv, ResendIsCurrent, sendVars
<1>11. timer' \in 0 .. TimerInterval /\ trans_id' \in TransId
  BY <1>4 DEF IInv
<1>12. QED
  BY <1>3, <1>5, <1>7, <1>8, <1>9, <1>10, <1>11 DEF IInv, TsmInv, PoolsWhole

\* The steps of the LLC that only change its state.
LEMMA MoveKeeps == IInv /\ (Timeout \/ Wait \/ Finish) => IInv'
<1> SUFFICES ASSUME IInv, Timeout \/ Wait \/ Finish PROVE IInv'
  OBVIOUS
<1>1. /\ pc = "llc" /\ recv_list = <<>>
      /\ \/ llc = "SEND_ALL" /\ llc' = "RESEND" /\ pc' = "llc"
         \/ llc = "SEND_ALL" /\ llc' = "SEND_ALL" /\ pc' = "mac"
         \/ llc = "RECEIVED_ALL" /\ llc' = "IDLE" /\ pc' = "llc"
      /\ UNCHANGED <<trans_id, sendVars, recvVars, data, pack, test_trans_id, timer>>
  BY DEF Timeout, Wait, Finish, In, LlcTo, IInv, TsmInv, ReceiveQueue
<1>2. TsmTypeOK'
  BY <1>1 DEF IInv, TsmInv, TsmTypeOK, sendVars, recvVars, PC, State
<1>3. PoolsWhole'
  BY <1>1 DEF IInv, TsmInv, PoolsWhole, SendPoolWhole, RecvPoolWhole, sendVars, recvVars
<1>4. ReceiveQueue("SEND_ALL")' /\ SendQueue'
  BY <1>1 DEF IInv, TsmInv, ReceiveQueue, SendQueue, sendVars, recvVars
<1>5. ResendIsCurrent'
  BY <1>1 DEF IInv, ResendIsCurrent, sendVars
<1>6. QED
  BY <1>1, <1>2, <1>3, <1>4, <1>5 DEF IInv, TsmInv

\* The kept packet is queued again, whatever is queued already.
LEMMA ResendKeeps == IInv /\ Resend => IInv'
<1> SUFFICES ASSUME IInv, Resend PROVE IInv'
  OBVIOUS
<1>1. /\ pc = "llc" /\ llc = "RESEND" /\ llc' = "SEND_ALL" /\ pc' = "llc" /\ recv_list = <<>>
      /\ pack' = Head(llc_resend_list) /\ PackCommit(Head(llc_resend_list)) /\ timer' = 0
      /\ UNCHANGED <<trans_id, send_list_pool, llc_resend_list, llc_send_owned_counter,
                     recvVars, data, test_trans_id>>
  BY DEF Resend, In, LlcTo, TimerStart, IInv, TsmInv, ReceiveQueue
<1>2. Head(llc_resend_list) \in SendPack
  <2>1. llc_resend_list \in Seq(SendPack) /\ Len(llc_resend_list) = 1
    BY <1>1 DEF IInv, TsmInv, TsmTypeOK, ResendIsCurrent
  <2>2. QED
    BY <2>1
<1>3. send_list' \in Seq(Pack) /\ send_link' \in {"ok", "looped", "poisoned"} /\ pack' \in Pack
  BY <1>1, <1>2, CommitFacts, PackFacts DEF IInv, TsmInv
<1>4. TsmTypeOK'
  BY <1>1, <1>3 DEF IInv, TsmInv, TsmTypeOK, recvVars, PC, State
<1>5. PoolsWhole'
  BY <1>1 DEF IInv, TsmInv, PoolsWhole, SendPoolWhole, RecvPoolWhole, recvVars
<1>6. ReceiveQueue("SEND_ALL")' /\ SendQueue'
  BY <1>1 DEF IInv, TsmInv, ReceiveQueue, SendQueue, recvVars
<1>7. ResendIsCurrent'
  BY <1>1 DEF IInv, ResendIsCurrent
<1>8. QED
  BY <1>1, <1>4, <1>5, <1>6, <1>7, MasterAssumption DEF IInv, TsmInv

-----------------------------------------------------------------------------
\* The MAC worker never touches the resend list nor a pack on it.
LEMMA MacStepKeeps == IInv /\ MacStep /\ UNCHANGED <<test_trans_id, timer>> => IInv'
<1> SUFFICES ASSUME IInv, MacStep, UNCHANGED <<test_trans_id, timer>> PROVE IInv'
  OBVIOUS
<1>1. TsmInv("SEND_ALL")'
  BY MacKeeps DEF IInv, State
<1>2. llc' = llc /\ trans_id' = trans_id /\ llc_resend_list' = llc_resend_list
  BY DEF MacStep, MacSend, MacSent, MacReceive, MacFill, MacReceived, MacNothing, sendVars
<1>3. ASSUME llc # "IDLE" PROVE data'[Head(llc_resend_list)] = data[Head(llc_resend_list)]
  <2>1. Head(llc_resend_list) \in SendPack
    <3>1. llc_resend_list \in Seq(SendPack) /\ Len(llc_resend_list) = 1
      BY <1>3 DEF IInv, TsmInv, TsmTypeOK, ResendIsCurrent
    <3>2. QED
      BY <3>1
  <2>2. CASE \E d \in Heard : MacFill(d)
    <3>1. PICK d \in Heard : MacFill(d)
      BY <2>2
    <3>2. pack \in RecvPack
      BY <3>1 DEF IInv, TsmInv, ReceiveQueue, MacFill
    <3>3. QED
      BY <2>1, <3>1, <3>2, FillKeepsOthers DEF IInv, TsmInv
  <2>3. CASE ~ \E d \in Heard : MacFill(d)
    BY <2>3 DEF MacStep, MacSend, MacSent, MacReceive, MacReceived, MacNothing
  <2>4. QED
    BY <2>2, <2>3
<1>4. ResendIsCurrent'
  BY <1>2, <1>3 DEF IInv, ResendIsCurrent
<1>5. QED
  BY <1>1, <1>2, <1>4 DEF IInv

LEMMA ClockKeeps == IInv /\ (Tick \/ UNCHANGED vars) => IInv'
<1> SUFFICES ASSUME IInv, Tick \/ UNCHANGED vars PROVE IInv'
  OBVIOUS
<1>1. UNCHANGED <<tsmVars, test_trans_id>> /\ timer' \in 0 .. TimerInterval
  BY MasterAssumption DEF Tick, Advance, vars, IInv
<1>2. TsmInv("SEND_ALL")'
  BY <1>1 DEF IInv, TsmInv, TsmTypeOK, PoolsWhole, SendPoolWhole, RecvPoolWhole, ReceiveQueue,
              SendQueue, tsmVars, sendVars, recvVars
<1>3. ResendIsCurrent'
  BY <1>1 DEF IInv, ResendIsCurrent, tsmVars, sendVars
<1>4. QED
  BY <1>1, <1>2, <1>3 DEF IInv, tsmVars

LEMMA StepKeeps == IInv /\ [Next]_vars => IInv'
  BY TransactKeeps, AnswerKeeps, MoveKeeps, ResendKeeps, MacStepKeeps, ClockKeeps
     DEF Next, LlcStep

\* Every step of the master keeps the invariant.
THEOREM Invariance == Spec => []IInv
  BY MasterInit, StepKeeps, PTL DEF Spec

\* Types: no counter leaves the pool's size, no id its two bits.
THEOREM TypeCorrect == Spec => []TypeOK
<1>1. IInv => TypeOK
  BY DEF IInv, TsmInv, TypeOK
<1>2. QED
  BY <1>1, Invariance, PTL

\* No pack is lost from the master's pools or in two places.
THEOREM Pools == Spec => []PoolsWhole
<1>1. IInv => PoolsWhole
  BY DEF IInv, TsmInv
<1>2. QED
  BY <1>1, Invariance, PTL

\* A received pack is owned until it is looked at, and the MAC finds the
\* receive queue empty.
THEOREM Received == Spec => []ReceivedIsOwned
<1>1. IInv => ReceivedIsOwned
  BY DEF IInv, TsmInv, ReceiveQueue, ReceivedIsOwned, Listed
<1>2. QED
  BY <1>1, Invariance, PTL

\* stk_m_llc_worker_v3 finds the current packet on the resend list.
THEOREM ResendList == Spec => []ResendIsCurrent
<1>1. IInv => ResendIsCurrent
  BY DEF IInv
<1>2. QED
  BY <1>1, Invariance, PTL

-----------------------------------------------------------------------------
(* What the master hands to the radio, even when a late resend has damaged  *)
(* its queue.                                                               *)

\* Nothing is received while a packet is queued, so the transaction stays.
QueueIsCurrent ==
  send_list # <<>> =>
    /\ llc \in {"SEND_ALL", "RESEND"}
    /\ pc \notin {"recv", "filled"}
    /\ recv_list = <<>>
    /\ send_list = <<Head(llc_resend_list)>>

SendsCurrentPacket == pc = "send" => data[Head(send_list)] = Single(trans_id)

LEMMA QueueStep ==
  ASSUME IInv, QueueIsCurrent, [Next]_vars
  PROVE  QueueIsCurrent'
<1>1. CASE Transact
  <2>1. /\ send_list = <<>> /\ recv_list = <<>> /\ pc = "llc" /\ llc = "IDLE"
        /\ recv_list' = recv_list /\ llc' = "SEND_ALL" /\ pc' = "llc"
    BY <1>1 DEF QueueIsCurrent, Transact, In, LlcTo, recvVars, IInv, TsmInv, ReceiveQueue
  <2> DEFINE pool == send_list_pool \o llc_resend_list
  <2>2. /\ llc_resend_list' = <<pack'>> /\ PackCommit(pack') /\ pack' \in Pack
    <3>1. /\ pool # <<>> /\ llc_resend_list' = Append(<<>>, Head(pool))
          /\ pack' = Head(pool) /\ PackCommit(Head(pool))
      BY <1>1 DEF Transact, SendSingle
    <3>2. pack' \in Pack
      BY <1>1, TransactKeeps DEF IInv, TsmInv, TsmTypeOK
    <3> HIDE DEF pool
    <3>3. QED
      BY <3>1, <3>2
  <2>3. send_list' = <<pack'>>
    BY <2>1, <2>2, CommitFacts DEF IInv, TsmInv
  <2>4. QED
    BY <2>1, <2>2, <2>3 DEF QueueIsCurrent
<1>2. CASE Answer
  <2>1. send_list = <<>> /\ send_list' = send_list
    BY <1>2 DEF Answer, QueueIsCurrent, sendVars
  <2>2. QED
    BY <2>1 DEF QueueIsCurrent
<1>3. CASE Timeout \/ Wait
  BY <1>3 DEF Timeout, Wait, LlcTo, In, QueueIsCurrent, sendVars, recvVars
<1>4. CASE Finish
  <2>1. send_list = <<>> /\ send_list' = send_list
    BY <1>4 DEF Finish, QueueIsCurrent, In, sendVars
  <2>2. QED
    BY <2>1 DEF QueueIsCurrent
<1>5. CASE Resend
  <2> DEFINE p == Head(llc_resend_list)
  <2>1. /\ pc = "llc" /\ llc = "RESEND" /\ llc' = "SEND_ALL" /\ pc' = "llc"
        /\ recv_list = <<>> /\ recv_list' = recv_list
        /\ pack' = p /\ llc_resend_list' = llc_resend_list
        /\ PackCommit(p)
    BY <1>5 DEF Resend, In, LlcTo, recvVars, IInv, TsmInv, ReceiveQueue
  <2>2. p \in Pack
    <3>1. pack' \in Pack
      BY <1>5, ResendKeeps DEF IInv, TsmInv, TsmTypeOK
    <3>2. QED
      BY <2>1, <3>1
  <2>3. send_list' = <<p>>
    <3>1. CASE send_list = <<>>
      BY <2>1, <2>2, <3>1, CommitFacts DEF IInv, TsmInv
    <3>2. CASE send_list # <<>>
      <4>1. send_list = <<p>>
        BY <3>2 DEF QueueIsCurrent
      <4>2. \E n \in 1 .. Len(send_list) : send_list[n] = p
        BY <4>1
      <4>3. QED
        BY <2>1, <4>1, <4>2 DEF PackCommit
    <3>3. QED
      BY <3>1, <3>2
  <2>4. QED
    BY <2>1, <2>3 DEF QueueIsCurrent
<1>6. CASE MacStep
  <2>1. CASE MacSend \/ MacNothing \/ MacReceived \/ \E d \in Heard : MacFill(d)
    <3>1. send_list' = send_list /\ llc_resend_list' = llc_resend_list /\ llc' = llc
      BY <2>1 DEF MacSend, MacNothing, MacReceived, MacFill, sendVars
    <3>2. QED
      BY <2>1, <3>1 DEF QueueIsCurrent, MacSend, MacNothing, MacReceived, MacFill, recvVars
  <2>2. CASE MacReceive
    BY <2>2 DEF MacReceive, QueueIsCurrent, sendVars
  <2>3. CASE MacSent
    <3>1. /\ llc_resend_list' = llc_resend_list /\ llc' = llc /\ recv_list' = recv_list
          /\ pc' \in {"llc", "crashed"} /\ pc = "send"
          /\ send_list' = send_list \/ send_list' = Tail(send_list)
      BY <2>3 DEF MacSent, recvVars
    <3>2. send_list = <<Head(llc_resend_list)>>
      BY <3>1 DEF IInv, TsmInv, SendQueue, QueueIsCurrent
    <3>3. send_list' # <<>> => send_list' = send_list
      BY <3>1, <3>2
    <3>4. QED
      BY <3>1, <3>3 DEF QueueIsCurrent
  <2>4. QED
    BY <1>6, <2>1, <2>2, <2>3 DEF MacStep
<1>7. CASE Tick \/ UNCHANGED vars
  BY <1>7 DEF Tick, vars, tsmVars, sendVars, recvVars, QueueIsCurrent
<1>8. QED
  BY <1>1, <1>2, <1>3, <1>4, <1>5, <1>6, <1>7 DEF Next, LlcStep

LEMMA QueueSends ==
  ASSUME IInv, QueueIsCurrent
  PROVE  SendsCurrentPacket
BY DEF IInv, TsmInv, SendQueue, ReceiveQueue, QueueIsCurrent, ResendIsCurrent, SendsCurrentPacket

\* Even a master that is stalled, and then loses its queue to a pack that is
\* queued twice, hands only the packet of the transaction it is in to the radio.
THEOREM OnlyCurrentIsSent == Spec => []SendsCurrentPacket
<1>1. Init => QueueIsCurrent
  BY DEF Init, TsmInit, QueueIsCurrent
<1>2. IInv /\ QueueIsCurrent /\ [Next]_vars => (IInv /\ QueueIsCurrent)'
  BY StepKeeps, QueueStep
<1>3. IInv /\ QueueIsCurrent => SendsCurrentPacket
  BY QueueSends
<1>4. QED
  BY <1>1, <1>2, <1>3, MasterInit, PTL DEF Spec

-----------------------------------------------------------------------------
(* The master on the lists of list.h, stalled or not: the pointers follow   *)
(* the sequences through the corruption of a late resend to its end.        *)

ListInv == IInv /\ QueueIsCurrent /\ MemInv

LEMMA QueueIsOne ==
  ASSUME IInv, QueueIsCurrent
  PROVE  OneQueued /\ TsmInv("SEND_ALL") /\ "SEND_ALL" \in State
<1>1. OneQueued
  <2>1. CASE send_list = <<>>
    BY <2>1 DEF OneQueued
  <2>2. CASE send_list # <<>>
    <3>1. PICK p : p = Head(llc_resend_list)
      OBVIOUS
    <3>2. send_list = <<p>>
      BY <2>2, <3>1 DEF QueueIsCurrent
    <3>3. Len(send_list) = 1
      BY <3>2
    <3>4. QED
      BY <2>2, <3>3 DEF QueueIsCurrent, OneQueued
  <2>3. QED
    BY <2>1, <2>2
<1>2. TsmInv("SEND_ALL") /\ "SEND_ALL" \in State
  BY DEF IInv, State
<1>3. QED
  BY <1>1, <1>2

\* A transaction gives the last packet back before it takes the next.
LEMMA TransactPointers ==
  ASSUME ListInv, Transact, mem' = ListSendSingle(ListResendClear(mem))
  PROVE  MemInv'
<1> DEFINE pool == send_list_pool \o llc_resend_list
           counter == llc_send_owned_counter - Len(llc_resend_list)
           id == NextTransId(trans_id)
<1>1. /\ pc = "llc" /\ llc = "IDLE" /\ pc' # "crashed" /\ UNCHANGED recvVars
      /\ SendSingle(pool, <<>>, counter, id)
  BY DEF Transact, In, LlcTo
<1>2. TsmInv("SEND_ALL") /\ MemInv /\ "SEND_ALL" \in State
  BY QueueIsOne DEF ListInv
<1>3. send_list = <<>> /\ recv_list = <<>> /\ llc_recv_owned = {}
  BY <1>1, <1>2 DEF ListInv, QueueIsCurrent, TsmInv, ReceiveQueue, Listed
<1>4. /\ send_link = "ok"
      /\ Stored(ListResendClear(mem), <<>>, <<>>, pool, recv_list_pool, <<>>, Owned, <<>>)
  BY <1>1, <1>2, <1>3, ClearPointers
<1>5. pool \in Seq(Pack)
  BY <1>2, PackSeqs
<1> HIDE DEF pool, counter, id
<1>6. QED
  BY <1>1, <1>2, <1>3, <1>4, <1>5, BuildPointers

\* The resend queues its packet again, in a queue that may still hold it.
LEMMA ResendPointers ==
  ASSUME ListInv, Resend, mem' = ListCommit(mem, PackOfOwner(list_first(mem, LlcResendList)))
  PROVE  MemInv'
<1>1. /\ pc = "llc" /\ llc = "RESEND" /\ pc' # "crashed" /\ PackCommit(Head(llc_resend_list))
      /\ UNCHANGED <<recv_list, send_list_pool, recv_list_pool, llc_recv_owned, llc_resend_list>>
  BY DEF Resend, In, LlcTo, recvVars
<1>2. TsmInv("SEND_ALL") /\ MemInv /\ "SEND_ALL" \in State /\ OneQueued
  BY QueueIsOne DEF ListInv
<1>3. recv_list = <<>>
  BY <1>1, <1>2 DEF TsmInv, ReceiveQueue
<1>4. PICK p : p = Head(llc_resend_list)
  OBVIOUS
<1>5. llc_resend_list # <<>> /\ p \in Pack
  <2>1. Len(llc_resend_list) = 1 /\ llc_resend_list \in Seq(Pack)
    BY <1>1, <1>2, PackSeqs DEF ListInv, IInv, ResendIsCurrent
  <2>2. QED
    BY <1>4, <2>1
<1>6. send_list = <<>> \/ send_list = <<p>>
  BY <1>4 DEF ListInv, QueueIsCurrent
<1>7. list_first(mem, LlcResendList) = OwnerNode(p)
  <2>1. PICK H : H = IF send_link = "ok" THEN Heads ELSE Heads \ {SendList}
    OBVIOUS
  <2>2. mem \in Memory(Node, Ptr) /\ Family(mem, Node, H, Lists) /\ LlcResendList \in H
    BY <1>1, <1>2, <2>1, HeadsDiffer DEF MemInv, Heads
  <2>3. Lists[LlcResendList] = OwnerNodes(llc_resend_list)
    BY ListsAt DEF Lists
  <2>4. list_first(mem, LlcResendList)
          = IF Lists[LlcResendList] = <<>> THEN LlcResendList ELSE Head(Lists[LlcResendList])
    BY <2>2, FamilyFirst
  <2>5. OwnerNodes(llc_resend_list) # <<>> /\ Head(OwnerNodes(llc_resend_list)) = OwnerNode(p)
    BY <1>2, <1>4, <1>5, PackSeqs, OwnerNodesFacts, OwnerNodesOps
  <2>6. QED
    BY <2>3, <2>4, <2>5
<1>8. mem' = ListCommit(mem, p)
  BY <1>5, <1>7, NodeFacts
<1>9. QED
  BY <1>1, <1>2, <1>3, <1>4, <1>5, <1>6, <1>8, CommitPointers

LEMMA ListStepKeeps == ListInv /\ [ListNext]_<<vars, mem>> => ListInv'
<1> SUFFICES ASSUME ListInv, [ListNext]_<<vars, mem>> PROVE ListInv'
  OBVIOUS
<1>1. [Next]_vars
  BY DEF ListNext, LlcListStep, MacListStep, Next, LlcStep, MacStep
<1>2. IInv' /\ QueueIsCurrent'
  BY <1>1, StepKeeps, QueueStep DEF ListInv
<1>3. TsmInv("SEND_ALL") /\ MemInv /\ "SEND_ALL" \in State /\ OneQueued
  BY QueueIsOne DEF ListInv
<1>4. CASE Transact /\ mem' = ListSendSingle(ListResendClear(mem))
  BY <1>2, <1>4, TransactPointers DEF ListInv
<1>5. CASE Answer /\ mem' = ListMarkAsReceived(mem)
  <2>1. /\ pc = "llc" /\ pc' # "crashed" /\ recv_list # <<>> /\ MarkAsReceived
        /\ UNCHANGED <<send_list, send_link, send_list_pool, llc_resend_list>>
    BY <1>5 DEF Answer, In, LlcTo, sendVars
  <2>2. send_list = <<>>
    BY <2>1 DEF ListInv, QueueIsCurrent
  <2>3. /\ send_link = "ok"
        /\ Stored(mem, <<>>, recv_list, send_list_pool, recv_list_pool, <<>>, Owned, llc_resend_list)
    BY <1>3, <2>1, <2>2, HealthyMemory
  <2>4. MemInv'
    BY <1>3, <1>5, <2>1, <2>2, <2>3, PackSeqs, LookPointers
  <2>5. QED
    BY <1>2, <2>4 DEF ListInv
<1>6. CASE (Timeout \/ Wait \/ Finish) /\ UNCHANGED mem
  <2>1. /\ pc = "llc" /\ pc' # "crashed"
        /\ UNCHANGED <<send_list, send_link, recv_list, send_list_pool, recv_list_pool,
                       llc_recv_owned, llc_resend_list>>
    BY <1>6 DEF Timeout, Wait, Finish, In, LlcTo, sendVars, recvVars
  <2>2. QED
    BY <1>2, <1>3, <1>6, <2>1, SameMemory DEF ListInv
<1>7. CASE Resend /\ mem' = ListCommit(mem, PackOfOwner(list_first(mem, LlcResendList)))
  BY <1>2, <1>7, ResendPointers DEF ListInv
<1>8. CASE MacListStep
  BY <1>2, <1>3, <1>8, MacPointers DEF ListInv
<1>9. CASE (Tick \/ UNCHANGED vars) /\ UNCHANGED mem
  <2>1. /\ pc' = pc
        /\ UNCHANGED <<send_list, send_link, recv_list, send_list_pool, recv_list_pool,
                       llc_recv_owned, llc_resend_list>>
    BY <1>9 DEF Tick, vars, tsmVars, sendVars, recvVars
  <2>2. CASE pc # "crashed"
    BY <1>2, <1>3, <1>9, <2>1, <2>2, SameMemory DEF ListInv
  <2>3. CASE pc = "crashed"
    BY <1>2, <1>3, <1>9, <2>1, <2>3 DEF ListInv, MemInv
  <2>4. QED
    BY <2>2, <2>3
<1>10. QED
  BY <1>4, <1>5, <1>6, <1>7, <1>8, <1>9 DEF ListNext, LlcListStep

\* Through every step of the master MemInv holds: each list of list.h is the
\* sequence Tsm keeps and no node is on two, but for a send queue that a late
\* resend has damaged.
THEOREM ListInvariance == ListSpec => []ListInv
<1>1. ListInit => ListInv
  <2> SUFFICES ASSUME ListInit PROVE ListInv
    OBVIOUS
  <2>1. Init /\ TsmInit(TRANS_ID_START) /\ MemInit
    BY DEF ListInit, Init
  <2>2. IInv /\ QueueIsCurrent
    BY <2>1, MasterInit DEF TsmInit, QueueIsCurrent
  <2>3. Stored(mem, <<>>, <<>>, send_list_pool, recv_list_pool, <<>>, <<>>, <<>>)
    BY <2>1, PoolsLists
  <2>4. /\ pc # "crashed" /\ send_link = "ok" /\ send_list = <<>> /\ recv_list = <<>>
        /\ llc_resend_list = <<>> /\ Owned = <<>>
    BY <2>1 DEF TsmInit, Owned
  <2>5. MemInv
    BY <2>3, <2>4 DEF MemInv, Stored, Lists
  <2>6. QED
    BY <2>2, <2>5 DEF ListInv
<1>2. QED
  BY <1>1, ListStepKeeps, PTL DEF ListSpec

\* Through every step of the master, and of a stalled one into its segmentation
\* fault, the pointers of list.h say what the sequences of Tsm say.
THEOREM PointersFollow == ListSpec => []PointersAgree
<1>1. ListInv => PointersAgree
  BY QueueIsOne, Agree DEF ListInv
<1>2. QED
  BY <1>1, ListInvariance, PTL

\* The TODO in stk_llc_resend_clear_all, answered for every pool size: the list
\* is empty after the moves.
THEOREM ClearLeavesEmpty == ListSpec => []ResendClearLeavesEmpty
<1>1. ListInv => ResendClearLeavesEmpty
  BY QueueIsOne, ClearMemory DEF ListInv
<1>2. QED
  BY <1>1, ListInvariance, PTL
=============================================================================
