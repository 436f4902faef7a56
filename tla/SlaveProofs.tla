---------------------------- MODULE SlaveProofs -----------------------------
(***************************************************************************)
(* The slave's pools and what it sends, for every pool size and every set  *)
(* of packet types that may arrive.  IDLE is the LLC state in which the    *)
(* MAC worker runs.  If only the packets of the stack itself arrive, the   *)
(* slave also keeps its last answer.                                       *)
(***************************************************************************)
EXTENDS SlaveLists, TsmProofs

\* A pack is queued for sending only on the way from the state that built or
\* repeated the answer to the MAC worker, and always has a header.
Answers ==
  /\ send_link = "ok"
  /\ Len(send_list) <= 1
  /\ \A p \in Listed(send_list) \cup Listed(llc_resend_list) : data[p] # Broken
  /\ \/ pc \in {"recv", "filled"} \/ recv_list # <<>> \/ llc \in {"RECEIVED_ALL", "RESEND"}
     => send_list = <<>>
  /\ llc = "RECEIVED_ALL" => llc_resend_list = <<>> /\ trans_id \in TransId
  /\ llc = "RESEND" => data[pack] # Broken

IInv == TsmInv("IDLE") /\ Answers

LEMMA SlaveInit == Init => IInv
<1> SUFFICES ASSUME Init PROVE IInv
  OBVIOUS
<1>1. TsmInv("IDLE")
  BY InitKeeps DEF Init, State
<1>2. Answers
  BY DEF Init, TsmInit, Answers, Listed
<1>3. QED
  BY <1>1, <1>2 DEF IInv

-----------------------------------------------------------------------------
(* One lemma per action of the LLC. *)

LEMMA MoveKeeps == IInv /\ (Listen \/ Finish) => IInv'
<1> SUFFICES ASSUME IInv, Listen \/ Finish PROVE IInv'
  OBVIOUS
<1>1. /\ pc = "llc" /\ recv_list = <<>> /\ llc' = "IDLE" /\ pc' \in {"llc", "mac"}
      /\ llc \in {"IDLE", "SEND_ALL"}
      /\ UNCHANGED <<trans_id, sendVars, recvVars, data, pack>>
  BY DEF Listen, Finish, In, LlcTo, IInv, TsmInv, ReceiveQueue
<1>2. TsmTypeOK'
  BY <1>1 DEF IInv, TsmInv, TsmTypeOK, sendVars, recvVars, PC, State
<1>3. PoolsWhole'
  BY <1>1 DEF IInv, TsmInv, PoolsWhole, SendPoolWhole, RecvPoolWhole, sendVars, recvVars
<1>4. ReceiveQueue("IDLE")' /\ SendQueue'
  BY <1>1 DEF IInv, TsmInv, ReceiveQueue, SendQueue, sendVars, recvVars
<1>5. Answers'
  BY <1>1 DEF IInv, Answers, sendVars, recvVars
<1>6. QED
  BY <1>2, <1>3, <1>4, <1>5 DEF IInv, TsmInv

\* What looking at a received pack does, whatever it says.
LEMMA LookFacts ==
  ASSUME IInv, Look
  PROVE  /\ pc = "llc" /\ llc = "IDLE"
         /\ pack' \in RecvPack /\ data'[pack'] \in Header /\ data' = data /\ pack' = Head(recv_list)
         /\ recv_list' = <<>>
         /\ RecvPoolWhole' /\ recv_list_pool' \in Seq(RecvPack)
         /\ llc_recv_owned' = {} /\ llc_recv_owned_counter' = 0
         /\ send_list = <<>> /\ send_list' = <<>> /\ send_link' = "ok" /\ send_link = "ok"
<1>1. TsmInv("IDLE") /\ "IDLE" \in State /\ recv_list # <<>> /\ MarkAsReceived
  BY DEF IInv, State, Look
<1>2. /\ pc = "llc" /\ llc = "IDLE" /\ Head(recv_list) \in RecvPack
      /\ data[Head(recv_list)] \in Header /\ recv_list' = <<>>
      /\ RecvPoolWhole' /\ recv_list_pool' \in Seq(RecvPack)
      /\ llc_recv_owned' = {} /\ llc_recv_owned_counter' = 0
  BY <1>1, LookKeeps
<1>3. pack' = Head(recv_list) /\ data' = data /\ send_list' = send_list /\ send_link' = send_link
  BY DEF Look
<1>4. send_list = <<>> /\ send_link = "ok"
  BY <1>1 DEF IInv, Answers
<1>5. QED
  BY <1>2, <1>3, <1>4

\* A pack that is dropped, or a packet of the transaction the slave is in.
LEMMA RepeatedKeeps == IInv /\ (Reset \/ Repeated) => IInv'
<1> SUFFICES ASSUME IInv, Reset \/ Repeated PROVE IInv'
  OBVIOUS
<1>1. /\ Look /\ llc' \in {"IDLE", "RESEND"} /\ pc' \in {"llc", "mac"}
      /\ pc' = "mac" => llc' = "IDLE"
      /\ UNCHANGED <<trans_id, send_list_pool, llc_resend_list, llc_send_owned_counter>>
  <2>1. Look /\ UNCHANGED <<trans_id, send_list_pool, llc_resend_list, llc_send_owned_counter>>
    BY DEF Reset, Repeated
  <2>2. llc = "IDLE"
    BY <2>1, LookFacts
  <2>3. QED
    BY <2>1, <2>2 DEF Reset, Repeated, LlcTo
<1>2. /\ pack' \in RecvPack /\ data'[pack'] \in Header /\ data' = data /\ recv_list' = <<>>
      /\ RecvPoolWhole' /\ recv_list_pool' \in Seq(RecvPack)
      /\ llc_recv_owned' = {} /\ llc_recv_owned_counter' = 0
      /\ send_list = <<>> /\ send_list' = <<>> /\ send_link' = "ok" /\ send_link = "ok"
  BY <1>1, LookFacts
<1>3. pack' \in Pack /\ 0 \in 0 .. PoolSize /\ data'[pack'] # Broken
  BY <1>2, PackFacts, TsmAssumption
<1>4. TsmTypeOK'
  BY <1>1, <1>2, <1>3 DEF IInv, TsmInv, TsmTypeOK, PC, State
<1>5. SendPoolWhole'
  BY <1>1 DEF IInv, TsmInv, PoolsWhole, SendPoolWhole
<1>6. ReceiveQueue("IDLE")' /\ SendQueue'
  BY <1>1, <1>2 DEF IInv, TsmInv, ReceiveQueue, SendQueue, Listed
<1>7. Answers'
  BY <1>1, <1>2, <1>3 DEF IInv, Answers, Listed
<1>8. QED
  BY <1>2, <1>4, <1>5, <1>6, <1>7 DEF IInv, TsmInv, PoolsWhole

\* The kept answer goes back to the pool.
LEMMA ClearFacts ==
  ASSUME TsmTypeOK, SendPoolWhole, ResendClearAll
  PROVE  /\ SendPoolWhole'
         /\ send_list_pool' \in Seq(SendPack)
         /\ llc_resend_list' = <<>>
         /\ llc_send_owned_counter' = 0
<1>1. send_list_pool \in Seq(SendPack) /\ llc_resend_list \in Seq(SendPack)
  BY DEF TsmTypeOK
<1>2. /\ send_list_pool' = send_list_pool \o llc_resend_list /\ llc_resend_list' = <<>>
      /\ llc_send_owned_counter' = llc_send_owned_counter - Len(llc_resend_list)
  BY DEF ResendClearAll
<1>3. send_list_pool' \in Seq(SendPack) /\ Len(llc_resend_list) \in Nat
  BY <1>1, <1>2
<1>4. llc_send_owned_counter' = 0
  BY <1>2, <1>3 DEF SendPoolWhole
<1>5. send_list_pool' \o llc_resend_list' = send_list_pool \o llc_resend_list
  BY <1>1, <1>2, <1>3
<1>6. SendPoolWhole'
  BY <1>2, <1>4, <1>5 DEF SendPoolWhole
<1>7. QED
  BY <1>2, <1>3, <1>4, <1>6

LEMMA FreshKeeps == IInv /\ Fresh => IInv'
<1> SUFFICES ASSUME IInv, Fresh PROVE IInv'
  OBVIOUS
<1>1. Look /\ ResendClearAll
  BY DEF Fresh
<1>2. /\ pc = "llc" /\ llc = "IDLE" /\ pack' \in RecvPack /\ pack' = Head(recv_list)
      /\ data'[pack'] \in Header /\ data' = data
      /\ recv_list' = <<>> /\ RecvPoolWhole' /\ recv_list_pool' \in Seq(RecvPack)
      /\ llc_recv_owned' = {} /\ llc_recv_owned_counter' = 0
      /\ send_list' = <<>> /\ send_link' = "ok"
  BY <1>1, LookFacts
<1>3. /\ SendPoolWhole' /\ send_list_pool' \in Seq(SendPack) /\ llc_resend_list' = <<>>
      /\ llc_send_owned_counter' = 0
  BY <1>1, ClearFacts DEF IInv, TsmInv, PoolsWhole
<1>4. First \in Header
  BY <1>2 DEF First
<1>5. \/ llc' = "RECEIVED_ALL" /\ pc' = "llc" /\ trans_id' \in TransId
      \/ llc' = "IDLE" /\ pc' = "mac" /\ trans_id' = trans_id
  BY <1>2, <1>4 DEF Fresh, LlcTo, Header
<1>6. pack' \in Pack /\ 0 \in 0 .. PoolSize
  BY <1>2, PackFacts, TsmAssumption
<1>7. TsmTypeOK'
  BY <1>2, <1>3, <1>5, <1>6 DEF IInv, TsmInv, TsmTypeOK, PC, State
<1>8. ReceiveQueue("IDLE")' /\ SendQueue'
  BY <1>2, <1>3, <1>5 DEF ReceiveQueue, SendQueue, Listed
<1>9. Answers'
  BY <1>2, <1>3, <1>5 DEF Answers, Listed
<1>10. QED
  BY <1>2, <1>3, <1>7, <1>8, <1>9 DEF IInv, TsmInv, PoolsWhole

\* What building the answer does.
LEMMA ReplyFacts ==
  ASSUME IInv, Reply
  PROVE  /\ SendPoolWhole' /\ send_list_pool' \in Seq(SendPack)
         /\ llc_resend_list' = <<pack'>> /\ pack' \in SendPack /\ llc_send_owned_counter' = 1
         /\ data' \in [Pack -> Header \cup {Broken}] /\ data'[pack'] = Single(trans_id)
         /\ PackCommit(pack')
         /\ trans_id \in TransId /\ llc = "RECEIVED_ALL"
<1>1. /\ TsmTypeOK /\ SendPoolWhole /\ llc = "RECEIVED_ALL" /\ llc_resend_list = <<>>
      /\ trans_id \in TransId
  BY DEF IInv, TsmInv, PoolsWhole, Reply, In, Answers
<1>2. /\ send_list_pool \in Seq(SendPack) /\ NoRepeat(send_list_pool)
      /\ Listed(send_list_pool) = SendPack /\ llc_send_owned_counter = 0
  <2>1. send_list_pool \in Seq(SendPack)
    BY <1>1 DEF TsmTypeOK
  <2>2. send_list_pool \o llc_resend_list = send_list_pool
    BY <1>1, <2>1
  <2>3. QED
    BY <1>1, <2>1, <2>2 DEF SendPoolWhole
<1>3. SendSingle(send_list_pool, llc_resend_list, llc_send_owned_counter, trans_id)
  BY DEF Reply
<1>4. QED
  BY <1>1, <1>2, <1>3, BuildKeeps

LEMMA ReplyKeeps == IInv /\ Reply => IInv'
<1> SUFFICES ASSUME IInv, Reply PROVE IInv'
  OBVIOUS
<1>1. /\ SendPoolWhole' /\ send_list_pool' \in Seq(SendPack)
      /\ llc_resend_list' = <<pack'>> /\ pack' \in SendPack /\ llc_send_owned_counter' = 1
      /\ data' \in [Pack -> Header \cup {Broken}] /\ data'[pack'] = Single(trans_id)
      /\ PackCommit(pack')
      /\ trans_id \in TransId /\ llc = "RECEIVED_ALL"
  BY ReplyFacts
<1>2. pc = "llc" /\ llc' = "SEND_ALL" /\ pc' = "llc" /\ trans_id' = trans_id /\ UNCHANGED recvVars
  BY <1>1 DEF Reply, In, LlcTo
<1>3. recv_list = <<>> /\ send_list = <<>> /\ send_link = "ok" /\ llc_recv_owned = Listed(recv_list)
  BY <1>1, <1>2 DEF IInv, TsmInv, ReceiveQueue, Answers
<1>4. send_list' = <<pack'>> /\ send_link' = "ok" /\ pack' \in Pack
  BY <1>1, <1>3, CommitFacts, PackFacts DEF IInv, TsmInv
<1>5. /\ llc_resend_list' \in Seq(SendPack) /\ send_list' \in Seq(Pack)
      /\ Len(llc_resend_list') = 1 /\ Len(send_list') = 1
      /\ Listed(llc_resend_list') = {pack'} /\ Listed(send_list') = {pack'}
  BY <1>1, <1>4 DEF Listed
<1>6. data'[pack'] # Broken
  BY <1>1, TsmAssumption DEF Single, Header, Type
<1>7. TsmTypeOK'
  <2>1. 1 \in 0 .. PoolSize
    BY TsmAssumption
  <2>2. QED
    BY <1>1, <1>2, <1>4, <1>5, <2>1 DEF IInv, TsmInv, TsmTypeOK, recvVars, PC, State
<1>8. RecvPoolWhole'
  BY <1>2 DEF IInv, TsmInv, PoolsWhole, RecvPoolWhole, recvVars
<1>9. ReceiveQueue("IDLE")' /\ SendQueue'
  BY <1>2, <1>3, <1>5 DEF ReceiveQueue, SendQueue, recvVars, Listed
<1>10. Answers'
  BY <1>2, <1>3, <1>4, <1>5, <1>6 DEF Answers, recvVars
<1>11. QED
  BY <1>1, <1>7, <1>8, <1>9, <1>10 DEF IInv, TsmInv, PoolsWhole

\* The answer is repeated; without one, the pack looked at last is sent back.
LEMMA ResendKeeps == IInv /\ Resend => IInv'
<1> SUFFICES ASSUME IInv, Resend PROVE IInv'
  OBVIOUS
<1>1. /\ pc = "llc" /\ llc = "RESEND" /\ llc' = "IDLE" /\ pc' = "llc"
      /\ pack' = (IF llc_resend_list = <<>> THEN pack ELSE Head(llc_resend_list))
      /\ PackCommit(pack')
      /\ UNCHANGED <<trans_id, send_list_pool, llc_resend_list, llc_send_owned_counter,
                     recvVars, data>>
  BY DEF Resend, In, LlcTo
<1>2. recv_list = <<>> /\ send_list = <<>> /\ send_link = "ok"
  BY <1>1 DEF IInv, TsmInv, ReceiveQueue, Answers
<1>3. pack' \in Pack /\ data[pack'] # Broken
  <2>1. CASE llc_resend_list = <<>>
    BY <1>1, <2>1 DEF IInv, TsmInv, TsmTypeOK, Answers
  <2>2. CASE llc_resend_list # <<>>
    <3>1. llc_resend_list \in Seq(SendPack) /\ Len(llc_resend_list) <= 1
      BY DEF IInv, TsmInv, TsmTypeOK, SendQueue
    <3>2. Head(llc_resend_list) \in SendPack /\ Listed(llc_resend_list) = {Head(llc_resend_list)}
      BY <2>2, <3>1, OneLong
    <3>3. QED
      BY <1>1, <2>2, <3>2, PackFacts DEF IInv, Answers
  <2>3. QED
    BY <2>1, <2>2
<1>4. send_list' = <<pack'>> /\ send_link' = "ok"
  BY <1>1, <1>2, <1>3, CommitFacts DEF IInv, TsmInv
<1>5. send_list' \in Seq(Pack) /\ Len(send_list') = 1 /\ Listed(send_list') = {pack'}
  BY <1>3, <1>4 DEF Listed
<1>6. TsmTypeOK'
  BY <1>1, <1>3, <1>4, <1>5 DEF IInv, TsmInv, TsmTypeOK, recvVars, PC, State
<1>7. PoolsWhole'
  BY <1>1 DEF IInv, TsmInv, PoolsWhole, SendPoolWhole, RecvPoolWhole, recvVars
<1>8. ReceiveQueue("IDLE")' /\ SendQueue'
  BY <1>1, <1>2 DEF IInv, TsmInv, ReceiveQueue, SendQueue, recvVars
<1>9. Answers'
  BY <1>1, <1>2, <1>3, <1>4, <1>5 DEF IInv, Answers, recvVars
<1>10. QED
  BY <1>6, <1>7, <1>8, <1>9 DEF IInv, TsmInv

-----------------------------------------------------------------------------
\* The MAC worker sends the queued pack, or receives with an empty queue.
LEMMA MacStepKeeps == IInv /\ MacStep => IInv'
<1> SUFFICES ASSUME IInv, MacStep PROVE IInv'
  OBVIOUS
<1>1. TsmInv("IDLE")'
  BY MacKeeps DEF IInv, State
<1>2. /\ llc = "IDLE" /\ llc' = llc /\ trans_id' = trans_id /\ llc_resend_list' = llc_resend_list
  BY DEF MacStep, MacSend, MacSent, MacReceive, MacFill, MacReceived, MacNothing, sendVars,
         IInv, TsmInv, ReceiveQueue
<1>3. CASE MacSend
  BY <1>1, <1>2, <1>3 DEF MacSend, IInv, Answers, sendVars, recvVars
<1>4. CASE MacSent
  <2>1. send_list \in Seq(Pack) /\ send_list # <<>> /\ Len(send_list) <= 1 /\ send_link = "ok"
    BY <1>4 DEF MacSent, IInv, TsmInv, TsmTypeOK, SendQueue, Answers
  <2>2. send_list' = <<>> /\ send_link' = "ok" /\ pc' = "llc" /\ data' = data
    <3>1. Tail(send_list) = <<>>
      BY <2>1, OneLong
    <3>2. QED
      BY <1>4, <2>1, <3>1 DEF MacSent
  <2>3. Answers'
    BY <1>2, <2>2 DEF IInv, Answers, Listed
  <2>4. QED
    BY <1>1, <2>3 DEF IInv
<1>5. CASE MacReceive \/ MacReceived \/ MacNothing
  <2>1. send_list = <<>> /\ send_list' = <<>> /\ send_link' = send_link /\ data' = data
    BY <1>5 DEF MacReceive, MacReceived, MacNothing, sendVars, IInv, Answers
  <2>2. Answers'
    BY <1>2, <2>1 DEF IInv, Answers, Listed
  <2>3. QED
    BY <1>1, <2>2 DEF IInv
<1>6. ASSUME NEW d \in Heard, MacFill(d) PROVE IInv'
  <2>1. /\ send_list = <<>> /\ send_list' = <<>> /\ send_link' = send_link /\ pack \in RecvPack
    BY <1>6 DEF MacFill, sendVars, IInv, TsmInv, ReceiveQueue, Answers
  <2>2. \A p \in SendPack : data'[p] = data[p]
    BY <1>6, <2>1, FillKeepsOthers DEF IInv, TsmInv
  <2>3. \A p \in Listed(llc_resend_list) : data'[p] # Broken
    <3>1. llc_resend_list \in Seq(SendPack)
      BY DEF IInv, TsmInv, TsmTypeOK
    <3>2. Listed(llc_resend_list) \subseteq SendPack
      BY <3>1 DEF Listed
    <3>3. QED
      BY <2>2, <3>2 DEF IInv, Answers
  <2>4. Answers'
    BY <1>2, <2>1, <2>3 DEF IInv, Answers, Listed
  <2>5. QED
    BY <1>1, <2>4 DEF IInv
<1>7. QED
  BY <1>3, <1>4, <1>5, <1>6 DEF MacStep

LEMMA StepKeeps == IInv /\ [Next]_tsmVars => IInv'
<1>1. IInv /\ UNCHANGED tsmVars => IInv'
  BY DEF IInv, TsmInv, TsmTypeOK, PoolsWhole, SendPoolWhole, RecvPoolWhole, ReceiveQueue,
         SendQueue, Answers, tsmVars, sendVars, recvVars
<1>2. QED
  BY <1>1, MoveKeeps, RepeatedKeeps, FreshKeeps, ReplyKeeps, ResendKeeps, MacStepKeeps
     DEF Next, LlcStep

\* Every step of the slave keeps the invariant.
THEOREM Invariance == Spec => []IInv
  BY SlaveInit, StepKeeps, PTL DEF Spec

\* Types: no counter leaves the pool's size, no id its two bits.
THEOREM TypeCorrect == Spec => []TypeOK
<1>1. IInv => TypeOK
  BY DEF IInv, TsmInv, TypeOK
<1>2. QED
  BY <1>1, Invariance, PTL

\* No pack is lost from the slave's pools or in two places.
THEOREM Pools == Spec => []PoolsWhole
<1>1. IInv => PoolsWhole
  BY DEF IInv, TsmInv
<1>2. QED
  BY <1>1, Invariance, PTL

\* A received pack is owned until it is looked at, and the MAC finds the
\* receive queue empty.
THEOREM Received == Spec => []ReceivedIsOwned
<1>1. IInv => ReceivedIsOwned
  BY DEF IInv, TsmInv, ReceiveQueue, ReceivedIsOwned, Listed
<1>2. QED
  BY <1>1, Invariance, PTL

LEMMA QueueSends ==
  ASSUME IInv
  PROVE  SendsWhatWasBuilt
<1>1. SUFFICES ASSUME pc = "send"
               PROVE  send_link = "ok" /\ Len(send_list) = 1 /\ data[Head(send_list)] # Broken
  BY DEF SendsWhatWasBuilt
<1>2. send_list \in Seq(Pack) /\ send_list # <<>> /\ Len(send_list) <= 1 /\ send_link = "ok"
  BY <1>1 DEF IInv, TsmInv, TsmTypeOK, SendQueue, Answers
<1>3. Len(send_list) = 1 /\ Listed(send_list) = {Head(send_list)}
  BY <1>2, OneLong
<1>4. QED
  BY <1>2, <1>3 DEF IInv, Answers

\* The slave hands the radio one healthy pack with a header, even when it has
\* no answer to repeat: its queue is never damaged.
THEOREM Sends == Spec => []SendsWhatWasBuilt
  BY Invariance, QueueSends, PTL

-----------------------------------------------------------------------------
(* What the slave keeps when it hears only what a master sends.            *)

\* Every pack that may still be looked at holds a single packet.
HearsSingles ==
  \A p \in Listed(recv_list) \cup (IF pc = "filled" THEN {pack} ELSE {}) :
    data[p] # Broken => data[p].type = "SINGLE"

KeptInv == IInv /\ HearsSingles /\ KeptAnswer

LEMMA KeptLook ==
  ASSUME KeptInv, Look, pc' # "filled"
  PROVE  First.type = "SINGLE" /\ First.id \in TransId /\ HearsSingles'
<1>1. /\ pack' = Head(recv_list) /\ data' = data /\ recv_list' = <<>>
      /\ data'[pack'] \in Header
  BY LookFacts DEF KeptInv
<1>2. recv_list \in Seq(RecvPack) /\ recv_list # <<>> /\ Len(recv_list) <= 1
  BY DEF KeptInv, IInv, TsmInv, TsmTypeOK, ReceiveQueue, Look
<1>3. Head(recv_list) \in Listed(recv_list)
  BY <1>2, OneLong
<1>4. First \in Header /\ First # Broken
  BY <1>1, TsmAssumption DEF First
<1>5. First.type = "SINGLE"
  BY <1>3, <1>4 DEF KeptInv, HearsSingles, First
<1>6. HearsSingles'
  BY <1>1 DEF HearsSingles, Listed
<1>7. QED
  BY <1>4, <1>5, <1>6 DEF Header

LEMMA KeptStep ==
  ASSUME HeardTypes = {"SINGLE"}, KeptInv, [Next]_tsmVars
  PROVE  HearsSingles' /\ KeptAnswer'
<1> USE DEF KeptInv
<1>1. CASE Listen \/ Finish \/ UNCHANGED tsmVars
  <2>1. /\ UNCHANGED <<trans_id, llc_resend_list, recv_list, data, pack>>
        /\ pc' = "filled" => pc = "filled"
        /\ llc' = "RECEIVED_ALL" <=> llc = "RECEIVED_ALL"
    BY <1>1 DEF Listen, Finish, In, LlcTo, tsmVars, sendVars, recvVars
  <2>2. QED
    BY <2>1 DEF HearsSingles, KeptAnswer
<1>2. CASE Reset
  BY <1>2, KeptLook DEF Reset, LlcTo
<1>3. CASE Repeated
  <2>1. Look /\ UNCHANGED <<trans_id, llc_resend_list>> /\ llc' = "RESEND" /\ pc' = "llc"
    BY <1>3, KeptLook, LookFacts DEF Repeated, LlcTo
  <2>2. data' = data /\ llc = "IDLE"
    BY <2>1, LookFacts
  <2>3. QED
    BY <2>1, <2>2, KeptLook DEF KeptAnswer
<1>4. CASE Fresh
  <2>1. Look /\ llc' = "RECEIVED_ALL" /\ pc' = "llc"
    BY <1>4, KeptLook, LookFacts DEF Fresh, LlcTo
  <2>2. QED
    BY <2>1, KeptLook DEF KeptAnswer
<1>5. CASE Reply
  <2>1. llc_resend_list' = <<pack'>> /\ data'[pack'] = Single(trans_id)
    BY <1>5, ReplyFacts
  <2>2. trans_id' = trans_id /\ recv_list' = recv_list /\ pc' = "llc" /\ pc = "llc"
        /\ llc = "RECEIVED_ALL"
    BY <1>5 DEF Reply, In, LlcTo, recvVars
  <2>3. recv_list' = <<>>
    BY <2>2 DEF IInv, TsmInv, ReceiveQueue
  <2>4. HearsSingles'
    BY <2>2, <2>3 DEF HearsSingles, Listed
  <2>5. KeptAnswer'
    BY <2>1, <2>2 DEF KeptAnswer
  <2>6. QED
    BY <2>4, <2>5
<1>6. CASE Resend
  <2>1. /\ UNCHANGED <<trans_id, llc_resend_list, recv_list, data>>
        /\ llc = "RESEND" /\ pc' = "llc"
    BY <1>6 DEF Resend, In, LlcTo, recvVars
  <2>2. QED
    BY <2>1 DEF HearsSingles, KeptAnswer
<1>7. CASE MacStep
  <2>1. UNCHANGED <<llc, trans_id, llc_resend_list>>
    BY <1>7 DEF MacStep, MacSend, MacSent, MacReceive, MacFill, MacReceived, MacNothing, sendVars
  <2>2. CASE \E d \in Heard : MacFill(d)
    <3>1. PICK d \in Heard : MacFill(d)
      BY <2>2
    <3>2. pack \in RecvPack /\ recv_list = <<>> /\ recv_list' = <<>> /\ pack' = pack
      BY <3>1 DEF IInv, TsmInv, ReceiveQueue, MacFill, recvVars
    <3>3. data'[pack] = d /\ \A p \in SendPack : data'[p] = data[p]
      BY <3>1, <3>2, FillKeepsOthers DEF IInv, TsmInv
    <3>4. d # Broken => d.type = "SINGLE"
      BY DEF Heard
    <3>5. HearsSingles'
      BY <3>2, <3>3, <3>4 DEF HearsSingles, Listed
    <3>6. ASSUME Len(llc_resend_list) = 1 PROVE Head(llc_resend_list) \in SendPack
      <4>1. llc_resend_list \in Seq(SendPack)
        BY DEF IInv, TsmInv, TsmTypeOK
      <4>2. llc_resend_list # <<>>
        BY <3>6
      <4>3. QED
        BY <4>1, <4>2, TailFacts
    <3>7. KeptAnswer'
      BY <2>1, <3>3, <3>6 DEF KeptAnswer
    <3>8. QED
      BY <3>5, <3>7
  <2>3. CASE MacReceived
    <3>1. /\ data' = data /\ pc = "filled" /\ pc' = "llc" /\ recv_list = <<>>
          /\ recv_list' = IF data[pack] = Broken THEN <<>> ELSE <<pack>>
      <4>1. data' = data /\ pc = "filled" /\ pc' = "llc" /\ recv_list = <<>>
        BY <2>3 DEF MacReceived, IInv, TsmInv, ReceiveQueue
      <4>2. recv_list' = IF data[pack] = Broken THEN recv_list ELSE Append(recv_list, pack)
        BY <2>3 DEF MacReceived
      <4>3. QED
        BY <4>1, <4>2
    <3>2. Listed(recv_list') \subseteq {pack}
      BY <3>1 DEF Listed
    <3>3. QED
      BY <2>1, <3>1, <3>2 DEF HearsSingles, KeptAnswer
  <2>4. CASE MacSend \/ MacSent \/ MacReceive \/ MacNothing
    <3>1. data' = data /\ recv_list' = recv_list /\ pc' # "filled"
      BY <2>4 DEF MacSend, MacSent, MacReceive, MacNothing, recvVars
    <3>2. QED
      BY <2>1, <3>1 DEF HearsSingles, KeptAnswer
  <2>5. QED
    BY <1>7, <2>2, <2>3, <2>4 DEF MacStep
<1>8. QED
  BY <1>1, <1>2, <1>3, <1>4, <1>5, <1>6, <1>7 DEF Next, LlcStep

LEMMA KeptInit == Init => KeptInv
  BY SlaveInit DEF Init, TsmInit, KeptInv, HearsSingles, KeptAnswer, Listed

\* As long as only single packets arrive with a good checksum, the slave keeps
\* the answer of the transaction it is in: the assertion in S_LLC_RESEND holds.
THEOREM Kept == HeardTypes = {"SINGLE"} /\ Spec => []KeptAnswer
<1> SUFFICES ASSUME HeardTypes = {"SINGLE"} PROVE Spec => []KeptAnswer
  OBVIOUS
<1>1. KeptInv /\ [Next]_tsmVars => KeptInv'
  BY StepKeeps, KeptStep DEF KeptInv
<1>2. KeptInv => KeptAnswer
  BY DEF KeptInv
<1>3. QED
  BY KeptInit, <1>1, <1>2, PTL DEF Spec

\* The answer in the queue is the one that is kept.
QueueIsAnswer ==
  /\ llc # "IDLE" => trans_id # TRANS_ID_NONE
  /\ send_list # <<>> => /\ trans_id # TRANS_ID_NONE
                         /\ llc # "RECEIVED_ALL"
                         /\ send_list = <<Head(llc_resend_list)>>

SendsCurrentAnswer == pc = "send" => data[Head(send_list)] = Single(trans_id)

LEMMA AnswerStep ==
  ASSUME HeardTypes = {"SINGLE"}, KeptInv, QueueIsAnswer, [Next]_tsmVars
  PROVE  QueueIsAnswer'
<1> USE DEF KeptInv
<1>0. \A id \in TransId : id # TRANS_ID_NONE
  BY DEF TransId, TRANS_ID_START, TRANS_ID_MAX, TRANS_ID_NONE
<1>1. CASE Listen \/ Finish \/ UNCHANGED tsmVars
  <2>1. UNCHANGED <<trans_id, send_list, llc_resend_list>> /\ llc' \in {llc, "IDLE"}
    BY <1>1 DEF Listen, Finish, In, LlcTo, tsmVars, sendVars
  <2>2. QED
    BY <2>1 DEF QueueIsAnswer
<1>2. CASE Reset
  BY <1>2, KeptLook DEF Reset, LlcTo
<1>3. CASE Repeated
  <2>1. /\ Look /\ trans_id' = trans_id /\ First.id = trans_id /\ pc' # "filled"
    BY <1>3 DEF Repeated, LlcTo
  <2>2. send_list' = <<>> /\ trans_id \in TransId
    BY <2>1, KeptLook, LookFacts
  <2>3. QED
    BY <1>0, <2>1, <2>2 DEF QueueIsAnswer
<1>4. CASE Fresh
  <2>1. Look /\ pc' # "filled"
    BY <1>4 DEF Fresh, LlcTo
  <2>2. send_list' = <<>> /\ First.type = "SINGLE" /\ First.id \in TransId
    BY <2>1, KeptLook, LookFacts
  <2>3. trans_id' \in TransId
    BY <1>4, <2>2 DEF Fresh
  <2>4. QED
    BY <1>0, <2>2, <2>3 DEF QueueIsAnswer
<1>5. CASE Reply
  <2>1. /\ llc_resend_list' = <<pack'>> /\ pack' \in Pack /\ PackCommit(pack')
        /\ trans_id \in TransId /\ trans_id' = trans_id /\ llc' = "SEND_ALL"
    BY <1>5, ReplyFacts, PackFacts DEF Reply, LlcTo
  <2>2. send_list = <<>>
    BY <1>5, ReplyFacts DEF IInv, Answers
  <2>3. send_list' = <<pack'>>
    BY <2>1, <2>2, CommitFacts DEF IInv, TsmInv
  <2>4. QED
    BY <1>0, <2>1, <2>3 DEF QueueIsAnswer
<1>6. CASE Resend
  <2>1. /\ llc = "RESEND" /\ llc' = "IDLE" /\ trans_id' = trans_id
        /\ llc_resend_list' = llc_resend_list
        /\ pack' = (IF llc_resend_list = <<>> THEN pack ELSE Head(llc_resend_list))
        /\ PackCommit(pack')
    BY <1>6 DEF Resend, In, LlcTo
  <2>2. trans_id # TRANS_ID_NONE /\ Len(llc_resend_list) = 1
    BY <2>1 DEF QueueIsAnswer, KeptAnswer
  <2>3. llc_resend_list # <<>>
    BY <2>2
  <2>4. send_list = <<>> /\ pack' \in Pack
    BY <1>6, <2>1, ResendKeeps DEF IInv, TsmInv, TsmTypeOK, Answers
  <2>5. send_list' = <<pack'>>
    BY <2>1, <2>4, CommitFacts DEF IInv, TsmInv
  <2>6. QED
    BY <2>1, <2>2, <2>3, <2>5 DEF QueueIsAnswer
<1>7. CASE MacStep
  <2>1. UNCHANGED <<llc, trans_id, llc_resend_list>>
    BY <1>7 DEF MacStep, MacSend, MacSent, MacReceive, MacFill, MacReceived, MacNothing, sendVars
  <2>2. send_list' = send_list \/ send_list' = <<>>
    <3>1. CASE MacSent
      <4>1. send_list # <<>> /\ (send_list' = send_list \/ send_list' = Tail(send_list))
        BY <3>1 DEF MacSent, IInv, TsmInv, SendQueue
      <4>2. send_list = <<Head(llc_resend_list)>>
        BY <4>1 DEF QueueIsAnswer
      <4>3. QED
        BY <4>1, <4>2
    <3>2. CASE ~MacSent
      BY <1>7, <3>2 DEF MacStep, MacSend, MacReceive, MacFill, MacReceived, MacNothing, sendVars
    <3>3. QED
      BY <3>1, <3>2
  <2>3. QED
    BY <2>1, <2>2 DEF QueueIsAnswer
<1>8. QED
  BY <1>1, <1>2, <1>3, <1>4, <1>5, <1>6, <1>7 DEF Next, LlcStep

LEMMA AnswerSends ==
  ASSUME KeptInv, QueueIsAnswer
  PROVE  SendsCurrentAnswer
BY DEF KeptInv, IInv, TsmInv, SendQueue, ReceiveQueue, QueueIsAnswer, KeptAnswer, SendsCurrentAnswer

\* The slave only ever sends the answer to the transaction it is in.
THEOREM OnlyCurrentIsSent == HeardTypes = {"SINGLE"} /\ Spec => []SendsCurrentAnswer
<1> SUFFICES ASSUME HeardTypes = {"SINGLE"} PROVE Spec => []SendsCurrentAnswer
  OBVIOUS
<1>1. Init => QueueIsAnswer
  BY DEF Init, TsmInit, QueueIsAnswer
<1>2. KeptInv /\ QueueIsAnswer /\ [Next]_tsmVars => (KeptInv /\ QueueIsAnswer)'
  BY StepKeeps, KeptStep, AnswerStep DEF KeptInv
<1>3. KeptInv /\ QueueIsAnswer => SendsCurrentAnswer
  BY AnswerSends
<1>4. QED
  BY KeptInit, <1>1, <1>2, <1>3, PTL DEF Spec

-----------------------------------------------------------------------------
(* The slave on the lists of list.h: the pointers follow the sequences.  Its *)
(* send queue is never damaged.                                              *)

ListInv == IInv /\ MemInv

LEMMA AnswersOne ==
  ASSUME IInv
  PROVE  OneQueued /\ TsmInv("IDLE") /\ "IDLE" \in State
BY DEF IInv, Answers, OneQueued, State

\* A pack is looked at; the kept answer stays or is given up first.
LEMMA LookAtPointers ==
  ASSUME ListInv, \/ (Reset \/ Repeated) /\ mem' = ListMarkAsReceived(mem)
                  \/ Fresh /\ mem' = ListMarkAsReceived(ListResendClear(mem))
  PROVE  MemInv'
<1>1. IInv' /\ Look /\ pc' # "crashed" /\ TsmInv("IDLE") /\ MemInv /\ "IDLE" \in State
  <2>1. Look /\ pc' # "crashed"
    BY DEF Reset, Repeated, Fresh, LlcTo
  <2>2. IInv'
    BY RepeatedKeeps, FreshKeeps DEF ListInv
  <2>3. QED
    BY <2>1, <2>2, AnswersOne DEF ListInv
<1>2. /\ pc = "llc" /\ recv_list # <<>> /\ MarkAsReceived /\ UNCHANGED <<send_list, send_link>>
  BY <1>1 DEF Look, In
<1>3. send_list = <<>> /\ send_link = "ok" /\ pc # "crashed"
  BY <1>1, <1>2, LookFacts DEF ListInv
<1>4. send_list_pool' \in Seq(Pack) /\ llc_resend_list' \in Seq(Pack)
  <2>1. send_list_pool' \in Seq(SendPack) /\ llc_resend_list' \in Seq(SendPack)
    BY <1>1 DEF IInv, TsmInv, TsmTypeOK
  <2>2. QED
    BY <2>1, PackFacts
<1>5. CASE (Reset \/ Repeated) /\ mem' = ListMarkAsReceived(mem)
  <2>1. UNCHANGED <<send_list_pool, llc_resend_list>>
    BY <1>5 DEF Reset, Repeated
  <2>2. Stored(mem, <<>>, recv_list, send_list_pool, recv_list_pool, <<>>, Owned, llc_resend_list)
    BY <1>1, <1>3, HealthyMemory
  <2>3. QED
    BY <1>1, <1>2, <1>3, <1>4, <1>5, <2>1, <2>2, LookPointers
<1>6. CASE Fresh /\ mem' = ListMarkAsReceived(ListResendClear(mem))
  <2>1. send_list_pool' = send_list_pool \o llc_resend_list /\ llc_resend_list' = <<>>
    BY <1>6 DEF Fresh, ResendClearAll
  <2>2. Stored(ListResendClear(mem), <<>>, recv_list, send_list_pool', recv_list_pool, <<>>, Owned,
               llc_resend_list')
    BY <1>1, <1>2, <1>3, <2>1, ClearPointers
  <2>3. QED
    BY <1>1, <1>2, <1>3, <1>4, <1>6, <2>2, LookPointers
<1>7. QED
  BY <1>5, <1>6

\* The answer is built in a packet of the pool, which nothing is kept beside.
LEMMA ReplyPointers ==
  ASSUME ListInv, Reply, mem' = ListSendSingle(mem)
  PROVE  MemInv'
<1>1. /\ pc = "llc" /\ llc = "RECEIVED_ALL" /\ pc' # "crashed" /\ UNCHANGED recvVars
      /\ SendSingle(send_list_pool, llc_resend_list, llc_send_owned_counter, trans_id)
  BY DEF Reply, In, LlcTo
<1>2. TsmInv("IDLE") /\ MemInv /\ "IDLE" \in State
  BY AnswersOne DEF ListInv
<1>3. /\ send_list = <<>> /\ recv_list = <<>> /\ llc_recv_owned = {} /\ llc_resend_list = <<>>
      /\ send_link = "ok"
  BY <1>1, <1>2 DEF ListInv, IInv, Answers, TsmInv, ReceiveQueue, Listed
<1>4. Stored(mem, <<>>, <<>>, send_list_pool, recv_list_pool, <<>>, Owned, <<>>)
  BY <1>1, <1>2, <1>3, HealthyMemory
<1>5. send_list_pool \in Seq(Pack)
  BY <1>2, PackSeqs
<1>6. SendSingle(send_list_pool, <<>>, llc_send_owned_counter, trans_id)
  BY <1>1, <1>3
<1>7. QED
  BY <1>1, <1>2, <1>3, <1>4, <1>5, <1>6, BuildPointers

\* list_first_entry finds the pack that Tsm says is repeated; without one, the
\* pack looked at last is queued.
LEMMA ResendPointers ==
  ASSUME ListInv, Resend, mem' = ListCommit(mem, ListResendGet(mem))
  PROVE  MemInv'
<1>1. /\ pc = "llc" /\ llc = "RESEND" /\ pc' # "crashed" /\ PackCommit(pack')
      /\ pack' = (IF llc_resend_list = <<>> THEN pack ELSE Head(llc_resend_list))
      /\ UNCHANGED <<recv_list, send_list_pool, recv_list_pool, llc_recv_owned, llc_resend_list>>
  BY DEF Resend, In, LlcTo, recvVars
<1>2. TsmInv("IDLE") /\ MemInv /\ "IDLE" \in State /\ OneQueued /\ pc # "crashed"
  BY <1>1, AnswersOne DEF ListInv
<1>3. recv_list = <<>> /\ send_list = <<>>
  BY <1>1, <1>2 DEF ListInv, IInv, Answers, TsmInv, ReceiveQueue
<1>4. Stored(mem, send_list, recv_list, send_list_pool, recv_list_pool, <<>>, Owned, llc_resend_list)
  BY <1>2, <1>3, HealthyMemory
<1>5. llc_resend_list \in Seq(Pack) /\ pack \in Pack
  BY <1>2, PackSeqs
<1>6. /\ list_first(mem, LlcResendList)
           = IF llc_resend_list = <<>> THEN LlcResendList ELSE OwnerNode(Head(llc_resend_list))
      /\ list_empty(mem, LlcResendList) <=> llc_resend_list = <<>>
  BY <1>4, <1>5, ResendFirst
<1>7. PICK p : p = pack'
  OBVIOUS
<1>8. p \in Pack /\ ListResendGet(mem) = p
  <2>1. CASE llc_resend_list = <<>>
    BY <1>1, <1>5, <1>6, <1>7, <2>1 DEF ListResendGet
  <2>2. CASE llc_resend_list # <<>>
    <3>1. Head(llc_resend_list) \in Pack /\ p = Head(llc_resend_list)
      BY <1>1, <1>5, <1>7, <2>2
    <3>2. ListResendGet(mem) = PackOfOwner(OwnerNode(p))
      BY <1>6, <2>2, <3>1 DEF ListResendGet
    <3>3. QED
      BY <3>1, <3>2, NodeFacts
  <2>3. QED
    BY <2>1, <2>2
<1>9. QED
  BY <1>1, <1>2, <1>3, <1>7, <1>8, CommitPointers

LEMMA ListStepKeeps == ListInv /\ [ListNext]_<<tsmVars, mem>> => ListInv'
<1> SUFFICES ASSUME ListInv, [ListNext]_<<tsmVars, mem>> PROVE ListInv'
  OBVIOUS
<1>1. [Next]_tsmVars
  BY DEF ListNext, LlcListStep, MacListStep, Next, LlcStep, MacStep
<1>2. IInv'
  BY <1>1, StepKeeps DEF ListInv
<1>3. TsmInv("IDLE") /\ MemInv /\ "IDLE" \in State /\ OneQueued
  BY AnswersOne DEF ListInv
<1>4. CASE (Listen \/ Finish) /\ UNCHANGED mem
  <2>1. /\ pc # "crashed" /\ pc' # "crashed"
        /\ UNCHANGED <<send_list, send_link, recv_list, send_list_pool, recv_list_pool,
                       llc_recv_owned, llc_resend_list>>
    BY <1>4 DEF Listen, Finish, In, LlcTo, sendVars, recvVars
  <2>2. QED
    BY <1>2, <1>3, <1>4, <2>1, SameMemory DEF ListInv
<1>5. CASE \/ (Reset \/ Repeated) /\ mem' = ListMarkAsReceived(mem)
           \/ Fresh /\ mem' = ListMarkAsReceived(ListResendClear(mem))
  BY <1>2, <1>5, LookAtPointers DEF ListInv
<1>6. CASE Reply /\ mem' = ListSendSingle(mem)
  BY <1>2, <1>6, ReplyPointers DEF ListInv
<1>7. CASE Resend /\ mem' = ListCommit(mem, ListResendGet(mem))
  BY <1>2, <1>7, ResendPointers DEF ListInv
<1>8. CASE MacListStep
  BY <1>2, <1>3, <1>8, MacPointers DEF ListInv
<1>9. CASE UNCHANGED <<tsmVars, mem>>
  <2>1. /\ pc' = pc
        /\ UNCHANGED <<send_list, send_link, recv_list, send_list_pool, recv_list_pool,
                       llc_recv_owned, llc_resend_list>>
    BY <1>9 DEF tsmVars, sendVars, recvVars
  <2>2. CASE pc # "crashed"
    BY <1>2, <1>3, <1>9, <2>1, <2>2, SameMemory DEF ListInv
  <2>3. CASE pc = "crashed"
    BY <1>2, <1>3, <1>9, <2>1, <2>3 DEF ListInv, MemInv
  <2>4. QED
    BY <2>2, <2>3
<1>10. QED
  BY <1>4, <1>5, <1>6, <1>7, <1>8, <1>9 DEF ListNext, LlcListStep

\* Through every step of the slave MemInv holds: each list of list.h is the
\* sequence Tsm keeps, and no node is on two.
THEOREM ListInvariance == ListSpec => []ListInv
<1>1. ListInit => ListInv
  <2> SUFFICES ASSUME ListInit PROVE ListInv
    OBVIOUS
  <2>1. Init /\ TsmInit(TRANS_ID_NONE) /\ MemInit
    BY DEF ListInit, Init
  <2>2. IInv
    BY <2>1, SlaveInit
  <2>3. Stored(mem, <<>>, <<>>, send_list_pool, recv_list_pool, <<>>, <<>>, <<>>)
    BY <2>1, PoolsLists
  <2>4. /\ pc # "crashed" /\ send_link = "ok" /\ send_list = <<>> /\ recv_list = <<>>
        /\ llc_resend_list = <<>> /\ Owned = <<>>
    BY <2>1 DEF TsmInit, Owned
  <2>5. MemInv
    BY <2>3, <2>4 DEF MemInv, Stored, Lists
  <2>6. QED
    BY <2>2, <2>5 DEF ListInv
<1>2. QED
  BY <1>1, ListStepKeeps, PTL DEF ListSpec

\* Through every step of the slave, whatever packet types arrive, the pointers
\* of list.h say what the sequences of Tsm say.
THEOREM PointersFollow == ListSpec => []PointersAgree
<1>1. ListInv => PointersAgree
  BY AnswersOne, Agree DEF ListInv
<1>2. QED
  BY <1>1, ListInvariance, PTL

\* The TODO in stk_llc_resend_clear_all, for the slave and every pool size: the
\* list is empty after the moves.
THEOREM ClearLeavesEmpty == ListSpec => []ResendClearLeavesEmpty
<1>1. ListInv => ResendClearLeavesEmpty
  BY AnswersOne, ClearMemory DEF ListInv
<1>2. QED
  BY <1>1, ListInvariance, PTL
=============================================================================
