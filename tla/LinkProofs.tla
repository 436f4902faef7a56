----------------------------- MODULE LinkProofs -----------------------------
(***************************************************************************)
(* The whole link, for every time on air, pool size, slave timeout and lag *)
(* of the threads: it runs the radio emulator, the master and the slave as *)
(* their own modules describe them, so what is proved of each holds in the *)
(* composed system.                                                        *)
(*                                                                         *)
(* Then its timing: as long as no thread that does not sleep is kept from  *)
(* running for as long as a packet is on the air, one packet is on its way *)
(* at a time, the radio counts no error, and the link is stop-and-wait.    *)
(***************************************************************************)
EXTENDS Link, WlEnvProofs

\* The master and the slave of Link once more, with what is proved of them.  The
\* pointers of the lists are no part of Link: what is cited does not mention mem.
MP == INSTANCE MasterProofs WITH
  Broken <- Garbled, HeardTypes <- {"SINGLE"}, TimerInterval <- 3 * TimeOnAir, Stalls <- TRUE,
  pc <- m_pc, llc <- m_llc, trans_id <- m_trans_id, send_list <- m_send_list,
  send_link <- m_send_link, recv_list <- m_recv_list, send_list_pool <- m_send_list_pool,
  recv_list_pool <- m_recv_list_pool, llc_resend_list <- m_llc_resend_list,
  llc_recv_owned <- m_llc_recv_owned, llc_send_owned_counter <- m_llc_send_owned_counter,
  llc_recv_owned_counter <- m_llc_recv_owned_counter, data <- m_data, pack <- m_pack,
  test_trans_id <- m_test_trans_id, timer <- m_timer, mem <- <<>>

SP == INSTANCE SlaveProofs WITH
  Broken <- Garbled, HeardTypes <- {"SINGLE"},
  pc <- s_pc, llc <- s_llc, trans_id <- s_trans_id, send_list <- s_send_list,
  send_link <- s_send_link, recv_list <- s_recv_list, send_list_pool <- s_send_list_pool,
  recv_list_pool <- s_recv_list_pool, llc_resend_list <- s_llc_resend_list,
  llc_recv_owned <- s_llc_recv_owned, llc_send_owned_counter <- s_llc_send_owned_counter,
  llc_recv_owned_counter <- s_llc_recv_owned_counter, data <- s_data, pack <- s_pack,
  mem <- <<>>

\* Where loop i is in the library, by where it is in its MAC worker.
Joined(i, mac) ==
  /\ mac \in {"llc", "mac", "crashed"} => At(i, "client")
  /\ mac = "send" => pc[i] \in SendPC
  /\ mac = "recv" => /\ pc[i] \in {"r_worker", "r_take"} \cup DataPC
                     /\ op[i] = "recv" /\ timeout[i] > 0
  /\ mac = "filled" => At(i, "r_checker")

LinkInv ==
  /\ RInv
  /\ MP!IInv /\ MP!QueueIsCurrent
  /\ SP!KeptInv /\ SP!QueueIsAnswer
  /\ Joined(ID_M, m_pc) /\ Joined(ID_S, s_pc)
  /\ lag \in [ID -> 0 .. MaxLag]

-----------------------------------------------------------------------------
(* The assumptions of the components hold here, and the two instances of    *)
(* each loop are the same.                                                  *)

LEMMA MasterAssumptions ==
  /\ PoolSize \in Nat \ {0} /\ {"SINGLE"} \subseteq MP!Type /\ Garbled \notin MP!Header
  /\ 3 * TimeOnAir \in Nat \ {0} /\ TRUE \in BOOLEAN
<1>1. Garbled \notin MP!Header
  BY PacketAssumption
  DEF M!Header, MP!Header, M!Type, MP!Type, M!TransId, MP!TransId, M!TRANS_ID_START,
      MP!TRANS_ID_START, M!TRANS_ID_MAX, MP!TRANS_ID_MAX
<1>2. QED
  BY <1>1, LinkAssumption, WlEnvAssumption DEF MP!Type

LEMMA SlaveAssumptions ==
  PoolSize \in Nat \ {0} /\ {"SINGLE"} \subseteq SP!Type /\ Garbled \notin SP!Header
<1>1. Garbled \notin SP!Header
  BY PacketAssumption
  DEF M!Header, SP!Header, M!Type, SP!Type, M!TransId, SP!TransId, M!TRANS_ID_START,
      SP!TRANS_ID_START, M!TRANS_ID_MAX, SP!TRANS_ID_MAX
<1>2. QED
  BY <1>1, LinkAssumption DEF SP!Type

LEMMA MasterSame ==
  /\ M!Init => MP!Init
  /\ M!Next => MP!Next
  /\ UNCHANGED M!vars => UNCHANGED MP!vars
  /\ MP!TypeOK => M!TypeOK
BY
  DEF M!Init, MP!Init, M!Next, MP!Next, M!vars, MP!vars, M!LlcStep, MP!LlcStep,
      M!Transact, MP!Transact, M!Answer, MP!Answer, M!Timeout, MP!Timeout, M!Wait,
      MP!Wait, M!Finish, MP!Finish, M!Resend, MP!Resend, M!NextTransId, MP!NextTransId,
      M!TimerStart, MP!TimerStart, M!TimerIsTimeouted, MP!TimerIsTimeouted, M!Tick,
      MP!Tick, M!Advance, MP!Advance, M!TsmInit, MP!TsmInit, M!TypeOK, MP!TypeOK,
      M!TsmTypeOK, MP!TsmTypeOK, M!In, MP!In, M!LlcTo, MP!LlcTo, M!recvVars,
      MP!recvVars, M!sendVars, MP!sendVars, M!tsmVars, MP!tsmVars, M!SendSingle,
      MP!SendSingle, M!PackCommit, MP!PackCommit, M!Single, MP!Single, M!MarkAsReceived,
      MP!MarkAsReceived, M!PutRecvPackholder, MP!PutRecvPackholder, M!TRANS_ID_START,
      MP!TRANS_ID_START, M!TRANS_ID_MAX, MP!TRANS_ID_MAX, M!TRANS_ID_NONE,
      MP!TRANS_ID_NONE, M!TransId, MP!TransId, M!Type, MP!Type, M!Header, MP!Header,
      M!Heard, MP!Heard, M!SendPack, MP!SendPack, M!RecvPack, MP!RecvPack, M!Pack,
      MP!Pack, M!PC, MP!PC, M!State, MP!State, M!MacStep, MP!MacStep, M!MacSend,
      MP!MacSend, M!MacSent, MP!MacSent, M!MacReceive, MP!MacReceive, M!MacFill,
      MP!MacFill, M!MacReceived, MP!MacReceived, M!MacNothing, MP!MacNothing

LEMMA SlaveSame ==
  /\ S!Init => SP!Init
  /\ S!Next => SP!Next
  /\ UNCHANGED S!tsmVars => UNCHANGED SP!tsmVars
  /\ SP!TypeOK => S!TypeOK
  /\ SP!KeptAnswer => S!KeptAnswer
BY
  DEF S!Init, SP!Init, S!Next, SP!Next, S!LlcStep, SP!LlcStep, S!Listen, SP!Listen,
      S!Look, SP!Look, S!First, SP!First, S!Reset, SP!Reset, S!Repeated, SP!Repeated,
      S!Fresh, SP!Fresh, S!Reply, SP!Reply, S!Finish, SP!Finish, S!Resend, SP!Resend,
      S!ResendClearAll, SP!ResendClearAll, S!KeptAnswer, SP!KeptAnswer, S!TsmInit,
      SP!TsmInit, S!TypeOK, SP!TypeOK, S!TsmTypeOK, SP!TsmTypeOK, S!In, SP!In, S!LlcTo,
      SP!LlcTo, S!recvVars, SP!recvVars, S!sendVars, SP!sendVars, S!tsmVars, SP!tsmVars,
      S!SendSingle, SP!SendSingle, S!PackCommit, SP!PackCommit, S!Single, SP!Single,
      S!MarkAsReceived, SP!MarkAsReceived, S!PutRecvPackholder, SP!PutRecvPackholder,
      S!TRANS_ID_START, SP!TRANS_ID_START, S!TRANS_ID_MAX, SP!TRANS_ID_MAX,
      S!TRANS_ID_NONE, SP!TRANS_ID_NONE, S!TransId, SP!TransId, S!Type, SP!Type,
      S!Header, SP!Header, S!Heard, SP!Heard, S!SendPack, SP!SendPack, S!RecvPack,
      SP!RecvPack, S!Pack, SP!Pack, S!PC, SP!PC, S!State, SP!State, S!MacStep,
      SP!MacStep, S!MacSend, SP!MacSend, S!MacSent, SP!MacSent, S!MacReceive,
      SP!MacReceive, S!MacFill, SP!MacFill, S!MacReceived, SP!MacReceived, S!MacNothing,
      SP!MacNothing


-----------------------------------------------------------------------------
(* What passes between the loops and the radio.                             *)

\* Every packet a loop hands to the radio is one that clients send.
LEMMA SentPackets ==
  ASSUME LinkInv
  PROVE  /\ m_pc = "send" => m_data[Head(m_send_list)] \in Payload
         /\ s_pc = "send" => s_data[Head(s_send_list)] \in Payload
<1>1. m_pc = "send" => m_data[Head(m_send_list)] \in Payload
  <2>1. MP!SendsCurrentPacket
    BY MasterAssumptions, MP!QueueSends DEF LinkInv
  <2>2. m_trans_id \in M!TransId
    BY DEF LinkInv, MP!IInv, M!TransId, MP!TransId, M!TRANS_ID_START, MP!TRANS_ID_START,
           M!TRANS_ID_MAX, MP!TRANS_ID_MAX
  <2>3. QED
    BY <2>1, <2>2, PacketAssumption DEF MP!SendsCurrentPacket, MP!Single, M!Single
<1>2. s_pc = "send" => s_data[Head(s_send_list)] \in Payload
  <2>1. SP!SendsCurrentAnswer
    BY SlaveAssumptions, SP!AnswerSends DEF LinkInv
  <2>2. s_pc = "send" => s_trans_id \in M!TransId
    BY DEF LinkInv, SP!KeptInv, SP!IInv, SP!TsmInv, SP!TsmTypeOK, SP!SendQueue, SP!QueueIsAnswer,
           M!TransId, SP!TransId, M!TRANS_ID_START, SP!TRANS_ID_START, M!TRANS_ID_MAX,
           SP!TRANS_ID_MAX
  <2>3. QED
    BY <2>1, <2>2, PacketAssumption DEF SP!SendsCurrentAnswer, SP!Single, M!Single
<1>3. QED
  BY <1>1, <1>2

\* Every packet the radio hands to a loop is a single packet or fails the test.
LEMMA HeardPackets ==
  ASSUME LinkInv, NEW i \in ID, At(i, "r_take")
  PROVE  recv_data[i] \in MP!Heard /\ recv_data[i] \in SP!Heard
<1>1. recv_data[i] \in Payload \cup {Garbled}
  BY DEF LinkInv, RInv, IInv, AvailableStays, ContentsReal
<1>2. \A id : M!Single(id) = [type |-> "SINGLE", id |-> id]
  BY DEF M!Single
<1>3. M!TransId = MP!TransId /\ M!TransId = SP!TransId
  BY DEF M!TransId, MP!TransId, SP!TransId, M!TRANS_ID_START, MP!TRANS_ID_START, SP!TRANS_ID_START,
         M!TRANS_ID_MAX, MP!TRANS_ID_MAX, SP!TRANS_ID_MAX
<1>4. QED
  BY <1>1, <1>2, <1>3, PacketAssumption DEF MP!Heard, SP!Heard

\* A step of one thread in the library moves no other thread.
LEMMA OthersStay ==
  ASSUME NEW i \in ID, NEW p, NEW t, SendCall(i, t) \/ RecvCall(i, t) \/ LibStep(i, p), TypeOK
  PROVE  \A j \in ID : j # i => pc'[j] = pc[j] /\ op'[j] = op[j] /\ timeout'[j] = timeout[j]
BY DEF SendCall, RecvCall, Call, LibStep, SendWorker, SendCheck, SendErr, SendPut, SendWake,
  SendFlush, SendChecker, RecvWorker, DataWorker, DataRead, DataChecker, DataWake, RecvErr,
  RecvTake, RecvChecker, DataReturn, Return, Goto, Sleep, At, TypeOK

\* A call of a loop that goes on stays where the loop waits for it.
LEMMA InsideJoined ==
  ASSUME NEW i \in ID, NEW mac, NEW p, TypeOK, Joined(i, mac), mac \in M!PC,
         Inside(i) \/ SendPut(i, p)
  PROVE  /\ mac \in {"send", "recv"}
         /\ mac = "send" => pc'[i] \in SendPC
         /\ mac = "recv" => /\ pc'[i] \in {"r_worker", "r_take"} \cup DataPC
                            /\ op'[i] = "recv" /\ timeout'[i] > 0
<1> USE DEF At, Goto, Joined, TypeOK
<1>1. CASE SendPut(i, p)
  BY <1>1 DEF SendPut, Sleep, SendPC, DataPC, M!PC
<1>2. CASE SendWorker(i) \/ SendCheck(i) \/ SendErr(i) \/ SendWake(i) \/ SendFlush(i)
  BY <1>2 DEF SendWorker, SendCheck, SendErr, SendWake, SendFlush, SendPC, DataPC, M!PC
<1>3. CASE RecvWorker(i) \/ DataWorker(i) \/ DataRead(i)
  BY <1>3 DEF RecvWorker, DataWorker, DataRead, SendPC, DataPC, M!PC
<1>4. CASE (DataChecker(i) \/ DataWake(i)) /\ ~Returns(i)
  <2>1. pc[i] \in DataPC /\ pc'[i] # "client"
    BY <1>4 DEF DataChecker, DataWake, Returns, DataPC
  <2>2. mac = "recv"
    BY <2>1 DEF SendPC, DataPC, M!PC
  <2>3. op[i] = "recv" /\ timeout[i] > 0
    BY <2>2
  <2>4. pc'[i] \in {"r_take"} \cup DataPC /\ op'[i] = "recv" /\ timeout'[i] > 0
    BY <1>4, <2>1, <2>3 DEF DataChecker, DataWake, DataReturn, Return, Sleep, DataPC
  <2>5. QED
    BY <2>2, <2>4
<1>5. QED
  BY <1>1, <1>2, <1>3, <1>4 DEF Inside

-----------------------------------------------------------------------------
(* Every step of the link is a step of each part, or leaves it alone.       *)

\* Inside(i) and SendPut(i, p) are steps of the library.
LEMMA LibrarySteps ==
  ASSUME NEW i \in ID, NEW p \in Payload,
         Inside(i) \/ SendPut(i, p) \/ SendChecker(i) \/ RecvTake(i) \/ RecvChecker(i) \/ DataWake(i)
  PROVE  LibStep(i, p)
BY DEF Inside, LibStep

LEMMA PayloadExists == \E p : p \in Payload
<1>1. M!Single(0) \in Payload
  BY PacketAssumption DEF M!TransId, M!TRANS_ID_START, M!TRANS_ID_MAX
<1>2. QED
  BY <1>1

LEMMA MasterMoves ==
  ASSUME LinkInv, MasterStep
  PROVE  /\ [Next]_vars
         /\ M!Next \/ UNCHANGED M!vars
         /\ UNCHANGED S!tsmVars /\ lag' = lag
         /\ Joined(ID_M, m_pc)' /\ Joined(ID_S, s_pc)'
<1> USE DEF ID_M, ID_S
<1>0. /\ 0 \in ID /\ 1 \in ID /\ 1 # 0 /\ TypeOK /\ m_pc \in M!PC
      /\ UNCHANGED slaveVars /\ lag' = lag /\ s_pc' = s_pc
      /\ Joined(0, m_pc) /\ Joined(1, s_pc)
  BY DEF LinkInv, RInv, IInv, ID, MasterStep, slaveVars, MP!IInv, MP!TsmInv, MP!TsmTypeOK, MP!PC, M!PC
<1>1. UNCHANGED S!tsmVars
  BY <1>0 DEF slaveVars, S!tsmVars, S!sendVars, S!recvVars
<1>2. ASSUME pc'[1] = pc[1], op'[1] = op[1], timeout'[1] = timeout[1] PROVE Joined(1, s_pc)'
  BY <1>0, <1>2 DEF Joined, At
<1>3. CASE M!LlcStep /\ UNCHANGED vars
  <2>1. m_pc = "llc" /\ m_pc' \in {"llc", "mac"}
    BY <1>3 DEF M!LlcStep, M!Transact, M!Answer, M!Timeout, M!Wait, M!Finish, M!Resend, M!In, M!LlcTo
  <2>2. pc' = pc /\ op' = op /\ timeout' = timeout
    BY <1>3 DEF vars, callVars
  <2>3. Joined(0, m_pc)'
    BY <1>0, <2>1, <2>2 DEF Joined, At
  <2>4. M!Next
    BY <1>3 DEF M!Next
  <2>5. QED
    BY <1>0, <1>1, <1>2, <1>3, <2>2, <2>3, <2>4
<1>4. CASE MasterMac /\ UNCHANGED <<m_test_trans_id, m_timer>>
  <2>1. PICK p : p \in Payload
    BY PayloadExists
  <2>2. CASE M!MacSend /\ SendCall(0, 2 * TimeOnAir)
    <3>1. ClientCall(0)
      BY <2>2, LinkAssumption DEF ClientCall
    <3>2. m_pc' = "send" /\ pc'[0] = "s_worker"
      BY <1>0, <2>2 DEF M!MacSend, SendCall, Call, Goto, TypeOK
    <3>3. Joined(0, m_pc)' /\ Joined(1, s_pc)'
      BY <1>0, <1>2, <2>2, <3>2, OthersStay DEF Joined, SendPC
    <3>4. M!Next
      BY <1>4, <2>2 DEF M!Next, M!MacStep
    <3>5. QED
      BY <1>0, <1>1, <3>1, <3>3, <3>4 DEF Next
  <2>3. CASE M!MacReceive /\ RecvCall(0, 3 * TimeOnAir)
    <3>1. ClientCall(0)
      BY <2>3, LinkAssumption DEF ClientCall
    <3>2. m_pc' = "recv" /\ pc'[0] = "r_worker" /\ op'[0] = "recv" /\ timeout'[0] > 0
      BY <1>0, <2>3, WlEnvAssumption DEF M!MacReceive, RecvCall, Call, Goto, TypeOK
    <3>3. Joined(0, m_pc)' /\ Joined(1, s_pc)'
      BY <1>0, <1>2, <2>3, <3>2, OthersStay DEF Joined
    <3>4. M!Next
      BY <1>4, <2>3 DEF M!Next, M!MacStep
    <3>5. QED
      BY <1>0, <1>1, <3>1, <3>3, <3>4 DEF Next
  <2>4. CASE \/ M!MacSent /\ SendChecker(0)
             \/ M!MacReceived /\ RecvChecker(0)
             \/ M!MacNothing /\ DataWake(0) /\ Returns(0)
    <3>1. LibStep(0, p)
      BY <1>0, <2>1, <2>4, LibrarySteps
    <3>2. m_pc' \in {"llc", "crashed"} /\ pc'[0] = "client"
      BY <1>0, <2>4
      DEF M!MacSent, M!MacReceived, M!MacNothing, SendChecker, RecvChecker, Returns, Return, Goto, TypeOK
    <3>3. Joined(0, m_pc)'
      BY <3>2 DEF Joined, At
    <3>4. Joined(1, s_pc)'
      BY <1>0, <1>2, <3>1, OthersStay
    <3>5. M!Next
      BY <1>4, <2>4 DEF M!Next, M!MacStep
    <3>6. QED
      BY <1>0, <1>1, <2>1, <3>1, <3>3, <3>4, <3>5 DEF Next
  <2>5. CASE RecvTake(0) /\ M!MacFill(recv_data[0])
    <3>1. LibStep(0, p)
      BY <1>0, <2>1, <2>5, LibrarySteps
    <3>2. m_pc' = "filled" /\ pc'[0] = "r_checker"
      BY <1>0, <2>5 DEF M!MacFill, RecvTake, Goto, TypeOK
    <3>3. Joined(0, m_pc)'
      BY <3>2 DEF Joined, At
    <3>4. Joined(1, s_pc)'
      BY <1>0, <1>2, <3>1, OthersStay
    <3>5. recv_data[0] \in M!Heard
      <4>1. recv_data[0] \in MP!Heard
        BY <1>0, <2>5, HeardPackets DEF RecvTake
      <4>2. QED
        BY <4>1 DEF M!Heard, MP!Heard, M!TransId, MP!TransId, M!TRANS_ID_START, MP!TRANS_ID_START,
                    M!TRANS_ID_MAX, MP!TRANS_ID_MAX
    <3>6. M!Next
      BY <1>4, <2>5, <3>5 DEF M!Next, M!MacStep
    <3>7. QED
      BY <1>0, <1>1, <2>1, <3>1, <3>3, <3>4, <3>6 DEF Next
  <2>6. QED
    BY <1>4, <2>2, <2>3, <2>4, <2>5 DEF MasterMac
<1>5. CASE /\ Inside(0) \/ SendPut(0, m_data[Head(m_send_list)])
           /\ UNCHANGED <<masterVars, m_timer>>
  <2>1. m_pc' = m_pc /\ UNCHANGED M!vars
    BY <1>5 DEF masterVars, M!vars, M!tsmVars, M!sendVars, M!recvVars
  <2>2. \E p \in Payload : LibStep(0, p)
    <3>1. CASE Inside(0)
      BY <1>0, <3>1, PayloadExists, LibrarySteps
    <3>2. CASE SendPut(0, m_data[Head(m_send_list)])
      <4>1. pc[0] = "s_put"
        BY <3>2 DEF SendPut, At
      <4>2. m_pc = "send"
        BY <1>0, <4>1 DEF Joined, M!PC, At, DataPC
      <4>3. m_data[Head(m_send_list)] \in Payload
        BY <4>2, SentPackets
      <4>4. QED
        BY <1>0, <3>2, <4>3, LibrarySteps
    <3>3. QED
      BY <1>5, <3>1, <3>2
  <2>3. Joined(0, m_pc)'
    BY <1>0, <1>5, <2>1, InsideJoined DEF Joined
  <2>4. Joined(1, s_pc)'
    BY <1>0, <1>2, <2>2, OthersStay
  <2>5. QED
    BY <1>0, <1>1, <2>1, <2>2, <2>3, <2>4 DEF Next
<1>6. QED
  BY <1>3, <1>4, <1>5 DEF MasterStep

LEMMA SlaveMoves ==
  ASSUME LinkInv, SlaveStep
  PROVE  /\ [Next]_vars
         /\ UNCHANGED M!vars
         /\ S!Next \/ UNCHANGED S!tsmVars
         /\ lag' = lag
         /\ Joined(ID_M, m_pc)' /\ Joined(ID_S, s_pc)'
<1> USE DEF ID_M, ID_S
<1>0. /\ 0 \in ID /\ 1 \in ID /\ 1 # 0 /\ TypeOK /\ s_pc \in M!PC
      /\ UNCHANGED <<masterVars, m_timer>> /\ lag' = lag /\ m_pc' = m_pc
      /\ Joined(0, m_pc) /\ Joined(1, s_pc)
  BY DEF LinkInv, RInv, IInv, ID, SlaveStep, masterVars, SP!KeptInv, SP!IInv, SP!TsmInv,
         SP!TsmTypeOK, SP!PC, M!PC
<1>1. UNCHANGED M!vars
  BY <1>0 DEF masterVars, M!vars, M!tsmVars, M!sendVars, M!recvVars
<1>2. ASSUME pc'[0] = pc[0], op'[0] = op[0], timeout'[0] = timeout[0] PROVE Joined(0, m_pc)'
  BY <1>0, <1>2 DEF Joined, At
<1>3. CASE S!LlcStep /\ UNCHANGED vars
  <2>1. s_pc = "llc" /\ s_pc' \in {"llc", "mac"}
    BY <1>3 DEF S!LlcStep, S!Listen, S!Look, S!Reset, S!Repeated, S!Fresh, S!Reply, S!Finish,
                S!Resend, S!In, S!LlcTo
  <2>2. pc' = pc /\ op' = op /\ timeout' = timeout
    BY <1>3 DEF vars, callVars
  <2>3. Joined(1, s_pc)'
    BY <1>0, <2>1, <2>2 DEF Joined, At
  <2>4. S!Next
    BY <1>3 DEF S!Next
  <2>5. QED
    BY <1>0, <1>1, <1>2, <1>3, <2>2, <2>3, <2>4
<1>4. CASE SlaveMac
  <2>1. PICK p : p \in Payload
    BY PayloadExists
  <2>2. CASE S!MacSend /\ SendCall(1, 2 * TimeOnAir)
    <3>1. ClientCall(1)
      BY <2>2, LinkAssumption DEF ClientCall
    <3>2. s_pc' = "send" /\ pc'[1] = "s_worker"
      BY <1>0, <2>2 DEF S!MacSend, SendCall, Call, Goto, TypeOK
    <3>3. Joined(0, m_pc)' /\ Joined(1, s_pc)'
      BY <1>0, <1>2, <2>2, <3>2, OthersStay DEF Joined, SendPC
    <3>4. S!Next
      BY <2>2 DEF S!Next, S!MacStep
    <3>5. QED
      BY <1>0, <1>1, <3>1, <3>3, <3>4 DEF Next
  <2>3. CASE S!MacReceive /\ RecvCall(1, SlaveTimeout)
    <3>1. ClientCall(1)
      BY <2>3, LinkAssumption DEF ClientCall
    <3>2. s_pc' = "recv" /\ pc'[1] = "r_worker" /\ op'[1] = "recv" /\ timeout'[1] > 0
      BY <1>0, <2>3, LinkAssumption DEF S!MacReceive, RecvCall, Call, Goto, TypeOK
    <3>3. Joined(0, m_pc)' /\ Joined(1, s_pc)'
      BY <1>0, <1>2, <2>3, <3>2, OthersStay DEF Joined
    <3>4. S!Next
      BY <2>3 DEF S!Next, S!MacStep
    <3>5. QED
      BY <1>0, <1>1, <3>1, <3>3, <3>4 DEF Next
  <2>4. CASE \/ S!MacSent /\ SendChecker(1)
             \/ S!MacReceived /\ RecvChecker(1)
             \/ S!MacNothing /\ DataWake(1) /\ Returns(1)
    <3>1. LibStep(1, p)
      BY <1>0, <2>1, <2>4, LibrarySteps
    <3>2. s_pc' \in {"llc", "crashed"} /\ pc'[1] = "client"
      BY <1>0, <2>4
      DEF S!MacSent, S!MacReceived, S!MacNothing, SendChecker, RecvChecker, Returns, Return, Goto, TypeOK
    <3>3. Joined(1, s_pc)'
      BY <3>2 DEF Joined, At
    <3>4. Joined(0, m_pc)'
      BY <1>0, <1>2, <3>1, OthersStay
    <3>5. S!Next
      BY <2>4 DEF S!Next, S!MacStep
    <3>6. QED
      BY <1>0, <1>1, <2>1, <3>1, <3>3, <3>4, <3>5 DEF Next
  <2>5. CASE RecvTake(1) /\ S!MacFill(recv_data[1])
    <3>1. LibStep(1, p)
      BY <1>0, <2>1, <2>5, LibrarySteps
    <3>2. s_pc' = "filled" /\ pc'[1] = "r_checker"
      BY <1>0, <2>5 DEF S!MacFill, RecvTake, Goto, TypeOK
    <3>3. Joined(1, s_pc)'
      BY <3>2 DEF Joined, At
    <3>4. Joined(0, m_pc)'
      BY <1>0, <1>2, <3>1, OthersStay
    <3>5. recv_data[1] \in S!Heard
      <4>1. recv_data[1] \in SP!Heard
        BY <1>0, <2>5, HeardPackets DEF RecvTake
      <4>2. QED
        BY <4>1 DEF S!Heard, SP!Heard, S!TransId, SP!TransId, S!TRANS_ID_START, SP!TRANS_ID_START,
                    S!TRANS_ID_MAX, SP!TRANS_ID_MAX
    <3>6. S!Next
      BY <2>5, <3>5 DEF S!Next, S!MacStep
    <3>7. QED
      BY <1>0, <1>1, <2>1, <3>1, <3>3, <3>4, <3>6 DEF Next
  <2>6. QED
    BY <1>4, <2>2, <2>3, <2>4, <2>5 DEF SlaveMac
<1>5. CASE /\ Inside(1) \/ SendPut(1, s_data[Head(s_send_list)])
           /\ UNCHANGED slaveVars
  <2>1. s_pc' = s_pc /\ UNCHANGED S!tsmVars
    BY <1>5 DEF slaveVars, S!tsmVars, S!sendVars, S!recvVars
  <2>2. \E p \in Payload : LibStep(1, p)
    <3>1. CASE Inside(1)
      BY <1>0, <3>1, PayloadExists, LibrarySteps
    <3>2. CASE SendPut(1, s_data[Head(s_send_list)])
      <4>1. pc[1] = "s_put"
        BY <3>2 DEF SendPut, At
      <4>2. s_pc = "send"
        BY <1>0, <4>1 DEF Joined, M!PC, At, DataPC
      <4>3. s_data[Head(s_send_list)] \in Payload
        BY <4>2, SentPackets
      <4>4. QED
        BY <1>0, <3>2, <4>3, LibrarySteps
    <3>3. QED
      BY <1>5, <3>1, <3>2
  <2>3. Joined(1, s_pc)'
    BY <1>0, <1>5, <2>1, InsideJoined DEF Joined
  <2>4. Joined(0, m_pc)'
    BY <1>0, <1>2, <2>2, OthersStay
  <2>5. QED
    BY <1>0, <1>1, <2>1, <2>2, <2>3, <2>4 DEF Next
<1>6. QED
  BY <1>3, <1>4, <1>5 DEF SlaveStep

\* The clock runs for the radio and for the master's timer.
LEMMA TickMoves ==
  ASSUME LinkInv, LinkTick
  PROVE  /\ [Next]_vars
         /\ M!Next
         /\ UNCHANGED S!tsmVars
         /\ lag' \in [ID -> 0 .. MaxLag]
         /\ Joined(ID_M, m_pc)' /\ Joined(ID_S, s_pc)'
<1>1. [Next]_vars
  BY DEF LinkTick, Next
<1>2. M!Next
  BY DEF LinkTick, masterVars, M!Next, M!Tick, M!tsmVars, M!sendVars, M!recvVars
<1>3. UNCHANGED S!tsmVars
  BY DEF LinkTick, slaveVars, S!tsmVars, S!sendVars, S!recvVars
<1>4. lag' \in [ID -> 0 .. MaxLag]
  <2>1. lag \in [ID -> 0 .. MaxLag] /\ MaxLag \in Nat
    BY LinkAssumption DEF LinkInv
  <2>2. \A i \in ID : (IF Rests(i) THEN 0 ELSE lag[i] + 1) \in 0 .. MaxLag
    BY <2>1 DEF LinkTick
  <2>3. QED
    BY <2>2 DEF LinkTick
<1>5. Joined(ID_M, m_pc)' /\ Joined(ID_S, s_pc)'
  BY DEF LinkInv, LinkTick, Tick, masterVars, slaveVars, Joined, At
<1>6. QED
  BY <1>1, <1>2, <1>3, <1>4, <1>5

\* Nothing moves.
LEMMA StutterMoves ==
  ASSUME LinkInv, UNCHANGED linkVars
  PROVE  /\ UNCHANGED vars /\ UNCHANGED M!vars /\ UNCHANGED S!tsmVars /\ UNCHANGED lag
         /\ Joined(ID_M, m_pc)' /\ Joined(ID_S, s_pc)'
<1>1. UNCHANGED <<vars, masterVars, m_timer, slaveVars, lag>>
  BY DEF linkVars
<1>2. UNCHANGED M!vars
  BY <1>1 DEF masterVars, M!vars, M!tsmVars, M!sendVars, M!recvVars
<1>3. UNCHANGED S!tsmVars
  BY <1>1 DEF slaveVars, S!tsmVars, S!sendVars, S!recvVars
<1>4. pc' = pc /\ op' = op /\ timeout' = timeout /\ m_pc' = m_pc /\ s_pc' = s_pc
  BY <1>1 DEF vars, callVars, masterVars, slaveVars
<1>5. Joined(ID_M, m_pc)' /\ Joined(ID_S, s_pc)'
  BY <1>4 DEF LinkInv, Joined, At
<1>6. QED
  BY <1>1, <1>2, <1>3, <1>5

\* The composition: a step of the link is one of the radio, one of the master
\* and one of the slave, as their own modules have it, or leaves them alone.
LEMMA LinkMoves ==
  ASSUME LinkInv, [LinkNext]_linkVars
  PROVE  /\ [Next]_vars /\ [M!Next]_(M!vars) /\ [S!Next]_(S!tsmVars)
         /\ lag' \in [ID -> 0 .. MaxLag]
         /\ Joined(ID_M, m_pc)' /\ Joined(ID_S, s_pc)'
<1>1. lag \in [ID -> 0 .. MaxLag]
  BY DEF LinkInv
<1>2. CASE MasterStep
  BY <1>1, <1>2, MasterMoves
<1>3. CASE SlaveStep
  BY <1>1, <1>3, SlaveMoves
<1>4. CASE LinkTick
  BY <1>4, TickMoves
<1>5. CASE UNCHANGED linkVars
  BY <1>1, <1>5, StutterMoves
<1>6. QED
  BY <1>2, <1>3, <1>4, <1>5 DEF LinkNext

-----------------------------------------------------------------------------
LEMMA LinkInitially == LinkInit => LinkInv
<1> SUFFICES ASSUME LinkInit PROVE LinkInv
  OBVIOUS
<1>1. Init /\ MP!Init /\ SP!Init /\ lag = [i \in ID |-> 0]
  BY MasterSame, SlaveSame DEF LinkInit
<1>2. RInv
  BY <1>1, InitIInv, RadioInit DEF RInv
<1>3. MP!IInv
  BY <1>1, MasterAssumptions, MP!MasterInit
<1>4. SP!KeptInv
  BY <1>1, SlaveAssumptions, SP!KeptInit
<1>5. MP!QueueIsCurrent /\ SP!QueueIsAnswer
  BY <1>1 DEF MP!Init, MP!TsmInit, MP!QueueIsCurrent, SP!Init, SP!TsmInit, SP!QueueIsAnswer
<1>6. Joined(ID_M, m_pc) /\ Joined(ID_S, s_pc)
  BY <1>1 DEF MP!Init, MP!TsmInit, SP!Init, SP!TsmInit, Joined, Init, At, ID, ID_M, ID_S
<1>7. lag \in [ID -> 0 .. MaxLag]
  BY <1>1, LinkAssumption
<1>8. QED
  BY <1>2, <1>3, <1>4, <1>5, <1>6, <1>7 DEF LinkInv

LEMMA LinkKeeps == LinkInv /\ [LinkNext]_linkVars => LinkInv'
<1> SUFFICES ASSUME LinkInv, [LinkNext]_linkVars PROVE LinkInv'
  OBVIOUS
<1>1. [Next]_vars /\ [MP!Next]_(MP!vars) /\ [SP!Next]_(SP!tsmVars)
  BY LinkMoves, MasterSame, SlaveSame
<1>2. RInv'
  BY <1>1, NextIInv, RadioStep DEF LinkInv, RInv
<1>3. MP!IInv' /\ MP!QueueIsCurrent'
  BY <1>1, MasterAssumptions, MP!StepKeeps, MP!QueueStep DEF LinkInv
<1>4. SP!KeptInv'
  BY <1>1, SlaveAssumptions, SP!StepKeeps, SP!KeptStep DEF LinkInv, SP!KeptInv
<1>5. SP!QueueIsAnswer'
  BY <1>1, SlaveAssumptions, SP!AnswerStep DEF LinkInv
<1>6. QED
  BY <1>2, <1>3, <1>4, <1>5, LinkMoves DEF LinkInv

\* The invariants of the three components and where the two loops are.
THEOREM LinkInvariance == LinkSpec => []LinkInv
BY LinkInitially, LinkKeeps, PTL DEF LinkSpec

\* The radio of the link is the radio emulator: the loops call it as clients may.
THEOREM RunsTheRadio == LinkSpec => Spec
<1>1. LinkInit => Init
  BY DEF LinkInit
<1>2. LinkInv /\ [LinkNext]_linkVars => [Next]_vars
  BY LinkMoves
<1>3. QED
  BY <1>1, <1>2, LinkInvariance, PTL DEF LinkSpec, Spec

\* The master of the link is the master of Master.tla, which may be stalled at
\* any time and hears single packets only.
THEOREM RunsTheMaster == LinkSpec => M!Spec
<1>1. LinkInit => M!Init
  BY DEF LinkInit
<1>2. LinkInv /\ [LinkNext]_linkVars => [M!Next]_(M!vars)
  BY LinkMoves
<1>3. QED
  BY <1>1, <1>2, LinkInvariance, PTL DEF LinkSpec, M!Spec

\* The slave of the link is the slave of Slave.tla.
THEOREM RunsTheSlave == LinkSpec => S!Spec
<1>1. LinkInit => S!Init
  BY DEF LinkInit
<1>2. LinkInv /\ [LinkNext]_linkVars => [S!Next]_(S!tsmVars)
  BY LinkMoves
<1>3. QED
  BY <1>1, <1>2, LinkInvariance, PTL DEF LinkSpec, S!Spec

\* The types of all three and the bound on the lag of the threads.
THEOREM LinkTypes == LinkSpec => []LinkTypeOK
<1>1. LinkInv => LinkTypeOK
  <2> SUFFICES ASSUME LinkInv PROVE LinkTypeOK
    OBVIOUS
  <2>1. TypeOK
    BY DEF LinkInv, RInv, IInv
  <2>2. M!TypeOK
    BY MasterSame DEF LinkInv, MP!IInv, MP!TsmInv, MP!TypeOK
  <2>3. S!TypeOK
    BY SlaveSame DEF LinkInv, SP!KeptInv, SP!IInv, SP!TsmInv, SP!TypeOK
  <2>4. QED
    BY <2>1, <2>2, <2>3 DEF LinkInv, LinkTypeOK
<1>2. QED
  BY <1>1, LinkInvariance, PTL

\* The assertion in S_LLC_RESEND, with no condition left on what the slave hears.
THEOREM AnswerKept == LinkSpec => []SlaveKeptAnswer
<1>1. LinkInv => SlaveKeptAnswer
  BY SlaveSame DEF LinkInv, SP!KeptInv, SlaveKeptAnswer
<1>2. QED
  BY <1>1, LinkInvariance, PTL

-----------------------------------------------------------------------------
(* The timing of the two loops.                                             *)

\* What each thread's sleep says of its packet on the air.  Every send of the
\* link waits for the packet to be off the air.
SleepTimed ==
  \A i \in ID :
    /\ sleep[i] > 0 => pc[i] \in {"s_sleep", "d_sleep"}
    /\ At(i, "d_sleep") => sleep[i] <= 1
    /\ At(i, "s_sleep") => IF is_send[i] THEN sleep[i] = 0
                                         ELSE send_age[i] + sleep[i] = TimeOnAir
    /\ ~is_send[i] => pc[i] \in {"s_sleep", "s_flush"}
    /\ pc[i] \in SendPC => timeout[i] > 0 /\ pc[i] # "s_err"

\* Loop i, with its MAC worker at mac, has put its packet on the air.
HasPut(i, mac) == mac = "send" /\ pc[i] \in {"s_sleep", "s_flush", "s_checker"}

\* The master's timer while its packet is queued and on the air: it cannot run
\* out before the master has begun to listen for the answer.
MasterTimed ==
  /\ m_send_link = "ok"
  /\ m_send_list # <<>> => m_llc = "SEND_ALL"
  /\ m_send_list # <<>> /\ ~HasPut(ID_M, m_pc) => m_timer <= lag[ID_M]
  /\ HasPut(ID_M, m_pc) =>
       m_timer + sleep[ID_M] <= TimeOnAir + MaxLag + (IF sleep[ID_M] > 0 THEN 0 ELSE lag[ID_M])
  /\ m_pc = "recv" => timeout[ID_M] = 3 * TimeOnAir

\* The stages of an exchange: the master's packet is on the air, lies in the
\* slave's box, is with the slave until the answer is on the air, and the
\* answer lies in the master's box.
AskOnAir == ~is_send[ID_M]
AskWaits == is_recieved[ID_S]
SlaveHolds ==
  \/ s_pc = "filled" \/ s_recv_list # <<>> \/ s_llc \in {"RECEIVED_ALL", "RESEND"}
  \/ s_send_list # <<>> /\ ~HasPut(ID_S, s_pc)
AnswerOnAir == ~is_send[ID_S]
AnswerWaits == is_recieved[ID_M]

Quiet == ~AskOnAir /\ ~AskWaits /\ ~SlaveHolds /\ ~AnswerOnAir /\ ~AnswerWaits

OneStage ==
  /\ AskOnAir => ~AskWaits /\ ~SlaveHolds /\ ~AnswerOnAir /\ ~AnswerWaits
  /\ AskWaits => ~SlaveHolds /\ ~AnswerOnAir /\ ~AnswerWaits
  /\ SlaveHolds => ~AnswerOnAir /\ ~AnswerWaits
  /\ AnswerOnAir => ~AnswerWaits

\* The master has sent and listens, or is on the way to, all through an exchange.
Waiting ==
  /\ m_llc = "SEND_ALL"
  /\ \/ HasPut(ID_M, m_pc)
     \/ /\ m_pc \in {"llc", "mac"} /\ m_send_list = <<>> /\ m_recv_list = <<>>
        /\ m_timer <= TimeOnAir + MaxLag + lag[ID_M]
     \/ m_pc = "recv"

\* For how long the master has slept since it put its packet on the air, at
\* most as long as that is ago.
Slept ==
  TimeOnAir + time_sleep[ID_M] + ((IF At(ID_M, "d_sleep") THEN 1 ELSE 0) - sleep[ID_M])

\* The master is past its look into the box, but will look again.
LooksAgain == time_sleep[ID_M] + 1 < 3 * TimeOnAir

\* How far the master can have got when the slave is where it is.
Deadlines ==
  /\ AskWaits =>
       Slept <= IF At(ID_S, "d_checker") /\ ~ready[ID_S] THEN TimeOnAir + lag[ID_S]
                ELSE IF sleep[ID_S] > 0 THEN TimeOnAir + MaxLag
                ELSE TimeOnAir + MaxLag + 1 + lag[ID_S]
  /\ SlaveHolds => Slept <= TimeOnAir + MaxLag + 1 + lag[ID_S]
  /\ AnswerOnAir =>
       IF sleep[ID_S] > 0
       THEN Slept <= 2 * TimeOnAir + 2 * MaxLag + (1 - sleep[ID_S])
       ELSE (pc[ID_M] \in {"d_read", "d_checker", "d_sleep"} => LooksAgain)
  /\ AnswerWaits =>
       ((At(ID_M, "d_checker") /\ ~ready[ID_M]) \/ At(ID_M, "d_sleep") => LooksAgain)

\* What is exchanged belongs to the master's transaction.
Current == M!Single(m_trans_id)
Exchanged ==
  /\ AskOnAir => send_data[ID_M] = Current
  /\ AskWaits => recv_data[ID_S] \in {Current, Garbled}
  /\ s_pc = "filled" => s_data[s_pack] \in {Current, Garbled}
  /\ s_recv_list # <<>> => s_data[Head(s_recv_list)] = Current
  /\ s_llc \in {"RECEIVED_ALL", "RESEND"} \/ (s_send_list # <<>> /\ ~HasPut(ID_S, s_pc))
     => s_trans_id = m_trans_id
  /\ AnswerOnAir => send_data[ID_S] = Current
  /\ AnswerWaits => recv_data[ID_M] \in {Current, Garbled}
  /\ m_pc = "filled" => m_data[m_pack] \in {Current, Garbled}
  /\ m_recv_list # <<>> => m_data[Head(m_recv_list)] = Current
  /\ (AnswerOnAir \/ AnswerWaits \/ m_pc = "filled" \/ m_recv_list # <<>>)
     => s_trans_id = m_trans_id

TimedInv ==
  /\ SleepTimed
  /\ MasterTimed
  /\ OneStage
  /\ (~Quiet => Waiting)
  /\ Deadlines
  /\ Exchanged
  /\ AckMatches
  /\ err = 0

-----------------------------------------------------------------------------
(* Each thread's own timing.                                                *)

LEMMA WorkerSends ==
  ASSUME TypeOK, ShadowWorker
  PROVE  /\ send_age' = send_age
         /\ \A i \in ID : is_send'[i] = (is_send[i] \/ send_age[i] = TimeOnAir)
BY DEF ShadowWorker, TypeOK, Due

LEMMA SleepTypes ==
  ASSUME TypeOK
  PROVE  /\ TimeOnAir \in Nat /\ TimeOnAir > 0
         /\ \A i \in ID : /\ is_send[i] \in BOOLEAN /\ is_recieved[i] \in BOOLEAN
                          /\ ready[i] \in BOOLEAN
                          /\ sleep[i] \in Nat /\ sleep[i] <= TimeOnAir
                          /\ send_age[i] \in Nat /\ send_age[i] <= TimeOnAir
                          /\ time_sleep[i] \in Nat /\ timeout[i] \in Nat
<1>1. TimeOnAir \in Nat /\ TimeOnAir > 0 /\ Timeouts \cup {0} \subseteq Nat
  BY WlEnvAssumption
<1>2. \A i \in ID : sleep[i] \in 0 .. TimeOnAir /\ send_age[i] \in 0 .. TimeOnAir
  BY DEF TypeOK
<1>3. \A i \in ID : timeout[i] \in Nat
  BY <1>1 DEF TypeOK
<1>4. QED
  BY <1>1, <1>2, <1>3 DEF TypeOK

LEMMA SleepStep ==
  ASSUME IInv, SleepTimed, NEW i \in ID, NEW p, NEW t \in Timeouts, t > 0,
         SendCall(i, t) \/ RecvCall(i, t) \/ LibStep(i, p)
  PROVE  SleepTimed'
<1> DEFINE Own(j) ==
      /\ sleep[j] > 0 => pc[j] \in {"s_sleep", "d_sleep"}
      /\ At(j, "d_sleep") => sleep[j] <= 1
      /\ At(j, "s_sleep") => IF is_send[j] THEN sleep[j] = 0
                                           ELSE send_age[j] + sleep[j] = TimeOnAir
      /\ ~is_send[j] => pc[j] \in {"s_sleep", "s_flush"}
      /\ pc[j] \in SendPC => timeout[j] > 0 /\ pc[j] # "s_err"
<1>0. /\ TypeOK /\ \A j \in ID : Own(j)
      /\ TimeOnAir \in Nat /\ TimeOnAir > 0
      /\ \A j \in ID : /\ is_send[j] \in BOOLEAN
                       /\ sleep[j] \in Nat /\ sleep[j] <= TimeOnAir
                       /\ send_age[j] \in Nat /\ send_age[j] <= TimeOnAir
                       /\ timeout[j] \in Nat
  BY SleepTypes DEF IInv, SleepTimed
<1>1. \A j \in ID : j # i => /\ pc'[j] = pc[j] /\ timeout'[j] = timeout[j] /\ sleep'[j] = sleep[j]
                             /\ send_age'[j] = send_age[j]
                             /\ \/ is_send'[j] = is_send[j]
                                \/ is_send'[j] = (is_send[j] \/ send_age[j] = TimeOnAir)
  <2>1. \A j \in ID : j # i => pc'[j] = pc[j] /\ timeout'[j] = timeout[j]
    BY <1>0, OthersStay
  <2>2. \A j \in ID : j # i => sleep'[j] = sleep[j]
    BY <1>0
    DEF SendCall, RecvCall, Call, LibStep, SendWorker, SendCheck, SendErr, SendPut, SendWake,
      SendFlush, SendChecker, RecvWorker, DataWorker, DataRead, DataChecker, DataWake, RecvErr,
      RecvTake, RecvChecker, Sleep, TypeOK
  <2>3. CASE ShadowWorker
    BY <1>0, <2>1, <2>2, <2>3, WorkerSends
  <2>4. CASE ~ShadowWorker
    <3>1. \A j \in ID : j # i => is_send'[j] = is_send[j] /\ send_age'[j] = send_age[j]
      BY <1>0, <2>4
      DEF SendCall, RecvCall, Call, LibStep, SendWorker, SendCheck, SendErr, SendPut, SendWake,
        SendFlush, SendChecker, RecvWorker, DataWorker, DataRead, DataChecker, DataWake, RecvErr,
        RecvTake, RecvChecker, ShadowChecker, airVars, TypeOK
    <3>2. QED
      BY <2>1, <2>2, <3>1
  <2>5. QED
    BY <2>3, <2>4
<1>2. \A j \in ID : j # i => Own(j)'
  BY <1>0, <1>1 DEF At
<1>3. Own(i)'
  <2> USE DEF At, Goto
  <2>1. CASE SendCall(i, t) \/ RecvCall(i, t)
    BY <1>0, <2>1 DEF SendCall, RecvCall, Call, airVars, SendPC, TypeOK
  <2>2. CASE SendWorker(i) \/ SendFlush(i) \/ RecvWorker(i) \/ DataWorker(i)
    <3>1. ShadowWorker
      BY <2>2 DEF SendWorker, SendFlush, RecvWorker, DataWorker
    <3>2. /\ send_age'[i] = send_age[i] /\ is_send'[i] = (is_send[i] \/ send_age[i] = TimeOnAir)
          /\ sleep' = sleep /\ timeout' = timeout
      BY <1>0, <2>2, <3>1, WorkerSends DEF SendWorker, SendFlush, RecvWorker, DataWorker
    <3>3. pc[i] = "s_flush" => is_send'[i]
      BY <3>2 DEF IInv, SleepCovers
    <3>4. \/ pc[i] = "s_worker" /\ pc'[i] = "s_check"
          \/ pc[i] = "s_flush" /\ pc'[i] = "s_checker"
          \/ pc[i] = "r_worker" /\ pc'[i] = "d_worker"
          \/ pc[i] = "d_worker" /\ pc'[i] = "d_read"
      BY <1>0, <2>2 DEF SendWorker, SendFlush, RecvWorker, DataWorker, TypeOK
    <3>5. QED
      BY <1>0, <3>2, <3>3, <3>4 DEF SendPC
  <2>3. CASE SendPut(i, p)
    BY <1>0, <2>3 DEF SendPut, Sleep, SendPC, TypeOK
  <2>4. CASE SendCheck(i) \/ SendErr(i) \/ SendWake(i)
    BY <1>0, <2>4 DEF SendCheck, SendErr, SendWake, airVars, SendPC, TypeOK
  <2>5. CASE DataChecker(i) \/ DataWake(i)
    <3>1. is_send' = is_send /\ send_age' = send_age
      BY <2>5 DEF DataChecker, DataWake, ShadowChecker, airVars
    <3>2. \/ pc'[i] \in {"client", "r_take", "r_err", "d_worker"} /\ sleep' = sleep
          \/ pc'[i] = "d_sleep" /\ sleep'[i] = 1
      BY <1>0, <2>5 DEF DataChecker, DataWake, DataReturn, Return, Sleep, TypeOK
    <3>3. pc[i] \in {"d_checker", "d_sleep"} /\ (pc[i] = "d_sleep" => sleep[i] = 0)
      BY <2>5 DEF DataChecker, DataWake
    <3>4. QED
      BY <1>0, <3>1, <3>2, <3>3 DEF SendPC
  <2>6. CASE SendChecker(i) \/ RecvChecker(i) \/ RecvErr(i)
    BY <1>0, <2>6 DEF SendChecker, RecvChecker, RecvErr, ShadowChecker, Return, airVars, SendPC, TypeOK
  <2>7. CASE DataRead(i) \/ RecvTake(i)
    BY <1>0, <2>7 DEF DataRead, RecvTake, airVars, SendPC, TypeOK
  <2>8. QED
    BY <2>1, <2>2, <2>3, <2>4, <2>5, <2>6, <2>7 DEF LibStep
<1>4. QED
  BY <1>2, <1>3 DEF SleepTimed, At

LEMMA SleepTick ==
  ASSUME TypeOK, SleepTimed, Tick
  PROVE  SleepTimed'
<1>1. /\ TimeOnAir \in Nat /\ TimeOnAir > 0
      /\ \A j \in ID : /\ is_send[j] \in BOOLEAN
                       /\ sleep[j] \in Nat /\ send_age[j] \in Nat /\ send_age[j] <= TimeOnAir
  BY SleepTypes
<1>2. /\ \A j \in ID : /\ sleep'[j] = (IF sleep[j] > 0 THEN sleep[j] - 1 ELSE 0)
                       /\ send_age'[j] = (IF send_age[j] < TimeOnAir THEN send_age[j] + 1 ELSE TimeOnAir)
      /\ is_send' = is_send /\ pc' = pc /\ timeout' = timeout
  BY DEF Tick
<1>3. QED
  BY <1>1, <1>2 DEF SleepTimed, At

-----------------------------------------------------------------------------
(* Where the two loops can be.                                              *)

LEMMA Numbers ==
  ASSUME LinkInv, MaxLag < TimeOnAir
  PROVE  /\ TypeOK /\ 0 \in ID /\ 1 \in ID /\ ID = {0, 1} /\ 0 # 1
         /\ TimeOnAir \in Nat /\ MaxLag \in Nat /\ MaxLag < TimeOnAir
         /\ \A i \in ID : /\ is_send[i] \in BOOLEAN /\ is_recieved[i] \in BOOLEAN
                          /\ ready[i] \in BOOLEAN /\ pc[i] \in PC
                          /\ sleep[i] \in Nat /\ sleep[i] <= TimeOnAir
                          /\ send_age[i] \in Nat /\ send_age[i] <= TimeOnAir
                          /\ time_sleep[i] \in Nat /\ timeout[i] \in Nat
                          /\ lag[i] \in Nat /\ lag[i] <= MaxLag
         /\ m_timer \in Nat /\ m_timer <= 3 * TimeOnAir
<1>1. TypeOK /\ ID = {0, 1}
  BY DEF LinkInv, RInv, IInv, ID
<1>2. \A i \in ID : lag[i] \in 0 .. MaxLag
  <2>1. lag \in [ID -> 0 .. MaxLag]
    BY DEF LinkInv
  <2>2. QED
    BY <2>1
<1>3. m_timer \in 0 .. 3 * TimeOnAir
  BY DEF LinkInv, MP!IInv
<1>4. TimeOnAir \in Nat /\ 3 * TimeOnAir \in Nat /\ MaxLag \in Nat
  BY WlEnvAssumption, LinkAssumption
<1>5. \A i \in ID : pc[i] \in PC
  BY <1>1 DEF TypeOK
<1>6. \A i \in ID : lag[i] \in Nat /\ lag[i] <= MaxLag
  BY <1>2, <1>4
<1>7. m_timer \in Nat /\ m_timer <= 3 * TimeOnAir
  BY <1>3, <1>4
<1>8. QED
  BY <1>1, <1>4, <1>5, <1>6, <1>7, SleepTypes

LEMMA SingleTail == \A x : Tail(<<x>>) = <<>> /\ Head(<<x>>) = x
OBVIOUS

\* A sequence of at most one pack.
LEMMA OnePack ==
  ASSUME NEW P, NEW s \in Seq(P), Len(s) <= 1, s # <<>>
  PROVE  Tail(s) = <<>> /\ s = <<Head(s)>>
<1>1. Len(s) = 1
  <2>1. Len(s) \in Nat /\ Len(s) >= 1
    OBVIOUS
  <2>2. \A n \in Nat : n >= 1 /\ n <= 1 => n = 1
    OBVIOUS
  <2>3. QED
    BY <2>1, <2>2
<1>2. s = <<s[1]>>
  BY <1>1
<1>3. Tail(<<s[1]>>) = <<>> /\ Head(<<s[1]>>) = s[1]
  BY SingleTail
<1>4. QED
  BY <1>2, <1>3

LEMMA MasterWhere ==
  ASSUME LinkInv
  PROVE  /\ m_pc \in {"llc", "mac", "send", "recv", "filled", "crashed"}
         /\ m_llc \in {"IDLE", "SEND_ALL", "RECEIVED_ALL", "RESEND"}
         /\ m_pc # "llc" => m_llc = "SEND_ALL" /\ m_recv_list = <<>>
         /\ m_recv_list # <<>> => /\ m_llc = "SEND_ALL" /\ m_send_list = <<>>
                                  /\ m_recv_list = <<Head(m_recv_list)>>
         /\ m_pc = "send" => m_send_list # <<>>
         /\ m_send_list # <<>> => /\ m_pc \notin {"recv", "filled"}
                                  /\ m_llc \in {"SEND_ALL", "RESEND"}
                                  /\ Tail(m_send_list) = <<>>
         /\ m_trans_id \in 0 .. 3
         /\ m_pc \in {"recv", "filled"} => m_pack \in MP!RecvPack
<1>1. MP!IInv /\ MP!QueueIsCurrent
  BY DEF LinkInv
<1>2. MP!ReceiveQueue("SEND_ALL") /\ MP!SendQueue /\ MP!TsmTypeOK /\ m_trans_id \in 0 .. 3
  BY <1>1 DEF MP!IInv, MP!TsmInv, MP!TransId, MP!TRANS_ID_START, MP!TRANS_ID_MAX
<1>3. m_recv_list \in Seq(MP!RecvPack) /\ Len(m_recv_list) <= 1
  BY <1>2 DEF MP!TsmTypeOK, MP!ReceiveQueue
<1>4. m_send_list # <<>> => Tail(m_send_list) = <<>>
  BY <1>1, SingleTail DEF MP!QueueIsCurrent
<1>5. m_recv_list # <<>> => m_recv_list = <<Head(m_recv_list)>>
  BY <1>3, OnePack
<1>6. QED
  BY <1>1, <1>2, <1>4, <1>5
  DEF MP!ReceiveQueue, MP!SendQueue, MP!QueueIsCurrent, MP!TsmTypeOK, MP!PC, MP!State

LEMMA SlaveWhere ==
  ASSUME LinkInv
  PROVE  /\ s_pc \in {"llc", "mac", "send", "recv", "filled", "crashed"}
         /\ s_pc # "llc" => s_llc = "IDLE" /\ s_recv_list = <<>>
         /\ s_recv_list # <<>> => /\ s_llc = "IDLE" /\ s_pc = "llc" /\ s_send_list = <<>>
                                  /\ s_recv_list = <<Head(s_recv_list)>>
         /\ s_pc = "send" => s_send_list # <<>>
         /\ s_send_list # <<>> => /\ s_pc \notin {"recv", "filled"}
                                  /\ s_llc \notin {"RECEIVED_ALL", "RESEND"}
                                  /\ Tail(s_send_list) = <<>>
         /\ s_send_link = "ok"
         /\ s_pc \in {"recv", "filled"} => s_pack \in SP!RecvPack
<1>1. SP!IInv /\ SP!QueueIsAnswer
  BY DEF LinkInv, SP!KeptInv
<1>2. SP!ReceiveQueue("IDLE") /\ SP!SendQueue /\ SP!TsmTypeOK /\ SP!Answers
  BY <1>1 DEF SP!IInv, SP!TsmInv
<1>3. s_recv_list \in Seq(SP!RecvPack) /\ Len(s_recv_list) <= 1
  BY <1>2 DEF SP!TsmTypeOK, SP!ReceiveQueue
<1>4. s_send_list \in Seq(SP!Pack) /\ Len(s_send_list) <= 1
  BY <1>2 DEF SP!TsmTypeOK, SP!Answers
<1>5. /\ s_recv_list # <<>> => s_recv_list = <<Head(s_recv_list)>>
      /\ s_send_list # <<>> => Tail(s_send_list) = <<>>
  BY <1>3, <1>4, OnePack
<1>6. QED
  BY <1>1, <1>2, <1>5 DEF SP!ReceiveQueue, SP!SendQueue, SP!Answers, SP!TsmTypeOK, SP!PC

\* Where a thread is in the library when its loop is not asleep in a call.
LEMMA Elsewhere ==
  ASSUME LinkInv
  PROVE  /\ \A i \in ID : pc[i] # "r_err"
         /\ m_pc \in {"llc", "mac", "crashed"} => pc[ID_M] = "client"
         /\ m_pc = "filled" => pc[ID_M] = "r_checker"
         /\ m_pc = "send" => pc[ID_M] \in SendPC
         /\ m_pc = "recv" => pc[ID_M] \in {"r_worker", "r_take"} \cup DataPC
         /\ s_pc \in {"llc", "mac", "crashed"} => pc[ID_S] = "client"
         /\ s_pc = "filled" => pc[ID_S] = "r_checker"
         /\ s_pc = "send" => pc[ID_S] \in SendPC
         /\ s_pc = "recv" => pc[ID_S] \in {"r_worker", "r_take"} \cup DataPC
         /\ time_sleep[ID_M] # 0 => pc[ID_M] \in DataPC
<1>1. Joined(ID_M, m_pc) /\ Joined(ID_S, s_pc) /\ TimeSleepLocal
  BY DEF LinkInv, RInv, IInv
<1>2. QED
  BY <1>1, MasterWhere, SlaveWhere
  DEF Joined, At, ID_M, ID_S, ID, SendPC, DataPC, TimeSleepLocal

\* While the slave holds the packet, its thread does not sleep.
LEMMA HolderAwake ==
  ASSUME LinkInv, SleepTimed, SlaveHolds
  PROVE  sleep[ID_S] = 0 /\ pc[ID_S] \notin {"s_sleep", "s_flush", "s_checker"} \cup DataPC
<1>1. pc[ID_S] \notin {"s_sleep", "s_flush", "s_checker"} \cup DataPC
  BY SlaveWhere, Elsewhere DEF SlaveHolds, HasPut, SendPC, DataPC
<1>2. QED
  BY <1>1, SleepTypes DEF SleepTimed, ID, ID_S, LinkInv, RInv, IInv, DataPC

LEMMA SleepCalls ==
  ASSUME LinkInv, SleepTimed, NEW i \in ID,
         SendCall(i, 2 * TimeOnAir) \/ RecvCall(i, 3 * TimeOnAir) \/ RecvCall(i, SlaveTimeout)
  PROVE  SleepTimed'
<1>1. IInv
  BY DEF LinkInv, RInv
<1>2. \A t \in {2 * TimeOnAir, 3 * TimeOnAir, SlaveTimeout} : t \in Timeouts /\ t > 0
  BY WlEnvAssumption, LinkAssumption
<1>3. PICK t \in {2 * TimeOnAir, 3 * TimeOnAir, SlaveTimeout} : SendCall(i, t) \/ RecvCall(i, t)
  OBVIOUS
<1>4. QED
  BY <1>1, <1>2, <1>3, SleepStep

LEMMA SleepLib ==
  ASSUME LinkInv, SleepTimed, NEW i \in ID, NEW p, LibStep(i, p)
  PROVE  SleepTimed'
<1>1. IInv
  BY DEF LinkInv, RInv
<1>2. 2 * TimeOnAir \in Timeouts /\ 2 * TimeOnAir > 0
  BY WlEnvAssumption, LinkAssumption
<1>3. QED
  BY <1>1, <1>2, SleepStep

-----------------------------------------------------------------------------
(* The steps of the two LLC workers.                                        *)

\* A pack is queued on an empty queue.
LEMMA CommitsOne ==
  /\ \A p : m_send_list = <<>> /\ M!PackCommit(p) => m_send_list' = <<p>> /\ m_send_link' = m_send_link
  /\ \A p : s_send_list = <<>> /\ S!PackCommit(p) => s_send_list' = <<p>>
<1>1. \A p : Append(<<>>, p) = <<p>> /\ ~(\E n \in 1 .. Len(<<>>) : <<>>[n] = p)
  OBVIOUS
<1>2. QED
  BY <1>1 DEF M!PackCommit, S!PackCommit

\* What a step of stk_m_llc_worker_v3 changes that the slave or the clock may
\* depend on.
LEMMA MasterLlc ==
  ASSUME LinkInv, MasterTimed, M!LlcStep
  PROVE  /\ m_pc = "llc"
         /\ \/ /\ m_llc = "IDLE" /\ m_llc' = "SEND_ALL" /\ m_pc' = "llc" /\ m_timer' = 0
               /\ m_send_link' = m_send_link /\ m_recv_list = <<>> /\ m_recv_list' = <<>>
               /\ m_test_trans_id' = m_test_trans_id /\ m_trans_id' = M!NextTransId(m_trans_id)
            \/ /\ m_llc = "SEND_ALL" /\ m_llc' = "RECEIVED_ALL" /\ m_pc' = "llc"
               /\ m_recv_list # <<>> /\ m_recv_list' = <<>>
               /\ m_test_trans_id' = m_data[Head(m_recv_list)].id
               /\ UNCHANGED <<m_trans_id, m_send_list, m_send_link, m_timer>>
            \/ /\ m_llc = "SEND_ALL" /\ m_llc' = "RESEND" /\ m_pc' = "llc"
               /\ m_recv_list = <<>> /\ m_timer = 3 * TimeOnAir
               /\ UNCHANGED <<m_trans_id, m_send_list, m_send_link, m_recv_list, m_test_trans_id, m_timer>>
            \/ /\ m_llc = "SEND_ALL" /\ m_llc' = "SEND_ALL" /\ m_pc' = "mac"
               /\ m_recv_list = <<>>
               /\ UNCHANGED <<m_trans_id, m_send_list, m_send_link, m_recv_list, m_test_trans_id, m_timer>>
            \/ /\ m_llc = "RECEIVED_ALL" /\ m_llc' = "IDLE" /\ m_pc' = "llc"
               /\ UNCHANGED <<m_trans_id, m_send_list, m_send_link, m_recv_list, m_test_trans_id, m_timer>>
            \/ /\ m_llc = "RESEND" /\ m_llc' = "SEND_ALL" /\ m_pc' = "llc" /\ m_timer' = 0
               /\ m_send_link' = m_send_link /\ m_recv_list = <<>> /\ m_recv_list' = <<>>
               /\ UNCHANGED <<m_trans_id, m_test_trans_id>>
<1>1. m_pc = "llc"
  BY DEF M!LlcStep, M!Transact, M!Answer, M!Timeout, M!Wait, M!Finish, M!Resend, M!In
<1>3. CASE M!Transact
  <2>1. m_llc = "IDLE" /\ m_send_list = <<>> /\ m_recv_list = <<>>
    BY <1>3, MasterWhere DEF M!Transact, M!In
  <2>2. m_send_link' = m_send_link
    BY <1>3, <2>1, CommitsOne DEF M!Transact, M!SendSingle
  <2>3. QED
    BY <1>1, <1>3, <2>1, <2>2 DEF M!Transact, M!LlcTo, M!TimerStart, M!recvVars
<1>4. CASE M!Answer
  <2>1. m_recv_list' = <<>>
    <3>1. m_recv_list = <<Head(m_recv_list)>> /\ m_recv_list' = Tail(m_recv_list)
      BY <1>4, MasterWhere DEF M!Answer, M!MarkAsReceived
    <3>2. QED
      BY <3>1, SingleTail
  <2>2. QED
    BY <1>1, <1>4, <2>1 DEF M!Answer, M!In, M!LlcTo, M!sendVars
<1>5. CASE M!Timeout \/ M!Wait \/ M!Finish
  BY <1>1, <1>5
  DEF M!Timeout, M!Wait, M!Finish, M!In, M!LlcTo, M!sendVars, M!recvVars, M!TimerIsTimeouted
<1>6. CASE M!Resend
  <2>1. m_llc = "RESEND" /\ m_send_list = <<>> /\ m_recv_list = <<>>
    BY <1>6, MasterWhere DEF M!Resend, M!In, MasterTimed
  <2>2. m_send_link' = m_send_link
    BY <1>6, <2>1, CommitsOne DEF M!Resend
  <2>3. QED
    BY <1>1, <1>6, <2>1, <2>2 DEF M!Resend, M!LlcTo, M!TimerStart, M!recvVars
<1>7. QED
  BY <1>3, <1>4, <1>5, <1>6 DEF M!LlcStep

\* Nothing is exchanged, so little is left to show.
LEMMA QuietKeeps ==
  ASSUME Quiet', SleepTimed', MasterTimed', AckMatches', err' = 0,
         (m_pc = "filled" => m_data[m_pack] \in {Current, Garbled} /\ s_trans_id = m_trans_id)',
         (m_recv_list # <<>> => /\ m_data[Head(m_recv_list)] = Current
                                /\ s_trans_id = m_trans_id)'
  PROVE  TimedInv'
<1>1. OneStage' /\ Deadlines'
  BY DEF Quiet, OneStage, Deadlines
<1>2. Exchanged'
  BY DEF Quiet, Exchanged, SlaveHolds
<1>3. QED
  BY <1>1, <1>2 DEF TimedInv

\* Nothing but the master's own state changes.
LEMMA MasterLlcTimed ==
  ASSUME LinkInv, TimedInv, MaxLag < TimeOnAir, M!LlcStep, UNCHANGED <<vars, slaveVars, lag>>
  PROVE  TimedInv'
<1> USE DEF ID_M, ID_S
<1>1. /\ UNCHANGED <<is_send, send_age, send_data, is_recieved, recv_data, err, pc, timeout,
                     time_sleep, sleep, ready>>
      /\ UNCHANGED <<s_pc, s_llc, s_trans_id, s_send_list, s_recv_list, s_data, s_pack>>
      /\ UNCHANGED lag
  BY DEF vars, airVars, boxVars, callVars, slaveVars
<1>2. SleepTimed' /\ err' = 0
  BY <1>1 DEF TimedInv, SleepTimed, At
<1>3. /\ AskOnAir' = AskOnAir /\ AskWaits' = AskWaits /\ SlaveHolds' = SlaveHolds
      /\ AnswerOnAir' = AnswerOnAir /\ AnswerWaits' = AnswerWaits
  BY <1>1 DEF AskOnAir, AskWaits, SlaveHolds, AnswerOnAir, AnswerWaits, HasPut
<1>4. Quiet => Quiet'
  BY <1>3 DEF Quiet
<1>5. MasterTimed /\ Exchanged /\ AckMatches /\ (~Quiet => Waiting)
  BY DEF TimedInv
<1>6. ASSUME m_llc # "SEND_ALL" \/ m_recv_list # <<>> \/ m_timer = 3 * TimeOnAir PROVE Quiet
  BY <1>5, <1>6, Numbers, MasterLlc DEF Waiting, HasPut
<1>7. m_pc = "llc" /\ m_pc' \in {"llc", "mac"}
  BY <1>5, MasterLlc
<1>8. ASSUME m_llc = "SEND_ALL", m_llc' = "SEND_ALL", m_pc' = "mac", m_recv_list = <<>>,
             UNCHANGED <<m_trans_id, m_send_list, m_send_link, m_recv_list, m_test_trans_id, m_timer>>
      PROVE  TimedInv'
  <2>1. MasterTimed'
    BY <1>1, <1>5, <1>7, <1>8 DEF MasterTimed, HasPut
  <2>2. (~Quiet => Waiting)'
    BY <1>1, <1>3, <1>5, <1>7, <1>8 DEF Waiting, HasPut, Quiet
  <2>3. OneStage'
    BY <1>3 DEF TimedInv, OneStage
  <2>4. Deadlines'
    BY <1>1, <1>3 DEF TimedInv, Deadlines, Slept, LooksAgain, At
  <2>5. Exchanged'
    BY <1>1, <1>3, <1>5, <1>7, <1>8 DEF Exchanged, Current, HasPut
  <2>6. AckMatches'
    BY <1>8 DEF AckMatches
  <2>7. QED
    BY <1>2, <2>1, <2>2, <2>3, <2>4, <2>5, <2>6 DEF TimedInv
<1>9. ASSUME m_llc # "SEND_ALL" \/ m_recv_list # <<>> \/ m_timer = 3 * TimeOnAir,
             ~(m_llc = "SEND_ALL" /\ m_llc' = "SEND_ALL")
      PROVE  TimedInv'
  <2>1. Quiet'
    BY <1>4, <1>6, <1>9
  <2>2. MasterTimed'
    <3>1. m_send_list' # <<>> => m_llc' = "SEND_ALL" /\ m_timer' <= lag'[0]
      <4>1. CASE m_llc \in {"IDLE", "RESEND"}
        BY <1>1, <1>5, <4>1, MasterLlc, Numbers
      <4>2. CASE m_llc = "RECEIVED_ALL"
        BY <1>5, <4>2, MasterLlc, MasterWhere
      <4>3. CASE m_llc = "SEND_ALL" /\ m_recv_list # <<>>
        BY <1>5, <1>9, <4>3, MasterLlc, MasterWhere
      <4>4. CASE m_llc = "SEND_ALL" /\ m_recv_list = <<>>
        <5>1. m_timer = 3 * TimeOnAir /\ m_send_list' = m_send_list
          BY <1>5, <1>9, <4>4, MasterLlc
        <5>2. m_send_list # <<>> => m_timer <= lag[0]
          BY <1>5, <1>7 DEF MasterTimed, HasPut
        <5>3. QED
          BY <5>1, <5>2, Numbers
      <4>5. QED
        BY <4>1, <4>2, <4>3, <4>4, MasterWhere
    <3>2. m_send_link' = "ok"
      BY <1>5, MasterLlc DEF MasterTimed
    <3>3. QED
      BY <1>7, <3>1, <3>2 DEF MasterTimed, HasPut
  <2>3. m_recv_list' = <<>>
    BY <1>5, <1>9, MasterLlc, MasterWhere
  <2>4. AckMatches'
    <3>1. CASE m_llc' = "RECEIVED_ALL"
      <4>1. m_recv_list # <<>> /\ m_test_trans_id' = m_data[Head(m_recv_list)].id
            /\ m_trans_id' = m_trans_id
        BY <1>5, <3>1, MasterLlc
      <4>2. m_data[Head(m_recv_list)].id = m_trans_id
        BY <1>5, <4>1 DEF Exchanged, Current, M!Single
      <4>3. QED
        BY <4>1, <4>2 DEF AckMatches
    <3>2. QED
      BY <3>1 DEF AckMatches
  <2>5. QED
    BY <1>2, <1>7, <2>1, <2>2, <2>3, <2>4, QuietKeeps
<1>10. QED
  BY <1>5, <1>8, <1>9, MasterLlc

\* What a step of stk_s_llc_worker_v3 changes, when the packet it looks at is a
\* single packet of the master's transaction.
LEMMA SlaveLlc ==
  ASSUME LinkInv, TimedInv, S!LlcStep
  PROVE  /\ s_pc = "llc" /\ s_pc' \in {"llc", "mac"}
         /\ \/ /\ s_llc \in {"IDLE", "SEND_ALL"} /\ s_recv_list = <<>> /\ s_llc' = "IDLE"
               /\ UNCHANGED <<s_trans_id, s_send_list, s_recv_list>>
            \/ /\ s_llc = "IDLE" /\ s_recv_list # <<>> /\ s_llc' = "RESEND"
               /\ s_trans_id = m_trans_id /\ s_trans_id' = s_trans_id
               /\ s_recv_list' = <<>> /\ s_send_list' = <<>>
            \/ /\ s_llc = "IDLE" /\ s_recv_list # <<>> /\ s_llc' = "RECEIVED_ALL"
               /\ s_trans_id # m_trans_id /\ s_trans_id' = m_trans_id
               /\ s_recv_list' = <<>> /\ s_send_list' = <<>>
            \/ /\ s_llc \in {"RECEIVED_ALL", "RESEND"} /\ s_recv_list = <<>>
               /\ s_llc' \in {"IDLE", "SEND_ALL"} /\ s_llc' # s_llc /\ s_send_list' # <<>>
               /\ s_trans_id' = s_trans_id /\ s_recv_list' = <<>>
<1>1. s_pc = "llc" /\ s_pc' \in {"llc", "mac"}
  BY DEF S!LlcStep, S!Listen, S!Look, S!Reset, S!Repeated, S!Fresh, S!Reply, S!Finish, S!Resend,
         S!In, S!LlcTo
<1>2. ASSUME S!Look
      PROVE  /\ s_llc = "IDLE" /\ s_recv_list # <<>> /\ S!First.type = "SINGLE"
             /\ S!First.id = m_trans_id /\ s_recv_list' = <<>> /\ s_send_list' = <<>>
  <2>1. s_llc = "IDLE" /\ s_recv_list # <<>> /\ s_recv_list' = Tail(s_recv_list)
        /\ s_send_list' = s_send_list
    BY <1>2 DEF S!Look, S!In, S!MarkAsReceived
  <2>2. s_recv_list' = <<>> /\ s_send_list' = <<>>
    BY <2>1, SlaveWhere, SingleTail
  <2>3. S!First = Current
    BY <2>1 DEF S!First, TimedInv, Exchanged
  <2>4. QED
    BY <2>1, <2>2, <2>3 DEF Current, M!Single
<1>3. CASE S!Listen \/ S!Finish
  BY <1>1, <1>3, SlaveWhere DEF S!Listen, S!Finish, S!In, S!LlcTo, S!sendVars, S!recvVars
<1>4. CASE S!Reset
  BY <1>2, <1>4 DEF S!Reset
<1>5. CASE S!Repeated
  BY <1>1, <1>2, <1>5 DEF S!Repeated, S!LlcTo
<1>6. CASE S!Fresh
  BY <1>1, <1>2, <1>6 DEF S!Fresh, S!LlcTo
<1>7. CASE S!Reply \/ S!Resend
  <2>1. /\ s_llc \in {"RECEIVED_ALL", "RESEND"} /\ s_llc' \in {"IDLE", "SEND_ALL"}
        /\ UNCHANGED <<s_trans_id, s_recv_list>>
    BY <1>7 DEF S!Reply, S!Resend, S!In, S!LlcTo, S!recvVars
  <2>2. s_recv_list = <<>> /\ s_send_list = <<>>
    BY <2>1, SlaveWhere
  <2>3. \E p : S!PackCommit(p)
    BY <1>7 DEF S!Reply, S!Resend, S!SendSingle
  <2>4. s_send_list' # <<>>
    BY <2>2, <2>3, CommitsOne
  <2>5. QED
    BY <1>1, <2>1, <2>2, <2>4
<1>8. QED
  BY <1>3, <1>4, <1>5, <1>6, <1>7 DEF S!LlcStep

\* Nothing but the slave's own state changes.
LEMMA SlaveLlcTimed ==
  ASSUME LinkInv, TimedInv, S!LlcStep, UNCHANGED <<vars, masterVars, m_timer, lag>>
  PROVE  TimedInv'
<1> USE DEF ID_M, ID_S
<1>1. /\ UNCHANGED <<is_send, send_age, send_data, is_recieved, recv_data, err, pc, timeout,
                     time_sleep, sleep, ready>>
      /\ UNCHANGED <<m_pc, m_llc, m_trans_id, m_test_trans_id, m_send_list, m_send_link,
                     m_recv_list, m_data, m_pack, m_timer>>
      /\ UNCHANGED lag
  BY DEF vars, airVars, boxVars, callVars, masterVars
<1>2. SleepTimed' /\ MasterTimed' /\ AckMatches' /\ err' = 0
  BY <1>1 DEF TimedInv, SleepTimed, MasterTimed, AckMatches, HasPut, At
<1>3. SlaveHolds' = SlaveHolds
  BY SlaveLlc, SlaveWhere DEF SlaveHolds, HasPut
<1>4. /\ AskOnAir' = AskOnAir /\ AskWaits' = AskWaits
      /\ AnswerOnAir' = AnswerOnAir /\ AnswerWaits' = AnswerWaits
      /\ (~Quiet)' = ~Quiet
  BY <1>1, <1>3 DEF AskOnAir, AskWaits, AnswerOnAir, AnswerWaits, Quiet
<1>5. (~Quiet => Waiting)' /\ OneStage' /\ Deadlines'
  BY <1>1, <1>3, <1>4 DEF TimedInv, OneStage, Waiting, Deadlines, Slept, LooksAgain, HasPut, At
<1>6. s_trans_id' # s_trans_id => s_trans_id' = m_trans_id
  BY SlaveLlc
<1>7. s_llc' \in {"RECEIVED_ALL", "RESEND"} \/ s_send_list' # <<>> => s_trans_id' = m_trans_id
  <2>1. s_llc \in {"RECEIVED_ALL", "RESEND"} \/ s_send_list # <<>> => s_trans_id = m_trans_id
    BY SlaveLlc DEF TimedInv, Exchanged, HasPut
  <2>2. QED
    BY <2>1, SlaveLlc
<1>8. s_recv_list' = <<>> /\ s_pc' # "filled"
  BY SlaveLlc
<1>9. Exchanged'
  BY <1>1, <1>4, <1>6, <1>7, <1>8 DEF TimedInv, Exchanged, Current
<1>10. QED
  BY <1>2, <1>5, <1>9 DEF TimedInv

-----------------------------------------------------------------------------
(* The calls of the radio that the master's MAC worker begins and ends.     *)

\* With at most one packet on its way no channel check counts an error.
LEMMA CheckerCounts ==
  ASSUME TypeOK, OneStage, err = 0, ShadowChecker
  PROVE  err' = 0 /\ UNCHANGED <<is_send, send_age, send_data, is_recieved, recv_data>>
<1>1. ~BothSending(is_send)
  BY DEF OneStage, AskOnAir, AnswerOnAir, BothSending, ID, ID_M, ID_S
<1>2. err' = (0 + 0) % ErrMod
  BY <1>1 DEF ShadowChecker, Count, One
<1>3. 0 % ErrMod = 0
  BY WlEnvAssumption
<1>4. QED
  BY <1>2, <1>3 DEF ShadowChecker, airVars, boxVars

\* stk_mac_worker calls wl_sendPacketTimeout.
LEMMA MasterSendTimed ==
  ASSUME LinkInv, TimedInv, MaxLag < TimeOnAir, M!MacSend, SendCall(ID_M, 2 * TimeOnAir),
         UNCHANGED <<m_test_trans_id, m_timer, slaveVars, lag>>
  PROVE  TimedInv'
<1> USE DEF ID_M, ID_S
<1>1. /\ UNCHANGED <<is_send, send_age, send_data, is_recieved, recv_data, err,
                     time_sleep, sleep, ready>>
      /\ UNCHANGED <<s_pc, s_llc, s_trans_id, s_send_list, s_recv_list, s_data, s_pack>>
      /\ UNCHANGED <<m_llc, m_trans_id, m_test_trans_id, m_send_list, m_send_link,
                     m_recv_list, m_data, m_pack, m_timer>>
      /\ UNCHANGED lag
      /\ m_pc = "mac" /\ m_pc' = "send" /\ m_send_list # <<>>
      /\ pc[0] = "client" /\ pc'[0] = "s_worker" /\ pc'[1] = pc[1]
  BY Numbers DEF SendCall, Call, Goto, At, TypeOK, airVars, boxVars, slaveVars, M!MacSend, M!sendVars, M!recvVars
<1>2. SleepTimed'
  BY Numbers, SleepCalls DEF TimedInv
<1>3. Quiet
  BY <1>1 DEF TimedInv, Waiting, HasPut
<1>4. Quiet'
  BY <1>1, <1>3 DEF Quiet, AskOnAir, AskWaits, SlaveHolds, AnswerOnAir, AnswerWaits, HasPut
<1>5. MasterTimed'
  BY <1>1 DEF TimedInv, MasterTimed, HasPut
<1>6. AckMatches' /\ err' = 0 /\ m_recv_list' = <<>>
  BY <1>1, MasterWhere DEF TimedInv, AckMatches
<1>7. QED
  BY <1>1, <1>2, <1>4, <1>5, <1>6, QuietKeeps

\* wl_sendPacketTimeout returns.
LEMMA MasterSentTimed ==
  ASSUME LinkInv, TimedInv, MaxLag < TimeOnAir, M!MacSent, SendChecker(ID_M),
         UNCHANGED <<m_test_trans_id, m_timer, slaveVars, lag>>
  PROVE  TimedInv'
<1> USE DEF ID_M, ID_S
<1>0. OneStage /\ err = 0 /\ MasterTimed /\ SleepTimed /\ (~Quiet => Waiting)
  BY DEF TimedInv
<1>1. /\ UNCHANGED <<is_send, send_age, send_data, is_recieved, recv_data, time_sleep, sleep, ready>>
      /\ UNCHANGED <<s_pc, s_llc, s_trans_id, s_send_list, s_recv_list, s_data, s_pack>>
      /\ UNCHANGED <<m_llc, m_trans_id, m_test_trans_id, m_send_link,
                     m_recv_list, m_data, m_pack, m_timer>>
      /\ UNCHANGED lag /\ err' = 0
      /\ m_pc = "send" /\ m_pc' = "llc" /\ m_send_list' = <<>> /\ m_recv_list = <<>>
      /\ m_llc = "SEND_ALL"
      /\ pc[0] = "s_checker" /\ pc'[0] = "client" /\ pc'[1] = pc[1]
  <2>1. err' = 0 /\ UNCHANGED <<is_send, send_age, send_data, is_recieved, recv_data>>
    BY <1>0, Numbers, CheckerCounts DEF SendChecker
  <2>2. m_pc = "send" /\ m_send_link = "ok" /\ Tail(m_send_list) = <<>> /\ m_recv_list = <<>>
        /\ m_llc = "SEND_ALL"
    BY <1>0, MasterWhere DEF M!MacSent, MasterTimed
  <2>3. m_pc' = "llc" /\ m_send_list' = <<>> /\ m_send_link' = m_send_link
    BY <2>2 DEF M!MacSent
  <2>4. pc[0] = "s_checker" /\ pc'[0] = "client" /\ pc'[1] = pc[1]
        /\ UNCHANGED <<time_sleep, sleep, ready>>
    BY Numbers DEF SendChecker, Return, Goto, At, TypeOK
  <2>5. QED
    BY <2>1, <2>2, <2>3, <2>4 DEF M!MacSent, M!recvVars, slaveVars
<1>2. SleepTimed'
  BY Numbers, SleepLib DEF TimedInv, LibStep
<1>3. sleep[0] = 0
  BY <1>1, Numbers DEF TimedInv, SleepTimed
<1>4. m_timer <= TimeOnAir + MaxLag + lag[0]
  BY <1>0, <1>1, <1>3, Numbers DEF MasterTimed, HasPut
<1>5. MasterTimed'
  BY <1>0, <1>1 DEF MasterTimed, HasPut
<1>6. Waiting'
  BY <1>1, <1>4 DEF Waiting
<1>7. OneStage' /\ Exchanged' /\ AckMatches'
  BY <1>1 DEF TimedInv, OneStage, Exchanged, AckMatches, Current, AskOnAir, AskWaits, SlaveHolds,
    AnswerOnAir, AnswerWaits, HasPut
<1>8. Deadlines'
  <2>1. Slept' = Slept
    BY <1>1 DEF Slept, At
  <2>2. QED
    BY <1>1, <2>1 DEF TimedInv, Deadlines, AskOnAir, AskWaits, SlaveHolds, AnswerOnAir, AnswerWaits,
      HasPut, At
<1>9. QED
  BY <1>1, <1>2, <1>5, <1>6, <1>7, <1>8 DEF TimedInv

\* stk_mac_worker calls wl_receivePacketTimeout.
LEMMA MasterReceiveTimed ==
  ASSUME LinkInv, TimedInv, MaxLag < TimeOnAir, M!MacReceive, RecvCall(ID_M, 3 * TimeOnAir),
         UNCHANGED <<m_test_trans_id, m_timer, slaveVars, lag>>
  PROVE  TimedInv'
<1> USE DEF ID_M, ID_S
<1>0. OneStage /\ err = 0 /\ MasterTimed /\ SleepTimed /\ (~Quiet => Waiting)
  BY DEF TimedInv
<1>1. /\ UNCHANGED <<is_send, send_age, send_data, is_recieved, recv_data, err,
                     time_sleep, sleep, ready>>
      /\ UNCHANGED <<s_pc, s_llc, s_trans_id, s_send_list, s_recv_list, s_data, s_pack>>
      /\ UNCHANGED <<m_llc, m_trans_id, m_test_trans_id, m_send_list, m_send_link,
                     m_recv_list, m_data, m_timer>>
      /\ UNCHANGED lag
      /\ m_pc = "mac" /\ m_pc' = "recv" /\ m_send_list = <<>> /\ m_recv_list = <<>>
      /\ timeout'[0] = 3 * TimeOnAir /\ m_llc = "SEND_ALL"
      /\ pc[0] = "client" /\ pc'[0] = "r_worker" /\ pc'[1] = pc[1]
  BY Numbers, MasterWhere
  DEF RecvCall, Call, Goto, At, TypeOK, airVars, boxVars, slaveVars, M!MacReceive, M!sendVars
<1>2. SleepTimed'
  BY Numbers, SleepCalls DEF TimedInv
<1>3. MasterTimed'
  BY <1>0, <1>1 DEF MasterTimed, HasPut
<1>4. Waiting'
  BY <1>1 DEF Waiting
<1>5. OneStage' /\ Exchanged' /\ AckMatches'
  BY <1>1 DEF TimedInv, OneStage, Exchanged, AckMatches, Current, AskOnAir, AskWaits, SlaveHolds,
    AnswerOnAir, AnswerWaits, HasPut
<1>6. Deadlines'
  <2>1. Slept' = Slept
    BY <1>1 DEF Slept, At
  <2>2. QED
    BY <1>1, <2>1 DEF TimedInv, Deadlines, AskOnAir, AskWaits, SlaveHolds, AnswerOnAir, AnswerWaits,
      HasPut, At
<1>7. QED
  BY <1>0, <1>1, <1>2, <1>3, <1>4, <1>5, <1>6 DEF TimedInv

\* The master listens long enough: it does not give up on an answer that comes.
LEMMA GivesUpQuiet ==
  ASSUME LinkInv, TimedInv, MaxLag < TimeOnAir,
         At(ID_M, "d_sleep"), sleep[ID_M] = 0, 3 * TimeOnAir <= time_sleep[ID_M] + 1
  PROVE  Quiet
<1> USE DEF ID_M, ID_S
<1>1. Slept >= 4 * TimeOnAir /\ ~LooksAgain
  BY Numbers DEF Slept, LooksAgain
<1>2. ~AskOnAir
  BY Numbers DEF TimedInv, SleepTimed, AskOnAir, At
<1>3. ~AskWaits
  <2>1. \/ Slept <= TimeOnAir + lag[1] \/ Slept <= TimeOnAir + MaxLag
        \/ Slept <= TimeOnAir + MaxLag + 1 + lag[1] \/ ~AskWaits
    BY DEF TimedInv, Deadlines
  <2>2. QED
    BY <1>1, <2>1, Numbers DEF Slept
<1>4. ~SlaveHolds
  <2>1. Slept <= TimeOnAir + MaxLag + 1 + lag[1] \/ ~SlaveHolds
    BY DEF TimedInv, Deadlines
  <2>2. QED
    BY <1>1, <2>1, Numbers DEF Slept
<1>5. ~AnswerOnAir
  <2>1. ASSUME AnswerOnAir PROVE sleep[1] > 0 /\ Slept <= 2 * TimeOnAir + 2 * MaxLag + (1 - sleep[1])
    BY <1>1, <2>1 DEF TimedInv, Deadlines, At
  <2>2. QED
    BY <1>1, <2>1, Numbers DEF Slept
<1>6. ~AnswerWaits
  BY <1>1 DEF TimedInv, Deadlines
<1>7. QED
  BY <1>2, <1>3, <1>4, <1>5, <1>6 DEF Quiet

\* wl_receivePacketTimeout returns with nothing.
LEMMA MasterNothingTimed ==
  ASSUME LinkInv, TimedInv, MaxLag < TimeOnAir, M!MacNothing, DataWake(ID_M), Returns(ID_M),
         UNCHANGED <<m_test_trans_id, m_timer, slaveVars, lag>>
  PROVE  TimedInv'
<1> USE DEF ID_M, ID_S
<1>1. /\ UNCHANGED <<is_send, send_age, send_data, is_recieved, recv_data, err, sleep, ready>>
      /\ UNCHANGED <<s_pc, s_llc, s_trans_id, s_send_list, s_recv_list, s_data, s_pack>>
      /\ UNCHANGED <<m_llc, m_trans_id, m_test_trans_id, m_send_list, m_send_link,
                     m_recv_list, m_data, m_timer>>
      /\ UNCHANGED lag
      /\ m_pc = "recv" /\ m_pc' = "llc" /\ m_send_list = <<>> /\ m_recv_list = <<>>
      /\ pc[0] = "d_sleep" /\ pc'[0] = "client" /\ pc'[1] = pc[1] /\ sleep[0] = 0
      /\ timeout[0] <= time_sleep[0] + 1
  <2>1. timeout[0] <= time_sleep[0] + 1
    BY Numbers DEF DataWake, Returns, Goto, TypeOK
  <2>2. pc[0] = "d_sleep" /\ sleep[0] = 0 /\ pc'[0] = "client" /\ pc'[1] = pc[1]
    BY Numbers, OthersStay DEF DataWake, Returns, At, LibStep
  <2>3. QED
    BY <2>1, <2>2, MasterWhere DEF DataWake, airVars, boxVars, slaveVars, M!MacNothing, M!sendVars
<1>2. SleepTimed'
  BY Numbers, SleepLib DEF TimedInv, LibStep
<1>3. timeout[0] = 3 * TimeOnAir
  BY <1>1 DEF TimedInv, MasterTimed
<1>4. Quiet
  BY <1>1, <1>3, GivesUpQuiet DEF At
<1>5. Quiet'
  BY <1>1, <1>4 DEF Quiet, AskOnAir, AskWaits, SlaveHolds, AnswerOnAir, AnswerWaits, HasPut
<1>6. MasterTimed'
  BY <1>1 DEF TimedInv, MasterTimed, HasPut
<1>7. AckMatches' /\ err' = 0
  BY <1>1 DEF TimedInv, AckMatches
<1>8. QED
  BY <1>1, <1>2, <1>5, <1>6, <1>7, QuietKeeps

\* wl_receivePacketTimeout copies the answer into the pack.
LEMMA MasterFillTimed ==
  ASSUME LinkInv, TimedInv, MaxLag < TimeOnAir, RecvTake(ID_M), M!MacFill(recv_data[ID_M]),
         UNCHANGED <<m_test_trans_id, m_timer, slaveVars, lag>>
  PROVE  TimedInv'
<1> USE DEF ID_M, ID_S
<1>1. /\ UNCHANGED <<is_send, send_age, send_data, recv_data, err, sleep, time_sleep>>
      /\ UNCHANGED <<s_pc, s_llc, s_trans_id, s_send_list, s_recv_list, s_data, s_pack>>
      /\ UNCHANGED <<m_llc, m_trans_id, m_test_trans_id, m_send_list, m_send_link,
                     m_recv_list, m_pack, m_timer>>
      /\ UNCHANGED lag
      /\ m_pc = "recv" /\ m_pc' = "filled" /\ m_send_list = <<>> /\ m_recv_list = <<>>
      /\ pc[0] = "r_take" /\ pc'[0] = "r_checker" /\ pc'[1] = pc[1]
      /\ is_recieved'[0] = FALSE /\ is_recieved'[1] = is_recieved[1]
      /\ m_data'[m_pack] = recv_data[0]
  <2>1. m_pc = "recv" /\ m_pc' = "filled" /\ m_data' = [m_data EXCEPT ![m_pack] = recv_data[0]]
    BY DEF M!MacFill
  <2>2. m_pack \in MP!Pack /\ m_data \in [MP!Pack -> MP!Header \cup {Garbled}]
    BY <2>1, MasterWhere DEF LinkInv, MP!IInv, MP!TsmInv, MP!TsmTypeOK
  <2>3. m_data'[m_pack] = recv_data[0]
    BY <2>1, <2>2
  <2>4. pc[0] = "r_take" /\ pc'[0] = "r_checker" /\ pc'[1] = pc[1]
        /\ is_recieved'[0] = FALSE /\ is_recieved'[1] = is_recieved[1]
    BY Numbers DEF RecvTake, Goto, At, TypeOK
  <2>5. QED
    BY <2>1, <2>3, <2>4, MasterWhere DEF RecvTake, airVars, slaveVars, M!MacFill, M!sendVars, M!recvVars
<1>2. SleepTimed'
  BY Numbers, SleepLib DEF TimedInv, LibStep
<1>3. AnswerWaits
  BY <1>1, Numbers DEF LinkInv, RInv, IInv, AvailableStays, AnswerWaits, At
<1>4. Quiet'
  BY <1>1, <1>3 DEF TimedInv, OneStage, Quiet, AskOnAir, AskWaits, SlaveHolds, AnswerOnAir,
    AnswerWaits, HasPut
<1>5. MasterTimed'
  BY <1>1 DEF TimedInv, MasterTimed, HasPut
<1>6. AckMatches' /\ err' = 0
  BY <1>1 DEF TimedInv, AckMatches
<1>7. m_data'[m_pack'] \in {Current', Garbled} /\ s_trans_id' = m_trans_id'
  BY <1>1, <1>3 DEF TimedInv, Exchanged, Current
<1>8. QED
  BY <1>1, <1>2, <1>4, <1>5, <1>6, <1>7, QuietKeeps

\* wl_receivePacketTimeout returns with the answer.
LEMMA MasterReceivedTimed ==
  ASSUME LinkInv, TimedInv, MaxLag < TimeOnAir, M!MacReceived, RecvChecker(ID_M),
         UNCHANGED <<m_test_trans_id, m_timer, slaveVars, lag>>
  PROVE  TimedInv'
<1> USE DEF ID_M, ID_S
<1>1. /\ UNCHANGED <<is_send, send_age, send_data, is_recieved, recv_data, sleep, time_sleep>>
      /\ UNCHANGED <<s_pc, s_llc, s_trans_id, s_send_list, s_recv_list, s_data, s_pack>>
      /\ UNCHANGED <<m_llc, m_trans_id, m_test_trans_id, m_send_list, m_send_link,
                     m_data, m_timer>>
      /\ UNCHANGED lag /\ err' = 0
      /\ m_pc = "filled" /\ m_pc' = "llc" /\ m_send_list = <<>> /\ m_recv_list = <<>>
      /\ m_recv_list' = IF m_data[m_pack] = Garbled THEN <<>> ELSE <<m_pack>>
      /\ pc[0] = "r_checker" /\ pc'[0] = "client" /\ pc'[1] = pc[1]
  <2>1. err' = 0 /\ UNCHANGED <<is_send, send_age, send_data, is_recieved, recv_data>>
    BY Numbers, CheckerCounts DEF RecvChecker, TimedInv
  <2>2. m_pc = "filled" /\ m_pc' = "llc" /\ m_send_list = <<>> /\ m_recv_list = <<>>
    BY MasterWhere DEF M!MacReceived
  <2>3. m_recv_list' = IF m_data[m_pack] = Garbled THEN <<>> ELSE <<m_pack>>
    BY <2>2 DEF M!MacReceived
  <2>4. pc[0] = "r_checker" /\ pc'[0] = "client" /\ pc'[1] = pc[1]
        /\ UNCHANGED <<time_sleep, sleep, ready>>
    BY Numbers DEF RecvChecker, Return, Goto, At, TypeOK
  <2>5. QED
    BY <2>1, <2>2, <2>3, <2>4 DEF M!MacReceived, M!sendVars, slaveVars
<1>2. SleepTimed'
  BY Numbers, SleepLib DEF TimedInv, LibStep
<1>3. Quiet
  BY <1>1 DEF TimedInv, Waiting, HasPut
<1>4. Quiet'
  BY <1>1, <1>3 DEF Quiet, AskOnAir, AskWaits, SlaveHolds, AnswerOnAir, AnswerWaits, HasPut
<1>5. MasterTimed'
  BY <1>1 DEF TimedInv, MasterTimed, HasPut
<1>6. AckMatches'
  BY <1>1 DEF TimedInv, AckMatches
<1>7. m_data[m_pack] \in {Current, Garbled} /\ s_trans_id = m_trans_id
  BY <1>1 DEF TimedInv, Exchanged
<1>8. m_recv_list' # <<>> => m_data'[Head(m_recv_list')] = Current' /\ s_trans_id' = m_trans_id'
  BY <1>1, <1>7, SingleTail DEF Current
<1>9. QED
  BY <1>1, <1>2, <1>4, <1>5, <1>6, <1>8, QuietKeeps

-----------------------------------------------------------------------------
(* The calls of the radio that the slave's MAC worker begins and ends.      *)

\* What a step of the slave's thread leaves to the master.
LEMMA MasterUntouched ==
  ASSUME TimedInv,
         UNCHANGED <<masterVars, m_timer, lag>>,
         /\ pc'[ID_M] = pc[ID_M] /\ sleep'[ID_M] = sleep[ID_M]
         /\ timeout'[ID_M] = timeout[ID_M] /\ time_sleep'[ID_M] = time_sleep[ID_M]
  PROVE  /\ UNCHANGED <<m_pc, m_trans_id, m_recv_list, m_data, m_pack>>
         /\ MasterTimed' /\ AckMatches' /\ Slept' = Slept
         /\ Waiting => Waiting'
<1>1. UNCHANGED <<m_pc, m_llc, m_trans_id, m_test_trans_id, m_send_list, m_send_link, m_recv_list,
                  m_data, m_pack, m_timer, lag>>
  BY DEF masterVars
<1>2. QED
  BY <1>1 DEF TimedInv, MasterTimed, AckMatches, Slept, Waiting, HasPut, At, ID_M

\* stk_mac_worker calls wl_sendPacketTimeout.
LEMMA SlaveSendTimed ==
  ASSUME LinkInv, TimedInv, MaxLag < TimeOnAir, S!MacSend, SendCall(ID_S, 2 * TimeOnAir),
         UNCHANGED <<masterVars, m_timer, lag>>
  PROVE  TimedInv'
<1> USE DEF ID_M, ID_S
<1>1. /\ UNCHANGED <<is_send, send_age, send_data, is_recieved, recv_data, err,
                     time_sleep, sleep, ready, lag>>
      /\ UNCHANGED <<s_llc, s_trans_id, s_send_list, s_recv_list, s_data, s_pack>>
      /\ s_pc = "mac" /\ s_pc' = "send" /\ s_send_list # <<>>
      /\ pc[1] = "client" /\ pc'[1] = "s_worker" /\ pc'[0] = pc[0] /\ timeout'[0] = timeout[0]
  BY Numbers DEF SendCall, Call, Goto, At, TypeOK, airVars, boxVars, S!MacSend, S!sendVars, S!recvVars
<1>2. SleepTimed'
  BY Numbers, SleepCalls DEF TimedInv
<1>3. /\ UNCHANGED <<m_pc, m_trans_id, m_recv_list, m_data, m_pack>>
      /\ MasterTimed' /\ AckMatches' /\ Slept' = Slept /\ (Waiting => Waiting')
  BY <1>1, MasterUntouched
<1>4. SlaveHolds /\ SlaveHolds'
  BY <1>1 DEF SlaveHolds, HasPut
<1>5. OneStage' /\ (~Quiet => Waiting)'
  BY <1>1, <1>3, <1>4 DEF TimedInv, OneStage, Quiet, AskOnAir, AskWaits, AnswerOnAir, AnswerWaits
<1>6. Deadlines'
  BY <1>1, <1>3, <1>4 DEF TimedInv, OneStage, Deadlines, AskWaits, AnswerOnAir, AnswerWaits
<1>7. Exchanged'
  BY <1>1, <1>3 DEF TimedInv, Exchanged, Current, HasPut, AskOnAir, AskWaits, AnswerOnAir, AnswerWaits
<1>8. QED
  BY <1>1, <1>2, <1>3, <1>5, <1>6, <1>7 DEF TimedInv

\* wl_sendPacketTimeout returns.
LEMMA SlaveSentTimed ==
  ASSUME LinkInv, TimedInv, MaxLag < TimeOnAir, S!MacSent, SendChecker(ID_S),
         UNCHANGED <<masterVars, m_timer, lag>>
  PROVE  TimedInv'
<1> USE DEF ID_M, ID_S
<1>1. /\ UNCHANGED <<is_send, send_age, send_data, is_recieved, recv_data,
                     time_sleep, sleep, ready, lag>>
      /\ UNCHANGED <<s_llc, s_trans_id, s_recv_list, s_data, s_pack>>
      /\ s_pc = "send" /\ s_pc' = "llc" /\ s_send_list' = <<>> /\ s_llc = "IDLE" /\ s_recv_list = <<>>
      /\ pc[1] = "s_checker" /\ pc'[1] = "client" /\ pc'[0] = pc[0] /\ timeout'[0] = timeout[0]
      /\ err' = 0
  <2>1. err' = 0 /\ UNCHANGED <<is_send, send_age, send_data, is_recieved, recv_data>>
    BY Numbers, CheckerCounts DEF SendChecker, TimedInv
  <2>2. s_pc = "send" /\ s_send_link = "ok" /\ Tail(s_send_list) = <<>> /\ s_recv_list = <<>>
        /\ s_llc = "IDLE"
    BY SlaveWhere DEF S!MacSent
  <2>3. s_pc' = "llc" /\ s_send_list' = <<>>
    BY <2>2 DEF S!MacSent
  <2>4. pc[1] = "s_checker" /\ pc'[1] = "client" /\ pc'[0] = pc[0] /\ timeout'[0] = timeout[0]
        /\ UNCHANGED <<time_sleep, sleep, ready>>
    BY Numbers DEF SendChecker, Return, Goto, At, TypeOK
  <2>5. QED
    BY <2>1, <2>2, <2>3, <2>4 DEF S!MacSent, S!recvVars
<1>2. SleepTimed'
  BY Numbers, SleepLib DEF TimedInv, LibStep
<1>3. /\ UNCHANGED <<m_pc, m_trans_id, m_recv_list, m_data, m_pack>>
      /\ MasterTimed' /\ AckMatches' /\ Slept' = Slept /\ (Waiting => Waiting')
  BY <1>1, MasterUntouched
<1>4. ~SlaveHolds /\ ~SlaveHolds'
  BY <1>1 DEF SlaveHolds, HasPut
<1>5. OneStage' /\ (~Quiet => Waiting)'
  BY <1>1, <1>3, <1>4 DEF TimedInv, OneStage, Quiet, AskOnAir, AskWaits, AnswerOnAir, AnswerWaits
<1>6. Deadlines'
  BY <1>1, <1>3, <1>4 DEF TimedInv, OneStage, Deadlines, LooksAgain, AskWaits, AnswerOnAir, AnswerWaits, At
<1>7. Exchanged'
  BY <1>1, <1>3 DEF TimedInv, Exchanged, Current, HasPut, AskOnAir, AskWaits, AnswerOnAir, AnswerWaits
<1>8. QED
  BY <1>1, <1>2, <1>3, <1>5, <1>6, <1>7 DEF TimedInv

\* stk_mac_worker calls wl_receivePacketTimeout.
LEMMA SlaveReceiveTimed ==
  ASSUME LinkInv, TimedInv, MaxLag < TimeOnAir, S!MacReceive, RecvCall(ID_S, SlaveTimeout),
         UNCHANGED <<masterVars, m_timer, lag>>
  PROVE  TimedInv'
<1> USE DEF ID_M, ID_S
<1>1. /\ UNCHANGED <<is_send, send_age, send_data, is_recieved, recv_data, err,
                     time_sleep, sleep, ready, lag>>
      /\ UNCHANGED <<s_llc, s_trans_id, s_send_list, s_recv_list, s_data>>
      /\ s_pc = "mac" /\ s_pc' = "recv" /\ s_send_list = <<>> /\ s_llc = "IDLE" /\ s_recv_list = <<>>
      /\ pc[1] = "client" /\ pc'[1] = "r_worker" /\ pc'[0] = pc[0] /\ timeout'[0] = timeout[0]
  BY Numbers, SlaveWhere
  DEF RecvCall, Call, Goto, At, TypeOK, airVars, boxVars, S!MacReceive, S!sendVars, S!recvVars
<1>2. SleepTimed'
  BY Numbers, SleepCalls DEF TimedInv
<1>3. /\ UNCHANGED <<m_pc, m_trans_id, m_recv_list, m_data, m_pack>>
      /\ MasterTimed' /\ AckMatches' /\ Slept' = Slept /\ (Waiting => Waiting')
  BY <1>1, MasterUntouched
<1>4. ~SlaveHolds /\ ~SlaveHolds'
  BY <1>1 DEF SlaveHolds, HasPut
<1>5. OneStage' /\ (~Quiet => Waiting)'
  BY <1>1, <1>3, <1>4 DEF TimedInv, OneStage, Quiet, AskOnAir, AskWaits, AnswerOnAir, AnswerWaits
<1>6. Deadlines'
  BY <1>1, <1>3, <1>4 DEF TimedInv, OneStage, Deadlines, LooksAgain, AskWaits, AnswerOnAir, AnswerWaits, At
<1>7. Exchanged'
  BY <1>1, <1>3 DEF TimedInv, Exchanged, Current, HasPut, AskOnAir, AskWaits, AnswerOnAir, AnswerWaits
<1>8. QED
  BY <1>1, <1>2, <1>3, <1>5, <1>6, <1>7 DEF TimedInv

\* wl_receivePacketTimeout returns with nothing; a packet that has come since
\* its last look waits for the next call.
LEMMA SlaveNothingTimed ==
  ASSUME LinkInv, TimedInv, MaxLag < TimeOnAir, S!MacNothing, DataWake(ID_S), Returns(ID_S),
         UNCHANGED <<masterVars, m_timer, lag>>
  PROVE  TimedInv'
<1> USE DEF ID_M, ID_S
<1>1. /\ UNCHANGED <<is_send, send_age, send_data, is_recieved, recv_data, err, sleep, ready, lag>>
      /\ UNCHANGED <<s_llc, s_trans_id, s_send_list, s_recv_list, s_data>>
      /\ s_pc = "recv" /\ s_pc' = "llc" /\ s_send_list = <<>> /\ s_llc = "IDLE" /\ s_recv_list = <<>>
      /\ pc[1] = "d_sleep" /\ pc'[1] = "client" /\ pc'[0] = pc[0] /\ timeout'[0] = timeout[0]
      /\ sleep[1] = 0 /\ time_sleep'[0] = time_sleep[0]
  <2>1. pc[1] = "d_sleep" /\ sleep[1] = 0 /\ pc'[1] = "client"
        /\ UNCHANGED <<is_send, send_age, send_data, is_recieved, recv_data, err, sleep, ready>>
    BY DEF DataWake, Returns, At, airVars, boxVars
  <2>2. pc'[0] = pc[0] /\ timeout'[0] = timeout[0]
    BY Numbers, OthersStay DEF LibStep
  <2>3. time_sleep'[0] = time_sleep[0]
    BY Numbers DEF DataWake, DataReturn, TypeOK
  <2>4. QED
    BY <2>1, <2>2, <2>3, SlaveWhere DEF S!MacNothing, S!sendVars
<1>2. SleepTimed'
  BY Numbers, SleepLib DEF TimedInv, LibStep
<1>3. /\ UNCHANGED <<m_pc, m_trans_id, m_recv_list, m_data, m_pack>>
      /\ MasterTimed' /\ AckMatches' /\ Slept' = Slept /\ (Waiting => Waiting')
  BY <1>1, MasterUntouched
<1>4. ~SlaveHolds /\ ~SlaveHolds'
  BY <1>1 DEF SlaveHolds, HasPut
<1>5. OneStage' /\ (~Quiet => Waiting)'
  BY <1>1, <1>3, <1>4 DEF TimedInv, OneStage, Quiet, AskOnAir, AskWaits, AnswerOnAir, AnswerWaits
<1>6. Deadlines'
  BY <1>1, <1>3, <1>4 DEF TimedInv, OneStage, Deadlines, LooksAgain, AskWaits, AnswerOnAir, AnswerWaits, At
<1>7. Exchanged'
  BY <1>1, <1>3 DEF TimedInv, Exchanged, Current, HasPut, AskOnAir, AskWaits, AnswerOnAir, AnswerWaits
<1>8. QED
  BY <1>1, <1>2, <1>3, <1>5, <1>6, <1>7 DEF TimedInv

\* wl_receivePacketTimeout copies the master's packet into the pack.
LEMMA SlaveFillTimed ==
  ASSUME LinkInv, TimedInv, MaxLag < TimeOnAir, RecvTake(ID_S), S!MacFill(recv_data[ID_S]),
         UNCHANGED <<masterVars, m_timer, lag>>
  PROVE  TimedInv'
<1> USE DEF ID_M, ID_S
<1>1. /\ UNCHANGED <<is_send, send_age, send_data, recv_data, err, time_sleep, sleep, lag>>
      /\ UNCHANGED <<s_llc, s_trans_id, s_send_list, s_recv_list, s_pack>>
      /\ s_pc = "recv" /\ s_pc' = "filled" /\ s_send_list = <<>> /\ s_llc = "IDLE" /\ s_recv_list = <<>>
      /\ pc[1] = "r_take" /\ pc'[1] = "r_checker" /\ pc'[0] = pc[0] /\ timeout'[0] = timeout[0]
      /\ is_recieved'[1] = FALSE /\ is_recieved'[0] = is_recieved[0] /\ ready'[0] = ready[0]
      /\ s_data'[s_pack] = recv_data[1]
  <2>1. s_pc = "recv" /\ s_pc' = "filled" /\ s_data' = [s_data EXCEPT ![s_pack] = recv_data[1]]
    BY DEF S!MacFill
  <2>2. s_pack \in SP!Pack /\ s_data \in [SP!Pack -> SP!Header \cup {Garbled}]
    BY <2>1, SlaveWhere DEF LinkInv, SP!KeptInv, SP!IInv, SP!TsmInv, SP!TsmTypeOK
  <2>3. s_data'[s_pack] = recv_data[1]
    BY <2>1, <2>2
  <2>4. pc[1] = "r_take" /\ pc'[1] = "r_checker" /\ pc'[0] = pc[0] /\ timeout'[0] = timeout[0]
        /\ is_recieved'[1] = FALSE /\ is_recieved'[0] = is_recieved[0] /\ ready'[0] = ready[0]
    BY Numbers DEF RecvTake, Goto, At, TypeOK
  <2>5. QED
    BY <2>1, <2>3, <2>4, SlaveWhere DEF RecvTake, airVars, S!MacFill, S!sendVars, S!recvVars
<1>2. SleepTimed'
  BY Numbers, SleepLib DEF TimedInv, LibStep
<1>3. /\ UNCHANGED <<m_pc, m_trans_id, m_recv_list, m_data, m_pack>>
      /\ MasterTimed' /\ AckMatches' /\ Slept' = Slept /\ (Waiting => Waiting')
  BY <1>1, MasterUntouched
<1>4. AskWaits /\ ~SlaveHolds /\ SlaveHolds' /\ ~AskWaits'
  <2>1. AskWaits
    BY <1>1, Numbers DEF LinkInv, RInv, IInv, AvailableStays, AskWaits, At
  <2>2. QED
    BY <1>1, <2>1 DEF TimedInv, OneStage, SlaveHolds, AskWaits
<1>5. OneStage' /\ (~Quiet => Waiting)'
  BY <1>1, <1>3, <1>4 DEF TimedInv, OneStage, Quiet, AskOnAir, AnswerOnAir, AnswerWaits
<1>6. Deadlines'
  <2>1. sleep[1] = 0
    BY <1>1, Numbers DEF TimedInv, SleepTimed
  <2>2. Slept <= TimeOnAir + MaxLag + 1 + lag[1]
    BY <1>1, <1>4, <2>1 DEF TimedInv, Deadlines, At
  <2>3. QED
    BY <1>1, <1>3, <1>4, <1>5, <2>2 DEF Deadlines, OneStage
<1>7. Exchanged'
  BY <1>1, <1>3, <1>4, <1>5
  DEF TimedInv, OneStage, Exchanged, Current, HasPut, AskOnAir, AskWaits, AnswerOnAir, AnswerWaits
<1>8. QED
  BY <1>1, <1>2, <1>3, <1>5, <1>6, <1>7 DEF TimedInv

\* wl_receivePacketTimeout returns with the master's packet, whole or not.
LEMMA SlaveReceivedTimed ==
  ASSUME LinkInv, TimedInv, MaxLag < TimeOnAir, S!MacReceived, RecvChecker(ID_S),
         UNCHANGED <<masterVars, m_timer, lag>>
  PROVE  TimedInv'
<1> USE DEF ID_M, ID_S
<1>1. /\ UNCHANGED <<is_send, send_age, send_data, is_recieved, recv_data,
                     time_sleep, sleep, ready, lag>>
      /\ UNCHANGED <<s_llc, s_trans_id, s_send_list, s_data>>
      /\ s_pc = "filled" /\ s_pc' = "llc" /\ s_send_list = <<>> /\ s_llc = "IDLE" /\ s_recv_list = <<>>
      /\ s_recv_list' = IF s_data[s_pack] = Garbled THEN <<>> ELSE <<s_pack>>
      /\ pc[1] = "r_checker" /\ pc'[1] = "client" /\ pc'[0] = pc[0] /\ timeout'[0] = timeout[0]
      /\ err' = 0
  <2>1. err' = 0 /\ UNCHANGED <<is_send, send_age, send_data, is_recieved, recv_data>>
    BY Numbers, CheckerCounts DEF RecvChecker, TimedInv
  <2>2. s_pc = "filled" /\ s_pc' = "llc" /\ s_send_list = <<>> /\ s_recv_list = <<>> /\ s_llc = "IDLE"
    BY SlaveWhere DEF S!MacReceived
  <2>3. s_recv_list' = IF s_data[s_pack] = Garbled THEN <<>> ELSE <<s_pack>>
    BY <2>2 DEF S!MacReceived
  <2>4. pc[1] = "r_checker" /\ pc'[1] = "client" /\ pc'[0] = pc[0] /\ timeout'[0] = timeout[0]
        /\ UNCHANGED <<time_sleep, sleep, ready>>
    BY Numbers DEF RecvChecker, Return, Goto, At, TypeOK
  <2>5. QED
    BY <2>1, <2>2, <2>3, <2>4 DEF S!MacReceived, S!sendVars
<1>2. SleepTimed'
  BY Numbers, SleepLib DEF TimedInv, LibStep
<1>3. /\ UNCHANGED <<m_pc, m_trans_id, m_recv_list, m_data, m_pack>>
      /\ MasterTimed' /\ AckMatches' /\ Slept' = Slept /\ (Waiting => Waiting')
  BY <1>1, MasterUntouched
<1>4. SlaveHolds
  BY <1>1 DEF SlaveHolds
<1>5. OneStage' /\ (~Quiet => Waiting)'
  BY <1>1, <1>3, <1>4 DEF TimedInv, OneStage, Quiet, AskOnAir, AskWaits, AnswerOnAir, AnswerWaits
<1>6. Deadlines'
  BY <1>1, <1>3, <1>4 DEF TimedInv, OneStage, Deadlines, AskWaits, AnswerOnAir, AnswerWaits
<1>7. Exchanged'
  <2>1. s_data[s_pack] \in {Current, Garbled}
    BY <1>1 DEF TimedInv, Exchanged
  <2>2. s_recv_list' # <<>> => s_data'[Head(s_recv_list')] = Current'
    BY <1>1, <1>3, <2>1, SingleTail DEF Current
  <2>3. QED
    BY <1>1, <1>3, <1>4, <2>2
    DEF TimedInv, OneStage, Exchanged, Current, HasPut, AskOnAir, AskWaits, AnswerOnAir, AnswerWaits
<1>8. QED
  BY <1>1, <1>2, <1>3, <1>5, <1>6, <1>7 DEF TimedInv

-----------------------------------------------------------------------------
(* The steps inside the radio calls, which change neither loop.             *)

LEMMA LoopsStill ==
  ASSUME TimedInv, UNCHANGED <<masterVars, m_timer, slaveVars, lag>>,
         HasPut(ID_M, m_pc)' = HasPut(ID_M, m_pc), HasPut(ID_S, s_pc)' = HasPut(ID_S, s_pc),
         HasPut(ID_M, m_pc) => sleep'[ID_M] = sleep[ID_M],
         m_pc = "recv" => timeout'[ID_M] = timeout[ID_M]
  PROVE  /\ UNCHANGED <<m_pc, m_llc, m_trans_id, m_recv_list, m_data, m_pack>>
         /\ UNCHANGED <<s_pc, s_llc, s_trans_id, s_send_list, s_recv_list, s_data, s_pack>>
         /\ MasterTimed' /\ AckMatches' /\ SlaveHolds' = SlaveHolds
         /\ Waiting => Waiting'
<1>1. UNCHANGED <<m_pc, m_llc, m_trans_id, m_test_trans_id, m_send_list, m_send_link, m_recv_list,
                  m_data, m_pack, m_timer, lag, s_pc, s_llc, s_trans_id, s_send_list,
                  s_recv_list, s_data, s_pack>>
  BY DEF masterVars, slaveVars
<1>2. QED
  BY <1>1 DEF TimedInv, MasterTimed, AckMatches, Waiting, SlaveHolds

\* The master puts its packet on the air: nothing else is on its way.
LEMMA MasterPutTimed ==
  ASSUME LinkInv, TimedInv, MaxLag < TimeOnAir, SendPut(ID_M, m_data[Head(m_send_list)]),
         UNCHANGED <<masterVars, m_timer, slaveVars, lag>>
  PROVE  TimedInv'
<1> USE DEF ID_M, ID_S
<1>0. /\ pc[0] = "s_put" /\ m_pc = "send" /\ m_llc = "SEND_ALL" /\ m_send_list # <<>>
      /\ m_recv_list = <<>>
  BY MasterWhere, Elsewhere, SlaveWhere DEF SendPut, At, SendPC, DataPC
<1>1. /\ pc'[0] = "s_sleep" /\ sleep'[0] = TimeOnAir /\ pc'[1] = pc[1] /\ sleep'[1] = sleep[1]
      /\ is_send'[0] = FALSE /\ is_send'[1] = is_send[1] /\ send_data'[0] = Current
      /\ UNCHANGED <<is_recieved, recv_data, err, timeout, time_sleep, ready>>
  <2>1. timeout[0] > 0
    BY <1>0, Numbers DEF TimedInv, SleepTimed, SendPC
  <2>2. m_data[Head(m_send_list)] = Current
    <3>1. MP!SendsCurrentPacket
      BY MasterAssumptions, MP!QueueSends DEF LinkInv
    <3>2. QED
      BY <1>0, <3>1 DEF MP!SendsCurrentPacket, MP!Single, M!Single, Current
  <2>3. send_data'[0] = Current
    BY <2>2, Numbers DEF SendPut, TypeOK
  <2>4. QED
    BY <2>1, <2>3, Numbers DEF SendPut, Sleep, Goto, TypeOK, boxVars
<1>2. SleepTimed'
  BY Numbers, SleepLib DEF TimedInv, LibStep
<1>3. UNCHANGED <<m_pc, m_llc, m_trans_id, m_test_trans_id, m_send_list, m_send_link, m_recv_list,
                  m_data, m_pack, m_timer, lag, s_pc, s_llc, s_trans_id, s_send_list,
                  s_recv_list, s_data, s_pack>>
  BY DEF masterVars, slaveVars
<1>4. Quiet
  BY <1>0 DEF TimedInv, Waiting, HasPut
<1>5. AskOnAir' /\ ~AskWaits' /\ ~SlaveHolds' /\ ~AnswerOnAir' /\ ~AnswerWaits'
  BY <1>1, <1>3, <1>4 DEF Quiet, AskOnAir, AskWaits, SlaveHolds, AnswerOnAir, AnswerWaits, HasPut
<1>6. OneStage' /\ Deadlines'
  BY <1>5 DEF OneStage, Deadlines
<1>7. Waiting' /\ AckMatches' /\ err' = 0
  BY <1>0, <1>1, <1>3 DEF TimedInv, Waiting, HasPut, AckMatches
<1>8. MasterTimed'
  <2>1. m_timer <= lag[0]
    BY <1>0 DEF TimedInv, MasterTimed, HasPut
  <2>2. m_timer + TimeOnAir <= TimeOnAir + MaxLag /\ TimeOnAir > 0
    BY <2>1, Numbers
  <2>3. QED
    BY <1>0, <1>1, <1>3, <2>2, Numbers DEF TimedInv, MasterTimed, HasPut
<1>9. Exchanged'
  BY <1>0, <1>1, <1>3, <1>5 DEF TimedInv, Exchanged, SlaveHolds, Current, HasPut
<1>10. QED
  BY <1>2, <1>6, <1>7, <1>8, <1>9 DEF TimedInv

\* The slave puts its answer on the air.
LEMMA SlavePutTimed ==
  ASSUME LinkInv, TimedInv, MaxLag < TimeOnAir, SendPut(ID_S, s_data[Head(s_send_list)]),
         UNCHANGED <<masterVars, m_timer, slaveVars, lag>>
  PROVE  TimedInv'
<1> USE DEF ID_M, ID_S
<1>0. /\ pc[1] = "s_put" /\ s_pc = "send" /\ s_llc = "IDLE" /\ s_send_list # <<>>
      /\ s_recv_list = <<>>
  BY MasterWhere, Elsewhere, SlaveWhere DEF SendPut, At, SendPC, DataPC
<1>1. SlaveHolds /\ s_trans_id = m_trans_id
  BY <1>0 DEF TimedInv, Exchanged, SlaveHolds, HasPut
<1>2. /\ pc'[1] = "s_sleep" /\ sleep'[1] = TimeOnAir /\ pc'[0] = pc[0] /\ sleep'[0] = sleep[0]
      /\ is_send'[1] = FALSE /\ is_send'[0] = is_send[0] /\ send_data'[1] = Current
      /\ UNCHANGED <<is_recieved, recv_data, err, timeout, time_sleep, ready>>
  <2>1. timeout[1] > 0
    BY <1>0, Numbers DEF TimedInv, SleepTimed, SendPC
  <2>2. s_data[Head(s_send_list)] = Current
    <3>1. SP!SendsCurrentAnswer
      BY SlaveAssumptions, SP!AnswerSends DEF LinkInv
    <3>2. QED
      BY <1>0, <1>1, <3>1 DEF SP!SendsCurrentAnswer, SP!Single, M!Single, Current
  <2>3. send_data'[1] = Current
    BY <2>2, Numbers DEF SendPut, TypeOK
  <2>4. QED
    BY <2>1, <2>3, Numbers DEF SendPut, Sleep, Goto, TypeOK, boxVars
<1>3. SleepTimed'
  BY Numbers, SleepLib DEF TimedInv, LibStep
<1>4. UNCHANGED <<s_pc, s_llc, s_trans_id, s_send_list, s_recv_list, s_data, s_pack, lag>>
  BY DEF slaveVars
<1>5. /\ UNCHANGED <<m_pc, m_trans_id, m_recv_list, m_data, m_pack>>
      /\ MasterTimed' /\ AckMatches' /\ Slept' = Slept /\ (Waiting => Waiting')
  BY <1>2, MasterUntouched
<1>6. ~AskOnAir' /\ ~AskWaits' /\ ~SlaveHolds' /\ AnswerOnAir' /\ ~AnswerWaits'
  BY <1>0, <1>1, <1>2, <1>4 DEF TimedInv, OneStage, AskOnAir, AskWaits, SlaveHolds, AnswerOnAir,
    AnswerWaits, HasPut
<1>7. OneStage' /\ (~Quiet => Waiting)' /\ err' = 0
  BY <1>1, <1>2, <1>5, <1>6 DEF TimedInv, OneStage, Quiet
<1>8. Deadlines'
  <2>1. Slept <= TimeOnAir + MaxLag + 1 + lag[1]
    BY <1>1 DEF TimedInv, Deadlines
  <2>2. Slept <= 2 * TimeOnAir + 2 * MaxLag + (1 - TimeOnAir) /\ TimeOnAir > 0
    BY <2>1, Numbers DEF Slept
  <2>3. QED
    BY <1>2, <1>5, <1>6, <2>2 DEF Deadlines
<1>9. Exchanged'
  BY <1>0, <1>1, <1>2, <1>4, <1>5, <1>6 DEF TimedInv, Exchanged, SlaveHolds, Current, HasPut
<1>10. QED
  BY <1>3, <1>5, <1>7, <1>8, <1>9 DEF TimedInv

\* A step of the master inside the radio that lets nothing onto or off the air.
LEMMA MasterInsideTimed ==
  ASSUME LinkInv, TimedInv, MaxLag < TimeOnAir, UNCHANGED <<masterVars, m_timer, slaveVars, lag>>,
         \/ SendCheck(ID_M) \/ SendErr(ID_M) \/ SendWake(ID_M) \/ DataRead(ID_M)
         \/ (DataChecker(ID_M) \/ DataWake(ID_M)) /\ ~Returns(ID_M)
  PROVE  TimedInv'
<1> USE DEF ID_M, ID_S
<1>0. OneStage /\ err = 0 /\ SleepTimed /\ (~Quiet => Waiting) /\ Deadlines /\ Exchanged
  BY DEF TimedInv
<1>1. /\ UNCHANGED <<is_send, send_age, send_data, is_recieved, recv_data>> /\ err' = 0
      /\ pc'[1] = pc[1] /\ sleep'[1] = sleep[1] /\ ready'[1] = ready[1]
      /\ \/ /\ pc[0] = "s_check" /\ pc'[0] = "s_put"
            /\ sleep'[0] = sleep[0] /\ time_sleep'[0] = time_sleep[0]
         \/ /\ pc[0] = "s_sleep" /\ pc'[0] = "s_flush"
            /\ sleep'[0] = sleep[0] /\ time_sleep'[0] = time_sleep[0]
         \/ /\ pc[0] = "d_read" /\ pc'[0] = "d_checker" /\ ready'[0] = is_recieved[0]
            /\ sleep'[0] = sleep[0] /\ time_sleep'[0] = time_sleep[0]
         \/ /\ pc[0] = "d_checker" /\ pc'[0] \in {"r_take", "r_err"}
            /\ sleep'[0] = sleep[0] /\ time_sleep'[0] = 0
         \/ /\ pc[0] = "d_checker" /\ pc'[0] = "d_sleep" /\ ~ready[0]
            /\ sleep'[0] = 1 /\ time_sleep'[0] = time_sleep[0]
         \/ /\ pc[0] = "d_sleep" /\ pc'[0] = "d_worker"
            /\ sleep'[0] = sleep[0] /\ time_sleep'[0] = time_sleep[0] + 1
         \/ /\ pc[0] = "d_sleep" /\ pc'[0] \in {"r_take", "r_err"}
            /\ sleep'[0] = sleep[0] /\ time_sleep'[0] = 0
      /\ timeout' = timeout
  <2>1. CASE SendCheck(0)
    <3>1. is_send[0]
      BY <1>0, <2>1, Numbers DEF SendCheck, SleepTimed, At
    <3>2. QED
      BY <1>0, <2>1, <3>1, Numbers DEF SendCheck, At, Goto, TypeOK, airVars, boxVars
  <2>2. CASE SendErr(0)
    BY <1>0, <2>2, Numbers DEF SendErr, SleepTimed, At, SendPC
  <2>3. CASE SendWake(0)
    BY <1>0, <2>3, Numbers DEF SendWake, At, Goto, TypeOK, airVars, boxVars
  <2>4. CASE DataRead(0)
    BY <1>0, <2>4, Numbers DEF DataRead, At, Goto, TypeOK, airVars, boxVars
  <2>5. CASE DataChecker(0) /\ ~Returns(0)
    <3>1. err' = 0 /\ UNCHANGED <<is_send, send_age, send_data, is_recieved, recv_data>>
      BY <1>0, <2>5, Numbers, CheckerCounts DEF DataChecker
    <3>2. CASE ready[0] \/ timeout[0] = 0
      BY <2>5, <3>1, <3>2, Numbers DEF DataChecker, DataReturn, Return, Returns, At, Goto, TypeOK
    <3>3. CASE ~(ready[0] \/ timeout[0] = 0)
      BY <2>5, <3>1, <3>3, Numbers DEF DataChecker, Sleep, At, Goto, TypeOK
    <3>4. QED
      BY <3>2, <3>3
  <2>6. CASE DataWake(0) /\ ~Returns(0)
    BY <1>0, <2>6, Numbers DEF DataWake, DataReturn, Return, Returns, At, Goto, TypeOK, airVars, boxVars
  <2>7. QED
    BY <2>1, <2>2, <2>3, <2>4, <2>5, <2>6
<1>2. SleepTimed'
  BY Numbers, SleepLib DEF TimedInv, LibStep
<1>3. sleep[0] = 0 \/ pc[0] \in {"s_sleep", "d_sleep"}
  BY <1>0, Numbers DEF SleepTimed
<1>4. HasPut(0, m_pc)' = HasPut(0, m_pc) /\ HasPut(1, s_pc)' = HasPut(1, s_pc)
  BY <1>1 DEF HasPut, masterVars, slaveVars
<1>5. /\ UNCHANGED <<m_pc, m_llc, m_trans_id, m_recv_list, m_data, m_pack>>
      /\ UNCHANGED <<s_pc, s_llc, s_trans_id, s_send_list, s_recv_list, s_data, s_pack>>
      /\ MasterTimed' /\ AckMatches' /\ SlaveHolds' = SlaveHolds
      /\ Waiting => Waiting'
  <2>1. HasPut(0, m_pc) => sleep'[0] = sleep[0]
    BY <1>1 DEF HasPut
  <2>2. QED
    BY <1>1, <1>4, <2>1, LoopsStill
<1>6. /\ AskOnAir' = AskOnAir /\ AskWaits' = AskWaits /\ AnswerOnAir' = AnswerOnAir
      /\ AnswerWaits' = AnswerWaits
  BY <1>1 DEF AskOnAir, AskWaits, AnswerOnAir, AnswerWaits
<1>7. OneStage' /\ (~Quiet => Waiting)'
  BY <1>0, <1>5, <1>6 DEF OneStage, Quiet
<1>8. Exchanged'
  BY <1>0, <1>1, <1>4, <1>5, <1>6 DEF Exchanged, Current
<1>9. Deadlines'
  <2>1. lag' = lag
    OBVIOUS
  <2>2. Slept \in Int /\ Slept' \in Int /\ Slept' <= Slept
    BY <1>1, <1>3, Numbers DEF Slept, At
  <2>3. pc'[0] \in {"d_read", "d_checker", "d_sleep"} =>
          /\ pc[0] \in {"d_read", "d_checker"} /\ time_sleep'[0] = time_sleep[0]
          /\ pc'[0] # "d_read" /\ (pc[0] = "d_checker" => ~ready[0])
    BY <1>1
  <2>4. LooksAgain /\ time_sleep'[0] = time_sleep[0] => LooksAgain'
    BY DEF LooksAgain
  <2>5. AskWaits' => /\ AskWaits /\ lag' = lag
                     /\ Slept' <= IF At(1, "d_checker")' /\ ~ready'[1] THEN TimeOnAir + lag[1]
                                 ELSE IF sleep'[1] > 0 THEN TimeOnAir + MaxLag
                                 ELSE TimeOnAir + MaxLag + 1 + lag[1]
    <3>1. AskWaits => Slept <= IF At(1, "d_checker")' /\ ~ready'[1] THEN TimeOnAir + lag[1]
                                 ELSE IF sleep'[1] > 0 THEN TimeOnAir + MaxLag
                                 ELSE TimeOnAir + MaxLag + 1 + lag[1]
      BY <1>0, <1>1 DEF Deadlines, At
    <3>2. QED
      BY <1>6, <2>1, <2>2, <3>1, Numbers
  <2>6. SlaveHolds' => Slept' <= TimeOnAir + MaxLag + 1 + lag'[1]
    <3>1. SlaveHolds => Slept <= TimeOnAir + MaxLag + 1 + lag[1]
      BY <1>0 DEF Deadlines
    <3>2. QED
      BY <1>5, <2>1, <2>2, <3>1, Numbers
  <2>7. AnswerOnAir' =>
          IF sleep'[1] > 0
          THEN Slept' <= 2 * TimeOnAir + 2 * MaxLag + (1 - sleep'[1])
          ELSE (pc'[0] \in {"d_read", "d_checker", "d_sleep"} => LooksAgain')
    <3>1. AnswerOnAir =>
            IF sleep[1] > 0
            THEN Slept <= 2 * TimeOnAir + 2 * MaxLag + (1 - sleep[1])
            ELSE (pc[0] \in {"d_read", "d_checker", "d_sleep"} => LooksAgain)
      BY <1>0 DEF Deadlines
    <3>2. CASE sleep[1] > 0
      BY <1>1, <1>6, <2>2, <3>1, <3>2, Numbers
    <3>3. CASE ~(sleep[1] > 0)
      BY <1>1, <1>6, <2>3, <2>4, <3>1, <3>3
    <3>4. QED
      BY <3>2, <3>3
  <2>8. AnswerWaits' =>
          ((At(0, "d_checker")' /\ ~ready'[0]) \/ At(0, "d_sleep")' => LooksAgain')
    BY <1>0, <1>1, <1>6, <2>3, <2>4 DEF Deadlines, AnswerWaits, At
  <2>9. QED
    BY <2>1, <2>5, <2>6, <2>7, <2>8 DEF Deadlines
<1>10. QED
  BY <1>1, <1>2, <1>5, <1>7, <1>8, <1>9 DEF TimedInv

\* The same for the slave.
LEMMA SlaveInsideTimed ==
  ASSUME LinkInv, TimedInv, MaxLag < TimeOnAir, UNCHANGED <<masterVars, m_timer, slaveVars, lag>>,
         \/ SendCheck(ID_S) \/ SendErr(ID_S) \/ SendWake(ID_S) \/ DataRead(ID_S)
         \/ (DataChecker(ID_S) \/ DataWake(ID_S)) /\ ~Returns(ID_S)
  PROVE  TimedInv'
<1> USE DEF ID_M, ID_S
<1>0. OneStage /\ err = 0 /\ SleepTimed /\ (~Quiet => Waiting) /\ Deadlines /\ Exchanged
  BY DEF TimedInv
<1>1. /\ UNCHANGED <<is_send, send_age, send_data, is_recieved, recv_data>> /\ err' = 0
      /\ pc'[0] = pc[0] /\ sleep'[0] = sleep[0] /\ time_sleep'[0] = time_sleep[0]
      /\ ready'[0] = ready[0]
      /\ \/ /\ pc[1] = "s_check" /\ pc'[1] = "s_put" /\ sleep'[1] = sleep[1]
         \/ /\ pc[1] = "s_sleep" /\ pc'[1] = "s_flush" /\ sleep'[1] = sleep[1] /\ sleep[1] = 0
         \/ /\ pc[1] = "d_read" /\ pc'[1] = "d_checker" /\ ready'[1] = is_recieved[1]
            /\ sleep'[1] = sleep[1]
         \/ /\ pc[1] = "d_checker" /\ pc'[1] \in {"r_take", "r_err"} /\ sleep'[1] = sleep[1]
            /\ (ready[1] \/ timeout[1] = 0)
         \/ /\ pc[1] = "d_checker" /\ pc'[1] = "d_sleep" /\ ~ready[1] /\ sleep'[1] = 1
         \/ /\ pc[1] = "d_sleep" /\ pc'[1] \in {"d_worker", "r_take", "r_err"}
            /\ sleep'[1] = sleep[1] /\ sleep[1] = 0
      /\ timeout' = timeout
  <2>1. CASE SendCheck(1)
    <3>1. is_send[1]
      BY <1>0, <2>1, Numbers DEF SendCheck, SleepTimed, At
    <3>2. QED
      BY <1>0, <2>1, <3>1, Numbers DEF SendCheck, At, Goto, TypeOK, airVars, boxVars
  <2>2. CASE SendErr(1)
    BY <1>0, <2>2, Numbers DEF SendErr, SleepTimed, At, SendPC
  <2>3. CASE SendWake(1)
    BY <1>0, <2>3, Numbers DEF SendWake, At, Goto, TypeOK, airVars, boxVars
  <2>4. CASE DataRead(1)
    BY <1>0, <2>4, Numbers DEF DataRead, At, Goto, TypeOK, airVars, boxVars
  <2>5. CASE DataChecker(1) /\ ~Returns(1)
    <3>1. err' = 0 /\ UNCHANGED <<is_send, send_age, send_data, is_recieved, recv_data>>
      BY <1>0, <2>5, Numbers, CheckerCounts DEF DataChecker
    <3>2. CASE ready[1] \/ timeout[1] = 0
      BY <2>5, <3>1, <3>2, Numbers DEF DataChecker, DataReturn, Return, Returns, At, Goto, TypeOK
    <3>3. CASE ~(ready[1] \/ timeout[1] = 0)
      BY <2>5, <3>1, <3>3, Numbers DEF DataChecker, Sleep, At, Goto, TypeOK
    <3>4. QED
      BY <3>2, <3>3
  <2>6. CASE DataWake(1) /\ ~Returns(1)
    BY <1>0, <2>6, Numbers DEF DataWake, DataReturn, Return, Returns, At, Goto, TypeOK, airVars, boxVars
  <2>7. QED
    BY <2>1, <2>2, <2>3, <2>4, <2>5, <2>6
<1>2. SleepTimed'
  BY Numbers, SleepLib DEF TimedInv, LibStep
<1>3. sleep[1] = 0 \/ pc[1] \in {"s_sleep", "d_sleep"}
  BY <1>0, Numbers DEF SleepTimed
<1>4. HasPut(0, m_pc)' = HasPut(0, m_pc) /\ HasPut(1, s_pc)' = HasPut(1, s_pc)
  BY <1>1 DEF HasPut, masterVars, slaveVars
<1>5. /\ UNCHANGED <<m_pc, m_llc, m_trans_id, m_recv_list, m_data, m_pack>>
      /\ UNCHANGED <<s_pc, s_llc, s_trans_id, s_send_list, s_recv_list, s_data, s_pack>>
      /\ MasterTimed' /\ AckMatches' /\ SlaveHolds' = SlaveHolds
      /\ Waiting => Waiting'
  BY <1>1, <1>4, LoopsStill
<1>6. /\ AskOnAir' = AskOnAir /\ AskWaits' = AskWaits /\ AnswerOnAir' = AnswerOnAir
      /\ AnswerWaits' = AnswerWaits /\ Slept' = Slept /\ LooksAgain' = LooksAgain
  BY <1>1 DEF AskOnAir, AskWaits, AnswerOnAir, AnswerWaits, Slept, LooksAgain, At
<1>7. OneStage' /\ (~Quiet => Waiting)'
  BY <1>0, <1>5, <1>6 DEF OneStage, Quiet
<1>8. Exchanged'
  BY <1>0, <1>1, <1>4, <1>5, <1>6 DEF Exchanged, Current
<1>9. Deadlines'
  <2>1. lag' = lag
    OBVIOUS
  <2>2. Slept \in Int /\ lag[1] <= MaxLag
    BY Numbers DEF Slept
  <2>3. AskWaits' => Slept' <= IF At(1, "d_checker")' /\ ~ready'[1] THEN TimeOnAir + lag[1]
                                 ELSE IF sleep'[1] > 0 THEN TimeOnAir + MaxLag
                                 ELSE TimeOnAir + MaxLag + 1 + lag[1]
    <3> SUFFICES ASSUME AskWaits
                 PROVE  Slept <= IF pc'[1] = "d_checker" /\ ~ready'[1] THEN TimeOnAir + lag[1]
                                 ELSE IF sleep'[1] > 0 THEN TimeOnAir + MaxLag
                                 ELSE TimeOnAir + MaxLag + 1 + lag[1]
      BY <1>6 DEF At
    <3>1. Slept <= IF pc[1] = "d_checker" /\ ~ready[1] THEN TimeOnAir + lag[1]
                   ELSE IF sleep[1] > 0 THEN TimeOnAir + MaxLag
                   ELSE TimeOnAir + MaxLag + 1 + lag[1]
      BY <1>0 DEF Deadlines, At
    <3>2. CASE pc[1] = "d_checker" /\ ~ready[1]
      BY <1>1, <2>2, <3>1, <3>2, Numbers
    <3>3. CASE ~(pc[1] = "d_checker" /\ ~ready[1])
      <4>1. sleep'[1] = sleep[1] /\ ~(pc'[1] = "d_checker" /\ ~ready'[1])
        BY <1>1, <3>3 DEF AskWaits
      <4>2. QED
        BY <3>1, <3>3, <4>1
    <3>4. QED
      BY <3>2, <3>3
  <2>4. SlaveHolds' => Slept' <= TimeOnAir + MaxLag + 1 + lag'[1]
    BY <1>0, <1>5, <1>6, <2>1 DEF Deadlines
  <2>5. AnswerOnAir => sleep'[1] = sleep[1]
    BY <1>0, <1>1, Numbers DEF SleepTimed, AnswerOnAir
  <2>6. AnswerOnAir' =>
          IF sleep'[1] > 0
          THEN Slept' <= 2 * TimeOnAir + 2 * MaxLag + (1 - sleep'[1])
          ELSE (pc'[0] \in {"d_read", "d_checker", "d_sleep"} => LooksAgain')
    BY <1>0, <1>1, <1>6, <2>5 DEF Deadlines
  <2>7. AnswerWaits' =>
          ((At(0, "d_checker")' /\ ~ready'[0]) \/ At(0, "d_sleep")' => LooksAgain')
    BY <1>0, <1>1, <1>6 DEF Deadlines, At
  <2>8. QED
    BY <2>1, <2>3, <2>4, <2>6, <2>7 DEF Deadlines
<1>10. QED
  BY <1>1, <1>2, <1>5, <1>7, <1>8, <1>9 DEF TimedInv

-----------------------------------------------------------------------------
(* The worker of the radio, which any thread runs for both.                 *)

\* It takes off the air what is due, and lays it into the peer's box or loses
\* it; with one packet on its way there is nothing to count in err.
LEMMA WorkerMoves ==
  ASSUME TypeOK, OneStage, err = 0, ShadowWorker
  PROVE  /\ err' = 0
         /\ \A i \in ID : is_send'[i] = (is_send[i] \/ send_age[i] = TimeOnAir)
         /\ \A i \in ID : ~is_send'[i] => send_data'[i] = send_data[i]
         /\ \A i \in ID : is_recieved[i] => is_recieved'[i] /\ recv_data'[i] = recv_data[i]
         /\ \A i \in ID : is_recieved'[i] /\ ~is_recieved[i] =>
              ~is_send[1 - i] /\ is_send'[1 - i] /\ recv_data'[i] \in {send_data[1 - i], Garbled}
<1>0. \A i \in ID : 1 - i \in ID /\ Peer(i) = 1 - i
  BY DEF ID, Peer
<1>1. PICK fate \in [ID -> Fates] :
        /\ is_send' = [i \in ID |-> is_send[i] \/ Due(i)]
        /\ send_data' = [i \in ID |-> IF Heard(i, fate) THEN OnAir(i, fate) ELSE send_data[i]]
        /\ is_recieved' = [i \in ID |-> is_recieved[i] \/ Lands(Peer(i), fate)]
        /\ recv_data' = [i \in ID |-> IF Lands(Peer(i), fate)
                                      THEN OnAir(Peer(i), fate) ELSE recv_data[i]]
        /\ Count(One(Overflows(0, fate)) + One(Overflows(1, fate)) + One(BothSending(is_send')))
  BY DEF ShadowWorker
<1>9. /\ is_recieved' = [i \in ID |-> is_recieved[i] \/ Lands(Peer(i), fate)]
      /\ recv_data' = [i \in ID |-> IF Lands(Peer(i), fate)
                                    THEN OnAir(Peer(i), fate) ELSE recv_data[i]]
  BY <1>1
<1>2. \A i \in ID : is_send'[i] = (is_send[i] \/ send_age[i] = TimeOnAir)
  BY WorkerSends
<1>3. err' = 0
  <2>1. ~Overflows(0, fate) /\ ~Overflows(1, fate)
    BY DEF Overflows, Heard, Due, Peer, OneStage, AskOnAir, AskWaits, AnswerOnAir, AnswerWaits,
      ID_M, ID_S
  <2>2. ~BothSending(is_send')
    BY <1>2 DEF BothSending, ID, OneStage, AskOnAir, AnswerOnAir, ID_M, ID_S
  <2>3. err' = (0 + (0 + 0 + 0)) % ErrMod
    BY <1>1, <2>1, <2>2 DEF Count, One
  <2>4. 0 % ErrMod = 0
    BY WlEnvAssumption
  <2>5. QED
    BY <2>3, <2>4
<1>4. \A i \in ID : ~is_send'[i] => send_data'[i] = send_data[i]
  BY <1>1 DEF Heard, Due
<1>5. \A i \in ID : is_recieved[i] => is_recieved'[i] /\ recv_data'[i] = recv_data[i]
  <2>1. \A i \in ID : is_recieved[i] => ~Lands(Peer(i), fate)
    BY DEF Lands, Peer, ID
  <2>2. \A i \in ID : ~Lands(Peer(i), fate) => recv_data'[i] = recv_data[i]
    BY <1>9
  <2>3. \A i \in ID : is_recieved[i] => is_recieved'[i]
    BY <1>9
  <2>4. QED
    BY <2>1, <2>2, <2>3
<1>6. \A i \in ID : is_recieved'[i] /\ ~is_recieved[i] =>
              ~is_send[1 - i] /\ is_send'[1 - i] /\ recv_data'[i] \in {send_data[1 - i], Garbled}
  <2>1. \A i \in ID : is_recieved'[i] /\ ~is_recieved[i] => Lands(1 - i, fate)
    BY <1>0, <1>1
  <2>2. \A i \in ID : Lands(1 - i, fate) =>
          ~is_send[1 - i] /\ is_send'[1 - i] /\ recv_data'[i] = OnAir(1 - i, fate)
    BY <1>0, <1>1 DEF Lands, Heard, Due
  <2>3. QED
    BY <2>1, <2>2 DEF OnAir
<1>7. QED
  BY <1>2, <1>3, <1>4, <1>5, <1>6

LEMMA WorkerTimed ==
  ASSUME LinkInv, TimedInv, MaxLag < TimeOnAir, UNCHANGED <<masterVars, m_timer, slaveVars, lag>>,
         NEW i \in ID, SendWorker(i) \/ SendFlush(i) \/ RecvWorker(i) \/ DataWorker(i)
  PROVE  TimedInv'
<1> USE DEF ID_M, ID_S
<1>0. /\ OneStage /\ err = 0 /\ SleepTimed /\ (~Quiet => Waiting) /\ Deadlines /\ Exchanged
      /\ i \in {0, 1}
  BY Numbers DEF TimedInv
<1>1. /\ UNCHANGED <<sleep, timeout, time_sleep, ready, lag>>
      /\ \A j \in ID : j # i => pc'[j] = pc[j]
      /\ \/ pc[i] = "s_worker" /\ pc'[i] = "s_check"
         \/ pc[i] = "s_flush" /\ pc'[i] = "s_checker"
         \/ pc[i] = "r_worker" /\ pc'[i] = "d_worker"
         \/ pc[i] = "d_worker" /\ pc'[i] = "d_read"
  BY Numbers DEF SendWorker, SendFlush, RecvWorker, DataWorker, Goto, At, TypeOK
<1>2. /\ err' = 0
      /\ is_send'[0] = (is_send[0] \/ send_age[0] = TimeOnAir)
      /\ is_send'[1] = (is_send[1] \/ send_age[1] = TimeOnAir)
      /\ ~is_send'[0] => send_data'[0] = send_data[0]
      /\ ~is_send'[1] => send_data'[1] = send_data[1]
      /\ is_recieved[0] => is_recieved'[0] /\ recv_data'[0] = recv_data[0]
      /\ is_recieved[1] => is_recieved'[1] /\ recv_data'[1] = recv_data[1]
      /\ is_recieved'[0] /\ ~is_recieved[0] =>
           ~is_send[1] /\ is_send'[1] /\ recv_data'[0] \in {send_data[1], Garbled}
      /\ is_recieved'[1] /\ ~is_recieved[1] =>
           ~is_send[0] /\ is_send'[0] /\ recv_data'[1] \in {send_data[0], Garbled}
  <2>1. ShadowWorker
    BY DEF SendWorker, SendFlush, RecvWorker, DataWorker
  <2>2. 1 - 0 = 1 /\ 1 - 1 = 0
    OBVIOUS
  <2>3. QED
    BY <1>0, <2>1, <2>2, Numbers, WorkerMoves
<1>3. SleepTimed'
  BY Numbers, SleepLib DEF TimedInv, LibStep
<1>4. HasPut(0, m_pc)' = HasPut(0, m_pc) /\ HasPut(1, s_pc)' = HasPut(1, s_pc)
  BY <1>0, <1>1, Numbers DEF HasPut, masterVars, slaveVars
<1>5. /\ UNCHANGED <<m_pc, m_llc, m_trans_id, m_recv_list, m_data, m_pack>>
      /\ UNCHANGED <<s_pc, s_llc, s_trans_id, s_send_list, s_recv_list, s_data, s_pack>>
      /\ MasterTimed' /\ AckMatches' /\ SlaveHolds' = SlaveHolds
      /\ Waiting => Waiting'
  BY <1>1, <1>4, LoopsStill
<1>6. /\ AskOnAir' => AskOnAir
      /\ AskWaits => AskWaits'
      /\ AskWaits' => AskWaits \/ (AskOnAir /\ ~AskOnAir')
      /\ AnswerOnAir' => AnswerOnAir
      /\ AnswerWaits => AnswerWaits'
      /\ AnswerWaits' => AnswerWaits \/ (AnswerOnAir /\ ~AnswerOnAir')
  BY <1>2 DEF AskOnAir, AskWaits, AnswerOnAir, AnswerWaits
<1>7. OneStage' /\ (~Quiet => Waiting)'
  BY <1>0, <1>5, <1>6 DEF OneStage, Quiet
<1>8. Exchanged'
  <2>1. AskOnAir' => send_data'[0] = Current
    BY <1>0, <1>2, <1>6 DEF Exchanged, AskOnAir
  <2>2. AskWaits' => recv_data'[1] \in {Current, Garbled}
    BY <1>0, <1>2 DEF Exchanged, AskWaits, AskOnAir
  <2>3. AnswerOnAir' => send_data'[1] = Current
    BY <1>0, <1>2, <1>6 DEF Exchanged, AnswerOnAir
  <2>4. AnswerWaits' => recv_data'[0] \in {Current, Garbled}
    BY <1>0, <1>2 DEF Exchanged, AnswerWaits, AnswerOnAir
  <2>5. AnswerOnAir' \/ AnswerWaits' => AnswerOnAir \/ AnswerWaits
    BY <1>6
  <2>6. QED
    BY <1>0, <1>4, <1>5, <2>1, <2>2, <2>3, <2>4, <2>5 DEF Exchanged, Current
<1>9. Slept' = Slept /\ LooksAgain' = LooksAgain
  BY <1>0, <1>1, Numbers DEF Slept, LooksAgain, At
<1>10. ~is_send[1] => (is_send'[1] <=> sleep[1] = 0)
  <2>1. ~is_send[1] /\ pc[1] = "s_flush" => send_age[1] = TimeOnAir /\ sleep[1] = 0
    BY <1>0, Numbers DEF LinkInv, RInv, IInv, SleepCovers, SleepTimed, At
  <2>2. ~is_send[1] /\ pc[1] = "s_sleep" => send_age[1] + sleep[1] = TimeOnAir
    BY <1>0, Numbers DEF SleepTimed, At
  <2>3. ~is_send[1] => pc[1] \in {"s_sleep", "s_flush"}
    BY <1>0, Numbers DEF SleepTimed
  <2>4. sleep[1] \in Nat /\ send_age[1] \in Nat /\ TimeOnAir \in Nat
    BY Numbers
  <2>5. ~is_send[1] => (send_age[1] = TimeOnAir <=> sleep[1] = 0)
    BY <2>1, <2>2, <2>3, <2>4
  <2>6. QED
    BY <1>2, <2>5
<1>11. AskOnAir => Slept <= TimeOnAir
  <2>1. AskOnAir => pc[0] \in {"s_sleep", "s_flush"} /\ time_sleep[0] = 0
    BY <1>0, Numbers, Elsewhere DEF SleepTimed, AskOnAir, DataPC
  <2>2. QED
    BY <2>1, Numbers DEF Slept, At
<1>12. Deadlines'
  <2>1. AskWaits' => Slept' <= IF At(1, "d_checker")' /\ ~ready'[1] THEN TimeOnAir + lag'[1]
                               ELSE IF sleep'[1] > 0 THEN TimeOnAir + MaxLag
                               ELSE TimeOnAir + MaxLag + 1 + lag'[1]
    <3>1. CASE AskWaits
      <4>1. At(1, "d_checker")' = At(1, "d_checker")
        BY <1>0, <1>1, Numbers DEF At
      <4>2. QED
        BY <1>0, <1>1, <1>9, <3>1, <4>1 DEF Deadlines
    <3>2. CASE AskWaits' /\ ~AskWaits
      <4>1. Slept' <= TimeOnAir /\ Slept' \in Int /\ lag'[1] \in Nat
        BY <1>1, <1>6, <1>9, <1>11, <3>2, Numbers DEF Slept
      <4>2. QED
        BY <4>1, Numbers
    <3>3. QED
      BY <3>1, <3>2
  <2>2. SlaveHolds' => Slept' <= TimeOnAir + MaxLag + 1 + lag'[1]
    BY <1>0, <1>1, <1>5, <1>9 DEF Deadlines
  <2>3. AnswerOnAir' =>
          IF sleep'[1] > 0
          THEN Slept' <= 2 * TimeOnAir + 2 * MaxLag + (1 - sleep'[1])
          ELSE (pc'[0] \in {"d_read", "d_checker", "d_sleep"} => LooksAgain')
    <3>1. AnswerOnAir' => AnswerOnAir /\ sleep[1] > 0
      BY <1>6, <1>10, Numbers DEF AnswerOnAir
    <3>2. QED
      BY <1>0, <1>1, <1>9, <3>1 DEF Deadlines
  <2>4. AnswerWaits' =>
          ((At(0, "d_checker")' /\ ~ready'[0]) \/ At(0, "d_sleep")' => LooksAgain')
    <3>1. pc'[0] \in {"d_checker", "d_sleep"} => pc'[0] = pc[0]
      BY <1>0, <1>1, Numbers
    <3>2. CASE AnswerWaits
      BY <1>0, <1>1, <1>9, <3>1, <3>2 DEF Deadlines, At
    <3>3. CASE AnswerWaits' /\ ~AnswerWaits
      <4>1. AnswerOnAir /\ ~(sleep[1] > 0)
        BY <1>6, <1>10, <3>3, Numbers DEF AnswerOnAir
      <4>2. QED
        BY <1>0, <1>9, <3>1, <4>1 DEF Deadlines, At
    <3>4. QED
      BY <3>2, <3>3
  <2>5. QED
    BY <2>1, <2>2, <2>3, <2>4 DEF Deadlines
<1>13. QED
  BY <1>2, <1>3, <1>5, <1>7, <1>8, <1>12 DEF TimedInv

-----------------------------------------------------------------------------
(* A tick of the clock.                                                     *)

LEMMA TickTimed ==
  ASSUME LinkInv, TimedInv, MaxLag < TimeOnAir, LinkTick
  PROVE  TimedInv'
<1> USE DEF ID_M, ID_S
<1>0. /\ OneStage /\ err = 0 /\ SleepTimed /\ MasterTimed /\ (~Quiet => Waiting) /\ Deadlines
      /\ Exchanged /\ AckMatches
  BY DEF TimedInv
<1>1. /\ UNCHANGED <<is_send, send_data, is_recieved, recv_data, err, pc, timeout, time_sleep, ready>>
      /\ UNCHANGED <<m_pc, m_llc, m_trans_id, m_test_trans_id, m_send_list, m_send_link, m_recv_list,
                     m_data, m_pack, s_pc, s_llc, s_trans_id, s_send_list,
                     s_recv_list, s_data, s_pack>>
  BY DEF LinkTick, Tick, boxVars, masterVars, slaveVars
<1>2. /\ sleep'[0] = (IF sleep[0] > 0 THEN sleep[0] - 1 ELSE 0)
      /\ sleep'[1] = (IF sleep[1] > 0 THEN sleep[1] - 1 ELSE 0)
      /\ m_timer' \in Nat /\ m_timer' <= m_timer + 1
      /\ sleep[0] \in Nat /\ sleep[1] \in Nat /\ lag[0] \in Nat /\ lag[1] \in Nat
  <2>1. m_timer' = IF m_timer < 3 * TimeOnAir THEN m_timer + 1 ELSE m_timer
    BY DEF LinkTick, M!Advance
  <2>2. QED
    BY <2>1, Numbers DEF LinkTick, Tick
<1>3. /\ sleep[0] > 0 => pc[0] \in {"s_sleep", "d_sleep"} /\ lag'[0] = 0
      /\ sleep[0] = 0 /\ m_llc # "IDLE" => lag'[0] = lag[0] + 1
      /\ sleep[1] > 0 => pc[1] \in {"s_sleep", "d_sleep"} /\ lag'[1] = 0
      /\ sleep[1] = 0 => lag'[1] = lag[1] + 1
  <2>1. \A i \in ID : Asleep(i) <=> sleep[i] > 0
    BY <1>0, Numbers DEF SleepTimed, Asleep
  <2>2. /\ Asleep(0) => lag'[0] = 0
        /\ ~Asleep(0) /\ m_llc # "IDLE" => lag'[0] = lag[0] + 1
        /\ Asleep(1) => lag'[1] = 0
        /\ ~Asleep(1) => lag'[1] = lag[1] + 1
    BY Numbers DEF LinkTick, Rests, Starting
  <2>3. \A i \in ID : sleep[i] > 0 => pc[i] \in {"s_sleep", "d_sleep"}
    BY <1>0, Numbers DEF SleepTimed
  <2>4. QED
    BY <1>2, <2>1, <2>2, <2>3, Numbers
<1>4. SleepTimed'
  BY Numbers, SleepTick DEF TimedInv, LinkTick
<1>5. HasPut(0, m_pc)' = HasPut(0, m_pc) /\ HasPut(1, s_pc)' = HasPut(1, s_pc)
  BY <1>1 DEF HasPut
<1>6. MasterTimed'
  <2>1. m_send_list # <<>> /\ ~HasPut(0, m_pc) => m_timer' <= lag'[0]
    <3>1. m_send_list # <<>> /\ ~HasPut(0, m_pc) => sleep[0] = 0
      BY <1>2, <1>3, MasterWhere, Elsewhere DEF HasPut, SendPC, DataPC
    <3>2. m_send_list # <<>> /\ ~HasPut(0, m_pc) => m_timer <= lag[0]
      BY <1>0 DEF MasterTimed
    <3>3. m_send_list # <<>> => m_llc # "IDLE"
      BY MasterWhere
    <3>4. QED
      BY <1>2, <1>3, <3>1, <3>2, <3>3, Numbers
  <2>2. HasPut(0, m_pc) =>
          m_timer' + sleep'[0] <= TimeOnAir + MaxLag + (IF sleep'[0] > 0 THEN 0 ELSE lag'[0])
    <3> SUFFICES ASSUME HasPut(0, m_pc)
                 PROVE  m_timer' + sleep'[0]
                          <= TimeOnAir + MaxLag + (IF sleep'[0] > 0 THEN 0 ELSE lag'[0])
      OBVIOUS
    <3>1. m_timer + sleep[0] <= TimeOnAir + MaxLag + (IF sleep[0] > 0 THEN 0 ELSE lag[0])
      BY <1>0 DEF MasterTimed
    <3>2. m_llc # "IDLE"
      BY MasterWhere DEF HasPut
    <3>3. QED
      BY <1>2, <1>3, <3>1, <3>2, Numbers
  <2>3. QED
    BY <1>0, <1>1, <1>5, <2>1, <2>2 DEF MasterTimed
<1>7. /\ AskOnAir' = AskOnAir /\ AskWaits' = AskWaits /\ AnswerOnAir' = AnswerOnAir
      /\ AnswerWaits' = AnswerWaits /\ SlaveHolds' = SlaveHolds
  BY <1>1, <1>5 DEF AskOnAir, AskWaits, AnswerOnAir, AnswerWaits, SlaveHolds
<1>8. OneStage' /\ AckMatches'
  BY <1>0, <1>1, <1>7 DEF OneStage, AckMatches
<1>9. Waiting => Waiting'
  <2>1. ASSUME m_llc = "SEND_ALL", m_pc \in {"llc", "mac"}, m_timer <= TimeOnAir + MaxLag + lag[0]
        PROVE  m_timer' <= TimeOnAir + MaxLag + lag'[0]
    <3>1. sleep[0] = 0
      BY <1>2, <1>3, <2>1, Elsewhere
    <3>2. QED
      BY <1>2, <1>3, <2>1, <3>1, Numbers
  <2>2. QED
    BY <1>1, <1>5, <2>1 DEF Waiting
<1>10. (~Quiet => Waiting)'
  BY <1>0, <1>7, <1>9 DEF Quiet
<1>11. Exchanged'
  BY <1>0, <1>1, <1>5, <1>7 DEF Exchanged, Current
<1>12. /\ Slept \in Int /\ Slept' \in Int /\ Slept' <= Slept + 1
       /\ LooksAgain' = LooksAgain
  BY <1>1, <1>2, Numbers DEF Slept, LooksAgain, At
<1>13. Deadlines'
  <2>1. AskWaits' => Slept' <= IF At(1, "d_checker")' /\ ~ready'[1] THEN TimeOnAir + lag'[1]
                               ELSE IF sleep'[1] > 0 THEN TimeOnAir + MaxLag
                               ELSE TimeOnAir + MaxLag + 1 + lag'[1]
    <3> SUFFICES ASSUME AskWaits
                 PROVE  Slept' <= IF pc[1] = "d_checker" /\ ~ready[1] THEN TimeOnAir + lag'[1]
                                  ELSE IF sleep'[1] > 0 THEN TimeOnAir + MaxLag
                                  ELSE TimeOnAir + MaxLag + 1 + lag'[1]
      BY <1>1, <1>7 DEF At
    <3>1. Slept <= IF pc[1] = "d_checker" /\ ~ready[1] THEN TimeOnAir + lag[1]
                   ELSE IF sleep[1] > 0 THEN TimeOnAir + MaxLag
                   ELSE TimeOnAir + MaxLag + 1 + lag[1]
      BY <1>0 DEF Deadlines, At
    <3>2. CASE sleep[1] > 0
      <4>1. sleep[1] <= 1
        BY <1>0, <1>3, <3>2, Numbers DEF SleepTimed, At, OneStage, AnswerOnAir
      <4>2. sleep'[1] = 0 /\ lag'[1] = 0 /\ pc[1] # "d_checker"
        BY <1>2, <1>3, <3>2, <4>1
      <4>3. QED
        BY <1>12, <3>1, <3>2, <4>2, Numbers
    <3>3. CASE sleep[1] = 0
      <4>1. sleep'[1] = 0 /\ lag'[1] = lag[1] + 1
        BY <1>2, <1>3, <3>3
      <4>2. QED
        BY <1>2, <1>12, <3>1, <3>3, <4>1, Numbers
    <3>4. QED
      BY <1>2, <3>2, <3>3
  <2>2. SlaveHolds' => Slept' <= TimeOnAir + MaxLag + 1 + lag'[1]
    <3>1. SlaveHolds => lag'[1] = lag[1] + 1
      BY <1>0, <1>3, HolderAwake
    <3>2. SlaveHolds => Slept <= TimeOnAir + MaxLag + 1 + lag[1]
      BY <1>0 DEF Deadlines
    <3>3. QED
      BY <1>2, <1>7, <1>12, <3>1, <3>2, Numbers
  <2>3. AnswerOnAir' =>
          IF sleep'[1] > 0
          THEN Slept' <= 2 * TimeOnAir + 2 * MaxLag + (1 - sleep'[1])
          ELSE (pc'[0] \in {"d_read", "d_checker", "d_sleep"} => LooksAgain')
    <3>1. AnswerOnAir =>
            IF sleep[1] > 0
            THEN Slept <= 2 * TimeOnAir + 2 * MaxLag + (1 - sleep[1])
            ELSE (pc[0] \in {"d_read", "d_checker", "d_sleep"} => LooksAgain)
      BY <1>0 DEF Deadlines
    <3>2. CASE sleep[1] = 0
      BY <1>1, <1>2, <1>7, <1>12, <3>1, <3>2
    <3>3. CASE sleep[1] > 1
      <4>1. sleep'[1] > 0 /\ sleep'[1] = sleep[1] - 1
        BY <1>2, <3>3
      <4>2. AnswerOnAir => Slept' <= 2 * TimeOnAir + 2 * MaxLag + (1 - sleep'[1])
        BY <1>2, <1>12, <3>1, <3>3, <4>1, Numbers
      <4>3. QED
        BY <1>7, <4>1, <4>2
    <3>4. CASE sleep[1] = 1
      <4>1. sleep'[1] = 0
        BY <1>2, <3>4
      <4>2. pc[0] \in {"d_read", "d_checker", "d_sleep"} =>
              sleep[0] = (IF pc[0] = "d_sleep" THEN sleep[0] ELSE 0) /\ sleep[0] <= 1
        BY <1>0, <1>2, Numbers DEF SleepTimed, At
      <4>3. ASSUME AnswerOnAir, pc[0] \in {"d_read", "d_checker", "d_sleep"} PROVE LooksAgain
        <5>1. Slept <= 2 * TimeOnAir + 2 * MaxLag
          BY <3>1, <3>4, <4>3, Numbers
        <5>2. time_sleep[0] <= TimeOnAir + 2 * MaxLag
          BY <1>2, <4>2, <4>3, <5>1, Numbers DEF Slept, At
        <5>3. QED
          BY <5>2, Numbers DEF LooksAgain
      <4>4. QED
        BY <1>1, <1>7, <1>12, <4>1, <4>3
    <3>5. QED
      BY <1>2, <3>2, <3>3, <3>4
  <2>4. AnswerWaits' =>
          ((At(0, "d_checker")' /\ ~ready'[0]) \/ At(0, "d_sleep")' => LooksAgain')
    BY <1>0, <1>1, <1>7, <1>12 DEF Deadlines, At
  <2>5. QED
    BY <2>1, <2>2, <2>3, <2>4 DEF Deadlines
<1>14. QED
  BY <1>0, <1>1, <1>4, <1>6, <1>8, <1>10, <1>11, <1>13 DEF TimedInv

-----------------------------------------------------------------------------
(* The invariant and what follows from it.                                  *)

LEMMA TimedInitially == LinkInit => TimedInv
<1> USE DEF ID_M, ID_S
<1> SUFFICES ASSUME LinkInit PROVE TimedInv
  OBVIOUS
<1>1. /\ \A i \in ID : is_send[i] /\ ~is_recieved[i] /\ pc[i] = "client" /\ sleep[i] = 0
      /\ err = 0
      /\ m_pc = "llc" /\ m_llc = "IDLE" /\ m_send_list = <<>> /\ m_recv_list = <<>>
      /\ m_send_link = "ok"
      /\ s_pc = "llc" /\ s_llc = "IDLE" /\ s_send_list = <<>> /\ s_recv_list = <<>>
  BY DEF LinkInit, Init, M!Init, M!TsmInit, S!Init, S!TsmInit
<1>2. 0 \in ID /\ 1 \in ID
  BY DEF ID
<1>3. SleepTimed
  BY <1>1 DEF SleepTimed, At, SendPC
<1>4. Quiet
  BY <1>1, <1>2 DEF Quiet, AskOnAir, AskWaits, SlaveHolds, AnswerOnAir, AnswerWaits
<1>5. OneStage /\ Deadlines /\ Exchanged
  BY <1>1, <1>4 DEF Quiet, OneStage, Deadlines, Exchanged, SlaveHolds
<1>6. MasterTimed /\ AckMatches
  BY <1>1 DEF MasterTimed, HasPut, AckMatches
<1>7. QED
  BY <1>1, <1>3, <1>4, <1>5, <1>6 DEF TimedInv

LEMMA TimedKeeps ==
  ASSUME LinkInv, TimedInv, MaxLag < TimeOnAir, [LinkNext]_linkVars
  PROVE  TimedInv'
<1>1. CASE MasterStep
  <2>1. UNCHANGED <<slaveVars, lag>>
    BY <1>1 DEF MasterStep
  <2>2. CASE M!LlcStep /\ UNCHANGED vars
    BY <2>1, <2>2, MasterLlcTimed
  <2>3. CASE MasterMac /\ UNCHANGED <<m_test_trans_id, m_timer>>
    BY <2>1, <2>3, MasterSendTimed, MasterReceiveTimed, MasterSentTimed, MasterFillTimed,
       MasterReceivedTimed, MasterNothingTimed
    DEF MasterMac
  <2>4. CASE /\ Inside(ID_M) \/ SendPut(ID_M, m_data[Head(m_send_list)])
             /\ UNCHANGED <<masterVars, m_timer>>
    BY <2>1, <2>4, Numbers, MasterPutTimed, MasterInsideTimed, WorkerTimed DEF Inside, ID_M
  <2>5. QED
    BY <1>1, <2>2, <2>3, <2>4 DEF MasterStep
<1>2. CASE SlaveStep
  <2>1. UNCHANGED <<masterVars, m_timer, lag>>
    BY <1>2 DEF SlaveStep
  <2>2. CASE S!LlcStep /\ UNCHANGED vars
    BY <2>1, <2>2, SlaveLlcTimed
  <2>3. CASE SlaveMac
    BY <2>1, <2>3, SlaveSendTimed, SlaveReceiveTimed, SlaveSentTimed, SlaveFillTimed,
       SlaveReceivedTimed, SlaveNothingTimed
    DEF SlaveMac
  <2>4. CASE /\ Inside(ID_S) \/ SendPut(ID_S, s_data[Head(s_send_list)])
             /\ UNCHANGED slaveVars
    BY <2>1, <2>4, Numbers, SlavePutTimed, SlaveInsideTimed, WorkerTimed DEF Inside, ID_S
  <2>5. QED
    BY <1>2, <2>2, <2>3, <2>4 DEF SlaveStep
<1>3. CASE LinkTick
  BY <1>3, TickTimed
<1>4. CASE UNCHANGED linkVars
  <2>1. UNCHANGED <<vars, masterVars, m_timer, slaveVars, lag>>
    BY <1>4 DEF linkVars
  <2>2. /\ UNCHANGED <<is_send, send_age, send_data, is_recieved, recv_data, err, pc, timeout,
                       time_sleep, sleep, ready>>
        /\ UNCHANGED <<m_pc, m_llc, m_trans_id, m_test_trans_id, m_send_list, m_send_link,
                       m_recv_list, m_data, m_pack, m_timer>>
        /\ UNCHANGED <<s_pc, s_llc, s_trans_id, s_send_list, s_recv_list, s_data, s_pack>>
        /\ UNCHANGED lag
    BY <2>1 DEF vars, airVars, boxVars, callVars, masterVars, slaveVars
  <2>3. SleepTimed' /\ MasterTimed' /\ AckMatches' /\ err' = 0
    BY <2>2 DEF TimedInv, SleepTimed, MasterTimed, AckMatches, HasPut, At
  <2>4. /\ AskOnAir' = AskOnAir /\ AskWaits' = AskWaits /\ SlaveHolds' = SlaveHolds
        /\ AnswerOnAir' = AnswerOnAir /\ AnswerWaits' = AnswerWaits
        /\ Slept' = Slept /\ LooksAgain' = LooksAgain /\ Waiting' = Waiting
    BY <2>2 DEF AskOnAir, AskWaits, SlaveHolds, AnswerOnAir, AnswerWaits, Slept, LooksAgain,
      Waiting, HasPut, At
  <2>5. OneStage' /\ (~Quiet => Waiting)' /\ Deadlines'
    BY <2>2, <2>4 DEF TimedInv, OneStage, Quiet, Deadlines, At
  <2>6. Exchanged'
    BY <2>2, <2>4 DEF TimedInv, Exchanged, Current, HasPut
  <2>7. QED
    BY <2>3, <2>5, <2>6 DEF TimedInv
<1>5. QED
  BY <1>1, <1>2, <1>3, <1>4 DEF LinkNext

\* The timing invariant, as long as no thread that does not sleep is kept from
\* running for as long as a packet is on the air.
THEOREM TimedInvariance == MaxLag < TimeOnAir => (LinkSpec => [](LinkInv /\ TimedInv))
<1> SUFFICES ASSUME MaxLag < TimeOnAir PROVE LinkSpec => [](LinkInv /\ TimedInv)
  OBVIOUS
<1>1. LinkInit => LinkInv /\ TimedInv
  BY LinkInitially, TimedInitially
<1>2. LinkInv /\ TimedInv /\ [LinkNext]_linkVars => (LinkInv /\ TimedInv)'
  BY LinkKeeps, TimedKeeps
<1>3. QED
  BY <1>1, <1>2, PTL DEF LinkSpec

\* The half-duplex radio stays free of errors: no collision, no packet overwritten
\* on the air, none that arrives at a full buffer.
THEOREM ErrorFree == MaxLag < TimeOnAir => (LinkSpec => []RadioErrorFree)
<1>1. TimedInv => RadioErrorFree
  BY DEF TimedInv, RadioErrorFree
<1>2. QED
  BY <1>1, TimedInvariance, PTL

\* The answer that ends a transaction carries its id, which the code only asserts.
THEOREM AnswersMatch == MaxLag < TimeOnAir => (LinkSpec => []AckMatches)
<1>1. TimedInv => AckMatches
  BY DEF TimedInv
<1>2. QED
  BY <1>1, TimedInvariance, PTL

\* The master's LLC never queues a pack behind another, which the code only asserts.
THEOREM CommitsToEmptyQueue == MaxLag < TimeOnAir => (LinkSpec => []MasterCommitsToEmptyQueue)
<1>1. TimedInv => MasterCommitsToEmptyQueue
  BY DEF TimedInv, MasterTimed, MasterCommitsToEmptyQueue, M!CommitsToEmptyQueue, M!In
<1>2. QED
  BY <1>1, TimedInvariance, PTL

\* What the master's MAC hands to the radio is one pack that its LLC has built.
THEOREM SendsWhatWasBuilt == MaxLag < TimeOnAir => (LinkSpec => []MasterSendsWhatWasBuilt)
<1>1. LinkInv /\ TimedInv => MasterSendsWhatWasBuilt
  <2> SUFFICES ASSUME LinkInv, TimedInv, m_pc = "send"
               PROVE  /\ m_send_link = "ok" /\ Len(m_send_list) = 1
                      /\ m_data[Head(m_send_list)] # Garbled
    BY DEF MasterSendsWhatWasBuilt, M!SendsWhatWasBuilt
  <2>1. m_send_link = "ok"
    BY DEF TimedInv, MasterTimed
  <2>2. Len(m_send_list) = 1
    <3>1. m_send_list = <<Head(m_llc_resend_list)>>
      BY MasterWhere DEF LinkInv, MP!QueueIsCurrent
    <3>2. \A x : Len(<<x>>) = 1
      OBVIOUS
    <3>3. QED
      BY <3>1, <3>2
  <2>3. m_data[Head(m_send_list)] \in Payload
    BY SentPackets
  <2>4. QED
    BY <2>1, <2>2, <2>3, WlEnvAssumption
<1>2. QED
  BY <1>1, TimedInvariance, PTL

\* A step of the link begins a transaction, takes it up, finishes work on it,
\* ends it, or does nothing of the kind.
LEMMA SawStep ==
  ASSUME LinkInv, TimedInv, [LinkNext]_linkVars
  PROVE  [SAW!Next]_(SAW!vars)
<1> USE DEF ID_M, ID_S
<1>0. MasterTimed /\ (~Quiet => Waiting) /\ Exchanged /\ m_trans_id \in 0 .. 3
  BY MasterWhere DEF TimedInv
<1>1. ASSUME UNCHANGED <<m_trans_id, s_trans_id, m_llc, s_llc>> PROVE UNCHANGED SAW!vars
  BY <1>1 DEF SAW!vars
<1>2. CASE MasterStep
  <2>1. s_trans_id' = s_trans_id /\ s_llc' = s_llc
    BY <1>2 DEF MasterStep, slaveVars
  <2>2. CASE M!LlcStep
    <3>1. CASE m_llc = "IDLE" /\ m_llc' = "SEND_ALL"
      <4>1. m_trans_id' = M!NextTransId(m_trans_id)
        BY <1>0, <2>2, <3>1, MasterLlc
      <4>2. m_trans_id' = (m_trans_id + 1) % (3 + 1)
        BY <1>0, <4>1 DEF M!NextTransId, M!TRANS_ID_MAX, M!TRANS_ID_START
      <4>3. SAW!Begin
        BY <2>1, <3>1, <4>2 DEF SAW!Begin, M!TRANS_ID_MAX
      <4>4. QED
        BY <4>3 DEF SAW!Next
    <3>2. CASE m_llc = "SEND_ALL" /\ m_llc' = "RECEIVED_ALL"
      <4>1. m_recv_list # <<>> /\ m_trans_id' = m_trans_id /\ m_pc = "llc"
        BY <1>0, <2>2, <3>2, MasterLlc
      <4>2. s_trans_id = m_trans_id /\ s_llc # "RECEIVED_ALL"
        BY <1>0, <4>1 DEF Exchanged, Waiting, HasPut, Quiet, SlaveHolds
      <4>3. SAW!End
        BY <2>1, <3>2, <4>1, <4>2 DEF SAW!End
      <4>4. QED
        BY <4>3 DEF SAW!Next
    <3>3. CASE ~(m_llc = "IDLE" /\ m_llc' = "SEND_ALL")
               /\ ~(m_llc = "SEND_ALL" /\ m_llc' = "RECEIVED_ALL")
      <4>1. m_trans_id' = m_trans_id
        BY <1>0, <2>2, <3>3, MasterLlc
      <4>2. (m_llc' \in {"SEND_ALL", "RESEND"}) = (m_llc \in {"SEND_ALL", "RESEND"})
        BY <1>0, <2>2, <3>3, MasterLlc
      <4>3. QED
        BY <2>1, <4>1, <4>2 DEF SAW!vars
    <3>4. QED
      BY <3>1, <3>2, <3>3
  <2>3. CASE MasterMac \/ UNCHANGED masterVars
    <3>1. m_trans_id' = m_trans_id /\ m_llc' = m_llc
      BY <2>3 DEF MasterMac, masterVars, M!MacSend, M!MacReceive, M!MacSent, M!MacFill,
        M!MacReceived, M!MacNothing
    <3>2. QED
      BY <1>1, <2>1, <3>1
  <2>4. QED
    BY <1>2, <2>2, <2>3 DEF MasterStep
<1>3. CASE SlaveStep
  <2>1. m_trans_id' = m_trans_id /\ m_llc' = m_llc
    BY <1>3 DEF SlaveStep, masterVars
  <2>2. CASE S!LlcStep
    <3>1. CASE s_llc' = "RECEIVED_ALL"
      <4>1. /\ s_llc = "IDLE" /\ s_recv_list # <<>>
            /\ s_trans_id # m_trans_id /\ s_trans_id' = m_trans_id
        BY <2>2, <3>1, SlaveLlc
      <4>2. m_llc = "SEND_ALL"
        BY <1>0, <4>1 DEF Quiet, SlaveHolds, Waiting
      <4>3. SAW!TakeUp
        BY <2>1, <3>1, <4>1, <4>2 DEF SAW!TakeUp
      <4>4. QED
        BY <4>3 DEF SAW!Next
    <3>2. CASE s_llc' # "RECEIVED_ALL"
      <4>1. s_trans_id' = s_trans_id
        BY <2>2, <3>2, SlaveLlc
      <4>2. CASE s_llc = "RECEIVED_ALL"
        <5>1. SAW!Done
          BY <2>1, <3>2, <4>1, <4>2 DEF SAW!Done
        <5>2. QED
          BY <5>1 DEF SAW!Next
      <4>3. CASE s_llc # "RECEIVED_ALL"
        BY <2>1, <3>2, <4>1, <4>3 DEF SAW!vars
      <4>4. QED
        BY <4>2, <4>3
    <3>3. QED
      BY <3>1, <3>2
  <2>3. CASE SlaveMac \/ UNCHANGED slaveVars
    <3>1. s_trans_id' = s_trans_id /\ s_llc' = s_llc
      BY <2>3 DEF SlaveMac, slaveVars, S!MacSend, S!MacReceive, S!MacSent, S!MacFill,
        S!MacReceived, S!MacNothing
    <3>2. QED
      BY <1>1, <2>1, <3>1
  <2>4. QED
    BY <1>3, <2>2, <2>3 DEF SlaveStep
<1>4. CASE LinkTick \/ UNCHANGED linkVars
  <2>1. UNCHANGED <<m_trans_id, s_trans_id, m_llc, s_llc>>
    BY <1>4 DEF LinkTick, linkVars, masterVars, slaveVars
  <2>2. QED
    BY <1>1, <2>1
<1>5. QED
  BY <1>2, <1>3, <1>4 DEF LinkNext

\* The link implements stop-and-wait with its two bits of id and a timer: the
\* slave takes up every transaction exactly once and in order, and the master
\* ends none that the slave has not taken up and finished.
THEOREM StopsAndWaits == MaxLag < TimeOnAir => (LinkSpec => ImplementsStopAndWait)
<1>1. LinkInit => SAW!Init
  BY DEF LinkInit, M!Init, M!TsmInit, S!Init, S!TsmInit, SAW!Init, M!TRANS_ID_START,
    S!TRANS_ID_NONE, M!TRANS_ID_NONE
<1>2. LinkInv /\ TimedInv /\ [LinkNext]_linkVars => [SAW!Next]_(SAW!vars)
  BY SawStep
<1>3. QED
  BY <1>1, <1>2, TimedInvariance, PTL DEF LinkSpec, ImplementsStopAndWait, SAW!Spec
=============================================================================
