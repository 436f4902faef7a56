---------------------------- MODULE WlEnvProofs ----------------------------
(***************************************************************************)
(* What WlEnv's runs check on small instances, proved for every time on    *)
(* air, every set of payloads and timeouts, every loss and noise setting.  *)
(***************************************************************************)
EXTENDS WlEnv, TLAPS

\* While a thread sleeps in a blocking send, what is left of its sleep covers
\* what is left of its packet's time on air.
SleepCovers ==
  \A i \in ID :
    /\ At(i, "s_sleep") => is_send[i] \/ send_age[i] + sleep[i] >= TimeOnAir
    /\ At(i, "s_flush") => is_send[i] \/ send_age[i] = TimeOnAir

\* A receive takes a packet only after wl_is_data has said yes.
TakeReady == \A i \in ID : At(i, "r_take") => ready[i]

\* time_sleep is a local of wl_availableData.
TimeSleepLocal == \A i \in ID : time_sleep[i] # 0 => pc[i] \in DataPC

IInv ==
  /\ TypeOK
  /\ TimeSleepLocal
  /\ SleepCovers
  /\ TakeReady
  /\ BlockingSendDone
  /\ AvailableStays
  /\ OverwriteCounted

-----------------------------------------------------------------------------
\* The statistics counter stays within its width, whatever is added.
LEMMA CountType ==
  ASSUME TypeOK, NEW n \in Nat, Count(n)
  PROVE  err' \in 0 .. ErrMod - 1
BY WlEnvAssumption DEF TypeOK, Count

\* What a run of the shadow worker does to the buffers: it only ever takes
\* packets off the air and fills boxes, and it takes off every packet due.
LEMMA WorkerFacts ==
  ASSUME TypeOK, ShadowWorker
  PROVE  /\ is_send' \in [ID -> BOOLEAN]
         /\ send_age' = send_age
         /\ send_data' \in [ID -> Contents]
         /\ is_recieved' \in [ID -> BOOLEAN]
         /\ recv_data' \in [ID -> Contents]
         /\ err' \in 0 .. ErrMod - 1
         /\ unreported' \in BOOLEAN
         /\ \A i \in ID : is_send[i] => is_send'[i]
         /\ \A i \in ID : send_age[i] = TimeOnAir => is_send'[i]
         /\ \A i \in ID : is_recieved[i] => is_recieved'[i]
<1>1. PICK fate \in [ID -> Fates] :
        /\ is_send' = [i \in ID |-> is_send[i] \/ Due(i)]
        /\ send_data' = [i \in ID |-> IF Heard(i, fate) THEN OnAir(i, fate) ELSE send_data[i]]
        /\ is_recieved' = [i \in ID |-> is_recieved[i] \/ Lands(Peer(i), fate)]
        /\ recv_data' = [i \in ID |-> IF Lands(Peer(i), fate)
                                      THEN OnAir(Peer(i), fate) ELSE recv_data[i]]
        /\ Count(One(Overflows(0, fate)) + One(Overflows(1, fate)) + One(BothSending(is_send')))
        /\ unreported' = (unreported /\ ~BothSending(is_send'))
        /\ UNCHANGED send_age
  BY DEF ShadowWorker
<1>2. \A i \in ID : Peer(i) \in ID /\ OnAir(i, fate) \in Contents
  BY DEF ID, Peer, OnAir, Contents, TypeOK
<1>3. \A b \in BOOLEAN : One(b) \in Nat
  BY DEF One
<1>4. err' \in 0 .. ErrMod - 1
  <2>1. /\ One(Overflows(0, fate)) \in Nat
        /\ One(Overflows(1, fate)) \in Nat
        /\ One(BothSending(is_send')) \in Nat
    BY DEF One
  <2>2. One(Overflows(0, fate)) + One(Overflows(1, fate)) + One(BothSending(is_send')) \in Nat
    BY <2>1
  <2>3. QED
    BY <1>1, <2>2, CountType
<1>5. /\ send_data' \in [ID -> Contents]
      /\ recv_data' \in [ID -> Contents]
  BY <1>1, <1>2 DEF TypeOK
<1>6. /\ is_send' \in [ID -> BOOLEAN]
      /\ is_recieved' \in [ID -> BOOLEAN]
      /\ unreported' \in BOOLEAN
  BY <1>1 DEF TypeOK, Due, Lands, Heard, BothSending
<1>7. /\ \A i \in ID : is_send[i] => is_send'[i]
      /\ \A i \in ID : send_age[i] = TimeOnAir => is_send'[i]
      /\ \A i \in ID : is_recieved[i] => is_recieved'[i]
  BY <1>1 DEF TypeOK, Due
<1>8. QED
  BY <1>1, <1>4, <1>5, <1>6, <1>7

\* What the channel check at the end of a library call does.
LEMMA CheckerFacts ==
  ASSUME TypeOK, ShadowChecker
  PROVE  /\ UNCHANGED <<airVars, boxVars>>
         /\ err' \in 0 .. ErrMod - 1
         /\ unreported' \in BOOLEAN
<1>1. One(BothSending(is_send)) \in Nat
  BY DEF One
<1>2. err' \in 0 .. ErrMod - 1
  BY <1>1, CountType DEF ShadowChecker
<1>3. QED
  BY <1>2 DEF ShadowChecker, TypeOK, BothSending

LEMMA InitIInv == Init => IInv
<1> SUFFICES ASSUME Init PROVE IInv
  OBVIOUS
<1>0. 0 \in 0 .. ErrMod - 1 /\ TimeOnAir \in 0 .. TimeOnAir /\ 0 \in 0 .. TimeOnAir
  BY WlEnvAssumption
<1>1. TypeOK
  BY <1>0 DEF Init, TypeOK, PC, Contents
<1>2. TimeSleepLocal /\ SleepCovers /\ TakeReady /\ BlockingSendDone /\ AvailableStays /\ OverwriteCounted
  BY DEF Init, TimeSleepLocal, DataPC, SleepCovers, TakeReady, BlockingSendDone, AvailableStays, OverwriteCounted, At
<1>3. QED
  BY <1>1, <1>2 DEF IInv

-----------------------------------------------------------------------------
(* One lemma per group of actions: each action preserves IInv. *)

\* The conjuncts that are not about types.
Safe == TimeSleepLocal /\ SleepCovers /\ TakeReady /\ BlockingSendDone /\ AvailableStays /\ OverwriteCounted

\* Entering a library call.
LEMMA CallStep ==
  ASSUME IInv, NEW i \in ID, ClientCall(i)
  PROVE  IInv'
<1> USE DEF At, Goto, airVars, boxVars
<1>1. PICK t \in Timeouts, o \in {"send", "avail", "recv"},
           l \in {"s_worker", "d_worker", "r_worker"} : Call(i, o, l, t)
  BY DEF ClientCall, SendCall, AvailCall, RecvCall
<1>2. TypeOK'
  BY <1>1, WlEnvAssumption DEF IInv, TypeOK, Call, PC, SendPC, DataPC, RecvPC, TimeSleepLocal
<1>3. Safe'
  BY <1>1 DEF IInv, TypeOK, Call, Safe, TimeSleepLocal, DataPC, SleepCovers, TakeReady, BlockingSendDone, AvailableStays, OverwriteCounted
<1>4. QED
  BY <1>2, <1>3 DEF IInv, Safe

\* The shadow worker at the start of a call, and after the sleep of a send.
LEMMA WorkerStep ==
  ASSUME IInv, NEW i \in ID,
         SendWorker(i) \/ SendFlush(i) \/ RecvWorker(i) \/ DataWorker(i)
  PROVE  IInv'
<1> USE DEF At, Goto
<1>1. /\ ShadowWorker
      /\ UNCHANGED <<op, timeout, time_sleep, sleep, ready, warned>>
      /\ \/ At(i, "s_worker") /\ Goto(i, "s_check")
         \/ At(i, "s_flush") /\ Goto(i, "s_checker")
         \/ At(i, "r_worker") /\ Goto(i, "d_worker")
         \/ At(i, "d_worker") /\ Goto(i, "d_read")
  BY DEF SendWorker, SendFlush, RecvWorker, DataWorker
<1>2. /\ is_send' \in [ID -> BOOLEAN]
      /\ send_age' = send_age
      /\ is_recieved' \in [ID -> BOOLEAN]
      /\ \A j \in ID : is_send[j] => is_send'[j]
      /\ \A j \in ID : send_age[j] = TimeOnAir => is_send'[j]
      /\ \A j \in ID : is_recieved[j] => is_recieved'[j]
  BY <1>1, WorkerFacts DEF IInv
<1>3. TypeOK'
  BY <1>1, WorkerFacts DEF IInv, TypeOK, PC, SendPC, DataPC, RecvPC
<1>4. Safe'
  BY <1>1, <1>2 DEF IInv, TypeOK, Safe, TimeSleepLocal, DataPC, SleepCovers, TakeReady, BlockingSendDone, AvailableStays, OverwriteCounted
<1>5. QED
  BY <1>3, <1>4 DEF IInv, Safe

\* The rest of wl_sendPacketTimeout.
LEMMA SendStep ==
  ASSUME IInv, NEW i \in ID, NEW p \in Payload,
         SendCheck(i) \/ SendErr(i) \/ SendPut(i, p) \/ SendWake(i) \/ SendChecker(i)
  PROVE  IInv'
<1> USE DEF At, Goto, airVars, boxVars
<1>1. CASE SendCheck(i)
  <2>1. TypeOK'
    BY <1>1 DEF SendCheck, IInv, TypeOK, PC, SendPC
  <2>2. Safe'
    BY <1>1 DEF SendCheck, IInv, TypeOK, Safe, TimeSleepLocal, DataPC, SleepCovers, TakeReady, BlockingSendDone, AvailableStays, OverwriteCounted
  <2>3. QED
    BY <2>1, <2>2 DEF IInv, Safe
<1>2. CASE SendErr(i)
  <2>1. err' \in 0 .. ErrMod - 1
    BY <1>2, CountType DEF SendErr, IInv
  <2>2. TypeOK'
    BY <1>2, <2>1 DEF SendErr, IInv, TypeOK, PC, SendPC
  <2>3. Safe'
    BY <1>2 DEF SendErr, IInv, TypeOK, Safe, TimeSleepLocal, DataPC, SleepCovers, TakeReady, BlockingSendDone, AvailableStays, OverwriteCounted
  <2>4. QED
    BY <2>2, <2>3 DEF IInv, Safe
<1>3. CASE SendPut(i, p)
  <2>1. TypeOK'
    BY <1>3, WlEnvAssumption DEF SendPut, Sleep, IInv, TypeOK, PC, SendPC, Contents, ID, Peer
  <2>2. SleepCovers' /\ BlockingSendDone'
    BY <1>3, WlEnvAssumption DEF SendPut, Sleep, IInv, TypeOK, SleepCovers, BlockingSendDone
  <2>3. TimeSleepLocal' /\ TakeReady' /\ AvailableStays' /\ OverwriteCounted'
    BY <1>3 DEF SendPut, Sleep, IInv, TypeOK, TimeSleepLocal, DataPC, TakeReady, AvailableStays, OverwriteCounted
  <2>4. QED
    BY <2>1, <2>2, <2>3 DEF IInv
<1>4. CASE SendWake(i)
  <2>1. TypeOK'
    BY <1>4 DEF SendWake, IInv, TypeOK, PC, SendPC
  <2>2. Safe'
    BY <1>4, WlEnvAssumption DEF SendWake, IInv, TypeOK, Safe, TimeSleepLocal, DataPC, SleepCovers, TakeReady, BlockingSendDone, AvailableStays, OverwriteCounted
  <2>3. QED
    BY <2>1, <2>2 DEF IInv, Safe
<1>5. CASE SendChecker(i)
  <2>1. UNCHANGED <<airVars, boxVars>> /\ err' \in 0 .. ErrMod - 1 /\ unreported' \in BOOLEAN
    BY <1>5, CheckerFacts DEF SendChecker, IInv
  <2>2. TypeOK'
    BY <1>5, <2>1, WlEnvAssumption DEF SendChecker, Return, IInv, TypeOK, PC, TimeSleepLocal, DataPC
  <2>3. Safe'
    BY <1>5, <2>1 DEF SendChecker, Return, IInv, TypeOK, Safe, TimeSleepLocal, DataPC, SleepCovers, TakeReady, BlockingSendDone, AvailableStays, OverwriteCounted
  <2>4. QED
    BY <2>2, <2>3 DEF IInv, Safe
<1>6. QED
  BY <1>1, <1>2, <1>3, <1>4, <1>5

\* What wl_availableData's return to its caller changes.
LEMMA DataReturnFacts ==
  ASSUME TypeOK, NEW i \in ID, DataReturn(i)
  PROVE  /\ op' \in [ID -> {"none", "send", "avail", "recv"}]
         /\ timeout' \in [ID -> Timeouts \cup {0}]
         /\ time_sleep' = [time_sleep EXCEPT ![i] = 0]
         /\ \A j \in ID : j # i => timeout'[j] = timeout[j]
         /\ \E l \in {"client", "r_take", "r_err"} :
              Goto(i, l) /\ (l = "r_take" => ready[i])
BY DEF DataReturn, Return, TypeOK, Goto

\* The rest of wl_availableData and wl_receivePacketTimeout.
LEMMA DataStep ==
  ASSUME IInv, NEW i \in ID,
         DataRead(i) \/ DataChecker(i) \/ DataWake(i) \/ RecvErr(i) \/ RecvTake(i) \/ RecvChecker(i)
  PROVE  IInv'
<1> USE DEF At, Goto, airVars, boxVars
<1>1. CASE DataRead(i)
  <2>1. TypeOK'
    BY <1>1 DEF DataRead, IInv, TypeOK, PC, DataPC
  <2>2. Safe'
    BY <1>1 DEF DataRead, IInv, TypeOK, Safe, TimeSleepLocal, DataPC, SleepCovers, TakeReady, BlockingSendDone, AvailableStays, OverwriteCounted
  <2>3. QED
    BY <2>1, <2>2 DEF IInv, Safe
<1>2. CASE DataChecker(i)
  <2>1. UNCHANGED <<airVars, boxVars>> /\ err' \in 0 .. ErrMod - 1 /\ unreported' \in BOOLEAN
    BY <1>2, CheckerFacts DEF DataChecker, IInv
  <2>2. CASE DataReturn(i) /\ UNCHANGED sleep
    <3>1. TypeOK'
      BY <1>2, <2>1, <2>2, DataReturnFacts DEF DataChecker, IInv, TypeOK, PC, RecvPC
    <3>2. Safe'
      BY <1>2, <2>1, <2>2, DataReturnFacts DEF DataChecker, IInv, TypeOK, Safe, TimeSleepLocal, DataPC, SleepCovers, TakeReady, BlockingSendDone, AvailableStays, OverwriteCounted
    <3>3. QED
      BY <3>1, <3>2 DEF IInv, Safe
  <2>3. CASE Sleep(i, "d_sleep", 1) /\ UNCHANGED <<op, timeout, time_sleep>>
    <3>1. TypeOK'
      BY <1>2, <2>1, <2>3, WlEnvAssumption DEF DataChecker, Sleep, IInv, TypeOK, PC, DataPC
    <3>2. Safe'
      BY <1>2, <2>1, <2>3 DEF DataChecker, Sleep, IInv, TypeOK, Safe, TimeSleepLocal, DataPC, SleepCovers, TakeReady, BlockingSendDone, AvailableStays, OverwriteCounted
    <3>3. QED
      BY <3>1, <3>2 DEF IInv, Safe
  <2>4. QED
    BY <1>2, <2>2, <2>3 DEF DataChecker
<1>3. CASE DataWake(i)
  <2>1. CASE DataReturn(i)
    <3>1. TypeOK'
      BY <1>3, <2>1, DataReturnFacts DEF DataWake, IInv, TypeOK, PC, RecvPC
    <3>2. Safe'
      BY <1>3, <2>1, DataReturnFacts DEF DataWake, IInv, TypeOK, Safe, TimeSleepLocal, DataPC, SleepCovers, TakeReady, BlockingSendDone, AvailableStays, OverwriteCounted
    <3>3. QED
      BY <3>1, <3>2 DEF IInv, Safe
  <2>2. CASE /\ timeout[i] > time_sleep[i] + 1
             /\ time_sleep' = [time_sleep EXCEPT ![i] = @ + 1]
             /\ Goto(i, "d_worker")
             /\ UNCHANGED <<op, timeout>>
    <3>1. TypeOK'
      BY <1>3, <2>2 DEF DataWake, IInv, TypeOK, PC, DataPC
    <3>2. Safe'
      BY <1>3, <2>2 DEF DataWake, IInv, TypeOK, Safe, TimeSleepLocal, DataPC, SleepCovers, TakeReady, BlockingSendDone, AvailableStays, OverwriteCounted
    <3>3. QED
      BY <3>1, <3>2 DEF IInv, Safe
  <2>3. QED
    BY <1>3, <2>1, <2>2 DEF DataWake
<1>4. CASE RecvErr(i)
  <2>1. err' \in 0 .. ErrMod - 1
    BY <1>4, CountType DEF RecvErr, IInv
  <2>2. TypeOK'
    BY <1>4, <2>1 DEF RecvErr, Return, IInv, TypeOK, PC, TimeSleepLocal, DataPC
  <2>3. Safe'
    BY <1>4 DEF RecvErr, Return, IInv, TypeOK, Safe, TimeSleepLocal, DataPC, SleepCovers, TakeReady, BlockingSendDone, AvailableStays, OverwriteCounted
  <2>4. QED
    BY <2>2, <2>3 DEF IInv, Safe
<1>5. CASE RecvTake(i)
  <2>1. TypeOK'
    BY <1>5 DEF RecvTake, IInv, TypeOK, PC, RecvPC
  <2>2. Safe'
    BY <1>5 DEF RecvTake, IInv, TypeOK, Safe, TimeSleepLocal, DataPC, SleepCovers, TakeReady, BlockingSendDone, AvailableStays, OverwriteCounted
  <2>3. QED
    BY <2>1, <2>2 DEF IInv, Safe
<1>6. CASE RecvChecker(i)
  <2>1. UNCHANGED <<airVars, boxVars>> /\ err' \in 0 .. ErrMod - 1 /\ unreported' \in BOOLEAN
    BY <1>6, CheckerFacts DEF RecvChecker, IInv
  <2>2. TypeOK'
    BY <1>6, <2>1 DEF RecvChecker, Return, IInv, TypeOK, PC, TimeSleepLocal, DataPC
  <2>3. Safe'
    BY <1>6, <2>1 DEF RecvChecker, Return, IInv, TypeOK, Safe, TimeSleepLocal, DataPC, SleepCovers, TakeReady, BlockingSendDone, AvailableStays, OverwriteCounted
  <2>4. QED
    BY <2>2, <2>3 DEF IInv, Safe
<1>7. QED
  BY <1>1, <1>2, <1>3, <1>4, <1>5, <1>6

\* The clock: what a sleeper waits for and what its packet waits for shrink
\* together.
LEMMA TickStep == IInv /\ Tick => IInv'
<1> SUFFICES ASSUME IInv, Tick PROVE IInv'
  OBVIOUS
<1> USE DEF At, boxVars
<1>1. TypeOK'
  BY WlEnvAssumption DEF Tick, IInv, TypeOK
<1>2. SleepCovers'
  BY WlEnvAssumption DEF Tick, IInv, TypeOK, SleepCovers
<1>3. TimeSleepLocal' /\ TakeReady' /\ BlockingSendDone' /\ AvailableStays' /\ OverwriteCounted'
  BY DEF Tick, IInv, TypeOK, TimeSleepLocal, DataPC, TakeReady, BlockingSendDone, AvailableStays, OverwriteCounted
<1>4. QED
  BY <1>1, <1>2, <1>3 DEF IInv

LEMMA EnvInitStep == IInv /\ EnvInit => IInv'
<1> SUFFICES ASSUME IInv, EnvInit PROVE IInv'
  OBVIOUS
<1> USE DEF At
<1>0. 0 \in 0 .. ErrMod - 1
  BY WlEnvAssumption
<1>1. TypeOK'
  BY <1>0 DEF EnvInit, IInv, TypeOK, boxVars
<1>2. Safe'
  BY DEF EnvInit, IInv, TypeOK, Safe, TimeSleepLocal, DataPC, SleepCovers, TakeReady, BlockingSendDone, AvailableStays, OverwriteCounted
<1>3. QED
  BY <1>1, <1>2 DEF IInv, Safe

LEMMA NextIInv == IInv /\ [Next]_vars => IInv'
<1> SUFFICES ASSUME IInv, [Next]_vars PROVE IInv'
  OBVIOUS
<1>1. ASSUME NEW i \in ID, ClientCall(i) PROVE IInv'
  BY <1>1, CallStep
<1>2. ASSUME NEW i \in ID, NEW p \in Payload, LibStep(i, p) PROVE IInv'
  BY <1>2, WorkerStep, SendStep, DataStep DEF LibStep
<1>3. CASE Tick
  BY <1>3, TickStep
<1>4. CASE EnvInit
  BY <1>4, EnvInitStep
<1>5. CASE UNCHANGED vars
  <2>1. TypeOK'
    BY <1>5 DEF vars, airVars, boxVars, callVars, IInv, TypeOK
  <2>2. Safe'
    BY <1>5 DEF vars, airVars, boxVars, callVars, IInv, Safe, At, TimeSleepLocal, DataPC, SleepCovers, TakeReady, BlockingSendDone, AvailableStays, OverwriteCounted
  <2>3. QED
    BY <2>1, <2>2 DEF IInv, Safe
<1>6. QED
  BY <1>1, <1>2, <1>3, <1>4, <1>5 DEF Next

THEOREM Invariance == Spec => []IInv
BY InitIInv, NextIInv, PTL DEF Spec

\* The types hold, and wl_availableData never sleeps past its timeout.
THEOREM TypeCorrect == Spec => []TypeOK
BY Invariance, PTL DEF IInv

\* wl_sendPacketTimeout with a timeout does not return with its own packet
\* still on the air, for any time on air and any interleaving.
THEOREM BlockingSend == Spec => []BlockingSendDone
BY Invariance, PTL DEF IInv

\* A yes of wl_is_data stays true until the packet is taken, although the
\* lock was released in between.
THEOREM AvailableIsStable == Spec => []AvailableStays
BY Invariance, PTL DEF IInv

\* The unlocked busy check of wl_sendPacketTimeout never misses an overwrite.
THEOREM OverwriteIsCounted == Spec => []OverwriteCounted
BY Invariance, PTL DEF IInv

-----------------------------------------------------------------------------
(* The emulator implements the abstract radio. *)

\* What flies is what a client sent, and an unread packet is a real one.
ContentsReal ==
  \A i \in ID : /\ ~is_send[i] => send_data[i] \in Payload
                /\ is_recieved[i] => recv_data[i] \in Payload \cup {Garbled}

RInv == IInv /\ ContentsReal

air == [i \in ID |-> IF is_send[i] THEN NoData ELSE send_data[i]]
box == [i \in ID |-> IF is_recieved[i] THEN recv_data[i] ELSE NoData]

\* A run of the shadow worker settles the packets that are due, or none.
LEMMA WorkerSettles ==
  ASSUME RInv, ShadowWorker
  PROVE  ContentsReal' /\ (R!Settle({i \in ID : Due(i)}) \/ UNCHANGED <<air, box>>)
<1> DEFINE S == {i \in ID : Due(i)}
<1>1. PICK fate \in [ID -> Fates] :
        /\ is_send' = [i \in ID |-> is_send[i] \/ Due(i)]
        /\ send_data' = [i \in ID |-> IF Heard(i, fate) THEN OnAir(i, fate) ELSE send_data[i]]
        /\ is_recieved' = [i \in ID |-> is_recieved[i] \/ Lands(Peer(i), fate)]
        /\ recv_data' = [i \in ID |-> IF Lands(Peer(i), fate)
                                      THEN OnAir(Peer(i), fate) ELSE recv_data[i]]
  BY DEF ShadowWorker
<1>2. \A i \in ID : Peer(i) \in ID /\ Peer(Peer(i)) = i
  BY DEF ID, Peer
<1>3. \A i \in ID : ~is_send[i] => OnAir(i, fate) \in {send_data[i]} \cup (IF Breaks THEN {Garbled} ELSE {})
  BY DEF OnAir, Fates
<1>4. ContentsReal'
  BY <1>1, <1>2, <1>3 DEF RInv, IInv, TypeOK, ContentsReal, Heard, Lands, Due
<1>5. \A i \in ID : i \in S <=> Due(i)
  OBVIOUS
<1>6. \A i \in S : air[i] # NoData
  BY <1>5, WlEnvAssumption DEF air, Due, RInv, ContentsReal
<1>7. air' = [i \in ID |-> IF i \in S THEN NoData ELSE air[i]]
  <2>1. \A i \in ID : air'[i] = IF i \in S THEN NoData ELSE air[i]
    BY <1>1, <1>5 DEF air, Heard, Due
  <2>2. QED
    BY <2>1 DEF air
<1>8. box' \in [ID -> Payload \cup {Garbled, NoData}]
  BY <1>4 DEF box, ContentsReal
<1>9. ASSUME NEW i \in ID
      PROVE  IF Peer(i) \in S THEN box'[i] \in R!Outcome(i) ELSE box'[i] = box[i]
  <2>1. CASE Peer(i) \notin S
    BY <1>1, <1>2, <1>5, <2>1 DEF box, Lands, Heard
  <2>2. CASE Peer(i) \in S /\ is_recieved[i]
    <3>1. box'[i] = box[i] /\ box[i] # NoData
      BY <1>1, <1>2, <2>2, WlEnvAssumption DEF box, Lands, Heard, RInv, ContentsReal
    <3>2. QED
      BY <2>2, <3>1 DEF R!Outcome, box
  <2>3. CASE Peer(i) \in S /\ ~is_recieved[i]
    <3>1. R!Outcome(i) = {air[Peer(i)]} \cup (IF Breaks THEN {Garbled} ELSE {})
                                       \cup (IF Loses THEN {NoData} ELSE {})
      BY <2>3 DEF R!Outcome, R!Peer, box, air, Peer
    <3>2. CASE fate[Peer(i)] = "lost"
      <4>1. Loses /\ box'[i] = NoData
        BY <1>1, <1>2, <2>3, <3>2 DEF Fates, box, Lands, Heard
      <4>2. QED
        BY <2>3, <3>1, <4>1
    <3>3. CASE fate[Peer(i)] # "lost"
      <4>1. box'[i] = OnAir(Peer(i), fate)
        BY <1>1, <1>2, <1>5, <2>3, <3>3 DEF box, Lands, Heard
      <4>2. air[Peer(i)] = send_data[Peer(i)] /\ ~is_send[Peer(i)]
        BY <1>2, <1>5, <2>3 DEF air, Due
      <4>3. QED
        BY <1>2, <1>3, <2>3, <3>1, <4>1, <4>2
    <3>4. QED
      BY <3>2, <3>3
  <2>4. QED
    BY <2>1, <2>2, <2>3
<1>10. R!Settle(S)
  BY <1>6, <1>7, <1>8, <1>9 DEF R!Settle, R!ID, R!Peer, ID, Peer, air, box
<1>11. QED
  BY <1>4, <1>10

LEMMA RadioInit == Init => R!Init /\ ContentsReal
BY DEF Init, R!Init, R!ID, ID, ContentsReal

\* Every step of the emulator is a step of the radio or changes nothing there.
LEMMA RadioStep ==
  ASSUME RInv, [Next]_vars
  PROVE  ContentsReal' /\ [R!Next]_<<air, box>>
<1>1. CASE ShadowWorker
  <2> DEFINE S == {i \in ID : Due(i)}
  <2>1. S \in SUBSET ID
    OBVIOUS
  <2>2. ContentsReal' /\ (R!Settle(S) \/ UNCHANGED <<air, box>>)
    BY <1>1, WorkerSettles
  <2> HIDE DEF S
  <2>3. R!Settle(S) => R!Next
    BY <2>1 DEF R!Next, R!ID, ID, R!Settle
  <2>4. QED
    BY <2>2, <2>3
<1>2. CASE UNCHANGED <<airVars, boxVars>>
  BY <1>2 DEF airVars, boxVars, air, box, RInv, ContentsReal
<1>3. ASSUME NEW i \in ID, NEW p \in Payload, SendPut(i, p)
      PROVE  ContentsReal' /\ [R!Next]_<<air, box>>
  <2>1. ContentsReal'
    BY <1>3 DEF SendPut, boxVars, RInv, IInv, TypeOK, ContentsReal
  <2>2. box' = box
    BY <1>3 DEF SendPut, boxVars, box
  <2>3. air' = [air EXCEPT ![i] = p]
    <3>1. \A j \in ID : air'[j] = IF j = i THEN p ELSE air[j]
      BY <1>3 DEF SendPut, air, RInv, IInv, TypeOK
    <3>2. QED
      BY <3>1 DEF air
  <2>4. R!Transmit(i, p)
    BY <2>2, <2>3 DEF R!Transmit, air, box
  <2>5. QED
    BY <2>1, <2>4 DEF R!Next, R!ID, ID, air, box
<1>4. ASSUME NEW i \in ID, RecvTake(i)
      PROVE  ContentsReal' /\ [R!Next]_<<air, box>>
  <2>1. ContentsReal'
    BY <1>4 DEF RecvTake, airVars, RInv, IInv, TypeOK, ContentsReal
  <2>2. air' = air
    BY <1>4 DEF RecvTake, airVars, air
  <2>3. is_recieved[i] /\ box[i] # NoData
    BY <1>4, WlEnvAssumption DEF RecvTake, At, RInv, IInv, AvailableStays, ContentsReal, box
  <2>4. box' = [box EXCEPT ![i] = NoData]
    <3>1. \A j \in ID : box'[j] = IF j = i THEN NoData ELSE box[j]
      BY <1>4 DEF RecvTake, box, RInv, IInv, TypeOK
    <3>2. QED
      BY <3>1 DEF box
  <2>5. R!Read(i)
    BY <2>2, <2>3, <2>4 DEF R!Read, air, box
  <2>6. QED
    BY <2>1, <2>5 DEF R!Next, R!ID, ID, air, box
<1>5. CASE EnvInit
  <2>1. ContentsReal'
    BY <1>5 DEF EnvInit, ContentsReal
  <2>2. R!Reset
    BY <1>5 DEF EnvInit, R!Reset, R!ID, ID
  <2>3. QED
    BY <2>1, <2>2 DEF R!Next, air, box
<1>6. ASSUME NEW i \in ID, ClientCall(i) PROVE UNCHANGED <<airVars, boxVars>>
  BY <1>6 DEF ClientCall, SendCall, AvailCall, RecvCall, Call
<1>7. ASSUME NEW i \in ID, NEW p \in Payload, LibStep(i, p)
      PROVE  ContentsReal' /\ [R!Next]_<<air, box>>
  <2>1. CASE SendWorker(i) \/ SendFlush(i) \/ RecvWorker(i) \/ DataWorker(i)
    BY <1>1, <2>1 DEF SendWorker, SendFlush, RecvWorker, DataWorker
  <2>2. CASE \/ SendCheck(i) \/ SendErr(i) \/ SendWake(i) \/ SendChecker(i)
             \/ DataRead(i) \/ DataChecker(i) \/ DataWake(i) \/ RecvErr(i) \/ RecvChecker(i)
    BY <1>2, <2>2 DEF SendCheck, SendErr, SendWake, SendChecker, DataRead, DataChecker,
       DataWake, RecvErr, RecvChecker, ShadowChecker
  <2>3. QED
    BY <1>3, <1>4, <1>7, <2>1, <2>2 DEF LibStep
<1>8. CASE Tick
  <2>1. UNCHANGED <<is_send, send_data, boxVars>>
    BY <1>8 DEF Tick
  <2>2. QED
    BY <2>1 DEF boxVars, air, box, RInv, ContentsReal
<1>9. CASE UNCHANGED vars
  BY <1>2, <1>9 DEF vars
<1>10. QED
  BY <1>2, <1>5, <1>6, <1>7, <1>8, <1>9 DEF Next

\* The emulator implements Radio: at most one delivery per packet, only to
\* the peer, never over an unread packet, whatever the interleaving.
THEOREM Refinement == Spec => ImplementsRadio
<1>1. Init => RInv /\ R!Init
  BY InitIInv, RadioInit DEF RInv
<1>2. RInv /\ [Next]_vars => RInv' /\ [R!Next]_<<air, box>>
  BY NextIInv, RadioStep DEF RInv
<1>3. QED
  BY <1>1, <1>2, PTL DEF Spec, ImplementsRadio, R!Spec, air, box
=============================================================================
