---------------------------- MODULE ClientsProofs ----------------------------
(***************************************************************************)
(* The three test programs, for every time on air, number of rounds, lag   *)
(* of the threads and noise.  The first half does not depend on time; that *)
(* the timeouts are long enough, and that the script passes, does.         *)
(***************************************************************************)
EXTENDS Clients, FiniteSetTheorems, SequenceTheorems, TLAPS

\* The types of the radio's variables that the proofs read.  The clocks are not
\* among them: a thread of the tests sleeps for longer than any in WlEnv.
RadioTypes ==
  /\ is_send \in [ID -> BOOLEAN]
  /\ send_data \in [ID -> Contents]
  /\ is_recieved \in [ID -> BOOLEAN]
  /\ recv_data \in [ID -> Contents]
  /\ err \in 0 .. ErrMod - 1
  /\ op \in [ID -> {"none", "send", "avail", "recv"}]
  /\ pc \in [ID -> PC]
  /\ timeout \in [ID -> Nat]
  /\ ready \in [ID -> BOOLEAN]

\* A call of the script is the one of the line it is at.
ScriptControl ==
  \A i \in ID : ~At(i, "client") =>
    /\ line <= Len(Script)
    /\ Now.id = i
    /\ Now.do = op[i]
    /\ op[i] # "none" /\ timeout[i] = 0

Playing == program # "script"

\* The thread is in no call, or in one and its packet not yet on the air.
BeforePut == {"client", "s_worker", "s_check", "s_err", "s_put"}

\* What thread i does in the library, by what it does in its program.
Route(i) ==
  /\ at[i] # "script" /\ ~At(i, "s_err")
  /\ at[i] \in {"nap", "serve"} => i = 0
  /\ at[i] \in {"nap", "finished", "gave_up"} => At(i, "client")
  /\ at[i] \in {"serve", "back"} => pc[i] \in {"client"} \cup SendPC
  /\ at[i] = "look" => /\ program = "poll"
                       /\ pc[i] \in {"client", "d_worker", "d_read", "d_checker"}
                       /\ ~At(i, "client") => op[i] = "avail"
  /\ at[i] = "receive" => /\ pc[i] \in {"client", "r_worker", "r_take", "r_checker"} \cup DataPC
                          /\ ~At(i, "client") => op[i] = "recv"
  /\ program = "poll" => timeout[i] = 0 /\ ~At(i, "d_sleep")
  /\ program = "wait" /\ at[i] = "receive" /\ ~At(i, "client") => timeout[i] > 0

\* A thread of "poll" receives only what it has seen in its box.
Seen(i) ==
  program = "poll" /\ at[i] = "receive" =>
    /\ pc[i] \in {"client", "r_worker", "d_worker", "d_read", "d_checker"} => is_recieved[i]
    /\ At(i, "d_checker") => ready[i]

\* OneBall without counting: wherever the packet is, it is nowhere else.
Alone ==
  /\ \E i \in ID : is_send[i]
  /\ \E i \in ID : ~is_recieved[i]
  /\ \E i \in ID : ~Holds(i)
  /\ \A i, j \in ID : ~is_send[i] => ~is_recieved[j] /\ ~Holds(j)
  /\ \A i, j \in ID : is_recieved[i] => ~Holds(j)
  /\ lost <=> \A i \in ID : is_send[i] /\ ~is_recieved[i] /\ ~Holds(i)

\* A packet as it may arrive, and as thread i may send it.
Arrived(c) == c = Original \/ (broken /\ c \in {Mended, Garbled})
Sendable(i, c) == c = Original \/ (broken /\ (c = Mended \/ (i = 1 /\ c = Garbled)))

Genuine ==
  \A i \in ID :
    /\ ~is_send[i] => Sendable(i, send_data[i])
    /\ is_recieved[i] => Arrived(recv_data[i])
    /\ at[i] = "receive" /\ At(i, "r_checker") => Arrived(buf[i])
    /\ at[i] = "back" /\ pc[i] \in BeforePut => Sendable(i, buf[i])

Rally ==
  /\ \A i \in ID : Route(i) /\ Seen(i)
  /\ AvailableStays
  /\ Alone
  /\ Genuine
  /\ err = 0
  /\ round = Rounds <=> at[0] = "finished"

IInv ==
  /\ RadioTypes
  /\ ClientsTypeOK
  /\ program = "script" => ScriptControl
  /\ Playing => Rally

-----------------------------------------------------------------------------
(* What the steps of the library do to the buffers and the history.         *)

\* A step that takes no packet off the air leaves the history as it is.
LEMMA NothingLeaves ==
  ASSUME History, \A i \in ID : is_send'[i] => is_send[i],
         {lost, broken} \subseteq BOOLEAN
  PROVE  lost' = lost /\ broken' = broken
BY DEF History, Vanishes, Leaves

\* With one packet in play a run of the worker delivers it, loses it or leaves
\* it where it is: no box is full, no two packets fly, and the history tells.
LEMMA WorkerMoves ==
  ASSUME RadioTypes, Alone, err = 0, {lost, broken} \subseteq BOOLEAN,
         ShadowWorker, History
  PROVE  \E fate \in [ID -> Fates] :
           /\ is_send' = [i \in ID |-> is_send[i] \/ Due(i)]
           /\ send_data' = [i \in ID |-> IF Heard(i, fate) THEN OnAir(i, fate) ELSE send_data[i]]
           /\ is_recieved' = [i \in ID |-> is_recieved[i] \/ Heard(Peer(i), fate)]
           /\ recv_data' = [i \in ID |-> IF Heard(Peer(i), fate)
                                         THEN OnAir(Peer(i), fate) ELSE recv_data[i]]
           /\ err' = 0
           /\ lost' = (lost \/ \E i \in ID : Due(i) /\ ~Heard(i, fate))
           /\ broken' = (broken \/ \E i \in ID : Due(i) /\ send_data'[i] = Garbled)
<1>1. PICK fate \in [ID -> Fates] :
        /\ is_send' = [i \in ID |-> is_send[i] \/ Due(i)]
        /\ send_data' = [i \in ID |-> IF Heard(i, fate) THEN OnAir(i, fate) ELSE send_data[i]]
        /\ is_recieved' = [i \in ID |-> is_recieved[i] \/ Lands(Peer(i), fate)]
        /\ recv_data' = [i \in ID |-> IF Lands(Peer(i), fate)
                                      THEN OnAir(Peer(i), fate) ELSE recv_data[i]]
        /\ Count(One(Overflows(0, fate)) + One(Overflows(1, fate)) + One(BothSending(is_send')))
  BY DEF ShadowWorker
<1>2. \A i \in ID : Peer(i) \in ID /\ Peer(Peer(i)) = i
  BY DEF ID, Peer
<1>3. \A i \in ID : Due(i) => ~is_recieved[Peer(i)]
  BY <1>2 DEF Alone, Due
<1>4. \A i \in ID : ~Overflows(i, fate) /\ (Lands(i, fate) <=> Heard(i, fate))
  BY <1>3 DEF Overflows, Lands, Heard
<1>5. ~BothSending(is_send')
  BY <1>1 DEF BothSending, Alone, RadioTypes
<1>6. err' = 0
  <2>1. One(Overflows(0, fate)) = 0 /\ One(Overflows(1, fate)) = 0 /\ One(BothSending(is_send')) = 0
    BY <1>4, <1>5 DEF One, ID
  <2>2. QED
    BY <1>1, <2>1, WlEnvAssumption DEF Count
<1>7. \A i \in ID : Leaves(i) <=> Due(i)
  BY <1>1 DEF Leaves, Due, RadioTypes
<1>8. \A i \in ID : Due(i) => (is_recieved'[Peer(i)] <=> Heard(i, fate))
  BY <1>1, <1>2, <1>3, <1>4
<1>9. \A i \in ID : Vanishes(i) <=> Due(i) /\ ~Heard(i, fate)
  BY <1>1, <1>2, <1>3, <1>7, <1>8 DEF Vanishes, RadioTypes
<1>10. lost' = (lost \/ \E i \in ID : Due(i) /\ ~Heard(i, fate))
  BY <1>9 DEF History
<1>11. broken' = (broken \/ \E i \in ID : Due(i) /\ send_data'[i] = Garbled)
  BY <1>7 DEF History
<1>12. is_recieved' = [i \in ID |-> is_recieved[i] \/ Heard(Peer(i), fate)]
  BY <1>1, <1>2, <1>4
<1>13. recv_data' = [i \in ID |-> IF Heard(Peer(i), fate) THEN OnAir(Peer(i), fate) ELSE recv_data[i]]
  BY <1>1, <1>2, <1>4
<1>14. QED
  BY <1>1, <1>6, <1>10, <1>11, <1>12, <1>13

\* The steps inside the library that move no packet between a thread and the
\* radio: each thread stays on the same side.
SameSide ==
  /\ UNCHANGED <<at, buf>>
  /\ \A i \in ID : /\ pc'[i] \in BeforePut <=> pc[i] \in BeforePut
                   /\ pc'[i] = "r_checker" <=> pc[i] = "r_checker"

LEMMA SameSideHolds ==
  ASSUME SameSide
  PROVE  \A i \in ID : Holds(i)' <=> Holds(i)
BY DEF SameSide, Holds, BeforePut, At

\* The worker keeps the packet the only one and what it says accounted for.
LEMMA WorkerKeeps ==
  ASSUME RadioTypes, {lost, broken} \subseteq BOOLEAN, Alone, Genuine, err = 0,
         ShadowWorker, History, SameSide
  PROVE  /\ Alone' /\ Genuine' /\ err' = 0
         /\ \A i \in ID : is_recieved[i] => is_recieved'[i]
<1>1. PICK fate \in [ID -> Fates] :
        /\ is_send' = [i \in ID |-> is_send[i] \/ Due(i)]
        /\ send_data' = [i \in ID |-> IF Heard(i, fate) THEN OnAir(i, fate) ELSE send_data[i]]
        /\ is_recieved' = [i \in ID |-> is_recieved[i] \/ Heard(Peer(i), fate)]
        /\ recv_data' = [i \in ID |-> IF Heard(Peer(i), fate)
                                      THEN OnAir(Peer(i), fate) ELSE recv_data[i]]
        /\ err' = 0
        /\ lost' = (lost \/ \E i \in ID : Due(i) /\ ~Heard(i, fate))
        /\ broken' = (broken \/ \E i \in ID : Due(i) /\ send_data'[i] = Garbled)
  BY WorkerMoves
<1>2. \A i \in ID : Peer(i) \in ID /\ Peer(i) # i /\ Peer(Peer(i)) = i /\ \A j \in ID : j = i \/ j = Peer(i)
  BY DEF ID, Peer
<1>3. \A i \in ID : Holds(i)' <=> Holds(i)
  BY SameSideHolds
<1>4. \A i \in ID : Heard(i, fate) => Due(i)
  BY DEF Heard
<1>5. \A i \in ID : Due(i) => ~is_send[i]
  BY DEF Due
<1>6. \A i, j \in ID : ~is_send[i] => /\ ~is_recieved[j] /\ ~Holds(j)
                                      /\ j # i => is_send[j]
  BY <1>2 DEF Alone
<1>7. Alone'
  <2>1. CASE \A i \in ID : ~Due(i)
    <3>1. is_send' = is_send /\ is_recieved' = is_recieved /\ (lost' <=> lost)
      BY <1>1, <1>2, <1>4, <2>1 DEF RadioTypes
    <3>2. QED
      BY <1>3, <3>1 DEF Alone
  <2>2. CASE \E i \in ID : Due(i)
    <3>1. PICK i \in ID : Due(i)
      BY <2>2
    <3>2. /\ \A j \in ID : is_send'[j]
          /\ \A j \in ID : ~Holds(j)
          /\ ~is_recieved'[i]
          /\ is_recieved'[Peer(i)] <=> Heard(i, fate)
      BY <1>1, <1>2, <1>4, <1>5, <1>6, <3>1
    <3>3. ~lost
      BY <1>5, <3>1 DEF Alone
    <3>4. lost' <=> ~Heard(i, fate)
      BY <1>1, <1>2, <1>4, <1>5, <1>6, <3>1, <3>3
    <3>5. QED
      BY <1>2, <1>3, <3>2, <3>4 DEF Alone
  <2>3. QED
    BY <2>1, <2>2
<1>8. \A i \in ID : is_recieved[i] => is_recieved'[i]
  BY <1>1
<1>9. broken => broken'
  BY <1>1
<1>10. Genuine'
  <2>1. SUFFICES ASSUME NEW i \in ID
                 PROVE  /\ ~is_send'[i] => Sendable(i, send_data[i])' 
                        /\ is_recieved'[i] => Arrived(recv_data[i])'
                        /\ at'[i] = "receive" /\ pc'[i] = "r_checker" => Arrived(buf[i])'
                        /\ at'[i] = "back" /\ pc'[i] \in BeforePut => Sendable(i, buf[i])'
    BY DEF Genuine, At
  <2>2. ~is_send'[i] => Sendable(i, send_data[i])'
    <3>1. ~is_send'[i] => send_data'[i] = send_data[i] /\ ~is_send[i]
      BY <1>1, <1>4
    <3>2. QED
      BY <1>9, <3>1 DEF Genuine, Sendable
  <2>3. is_recieved'[i] => Arrived(recv_data[i])'
    <3>1. CASE Heard(Peer(i), fate)
      <4>1. Due(Peer(i)) /\ ~is_send[Peer(i)] /\ Sendable(Peer(i), send_data[Peer(i)])
        BY <1>2, <1>4, <1>5, <3>1 DEF Genuine
      <4>2. recv_data'[i] = send_data'[Peer(i)]
        BY <1>1, <1>2, <3>1
      <4>3. send_data'[Peer(i)] = Garbled => broken'
        BY <1>1, <1>2, <4>1
      <4>4. send_data'[Peer(i)] \in {Garbled, send_data[Peer(i)]}
        BY <1>1, <1>2, <3>1 DEF OnAir
      <4>5. QED
        BY <1>9, <4>1, <4>2, <4>3, <4>4 DEF Arrived, Sendable
    <3>2. CASE ~Heard(Peer(i), fate)
      <4>1. recv_data'[i] = recv_data[i] /\ (is_recieved'[i] <=> is_recieved[i])
        BY <1>1, <3>2
      <4>2. QED
        BY <1>9, <4>1 DEF Genuine, Arrived
    <3>3. QED
      BY <3>1, <3>2
  <2>4. at'[i] = "receive" /\ pc'[i] = "r_checker" => Arrived(buf[i])'
    BY <1>9 DEF SameSide, Genuine, At, Arrived
  <2>5. at'[i] = "back" /\ pc'[i] \in BeforePut => Sendable(i, buf[i])'
    BY <1>9 DEF SameSide, Genuine, Sendable
  <2>6. QED
    BY <2>2, <2>3, <2>4, <2>5
<1>11. QED
  BY <1>1, <1>7, <1>8, <1>10

\* The same for a step that leaves the buffers alone.
LEMMA QuietKeeps ==
  ASSUME RadioTypes, {lost, broken} \subseteq BOOLEAN, Alone, Genuine,
         UNCHANGED <<airVars, boxVars>>, History, SameSide
  PROVE  Alone' /\ Genuine' /\ lost' = lost /\ broken' = broken
<1>1. lost' = lost /\ broken' = broken
  BY NothingLeaves DEF airVars
<1>2. \A i \in ID : Holds(i)' <=> Holds(i)
  BY SameSideHolds
<1>3. Alone'
  BY <1>1, <1>2 DEF Alone, airVars, boxVars
<1>4. Genuine'
  BY <1>1 DEF Genuine, SameSide, Sendable, Arrived, At, airVars, boxVars
<1>5. QED
  BY <1>1, <1>3, <1>4

\* The channel check never sees two packets.
LEMMA CheckerCounts ==
  ASSUME Alone, err = 0, ShadowChecker
  PROVE  err' = 0 /\ UNCHANGED <<airVars, boxVars>>
<1>1. One(BothSending(is_send)) = 0
  BY DEF One, BothSending, Alone
<1>2. QED
  BY <1>1, WlEnvAssumption DEF ShadowChecker, Count

-----------------------------------------------------------------------------
(* The steps of a thread of the ping-pong tests, one lemma per kind.        *)

\* Inside a call.
LEMMA InsideRally ==
  ASSUME RadioTypes, ClientsTypeOK, Playing, Rally, NEW i \in ID,
         Inside(i), UNCHANGED <<program, at, buf, round>>, History
  PROVE  Rally'
<1> USE DEF At, Goto
<1> DEFINE Same == UNCHANGED <<program, at, buf, round>>
<1>0. {lost, broken} \subseteq BOOLEAN /\ Alone /\ Genuine /\ err = 0 /\ AvailableStays
      /\ \A j \in ID : Route(j) /\ Seen(j)
      /\ (round = Rounds <=> at[0] = "finished")'
      /\ pc \in [ID -> PC]
  BY DEF ClientsTypeOK, Rally, RadioTypes
<1>1. CASE SendWorker(i) \/ SendFlush(i) \/ RecvWorker(i) \/ DataWorker(i)
  <2>1. /\ ShadowWorker /\ UNCHANGED <<op, timeout, ready>>
        /\ \/ At(i, "s_worker") /\ Goto(i, "s_check")
           \/ At(i, "s_flush") /\ Goto(i, "s_checker")
           \/ At(i, "r_worker") /\ Goto(i, "d_worker")
           \/ At(i, "d_worker") /\ Goto(i, "d_read")
    BY <1>1 DEF SendWorker, SendFlush, RecvWorker, DataWorker
  <2>2. SameSide
    BY <1>0, <2>1 DEF SameSide, BeforePut
  <2>3. Alone' /\ Genuine' /\ err' = 0 /\ \A j \in ID : is_recieved[j] => is_recieved'[j]
    BY <1>0, <2>1, <2>2, WorkerKeeps
  <2>4. AvailableStays'
    BY <1>0, <2>1, <2>3 DEF AvailableStays
  <2>5. \A j \in ID : Route(j)'
    BY <1>0, <2>1 DEF Route, SendPC, DataPC
  <2>6. \A j \in ID : Seen(j)'
    BY <1>0, <2>1, <2>3 DEF Seen
  <2>7. QED
    BY <1>0, <2>3, <2>4, <2>5, <2>6 DEF Rally
<1>2. CASE SendCheck(i) \/ SendWake(i)
  <2>1. /\ UNCHANGED <<airVars, boxVars, err, op, timeout, ready>>
        /\ \/ At(i, "s_check") /\ Goto(i, "s_put")
           \/ At(i, "s_check") /\ Goto(i, "s_err") /\ ~is_send[i]
           \/ At(i, "s_sleep") /\ Goto(i, "s_flush")
    BY <1>2 DEF SendCheck, SendWake
  <2>2. At(i, "s_check") => is_send[i]
    <3>1. At(i, "s_check") => Holds(i)
      BY <1>0 DEF Route, Holds, RecvPC, DataPC, ClientsTypeOK
    <3>2. QED
      BY <1>0, <3>1 DEF Alone
  <2>3. SameSide
    BY <1>0, <2>1 DEF SameSide, BeforePut
  <2>4. Alone' /\ Genuine'
    BY <1>0, <2>1, <2>3, QuietKeeps
  <2>5. AvailableStays'
    BY <1>0, <2>1 DEF AvailableStays, boxVars
  <2>6. \A j \in ID : Route(j)'
    BY <1>0, <2>1, <2>2 DEF Route, SendPC, DataPC
  <2>7. \A j \in ID : Seen(j)'
    BY <1>0, <2>1 DEF Seen, boxVars
  <2>8. QED
    BY <1>0, <2>1, <2>4, <2>5, <2>6, <2>7 DEF Rally
<1>3. CASE SendErr(i)
  BY <1>0, <1>3 DEF SendErr, Route
<1>4. CASE DataRead(i)
  <2>1. /\ UNCHANGED <<airVars, boxVars, err, op, timeout>>
        /\ At(i, "d_read") /\ Goto(i, "d_checker")
        /\ ready' = [ready EXCEPT ![i] = is_recieved[i]]
    BY <1>4 DEF DataRead
  <2>2. SameSide
    BY <1>0, <2>1 DEF SameSide, BeforePut
  <2>3. Alone' /\ Genuine'
    BY <1>0, <2>1, <2>2, QuietKeeps
  <2>4. AvailableStays'
    BY <1>0, <2>1 DEF AvailableStays, boxVars, RadioTypes
  <2>5. \A j \in ID : Route(j)'
    BY <1>0, <2>1 DEF Route, SendPC, DataPC
  <2>6. \A j \in ID : Seen(j)'
    BY <1>0, <2>1 DEF Seen, boxVars, RadioTypes
  <2>7. QED
    BY <1>0, <2>1, <2>3, <2>4, <2>5, <2>6 DEF Rally
<1>5. CASE (DataChecker(i) \/ DataWake(i)) /\ ~Returns(i)
  <2>1. err' = 0 /\ UNCHANGED <<airVars, boxVars>> /\ UNCHANGED ready
    BY <1>0, <1>5, CheckerCounts DEF DataChecker, DataWake
  <2>2. pc[i] \in {"d_checker", "d_sleep"}
    BY <1>5 DEF DataChecker, DataWake
  <2>3. at[i] \in {"look", "receive"} /\ (at[i] = "look" => op[i] = "avail")
        /\ (at[i] = "receive" => op[i] = "recv")
    BY <1>0, <2>2 DEF Route, SendPC, ClientsTypeOK
  <2>4. \/ Goto(i, "r_take") /\ op[i] = "recv" /\ ready[i]
        \/ Goto(i, "r_err") /\ op[i] = "recv" /\ ~ready[i] /\ timeout[i] = 0
        \/ Goto(i, "d_sleep") /\ timeout[i] # 0
        \/ Goto(i, "d_worker") /\ At(i, "d_sleep")
    BY <1>0, <1>5 DEF DataChecker, DataWake, DataReturn, Return, Returns, Sleep
  <2>5. UNCHANGED <<op, timeout>>
    BY <1>0, <1>5 DEF DataChecker, DataWake, DataReturn, Return, Returns, Sleep
  <2>6. ~Goto(i, "r_err")
    BY <1>0, <2>2, <2>3, <2>4 DEF Route, Seen, ClientsTypeOK, Playing
  <2>7. SameSide
    BY <1>0, <2>2, <2>4 DEF SameSide, BeforePut
  <2>8. Alone' /\ Genuine'
    BY <1>0, <2>1, <2>7, QuietKeeps
  <2>9. AvailableStays'
    BY <1>0, <2>1, <2>2, <2>4 DEF AvailableStays, boxVars
  <2>10. \A j \in ID : Route(j)'
    BY <1>0, <2>2, <2>3, <2>4, <2>5, <2>6 DEF Route, SendPC, DataPC, ClientsTypeOK
  <2>11. \A j \in ID : Seen(j)'
    BY <1>0, <2>1, <2>2, <2>4, <2>6 DEF Seen, Route, boxVars
  <2>12. QED
    BY <1>0, <2>1, <2>8, <2>9, <2>10, <2>11 DEF Rally
<1>6. QED
  BY <1>1, <1>2, <1>3, <1>4, <1>5 DEF Inside

\* Between calls, and into one.
LEMMA CallRally ==
  ASSUME RadioTypes, ClientsTypeOK, Playing, Rally, NEW i \in ID,
         Naps(i) \/ Starts(i), UNCHANGED program, History
  PROVE  Rally'
<1> USE DEF At, Goto
<1>0. /\ {lost, broken} \subseteq BOOLEAN /\ Alone /\ Genuine /\ err = 0 /\ AvailableStays
      /\ \A j \in ID : Route(j) /\ Seen(j)
      /\ round = Rounds <=> at[0] = "finished"
      /\ pc \in [ID -> PC] /\ at \in [ID -> {"nap", "serve", "look", "receive", "back", "finished", "gave_up", "script"}]
      /\ buf \in [ID -> Contents] /\ timeout \in [ID -> Nat] /\ op \in [ID -> {"none", "send", "avail", "recv"}]
  BY DEF ClientsTypeOK, Rally, RadioTypes
<1>1. CASE Naps(i)
  <2>1. /\ UNCHANGED <<airVars, boxVars, err, op, pc, timeout, ready, buf, round>>
        /\ at[i] = "nap" /\ at' = [at EXCEPT ![i] = "serve"]
    BY <1>1 DEF Naps, Nap, Becomes
  <2>2. lost' = lost /\ broken' = broken
    BY <1>0, <2>1, NothingLeaves DEF airVars
  <2>3. pc[i] = "client" /\ i = 0
    BY <1>0, <2>1 DEF Route
  <2>4. \A j \in ID : Holds(j)' <=> Holds(j)
    BY <1>0, <2>1, <2>3 DEF Holds
  <2>5. Alone'
    BY <1>0, <2>1, <2>2, <2>4 DEF Alone, airVars, boxVars
  <2>6. Genuine'
    BY <1>0, <2>1, <2>2 DEF Genuine, Sendable, Arrived, airVars, boxVars
  <2>7. \A j \in ID : Route(j)'
    BY <1>0, <2>1, <2>3 DEF Route
  <2>8. \A j \in ID : Seen(j)'
    BY <1>0, <2>1 DEF Seen, boxVars
  <2>9. AvailableStays'
    BY <1>0, <2>1 DEF AvailableStays, boxVars
  <2>10. (round = Rounds <=> at[0] = "finished")'
    BY <1>0, <2>1
  <2>11. QED
    BY <1>0, <2>1, <2>5, <2>6, <2>7, <2>8, <2>9, <2>10 DEF Rally
<1>2. CASE Starts(i)
  <2>1. PICK o \in {"send", "avail", "recv"}, l \in {"s_worker", "d_worker", "r_worker"}, t \in Nat :
          /\ Call(i, o, l, t)
          /\ \/ at[i] \in {"serve", "back"} /\ o = "send" /\ l = "s_worker" /\ UNCHANGED buf
             \/ at[i] = "look" /\ o = "avail" /\ l = "d_worker" /\ UNCHANGED buf
             \/ at[i] = "receive" /\ o = "recv" /\ l = "r_worker" /\ \A j \in ID : buf'[j] = buf[j] \/ j = i
          /\ program = "poll" => t = 0
          /\ program = "wait" /\ at[i] = "receive" => t > 0
          /\ UNCHANGED <<at, round>>
    <3>1. TIMEOUT \in Nat \ {0} /\ 10 * TIMEOUT \in Nat \ {0}
      BY WlEnvAssumption DEF TIMEOUT
    <3>2. CASE at[i] \in {"serve", "back"} /\ SendCall(i, SendTimeout(i)) /\ UNCHANGED <<buf, at, round>>
      <4>1. SendTimeout(i) \in Nat /\ (program = "poll" => SendTimeout(i) = 0)
        BY <3>1 DEF SendTimeout
      <4>2. QED
        BY <3>2, <4>1 DEF SendCall
    <3>3. CASE at[i] = "look" /\ AvailCall(i, 0) /\ UNCHANGED <<buf, at, round>>
      BY <3>3 DEF AvailCall
    <3>4. CASE /\ at[i] = "receive" /\ RecvCall(i, RecvTimeout(i)) /\ UNCHANGED <<at, round>>
               /\ buf' = IF i = 0 THEN [buf EXCEPT ![0] = NoData] ELSE buf
      <4>1. /\ RecvTimeout(i) \in Nat /\ (program = "poll" => RecvTimeout(i) = 0)
            /\ program = "wait" => RecvTimeout(i) > 0
        BY <3>1 DEF RecvTimeout
      <4>2. \A j \in ID : buf'[j] = buf[j] \/ j = i
        BY <1>0, <3>4
      <4>3. QED
        BY <3>4, <4>1, <4>2 DEF RecvCall
    <3>5. QED
      BY <1>2, <3>2, <3>3, <3>4 DEF Starts
  <2>2. /\ pc[i] = "client" /\ pc' = [pc EXCEPT ![i] = l] /\ op' = [op EXCEPT ![i] = o]
        /\ timeout' = [timeout EXCEPT ![i] = t]
        /\ UNCHANGED <<airVars, boxVars, err, ready>>
    BY <2>1 DEF Call
  <2>3. lost' = lost /\ broken' = broken
    BY <1>0, <2>2, NothingLeaves DEF airVars
  <2>4. \A j \in ID : Holds(j)' <=> Holds(j)
    BY <1>0, <2>1, <2>2 DEF Holds
  <2>5. Alone'
    BY <1>0, <2>2, <2>3, <2>4 DEF Alone, airVars, boxVars
  <2>6. Genuine'
    BY <1>0, <2>1, <2>2, <2>3 DEF Genuine, Sendable, Arrived, airVars, boxVars, BeforePut
  <2>7. \A j \in ID : Route(j)'
    BY <1>0, <2>1, <2>2 DEF Route, SendPC, DataPC
  <2>8. \A j \in ID : Seen(j)'
    BY <1>0, <2>1, <2>2 DEF Seen, boxVars
  <2>9. AvailableStays'
    BY <1>0, <2>1, <2>2 DEF AvailableStays, boxVars
  <2>10. QED
    BY <1>0, <2>1, <2>2, <2>5, <2>6, <2>7, <2>8, <2>9 DEF Rally
<1>3. QED
  BY <1>1, <1>2

\* The packet comes out of the radio and goes back.
LEMMA BallRally ==
  ASSUME RadioTypes, ClientsTypeOK, Playing, Rally, NEW i \in ID,
         Fills(i) \/ Puts(i), UNCHANGED program, History
  PROVE  Rally'
<1> USE DEF At, Goto
<1>0. /\ {lost, broken} \subseteq BOOLEAN /\ Alone /\ Genuine /\ err = 0 /\ AvailableStays
      /\ \A j \in ID : Route(j) /\ Seen(j)
      /\ round = Rounds <=> at[0] = "finished"
      /\ pc \in [ID -> PC] /\ at \in [ID -> {"nap", "serve", "look", "receive", "back", "finished", "gave_up", "script"}]
      /\ buf \in [ID -> Contents]
  BY DEF ClientsTypeOK, Rally, RadioTypes
<1>1. CASE Fills(i)
  <2>1. /\ at[i] = "receive" /\ pc[i] = "r_take" /\ pc' = [pc EXCEPT ![i] = "r_checker"]
        /\ is_recieved' = [is_recieved EXCEPT ![i] = FALSE]
        /\ ready' = [ready EXCEPT ![i] = FALSE]
        /\ buf' = [buf EXCEPT ![i] = recv_data[i]]
        /\ UNCHANGED <<airVars, recv_data, err, op, timeout, at, round>>
    BY <1>1 DEF Fills, RecvTake
  <2>2. lost' = lost /\ broken' = broken
    BY <1>0, <2>1, NothingLeaves DEF airVars
  <2>3. is_recieved[i]
    BY <1>0, <2>1 DEF AvailableStays
  <2>4. \A j \in ID : Holds(j)' <=> j = i
    BY <1>0, <2>1, <2>3 DEF Holds, Alone
  <2>5. \A j \in ID : ~is_recieved'[j] /\ is_send'[j]
    BY <1>0, <2>1, <2>3 DEF Alone, ID, RadioTypes, airVars
  <2>6. ~lost
    BY <1>0, <2>3 DEF Alone
  <2>7. Alone'
    <3>1. \E j \in ID : j # i
      BY DEF ID
    <3>2. QED
      BY <2>2, <2>4, <2>5, <2>6, <3>1 DEF Alone
  <2>8. Genuine'
    BY <1>0, <2>1, <2>2, <2>3 DEF Genuine, Sendable, Arrived, airVars, BeforePut, RadioTypes
  <2>9. \A j \in ID : Route(j)'
    BY <1>0, <2>1 DEF Route, SendPC, DataPC
  <2>10. \A j \in ID : Seen(j)'
    BY <1>0, <2>1 DEF Seen, RadioTypes
  <2>11. AvailableStays'
    BY <1>0, <2>1 DEF AvailableStays, RadioTypes
  <2>12. QED
    BY <1>0, <2>1, <2>7, <2>8, <2>9, <2>10, <2>11 DEF Rally
<1>2. CASE Puts(i)
  <2>1. PICK l \in {"s_sleep", "s_checker"} :
        /\ at[i] \in {"serve", "back"} /\ pc[i] = "s_put" /\ pc' = [pc EXCEPT ![i] = l]
        /\ program = "poll" => l = "s_checker" \/ timeout[i] > 0
        /\ is_send' = [is_send EXCEPT ![i] = FALSE]
        /\ send_data' = [send_data EXCEPT ![i] = IF at[i] = "serve" THEN Original ELSE buf[i]]
        /\ UNCHANGED <<boxVars, err, op, timeout, ready, at, buf, round>>
    BY <1>2 DEF Puts, SendPut, Sleep
  <2>2. lost' = lost /\ broken' = broken
    BY <1>0, <2>1, NothingLeaves DEF RadioTypes
  <2>3. Holds(i)
    BY <2>1 DEF Holds
  <2>4. \A j \in ID : ~Holds(j)'
    BY <1>0, <2>1, <2>3 DEF Holds, Alone, ID
  <2>5. /\ \A j \in ID : ~is_recieved'[j]
        /\ \A j \in ID : is_send'[j] <=> j # i
    BY <1>0, <2>1, <2>3 DEF Alone, boxVars, RadioTypes
  <2>6. ~lost
    BY <1>0, <2>3 DEF Alone
  <2>7. Alone'
    <3>1. \E j \in ID : j # i
      BY DEF ID
    <3>2. QED
      BY <2>2, <2>4, <2>5, <2>6, <3>1 DEF Alone
  <2>8. Genuine'
    <3>1. Sendable(i, IF at[i] = "serve" THEN Original ELSE buf[i])
      BY <1>0, <2>1 DEF Genuine, Sendable, BeforePut
    <3>2. QED
      BY <1>0, <2>1, <2>2, <3>1 DEF Genuine, Sendable, Arrived, boxVars, BeforePut, RadioTypes
  <2>9. \A j \in ID : Route(j)'
    BY <1>0, <2>1 DEF Route, SendPC, DataPC
  <2>10. \A j \in ID : Seen(j)'
    BY <1>0, <2>1 DEF Seen, boxVars
  <2>11. AvailableStays'
    BY <1>0, <2>1 DEF AvailableStays, boxVars
  <2>12. QED
    BY <1>0, <2>1, <2>7, <2>8, <2>9, <2>10, <2>11 DEF Rally
<1>3. QED
  BY <1>1, <1>2

\* What noise may have done to a packet of thread 0 is mended before it is sent.
LEMMA CheckedSendable ==
  ASSUME NEW i \in ID, NEW c, Arrived(c), NEW d \in Checked(i, c)
  PROVE  Sendable(i, d)
<1>1. CASE i = 1
  BY <1>1 DEF Checked, Arrived, Sendable
<1>2. CASE i = 0
  <2>1. {Original, Mended} \subseteq Payload
    BY ClientsAssumption
  <2>2. Garbled # NoData /\ Original # NoData /\ Mended # NoData /\ Original # Garbled /\ Mended # Garbled
    BY <2>1, WlEnvAssumption
  <2>3. CASE c = Garbled
    BY <1>2, <2>2, <2>3 DEF Checked, Arrived, Sendable
  <2>4. CASE c # Garbled
    <3>1. c # NoData
      BY <2>2 DEF Arrived
    <3>2. d = c
      BY <1>2, <2>4, <3>1 DEF Checked
    <3>3. QED
      BY <2>4, <3>2 DEF Arrived, Sendable
  <2>5. QED
    BY <2>3, <2>4
<1>3. QED
  BY <1>1, <1>2 DEF ID

\* Out of a call, and on in the program.
LEMMA ReturnRally ==
  ASSUME RadioTypes, ClientsTypeOK, Playing, Rally, NEW i \in ID,
         Looks(i) \/ Receives(i) \/ GivesUp(i) \/ SendsBack(i), UNCHANGED program, History
  PROVE  Rally'
<1> USE DEF At, Goto
<1>0. /\ {lost, broken} \subseteq BOOLEAN /\ Alone /\ Genuine /\ err = 0 /\ AvailableStays
      /\ \A j \in ID : Route(j) /\ Seen(j)
      /\ round = Rounds <=> at[0] = "finished"
      /\ pc \in [ID -> PC] /\ at \in [ID -> {"nap", "serve", "look", "receive", "back", "finished", "gave_up", "script"}]
      /\ buf \in [ID -> Contents] /\ timeout \in [ID -> Nat] /\ op \in [ID -> {"none", "send", "avail", "recv"}]
  BY DEF ClientsTypeOK, Rally, RadioTypes
<1>1. /\ err' = 0 /\ UNCHANGED <<airVars, boxVars, ready>>
      /\ pc' = [pc EXCEPT ![i] = "client"]
      /\ op' = [op EXCEPT ![i] = "none"]
      /\ timeout' = [timeout EXCEPT ![i] = 0]
  <2>1. CASE Looks(i)
    BY <1>0, <2>1, CheckerCounts DEF Looks, DataChecker, DataReturn, Return, Returns, Sleep
  <2>2. CASE Receives(i)
    <3>1. RecvChecker(i)
      BY <1>0, <2>2 DEF Receives, RecvErr, Route, DataPC
    <3>2. QED
      BY <1>0, <3>1, CheckerCounts DEF RecvChecker, Return
  <2>3. CASE GivesUp(i)
    BY <1>0, <2>3 DEF GivesUp, DataWake, DataReturn, Return, Returns
  <2>4. CASE SendsBack(i)
    BY <1>0, <2>4, CheckerCounts DEF SendsBack, SendChecker, Return
  <2>5. QED
    BY <2>1, <2>2, <2>3, <2>4
<1>2. \/ /\ at[i] = "look" /\ pc[i] = "d_checker" /\ program = "poll"
         /\ at' = [at EXCEPT ![i] = IF ready[i] THEN "receive" ELSE "look"]
         /\ UNCHANGED <<buf, round>>
      \/ /\ at[i] = "receive" /\ pc[i] = "r_checker"
         /\ at' = [at EXCEPT ![i] = "back"]
         /\ \E c \in Checked(i, buf[i]) : buf' = [buf EXCEPT ![i] = c]
         /\ UNCHANGED round
      \/ /\ at[i] = "receive" /\ pc[i] = "d_sleep"
         /\ at' = [at EXCEPT ![i] = "gave_up"]
         /\ UNCHANGED <<buf, round>>
      \/ /\ at[i] \in {"serve", "back"} /\ pc[i] = "s_checker"
         /\ \E a \in {Waits, "finished"} :
              /\ at' = [at EXCEPT ![i] = a]
              /\ (round' = Rounds <=> at'[0] = "finished")
         /\ \A j \in ID : j # i => buf'[j] = buf[j]
  <2>1. CASE Looks(i)
    BY <1>0, <2>1 DEF Looks, DataChecker, Becomes, Route
  <2>2. CASE Receives(i)
    BY <1>0, <2>2 DEF Receives, RecvErr, RecvChecker, Becomes, Route, DataPC
  <2>3. CASE GivesUp(i)
    BY <1>0, <2>3 DEF GivesUp, DataWake, Becomes
  <2>4. CASE SendsBack(i)
    <3>1. Waits # "finished"
      BY DEF Waits
    <3>2. CASE i = 0 /\ at[i] = "serve"
      BY <1>0, <2>4, <3>1, <3>2 DEF SendsBack, SendChecker, Becomes, ID
    <3>3. CASE i = 0 /\ at[i] = "back"
      BY <1>0, <2>4, <3>1, <3>3 DEF SendsBack, SendChecker, Becomes, ID, EndOfLoop
    <3>4. CASE i = 1
      BY <1>0, <2>4, <3>1, <3>4 DEF SendsBack, SendChecker, Becomes, ID
    <3>5. QED
      BY <2>4, <3>2, <3>3, <3>4 DEF SendsBack
  <2>5. QED
    BY <2>1, <2>2, <2>3, <2>4
<1>3. lost' = lost /\ broken' = broken
  BY <1>0, <1>1, NothingLeaves DEF airVars
<1>4. \A j \in ID : Holds(j)' <=> Holds(j)
  BY <1>0, <1>1, <1>2 DEF Holds, Waits
<1>5. Alone'
  BY <1>0, <1>1, <1>3, <1>4 DEF Alone, airVars, boxVars
<1>6. \A j \in ID : Route(j)'
  <2>1. Waits = IF program = "poll" THEN "look" ELSE "receive"
    BY DEF Waits
  <2>2. \A j \in ID : j # i => Route(j)'
    BY <1>0, <1>1, <1>2 DEF Route
  <2>3. Route(i)'
    BY <1>0, <1>1, <1>2, <2>1 DEF Route, SendPC, DataPC
  <2>4. QED
    BY <2>2, <2>3
<1>7. \A j \in ID : Seen(j)'
  <2>1. \A j \in ID : j # i => Seen(j)'
    BY <1>0, <1>1, <1>2 DEF Seen, boxVars
  <2>2. ready[i] => is_recieved[i]
    BY <1>0 DEF AvailableStays
  <2>3. Seen(i)'
    BY <1>0, <1>1, <1>2, <2>2 DEF Seen, boxVars, Waits
  <2>4. QED
    BY <2>1, <2>3
<1>8. AvailableStays'
  BY <1>0, <1>1 DEF AvailableStays, boxVars
<1>9. Genuine'
  <2>1. \A j \in ID : /\ ~is_send'[j] => Sendable(j, send_data[j])'
                      /\ is_recieved'[j] => Arrived(recv_data[j])'
    BY <1>0, <1>1, <1>3 DEF Genuine, Sendable, Arrived, airVars, boxVars
  <2>2. \A j \in ID : j # i => /\ at'[j] = at[j] /\ pc'[j] = pc[j] /\ buf'[j] = buf[j]
    BY <1>0, <1>1, <1>2
  <2>3. \A j \in ID : j # i =>
          /\ at'[j] = "receive" /\ pc'[j] = "r_checker" => Arrived(buf[j])'
          /\ at'[j] = "back" /\ pc'[j] \in BeforePut => Sendable(j, buf[j])'
    BY <1>0, <1>3, <2>2 DEF Genuine, Sendable, Arrived
  <2>4. pc'[i] = "client"
    BY <1>0, <1>1
  <2>5. at'[i] = "back" => Sendable(i, buf[i])'
    <3>1. SUFFICES ASSUME at'[i] = "back" PROVE Sendable(i, buf[i])'
      OBVIOUS
    <3>2. at[i] = "receive" /\ pc[i] = "r_checker" /\ \E c \in Checked(i, buf[i]) : buf' = [buf EXCEPT ![i] = c]
      BY <1>0, <1>2, <3>1 DEF Waits
    <3>3. PICK c \in Checked(i, buf[i]) : buf'[i] = c
      BY <1>0, <3>2
    <3>4. Arrived(buf[i])
      BY <1>0, <3>2 DEF Genuine
    <3>5. Sendable(i, c)
      BY <3>3, <3>4, CheckedSendable
    <3>6. QED
      BY <1>3, <3>3, <3>5 DEF Sendable
  <2>6. QED
    BY <2>1, <2>3, <2>4, <2>5 DEF Genuine
<1>10. (round = Rounds <=> at[0] = "finished")'
  BY <1>0, <1>2 DEF ID
<1>11. QED
  BY <1>1, <1>5, <1>6, <1>7, <1>8, <1>9, <1>10 DEF Rally

-----------------------------------------------------------------------------
(* Types.                                                                    *)

LEMMA CountType ==
  ASSUME RadioTypes, NEW n \in Nat, Count(n)
  PROVE  err' \in 0 .. ErrMod - 1
BY WlEnvAssumption DEF RadioTypes, Count

\* The types of the buffers after a run of the worker.
LEMMA WorkerTypes ==
  ASSUME RadioTypes, ShadowWorker
  PROVE  /\ is_send' \in [ID -> BOOLEAN]
         /\ send_data' \in [ID -> Contents]
         /\ is_recieved' \in [ID -> BOOLEAN]
         /\ recv_data' \in [ID -> Contents]
         /\ err' \in 0 .. ErrMod - 1
<1>1. PICK fate \in [ID -> Fates] :
        /\ is_send' = [i \in ID |-> is_send[i] \/ Due(i)]
        /\ send_data' = [i \in ID |-> IF Heard(i, fate) THEN OnAir(i, fate) ELSE send_data[i]]
        /\ is_recieved' = [i \in ID |-> is_recieved[i] \/ Lands(Peer(i), fate)]
        /\ recv_data' = [i \in ID |-> IF Lands(Peer(i), fate)
                                      THEN OnAir(Peer(i), fate) ELSE recv_data[i]]
        /\ Count(One(Overflows(0, fate)) + One(Overflows(1, fate)) + One(BothSending(is_send')))
  BY DEF ShadowWorker
<1>2. \A i \in ID : Peer(i) \in ID /\ OnAir(i, fate) \in Contents
  BY DEF ID, Peer, OnAir, Contents, RadioTypes
<1>3. err' \in 0 .. ErrMod - 1
  <2>1. /\ One(Overflows(0, fate)) \in Nat
        /\ One(Overflows(1, fate)) \in Nat
        /\ One(BothSending(is_send')) \in Nat
    BY DEF One
  <2>2. One(Overflows(0, fate)) + One(Overflows(1, fate)) + One(BothSending(is_send')) \in Nat
    BY <2>1
  <2>3. QED
    BY <1>1, <2>2, CountType
<1>4. send_data' \in [ID -> Contents] /\ recv_data' \in [ID -> Contents]
  BY <1>1, <1>2 DEF RadioTypes
<1>5. is_send' \in [ID -> BOOLEAN] /\ is_recieved' \in [ID -> BOOLEAN]
  BY <1>1 DEF RadioTypes, Due, Lands, Heard
<1>6. QED
  BY <1>3, <1>4, <1>5

LEMMA CheckerTypes ==
  ASSUME RadioTypes, ShadowChecker
  PROVE  err' \in 0 .. ErrMod - 1 /\ UNCHANGED <<airVars, boxVars>>
<1>1. One(BothSending(is_send)) \in Nat
  BY DEF One
<1>2. QED
  BY <1>1, CountType DEF ShadowChecker

\* A step of the library, as any of the programs takes it.
Library(i, c, t) ==
  \/ SendCall(i, t) \/ AvailCall(i, t) \/ RecvCall(i, t)
  \/ Inside(i) \/ SendPut(i, c) \/ SendChecker(i)
  \/ DataChecker(i) \/ DataWake(i) \/ RecvErr(i) \/ RecvTake(i) \/ RecvChecker(i)

LEMMA LibraryTypes ==
  ASSUME RadioTypes, NEW i \in ID, NEW c \in Contents, NEW t \in Nat, Library(i, c, t)
  PROVE  /\ RadioTypes'
         /\ \A j \in ID : j # i => pc'[j] = pc[j]
<1> USE DEF At, Goto
<1>1. CASE SendCall(i, t) \/ AvailCall(i, t) \/ RecvCall(i, t)
  <2>1. PICK o \in {"send", "avail", "recv"}, l \in {"s_worker", "d_worker", "r_worker"} :
          Call(i, o, l, t)
    BY <1>1 DEF SendCall, AvailCall, RecvCall
  <2>2. QED
    BY <2>1 DEF Call, RadioTypes, PC, SendPC, DataPC, RecvPC, airVars, boxVars
<1>2. CASE SendWorker(i) \/ SendFlush(i) \/ RecvWorker(i) \/ DataWorker(i)
  <2>1. /\ ShadowWorker /\ UNCHANGED <<op, timeout, ready>>
        /\ \E l \in {"s_check", "s_checker", "d_worker", "d_read"} : Goto(i, l)
    BY <1>2 DEF SendWorker, SendFlush, RecvWorker, DataWorker
  <2>2. QED
    BY <2>1, WorkerTypes DEF RadioTypes, PC, SendPC, DataPC
<1>3. CASE SendCheck(i) \/ SendWake(i)
  BY <1>3 DEF SendCheck, SendWake, RadioTypes, PC, SendPC, airVars, boxVars
<1>4. CASE SendErr(i)
  BY <1>4, CountType DEF SendErr, RadioTypes, PC, SendPC, airVars, boxVars
<1>5. CASE SendPut(i, c)
  BY <1>5 DEF SendPut, Sleep, RadioTypes, PC, SendPC, boxVars
<1>6. CASE SendChecker(i)
  BY <1>6, CheckerTypes DEF SendChecker, Return, RadioTypes, PC, airVars, boxVars
<1>7. CASE DataRead(i)
  BY <1>7 DEF DataRead, RadioTypes, PC, DataPC, airVars, boxVars
<1>8. CASE DataChecker(i) \/ DataWake(i)
  <2>1. err' \in 0 .. ErrMod - 1 /\ UNCHANGED <<airVars, boxVars, ready>>
    BY <1>8, CheckerTypes DEF DataChecker, DataWake, RadioTypes
  <2>2. PICK l \in {"d_sleep", "d_worker", "r_take", "r_err", "client"} : Goto(i, l)
    BY <1>8 DEF DataChecker, DataWake, DataReturn, Return, Sleep
  <2>3. /\ op' = op \/ op' = [op EXCEPT ![i] = "none"]
        /\ timeout' = timeout \/ timeout' = [timeout EXCEPT ![i] = 0]
    BY <1>8 DEF DataChecker, DataWake, DataReturn, Return, Sleep
  <2>4. QED
    BY <2>1, <2>2, <2>3 DEF RadioTypes, PC, DataPC, RecvPC, airVars, boxVars
<1>9. CASE RecvErr(i)
  BY <1>9, CountType DEF RecvErr, Return, RadioTypes, PC, airVars, boxVars
<1>10. CASE RecvTake(i)
  BY <1>10 DEF RecvTake, RadioTypes, PC, RecvPC, airVars
<1>11. CASE RecvChecker(i)
  BY <1>11, CheckerTypes DEF RecvChecker, Return, RadioTypes, PC, airVars, boxVars
<1>12. QED
  BY <1>1, <1>2, <1>3, <1>4, <1>5, <1>6, <1>7, <1>8, <1>9, <1>10, <1>11 DEF Library, Inside

LEMMA PayloadContents ==
  {Original, Mended, Blank, NoData} \subseteq Contents
BY ClientsAssumption DEF Contents

\* Timeouts are numbers.
LEMMA TimeoutsNat ==
  \A i \in ID : SendTimeout(i) \in Nat /\ RecvTimeout(i) \in Nat
<1>1. TIMEOUT \in Nat
  BY WlEnvAssumption DEF TIMEOUT
<1>2. QED
  BY <1>1 DEF SendTimeout, RecvTimeout

LEMMA NapTypes ==
  ASSUME RadioTypes, Nap
  PROVE  RadioTypes' /\ pc' = pc
BY DEF RadioTypes, Nap, airVars, boxVars

\* A step of a thread of the ping-pong tests.
LEMMA PlaysTypes ==
  ASSUME RadioTypes, ClientsTypeOK, Playing, Rally, NEW i \in ID,
         Plays(i), History, UNCHANGED lag
  PROVE  RadioTypes' /\ ClientsTypeOK'
<1> DEFINE Where == {"nap", "serve", "look", "receive", "back", "finished", "gave_up", "script"}
<1>0. /\ at \in [ID -> Where] /\ buf \in [ID -> Contents] /\ round \in 0 .. Rounds
      /\ send_data \in [ID -> Contents] /\ recv_data \in [ID -> Contents]
      /\ round = Rounds <=> at[0] = "finished"
  BY DEF ClientsTypeOK, Rally, RadioTypes
<1>1. RadioTypes'
  <2>1. CASE Naps(i)
    BY <2>1, NapTypes DEF Naps
  <2>2. CASE Starts(i)
    <3>1. \E t \in Nat : Library(i, NoData, t)
      BY <2>2, TimeoutsNat DEF Starts, Library
    <3>2. QED
      BY <3>1, PayloadContents, LibraryTypes
  <2>3. CASE Puts(i)
    <3>1. \E c \in Contents : Library(i, c, 0)
      BY <1>0, <2>3, PayloadContents DEF Puts, Library
    <3>2. QED
      BY <3>1, LibraryTypes
  <2>4. CASE Looks(i) \/ Fills(i) \/ Receives(i) \/ GivesUp(i) \/ SendsBack(i) \/ Inside(i)
    <3>1. Library(i, NoData, 0)
      BY <2>4 DEF Looks, Fills, Receives, GivesUp, SendsBack, Library
    <3>2. QED
      BY <3>1, PayloadContents, LibraryTypes
  <2>5. QED
    BY <2>1, <2>2, <2>3, <2>4 DEF Plays
<1>2. at' \in [ID -> Where]
  BY <1>0 DEF Plays, Naps, Starts, Looks, Fills, Receives, GivesUp, Puts, SendsBack, Becomes, Waits
<1>3. buf' \in [ID -> Contents]
  <2>1. CASE Receives(i)
    <3>1. Checked(i, buf[i]) \subseteq Contents
      BY <1>0, PayloadContents DEF Checked
    <3>2. QED
      BY <1>0, <2>1, <3>1 DEF Receives
  <2>2. CASE ~Receives(i)
    BY <1>0, <2>2, PayloadContents
    DEF Plays, Naps, Starts, Looks, Fills, GivesUp, Puts, SendsBack
  <2>3. QED
    BY <2>1, <2>2
<1>4. round' \in 0 .. Rounds
  <2>1. CASE SendsBack(i)
    <3>1. i = 0 /\ at[i] = "back" => round < Rounds
      BY <1>0, ClientsAssumption
    <3>2. QED
      BY <1>0, <2>1, <3>1, ClientsAssumption DEF SendsBack
  <2>2. CASE ~SendsBack(i)
    BY <1>0, <2>2 DEF Plays, Naps, Starts, Looks, Fills, Receives, GivesUp, Puts
  <2>3. QED
    BY <2>1, <2>2
<1>5. {failed', lost', broken'} \subseteq BOOLEAN
  BY DEF Plays, History, ClientsTypeOK
<1>6. QED
  BY <1>1, <1>2, <1>3, <1>4, <1>5 DEF Plays, ClientsTypeOK

LEMMA PlaysKeeps ==
  ASSUME IInv, NEW i \in ID, Plays(i), History, UNCHANGED lag
  PROVE  IInv'
<1>1. RadioTypes /\ ClientsTypeOK /\ Playing /\ Rally /\ UNCHANGED program
  BY DEF IInv, Plays, Playing
<1>2. RadioTypes' /\ ClientsTypeOK'
  BY <1>1, PlaysTypes
<1>3. Rally'
  <2>1. CASE Naps(i) \/ Starts(i)
    BY <1>1, <2>1, CallRally
  <2>2. CASE Fills(i) \/ Puts(i)
    BY <1>1, <2>2, BallRally
  <2>3. CASE Looks(i) \/ Receives(i) \/ GivesUp(i) \/ SendsBack(i)
    BY <1>1, <2>3, ReturnRally
  <2>4. CASE Inside(i) /\ UNCHANGED <<at, buf, round>>
    BY <1>1, <2>4, InsideRally
  <2>5. QED
    BY <2>1, <2>2, <2>3, <2>4 DEF Plays
<1>4. QED
  BY <1>1, <1>2, <1>3 DEF IInv, Playing

-----------------------------------------------------------------------------
(* The script.                                                               *)

\* What a line of the script may be.
Lines == [do : {"send", "recv"}, id : ID] \cup [do : {"avail"}, id : ID, expected : BOOLEAN]
           \cup [do : {"init", "sleep"}] \cup [do : {"err"}, expected : BOOLEAN]

LEMMA ScriptLines ==
  Script \in Seq(Lines)
<1> DEFINE s0 == SendFrom(0)
           s1 == SendFrom(1)
           r0 == RecvAt(0)
           r1 == RecvAt(1)
           n0 == Expect(0, FALSE)
           y0 == Expect(0, TRUE)
           n1 == Expect(1, FALSE)
           y1 == Expect(1, TRUE)
           ok == ExpectErr(FALSE)
           ko == ExpectErr(TRUE)
           a == <<s0, n1, SleepOn, y1, r1, s1, n0, SleepOn, y0, r0, ok>>
           b == <<EnvReset, s0, s0, ko>>
           c == <<EnvReset, s0, s1, ko>>
           d == <<EnvReset, s0, SleepOn, s0, SleepOn, s0, ko>>
<1>1. s0 \in Lines /\ s1 \in Lines /\ r0 \in Lines /\ r1 \in Lines
  BY DEF SendFrom, RecvAt, Lines, ID
<1>2. n0 \in Lines /\ y0 \in Lines /\ n1 \in Lines /\ y1 \in Lines
  BY DEF Expect, Lines, ID
<1>3. EnvReset \in Lines /\ SleepOn \in Lines /\ ko \in Lines /\ ok \in Lines
  BY DEF EnvReset, SleepOn, ExpectErr, Lines
<1>4. Script = a \o b \o c \o d
  BY DEF Script
<1> HIDE DEF s0, s1, r0, r1, n0, y0, n1, y1, ok, ko
<1>5. a \in Seq(Lines)
  BY <1>1, <1>2, <1>3
<1>6. b \in Seq(Lines) /\ c \in Seq(Lines)
  BY <1>1, <1>3
<1>7. d \in Seq(Lines)
  BY <1>1, <1>3
<1> HIDE DEF a, b, c, d
<1>8. QED
  BY <1>4, <1>5, <1>6, <1>7

LEMMA LineTypes ==
  ASSUME line \in 1 .. Len(Script)
  PROVE  /\ Len(Script) \in Nat
         /\ Now \in Lines
         /\ Now.do \in {"send", "recv", "avail"} => Now.id \in ID
<1> DEFINE s == Script
<1>1. s \in Seq(Lines)
  BY ScriptLines
<1> HIDE DEF s
<1>2. Len(s) \in Nat /\ \A n \in 1 .. Len(s) : s[n] \in Lines
  BY <1>1
<1>3. Len(Script) \in Nat /\ Now \in Lines
  BY <1>2 DEF s, Now
<1>4. \A r \in Lines : r.do \in {"send", "recv", "avail"} => r.id \in ID
  BY DEF Lines
<1>5. QED
  BY <1>3, <1>4

\* The next line is a line of the script or the end.
LEMMA NextLine ==
  ASSUME line \in 1 .. Len(Script) + 1, line <= Len(Script)
  PROVE  /\ line \in 1 .. Len(Script)
         /\ line + 1 \in 1 .. Len(Script) + 1
<1>1. Len(Script) \in Nat
  <2> DEFINE s == Script
  <2>1. s \in Seq(Lines)
    BY ScriptLines
  <2> HIDE DEF s
  <2>2. Len(s) \in Nat
    BY <2>1
  <2>3. QED
    BY <2>2 DEF s
<1> DEFINE n == Len(Script)
<1>2. n \in Nat
  BY <1>1
<1> HIDE DEF n
<1>3. line \in 1 .. n + 1 /\ line <= n
  BY DEF n
<1>4. line \in 1 .. n /\ line + 1 \in 1 .. n + 1
  BY <1>2, <1>3
<1>5. QED
  BY <1>4 DEF n

\* The line goes on by one, when no call is under way any more.
LEMMA DoneKeeps ==
  ASSUME ClientsTypeOK, line <= Len(Script), NEW ok \in BOOLEAN, Done(ok),
         UNCHANGED <<program, at, buf, round, lag>>, {lost', broken'} \subseteq BOOLEAN
  PROVE  ClientsTypeOK'
<1>1. line' \in 1 .. Len(Script) + 1
  BY NextLine DEF ClientsTypeOK, Done
<1>2. failed' \in BOOLEAN
  BY DEF ClientsTypeOK, Done
<1>3. QED
  BY <1>1, <1>2 DEF ClientsTypeOK

\* A call, or the work of a line that is none.
LEMMA OutsideKeeps ==
  ASSUME IInv, ScriptCalls \/ ScriptGoesOn, UNCHANGED lag
  PROVE  IInv'
<1> USE DEF At
<1>0. /\ RadioTypes /\ ClientsTypeOK /\ program = "script" /\ program' = "script" /\ ~Playing'
      /\ \A i \in ID : pc[i] = "client"
      /\ line <= Len(Script)
  BY DEF IInv, ScriptCalls, ScriptGoesOn, Running, InLibrary, Playing, clientVars
<1>1. line \in 1 .. Len(Script) /\ line + 1 \in 1 .. Len(Script) + 1
  BY <1>0, NextLine DEF ClientsTypeOK
<1>2. CASE ScriptCalls
  <2>1. Now.do \in {"send", "recv", "avail"}
    BY <1>2 DEF ScriptCalls
  <2>2. Now.id \in ID
    BY <1>1, <2>1, LineTypes
  <2>3. Library(Now.id, NoData, 0)
    BY <1>2 DEF ScriptCalls, Library
  <2>4. RadioTypes' /\ \A j \in ID : j # Now.id => pc'[j] = pc[j]
    BY <1>0, <2>2, <2>3, PayloadContents, LibraryTypes
  <2>5. ClientsTypeOK'
    BY <1>0, <1>2 DEF ScriptCalls, ClientsTypeOK, clientVars
  <2>6. op'[Now.id] = Now.do /\ timeout'[Now.id] = 0 /\ UNCHANGED line
    BY <1>0, <1>2, <2>2 DEF ScriptCalls, SendCall, AvailCall, RecvCall, Call, RadioTypes, clientVars
  <2>7. Now' = Now
    BY <2>6 DEF Now
  <2>8. ScriptControl'
    BY <1>0, <2>1, <2>4, <2>6, <2>7 DEF ScriptControl
  <2>9. QED
    BY <1>0, <2>4, <2>5, <2>8 DEF IInv
<1>3. CASE ScriptGoesOn
  <2>1. \E ok \in BOOLEAN : Done(ok)
    BY <1>3 DEF ScriptGoesOn
  <2>2. RadioTypes' /\ pc' = pc
    <3>1. CASE EnvInit
      BY <1>0, <3>1, WlEnvAssumption DEF EnvInit, RadioTypes
    <3>2. CASE UNCHANGED vars
      BY <1>0, <3>2 DEF vars, airVars, boxVars, callVars, RadioTypes
    <3>3. CASE Nap
      BY <1>0, <3>3, NapTypes
    <3>4. QED
      BY <1>3, <3>1, <3>2, <3>3 DEF ScriptGoesOn
  <2>3. ClientsTypeOK'
    BY <1>0, <1>3, <2>1, DoneKeeps DEF ScriptGoesOn, ClientsTypeOK
  <2>4. ScriptControl'
    BY <1>0, <2>2 DEF ScriptControl
  <2>5. QED
    BY <1>0, <2>2, <2>3, <2>4 DEF IInv
<1>4. QED
  BY <1>2, <1>3

\* A call goes on or returns.
LEMMA CallKeeps ==
  ASSUME IInv, ScriptInside \/ ScriptReturns, History, UNCHANGED lag
  PROVE  IInv'
<1> USE DEF At, Goto
<1>0. /\ RadioTypes /\ ClientsTypeOK /\ ScriptControl
      /\ program = "script" /\ program' = "script" /\ ~Playing'
      /\ line <= Len(Script)
      /\ pc \in [ID -> PC]
      /\ op \in [ID -> {"none", "send", "avail", "recv"}]
      /\ timeout \in [ID -> Nat]
  BY DEF IInv, ScriptInside, ScriptReturns, Running, Playing, RadioTypes
<1>1. /\ Now.id \in ID /\ pc[Now.id] # "client"
      /\ Now.do = op[Now.id] /\ op[Now.id] # "none" /\ timeout[Now.id] = 0
      /\ \A j \in ID : j # Now.id => pc[j] = "client"
  BY <1>0 DEF ScriptInside, ScriptReturns, InLibrary, ScriptControl
<1>2. Library(Now.id, Original, 0)
  BY DEF ScriptInside, ScriptReturns, Library
<1>3. RadioTypes' /\ \A j \in ID : j # Now.id => pc'[j] = "client"
  BY <1>0, <1>1, <1>2, PayloadContents, LibraryTypes
<1>4. {lost', broken'} \subseteq BOOLEAN
  BY <1>0 DEF History, ClientsTypeOK
<1>5. CASE ScriptInside
  <2>1. UNCHANGED <<program, at, round, line, failed>>
    BY <1>5 DEF ScriptInside
  <2>2. buf' \in [ID -> Contents]
    BY <1>0, <1>5 DEF ScriptInside, ClientsTypeOK, RadioTypes
  <2>3. ClientsTypeOK'
    BY <1>0, <1>4, <2>1, <2>2 DEF ClientsTypeOK
  <2>4. op' = op /\ timeout' = timeout
    <3>1. CASE Inside(Now.id)
      BY <1>0, <1>1, <3>1
      DEF Inside, SendWorker, SendCheck, SendErr, SendWake, SendFlush, RecvWorker, DataWorker,
          DataRead, DataChecker, DataWake, DataReturn, Return, Returns
    <3>2. CASE SendPut(Now.id, Original) \/ RecvTake(Now.id)
      BY <3>2 DEF SendPut, RecvTake
    <3>3. QED
      BY <1>5, <3>1, <3>2 DEF ScriptInside
  <2>5. Now' = Now
    BY <2>1 DEF Now
  <2>6. ScriptControl'
    BY <1>0, <1>1, <1>3, <2>1, <2>4, <2>5 DEF ScriptControl
  <2>7. QED
    BY <1>0, <1>3, <2>3, <2>6 DEF IInv
<1>6. CASE ScriptReturns
  <2>1. \E ok \in BOOLEAN : Done(ok)
    BY <1>6 DEF ScriptReturns
  <2>2. ClientsTypeOK'
    BY <1>0, <1>4, <1>6, <2>1, DoneKeeps DEF ScriptReturns
  <2>3. pc'[Now.id] = "client"
    BY <1>0, <1>1, <1>6
    DEF ScriptReturns, SendChecker, DataChecker, RecvChecker, RecvErr, DataReturn, Return
  <2>4. \A j \in ID : pc'[j] = "client"
    BY <1>3, <2>3
  <2>5. ScriptControl'
    BY <2>4 DEF ScriptControl
  <2>6. QED
    BY <1>0, <1>3, <2>2, <2>5 DEF IInv
<1>7. QED
  BY <1>5, <1>6

-----------------------------------------------------------------------------
(* Every step.                                                               *)

LEMMA TickKeeps ==
  ASSUME IInv, ClientsTick
  PROVE  IInv'
<1>1. lag' \in [ID -> 0 .. MaxLag]
  <2>1. \A i \in ID : Rests(i) \/ lag[i] + 1 \in 0 .. MaxLag
    BY ClientsAssumption DEF IInv, ClientsTypeOK, ClientsTick
  <2>2. QED
    BY <2>1, ClientsAssumption DEF ClientsTick
<1>2. RadioTypes'
  BY DEF IInv, ClientsTick, Tick, RadioTypes, boxVars
<1>3. ClientsTypeOK'
  BY <1>1 DEF IInv, ClientsTick, ClientsTypeOK, clientVars
<1>4. /\ UNCHANGED <<is_send, send_data, boxVars, err, op, pc, timeout, ready>>
      /\ UNCHANGED <<clientVars, lost, broken>>
  BY DEF ClientsTick, Tick
<1>5. program' = "script" => ScriptControl'
  BY <1>4 DEF IInv, ScriptControl, At, Now, clientVars
<1>6. Playing' => Rally'
  <2>1. SUFFICES ASSUME Playing' PROVE Rally'
    OBVIOUS
  <2>2. Rally
    BY <1>4, <2>1 DEF IInv, Playing, clientVars
  <2>3. \A i \in ID : Route(i)' /\ Seen(i)'
    BY <1>4, <2>2 DEF Rally, Route, Seen, At, clientVars, boxVars
  <2>4. Alone' /\ AvailableStays'
    BY <1>4, <2>2 DEF Rally, Alone, AvailableStays, Holds, At, clientVars, boxVars
  <2>5. Genuine'
    BY <1>4, <2>2 DEF Rally, Genuine, Arrived, Sendable, At, clientVars, boxVars
  <2>6. QED
    BY <1>4, <2>2, <2>3, <2>4, <2>5 DEF Rally, clientVars
<1>7. QED
  BY <1>2, <1>3, <1>5, <1>6 DEF IInv

LEMMA StutterKeeps ==
  ASSUME IInv, UNCHANGED allVars
  PROVE  IInv'
<1>1. /\ UNCHANGED <<is_send, send_data, is_recieved, recv_data, err, op, pc, timeout, ready>>
      /\ UNCHANGED <<program, at, buf, round, line, failed, lost, broken, lag>>
  BY DEF allVars, vars, airVars, boxVars, callVars, clientVars
<1>2. RadioTypes' /\ ClientsTypeOK'
  BY <1>1 DEF IInv, RadioTypes, ClientsTypeOK
<1>3. program' = "script" => ScriptControl'
  BY <1>1 DEF IInv, ScriptControl, At, Now
<1>4. Playing' => Rally'
  <2>1. SUFFICES ASSUME Playing' PROVE Rally'
    OBVIOUS
  <2>2. Rally
    BY <1>1, <2>1 DEF IInv, Playing
  <2>3. \A i \in ID : Route(i)' /\ Seen(i)'
    BY <1>1, <2>2 DEF Rally, Route, Seen, At
  <2>4. Alone' /\ AvailableStays'
    BY <1>1, <2>2 DEF Rally, Alone, AvailableStays, Holds, At
  <2>5. Genuine'
    BY <1>1, <2>2 DEF Rally, Genuine, Arrived, Sendable, At
  <2>6. QED
    BY <1>1, <2>2, <2>3, <2>4, <2>5 DEF Rally
<1>5. QED
  BY <1>2, <1>3, <1>4 DEF IInv

LEMMA InitHolds ==
  ASSUME ClientsInit
  PROVE  IInv
<1> USE DEF At
<1>1. RadioTypes
  BY WlEnvAssumption, PayloadContents DEF ClientsInit, Init, RadioTypes, PC
<1>2. ClientsTypeOK
  <2>1. 1 \in 1 .. Len(Script) + 1
    <3> DEFINE s == Script
    <3>1. s \in Seq(Lines)
      BY ScriptLines
    <3> HIDE DEF s
    <3>2. Len(s) \in Nat
      BY <3>1
    <3>3. 1 \in 1 .. Len(s) + 1
      BY <3>2
    <3>4. QED
      BY <3>3 DEF s
  <2>2. at \in [ID -> {"nap", "serve", "look", "receive", "back", "finished", "gave_up", "script"}]
    <3> DEFINE first(i) == CASE program = "script" -> "script"
                             [] program # "script" /\ i = 1 -> Waits
                             [] program = "poll" /\ i = 0 -> "serve"
                             [] program = "wait" /\ i = 0 -> "nap"
               Where == {"nap", "serve", "look", "receive", "back", "finished", "gave_up", "script"}
    <3>1. ASSUME NEW i \in ID PROVE first(i) \in Where
      <4>1. Waits \in Where
        BY DEF Waits
      <4>2. (i = 0 \/ i = 1) /\ program \in {"poll", "wait", "script"}
        BY DEF ID, ClientsInit
      <4>3. CASE program = "script"
        BY <4>2, <4>3
      <4>4. CASE program = "poll"
        BY <4>1, <4>2, <4>4
      <4>5. CASE program = "wait"
        BY <4>1, <4>2, <4>5
      <4>6. QED
        BY <4>2, <4>3, <4>4, <4>5
    <3>2. at = [i \in ID |-> first(i)]
      BY DEF ClientsInit
    <3> HIDE DEF first, Where
    <3>3. at \in [ID -> Where]
      BY <3>1, <3>2
    <3>4. QED
      BY <3>3 DEF Where
  <2>3. lag \in [ID -> 0 .. MaxLag] /\ round \in 0 .. Rounds
    BY ClientsAssumption DEF ClientsInit
  <2>4. QED
    BY <2>1, <2>2, <2>3, PayloadContents DEF ClientsInit, ClientsTypeOK
<1>3. ScriptControl
  BY DEF ClientsInit, Init, ScriptControl
<1>4. Playing => Rally
  <2>1. SUFFICES ASSUME Playing PROVE Rally
    OBVIOUS
  <2>2. /\ at[0] \in {"serve", "nap"} /\ (program = "poll" <=> at[0] = "serve")
        /\ at[1] \in {"look", "receive"} /\ (program = "poll" <=> at[1] = "look")
        /\ program \in {"poll", "wait"}
    <3>1. program = "poll" \/ program = "wait"
      BY <2>1 DEF Playing, ClientsInit
    <3>2. at[1] = Waits
      <4>1. 1 \in ID /\ program # "script"
        BY <3>1 DEF ID
      <4>2. QED
        BY <4>1 DEF ClientsInit
    <3>3. at[0] = IF program = "poll" THEN "serve" ELSE "nap"
      <4>1. 0 \in ID /\ 0 # 1 /\ program # "script" /\ "wait" # "poll"
        BY <3>1 DEF ID
      <4>2. CASE program = "poll"
        BY <4>1, <4>2 DEF ClientsInit
      <4>3. CASE program = "wait"
        BY <4>1, <4>3 DEF ClientsInit
      <4>4. QED
        BY <3>1, <4>2, <4>3
    <3>4. QED
      BY <3>1, <3>2, <3>3 DEF Waits
  <2>3. /\ \A i \in ID : is_send[i] /\ ~is_recieved[i] /\ pc[i] = "client" /\ timeout[i] = 0 /\ ~ready[i]
        /\ err = 0 /\ round = 0 /\ ~lost
    BY DEF ClientsInit, Init
  <2>4. Holds(0) /\ ~Holds(1)
    BY <2>2, <2>3 DEF Holds, ID
  <2>5. Alone
    BY <2>3, <2>4 DEF Alone, ID
  <2>6. \A i \in ID : Route(i)
    BY <2>2, <2>3 DEF Route, ID
  <2>7. \A i \in ID : Seen(i)
    BY <2>2, <2>3 DEF Seen, ID
  <2>8. Genuine
    BY <2>2, <2>3 DEF Genuine, ID
  <2>9. AvailableStays
    BY <2>3 DEF AvailableStays
  <2>10. (round = Rounds <=> at[0] = "finished")
    BY <2>2, <2>3, ClientsAssumption
  <2>11. QED
    BY <2>3, <2>5, <2>6, <2>7, <2>8, <2>9, <2>10 DEF Rally
<1>5. QED
  BY <1>1, <1>2, <1>3, <1>4 DEF IInv

\* The invariant of the three test programs.
THEOREM Invariance == ClientsSpec => []IInv
<1>1. ClientsInit => IInv
  BY InitHolds
<1>2. IInv /\ [ClientsNext]_allVars => IInv'
  <2>1. ASSUME IInv, [ClientsNext]_allVars PROVE IInv'
    <3>1. CASE \E i \in ID : Plays(i) /\ History /\ UNCHANGED lag
      BY <2>1, <3>1, PlaysKeeps
    <3>2. CASE (ScriptInside \/ ScriptReturns) /\ History /\ UNCHANGED lag
      BY <2>1, <3>2, CallKeeps
    <3>3. CASE (ScriptCalls \/ ScriptGoesOn) /\ UNCHANGED lag
      BY <2>1, <3>3, OutsideKeeps
    <3>4. CASE ClientsTick
      BY <2>1, <3>4, TickKeeps
    <3>5. CASE UNCHANGED allVars
      BY <2>1, <3>5, StutterKeeps
    <3>6. QED
      BY <2>1, <3>1, <3>2, <3>3, <3>4, <3>5 DEF ClientsNext
  <2>2. QED
    BY <2>1
<1>3. QED
  BY <1>1, <1>2, PTL DEF ClientsSpec

\* The types, for all three programs.
THEOREM ClientsTypes == ClientsSpec => []ClientsTypeOK
<1>1. IInv => ClientsTypeOK
  BY DEF IInv
<1>2. QED
  BY <1>1, Invariance, PTL

-----------------------------------------------------------------------------
(* The properties of the ping-pong tests.                                    *)

LEMMA CountOf ==
  ASSUME NEW T \in SUBSET ID
  PROVE  Cardinality(T) = One(0 \in T) + One(1 \in T)
<1>1. CASE 0 \in T /\ 1 \in T
  <2>1. T = {1} \cup {0}
    <3>1. \A t \in T : t = 0 \/ t = 1
      BY DEF ID
    <3>2. QED
      BY <1>1, <3>1
  <2>2. IsFiniteSet({1}) /\ Cardinality({1}) = 1
    BY FS_Singleton
  <2>3. 0 \notin {1}
    OBVIOUS
  <2>4. Cardinality({1} \cup {0}) = 2
    BY <2>2, <2>3, FS_AddElement
  <2>5. QED
    BY <1>1, <2>1, <2>4 DEF One
<1>2. CASE 0 \in T /\ 1 \notin T
  <2>1. T = {0}
    BY <1>2 DEF ID
  <2>2. Cardinality(T) = 1
    BY <2>1, FS_Singleton
  <2>3. QED
    BY <1>2, <2>2 DEF One
<1>3. CASE 0 \notin T /\ 1 \in T
  <2>1. T = {1}
    BY <1>3 DEF ID
  <2>2. Cardinality(T) = 1
    BY <2>1, FS_Singleton
  <2>3. QED
    BY <1>3, <2>2 DEF One
<1>4. CASE 0 \notin T /\ 1 \notin T
  <2>1. T = {}
    BY <1>4 DEF ID
  <2>2. QED
    BY <1>4, <2>1, FS_EmptySet DEF One
<1>5. QED
  BY <1>1, <1>2, <1>3, <1>4

\* Counting the places is what Alone says without counting.
LEMMA AloneCounts ==
  ASSUME Alone
  PROVE  Cardinality({i \in ID : ~is_send[i]}) + Cardinality({i \in ID : is_recieved[i]})
           + Cardinality({i \in ID : Holds(i)}) = One(~lost)
<1>1. /\ Cardinality({i \in ID : ~is_send[i]}) = One(~is_send[0]) + One(~is_send[1])
      /\ Cardinality({i \in ID : is_recieved[i]}) = One(is_recieved[0]) + One(is_recieved[1])
      /\ Cardinality({i \in ID : Holds(i)}) = One(Holds(0)) + One(Holds(1))
  <2> DEFINE F == {i \in ID : ~is_send[i]}
             B == {i \in ID : is_recieved[i]}
             H == {i \in ID : Holds(i)}
  <2>1. F \in SUBSET ID /\ B \in SUBSET ID /\ H \in SUBSET ID
    OBVIOUS
  <2>2. /\ 0 \in F <=> ~is_send[0]
        /\ 1 \in F <=> ~is_send[1]
        /\ 0 \in B <=> is_recieved[0]
        /\ 1 \in B <=> is_recieved[1]
        /\ 0 \in H <=> Holds(0)
        /\ 1 \in H <=> Holds(1)
    BY DEF ID
  <2> HIDE DEF F, B, H
  <2>3. /\ Cardinality(F) = One(0 \in F) + One(1 \in F)
        /\ Cardinality(B) = One(0 \in B) + One(1 \in B)
        /\ Cardinality(H) = One(0 \in H) + One(1 \in H)
    BY <2>1, CountOf
  <2>4. /\ Cardinality(F) = One(~is_send[0]) + One(~is_send[1])
        /\ Cardinality(B) = One(is_recieved[0]) + One(is_recieved[1])
        /\ Cardinality(H) = One(Holds(0)) + One(Holds(1))
    BY <2>2, <2>3 DEF One
  <2>5. QED
    BY <2>4 DEF F, B, H
<1>2. QED
  BY <1>1 DEF Alone, ID, One

\* There is exactly one packet, and none once it was lost.
THEOREM PacketStaysOne == ClientsSpec => []OneBall
<1>1. IInv => OneBall
  BY AloneCounts DEF IInv, Playing, Rally, OneBall
<1>2. QED
  BY <1>1, Invariance, PTL

\* The emulator counts no error in the ping-pong tests, noise or none.
THEOREM ErrorFree == ClientsSpec => []RallyErrorFree
<1>1. IInv => RallyErrorFree
  BY DEF IInv, Playing, Rally, RallyErrorFree
<1>2. QED
  BY <1>1, Invariance, PTL

\* What is on the air is what was served, or what noise made of it.
THEOREM ContentsSurvive == ClientsSpec => []SendsWhatCame
<1>1. IInv => SendsWhatCame
  BY DEF IInv, Playing, Rally, Genuine, Sendable, SendsWhatCame
<1>2. QED
  BY <1>1, Invariance, PTL

-----------------------------------------------------------------------------
(* The timeouts of "wait".  A thread that receives can time out wherever its *)
(* packet then is, so every place of the packet bounds for how long the      *)
(* thread can have listened.                                                 *)

\* For how long thread i has slept since it began to listen.
Listened(i) == time_sleep[i] + (IF At(i, "d_sleep") THEN 1 - sleep[i] ELSE 0)

\* Thread i will look into its box once more.
LooksAgain(i) == time_sleep[i] + 1 < RecvTimeout(i)

\* A thread is kept from running for MaxLag ticks, or it sleeps for one.
Pause == IF MaxLag = 0 THEN 1 ELSE MaxLag

\* The clocks of thread i, by what it does; it is thread 0 that finishes.
Clock(i) ==
  /\ time_sleep[i] # 0 => pc[i] \in DataPC
  /\ sleep[i] > 0 => pc[i] \in {"s_sleep", "d_sleep"} \/ (at[i] = "serve" /\ At(i, "client"))
  /\ At(i, "d_sleep") => sleep[i] <= 1 /\ ~ready[i]
  /\ At(i, "s_sleep") => IF is_send[i] THEN sleep[i] = 0
                                       ELSE send_age[i] + sleep[i] = TimeOnAir
  /\ at[i] = "receive" /\ ~At(i, "client") => timeout[i] = RecvTimeout(i)
  /\ at[i] = "finished" => i = 0

\* Thread i has sent the packet and it has not arrived.  If thread j has just
\* looked for it too early, it did so before the packet was due.
OnItsWay(i, j) ==
  ~is_send[i] =>
    /\ Listened(i) <= send_age[i]
    /\ pc[i] \in {"d_read", "d_checker"} \/ (At(i, "d_sleep") /\ sleep[i] > 0) =>
         Listened(i) < TimeOnAir
    /\ pc[j] \in {"d_read", "d_checker"} /\ send_age[i] = TimeOnAir => lag[j] > 0

\* For how long a peer can have listened when the packet is in the box of
\* thread j: having looked too early, thread j sleeps once more.
Boxed(j) ==
  IF At(j, "d_checker") /\ ~ready[j] THEN TimeOnAir - 1 + lag[j]
  ELSE IF sleep[j] > 0 THEN TimeOnAir - 1 + Pause
  ELSE TimeOnAir + Pause + lag[j]
InPeersBox(i, j) == is_recieved[j] /\ ~Ended(j) => Listened(i) <= Boxed(j)

\* When thread j has it: thread 0 naps before it serves.
Kept(j) ==
  IF at[j] = "nap" THEN lag[j]
  ELSE IF at[j] = "serve"
       THEN MaxLag + ONE_SECOND + (IF sleep[j] > 0 THEN 0 - sleep[j] ELSE lag[j])
       ELSE TimeOnAir + Pause + lag[j]
WithPeer(i, j) == Holds(j) => Listened(i) <= Kept(j)

\* When it is coming back: once it is due the next look will find it, and
\* there is a next look.
Turned(i) == IF i = 0 THEN TimeOnAir + Pause + MaxLag ELSE ONE_SECOND + 2 * MaxLag
OnItsWayBack(i, j) ==
  ~is_send[j] =>
    IF send_age[j] < TimeOnAir THEN Listened(i) <= Turned(i) + send_age[j]
    ELSE pc[i] \in {"d_read", "d_checker", "d_sleep"} => LooksAgain(i)

\* When it has come and thread i has not seen it yet.
InOwnBox(i) ==
  is_recieved[i] => ((At(i, "d_checker") /\ ~ready[i]) \/ At(i, "d_sleep") => LooksAgain(i))

Timed ==
  /\ time_sleep \in [ID -> Nat] /\ sleep \in [ID -> Nat] /\ send_age \in [ID -> 0 .. TimeOnAir]
  /\ \A i \in ID : Clock(i) /\ InOwnBox(i)
  /\ \A i, j \in ID : i # j =>
       /\ OnItsWay(i, j) /\ InPeersBox(i, j) /\ WithPeer(i, j) /\ OnItsWayBack(i, j)
  /\ GivesUpForAReason

WaitIInv ==
  /\ IInv
  /\ program = "wait" => Timed
  /\ program # "wait" => \A i \in ID : at[i] # "gave_up"

-----------------------------------------------------------------------------
\* The steps of thread m that leave the buffers alone, by what they do to its
\* place in the program and in the library, and to its clocks.
QuietMove(m) ==
  \/ /\ \/ pc[m] = "s_check" /\ pc'[m] = "s_put"
        \/ pc[m] = "s_sleep" /\ sleep[m] = 0 /\ pc'[m] = "s_flush"
     /\ at'[m] = at[m] /\ time_sleep'[m] = time_sleep[m] /\ sleep'[m] = sleep[m]
     /\ ready'[m] = ready[m] /\ timeout'[m] = timeout[m]
  \/ /\ pc[m] = "d_read" /\ pc'[m] = "d_checker"
     /\ at'[m] = at[m] /\ time_sleep'[m] = time_sleep[m] /\ sleep'[m] = sleep[m]
     /\ ready'[m] = is_recieved[m] /\ timeout'[m] = timeout[m]
  \/ /\ pc[m] = "d_checker" /\ ~ready[m] /\ pc'[m] = "d_sleep"
     /\ at'[m] = at[m] /\ time_sleep'[m] = time_sleep[m] /\ sleep'[m] = 1
     /\ ready'[m] = ready[m] /\ timeout'[m] = timeout[m]
  \/ /\ pc[m] = "d_checker" /\ ready[m] /\ pc'[m] = "r_take"
     /\ at'[m] = at[m] /\ time_sleep'[m] = 0 /\ sleep'[m] = sleep[m]
     /\ ready'[m] = ready[m] /\ timeout'[m] = timeout[m]
  \/ /\ pc[m] = "d_sleep" /\ sleep[m] = 0 /\ pc'[m] = "d_worker"
     /\ at'[m] = at[m] /\ time_sleep'[m] = time_sleep[m] + 1 /\ sleep'[m] = sleep[m]
     /\ ready'[m] = ready[m] /\ timeout'[m] = timeout[m]
  \/ /\ pc[m] = "client"
     /\ \/ at[m] \in {"serve", "back"} /\ pc'[m] = "s_worker" /\ sleep[m] = 0
        \/ at[m] = "receive" /\ pc'[m] = "r_worker" /\ timeout'[m] = RecvTimeout(m)
     /\ at'[m] = at[m] /\ time_sleep'[m] = time_sleep[m] /\ sleep'[m] = sleep[m]
     /\ ready'[m] = ready[m]
  \/ /\ at[m] = "nap" /\ at'[m] = "serve" /\ pc[m] = "client" /\ pc'[m] = "client"
     /\ time_sleep'[m] = time_sleep[m] /\ sleep'[m] = ONE_SECOND
     /\ ready'[m] = ready[m] /\ timeout'[m] = timeout[m]
  \/ /\ \/ pc[m] = "r_checker" /\ at[m] = "receive" /\ at'[m] = "back"
        \/ pc[m] = "s_checker" /\ at[m] \in {"serve", "back"} /\ at'[m] = "receive"
        \/ pc[m] = "s_checker" /\ at[m] = "back" /\ at'[m] = "finished" /\ m = 0
     /\ pc'[m] = "client" /\ time_sleep'[m] = time_sleep[m] /\ sleep'[m] = sleep[m]
     /\ ready'[m] = ready[m]
  \/ /\ pc[m] = "d_sleep" /\ sleep[m] = 0 /\ at[m] = "receive"
     /\ ~(timeout[m] > time_sleep[m] + 1)
     /\ pc'[m] = "client" /\ at'[m] = "gave_up" /\ time_sleep'[m] = 0 /\ sleep'[m] = sleep[m]
     /\ ready'[m] = ready[m]

\* The other thread does not move.
Still(n) ==
  /\ pc'[n] = pc[n] /\ at'[n] = at[n] /\ time_sleep'[n] = time_sleep[n] /\ sleep'[n] = sleep[n]
  /\ ready'[n] = ready[n] /\ timeout'[n] = timeout[n]

\* What the lemmas below assume of the state.
Context ==
  /\ RadioTypes /\ ClientsTypeOK /\ Rally /\ Timed /\ program = "wait" /\ Playing
  /\ program' = "wait" /\ (lost => lost')

\* The types of the clocks after a step.
ClockTypesNext == time_sleep' \in [ID -> Nat] /\ sleep' \in [ID -> Nat] /\ send_age' \in [ID -> 0 .. TimeOnAir]

\* The constants of the deadlines.
LEMMA WaitConstants ==
  /\ TimeOnAir \in Nat /\ TimeOnAir > 0 /\ MaxLag \in Nat
  /\ Pause \in Nat /\ Pause >= 1 /\ Pause >= MaxLag
  /\ ONE_SECOND = 10 * TimeOnAir
BY WlEnvAssumption, ClientsAssumption DEF Pause, ONE_SECOND

\* Such a step keeps every deadline.
LEMMA QuietTimed ==
  ASSUME Context, ClockTypesNext, NEW m \in ID, NEW n \in ID, m # n, QuietMove(m), Still(n),
         UNCHANGED <<airVars, boxVars, lag>>
  PROVE  /\ \A i \in ID : Clock(i)' /\ InOwnBox(i)'
         /\ \A i, j \in ID : i # j =>
              /\ OnItsWay(i, j)' /\ InPeersBox(i, j)' /\ WithPeer(i, j)' /\ OnItsWayBack(i, j)'
<1> USE WaitConstants DEF At
<1>1. /\ \A i \in ID : i = m \/ i = n
      /\ \A i, j \in ID : i # j => (i = m /\ j = n) \/ (i = n /\ j = m)
  BY DEF ID
<1>2. /\ is_send' = is_send /\ send_age' = send_age /\ is_recieved' = is_recieved
      /\ lag' = lag /\ lag \in [ID -> 0 .. MaxLag]
      /\ time_sleep \in [ID -> Nat] /\ sleep \in [ID -> Nat] /\ send_age \in [ID -> 0 .. TimeOnAir]
      /\ ClockTypesNext /\ pc[m] \in PC /\ at[m] \in {"nap", "serve", "receive", "back", "finished", "gave_up"}
      /\ program = "wait" /\ program' = "wait"
  BY DEF Context, ClientsTypeOK, Timed, airVars, boxVars, RadioTypes, Rally, Route
<1>3. /\ Clock(m) /\ Clock(n) /\ InOwnBox(m) /\ InOwnBox(n)
      /\ OnItsWay(m, n) /\ InPeersBox(m, n) /\ WithPeer(m, n) /\ OnItsWayBack(m, n)
      /\ OnItsWay(n, m) /\ InPeersBox(n, m) /\ WithPeer(n, m) /\ OnItsWayBack(n, m)
  BY DEF Context, Timed
<1>4. RecvTimeout(m)' = RecvTimeout(m) /\ RecvTimeout(n)' = RecvTimeout(n)
  BY <1>2 DEF RecvTimeout
<1>5. Clock(m)'
  BY <1>2, <1>3, <1>4 DEF Clock, QuietMove, DataPC
<1>6. Clock(n)'
  BY <1>2, <1>3, <1>4 DEF Clock, Still
<1>7. Listened(n)' = Listened(n) /\ (LooksAgain(n)' <=> LooksAgain(n))
  BY <1>2, <1>4 DEF Listened, LooksAgain, Still
<1>8. /\ Listened(m) \in Int /\ Listened(m)' \in Int /\ Listened(m)' <= Listened(m)
      /\ Listened(n) \in Int
  BY <1>2, <1>3 DEF Listened, QuietMove, ClockTypesNext, Clock
<1>9. pc'[m] \in {"d_read", "d_checker", "d_sleep"} =>
        pc[m] \in {"d_read", "d_checker"} /\ (LooksAgain(m)' <=> LooksAgain(m))
  BY <1>2, <1>4 DEF QuietMove, LooksAgain
<1>10. InOwnBox(m)'
  BY <1>2, <1>3, <1>9 DEF InOwnBox, QuietMove
<1>11. InOwnBox(n)'
  BY <1>2, <1>3, <1>7 DEF InOwnBox, Still
<1>12. OnItsWay(m, n)'
  <2>1. Listened(m)' <= Listened(m) /\ send_age[m] \in Int
    BY <1>2, <1>8
  <2>2. pc'[m] \in {"d_read", "d_checker"} \/ (pc'[m] = "d_sleep" /\ sleep'[m] > 0) =>
          pc[m] \in {"d_read", "d_checker"}
    BY <1>2, <1>9
  <2>3. QED
    BY <1>2, <1>3, <1>8, <2>1, <2>2 DEF OnItsWay, Still
<1>13. OnItsWay(n, m)'
  <2>1. pc'[m] \in {"d_read", "d_checker"} => pc[m] = "d_read"
    BY DEF QuietMove
  <2>2. QED
    BY <1>2, <1>3, <1>7, <2>1 DEF OnItsWay, Still
<1>14. InPeersBox(m, n)'
  <2>1. Boxed(n)' = Boxed(n) /\ Boxed(n) \in Int /\ (Ended(n)' <=> Ended(n))
    BY <1>2 DEF Boxed, Still, Ended
  <2>2. QED
    BY <1>2, <1>3, <1>8, <2>1 DEF InPeersBox
<1>15. InPeersBox(n, m)'
  <2>1. is_recieved[m] => ~Holds(m) /\ is_send[m]
    BY DEF Context, Rally, Alone
  <2>2. SUFFICES ASSUME is_recieved[m], ~Ended(m)'
                 PROVE  Listened(n) <= Boxed(m)'
    BY <1>2, <1>7 DEF InPeersBox
  <2>3. Listened(n) <= Boxed(m)
    <3>1. ~Ended(m)
      BY <2>1, <2>2 DEF QuietMove, Ended
    <3>2. QED
      BY <1>3, <2>2, <3>1 DEF InPeersBox
  <2>4. Boxed(m)' = IF pc'[m] = "d_checker" /\ ~ready'[m] THEN TimeOnAir - 1 + lag[m]
                    ELSE IF sleep'[m] > 0 THEN TimeOnAir - 1 + Pause
                    ELSE TimeOnAir + Pause + lag[m]
    BY <1>2 DEF Boxed
  <2>5. ~(pc'[m] = "d_checker" /\ ~ready'[m])
    BY <2>2 DEF QuietMove
  <2>6. lag[m] \in 0 .. MaxLag
    BY <1>2
  <2>7. CASE pc'[m] = "d_sleep"
    <3>1. pc[m] = "d_checker" /\ ~ready[m] /\ sleep'[m] = 1
      BY <2>7 DEF QuietMove
    <3>2. QED
      BY <1>8, <2>3, <2>4, <2>5, <2>6, <3>1 DEF Boxed
  <2>8. CASE pc'[m] # "d_sleep"
    <3>1. sleep'[m] = 0
      <4>1. sleep[m] \in Nat /\ is_send[m] /\ ~Holds(m)
        BY <1>2, <2>1, <2>2
      <4>2. ~(pc[m] = "client" /\ at[m] \in {"nap", "serve"})
        BY <4>1 DEF Holds
      <4>3. pc[m] # "d_sleep" => sleep[m] = 0
        BY <1>3, <4>1, <4>2 DEF Clock
      <4>4. sleep[m] = 0 /\ sleep'[m] = sleep[m]
        BY <2>8, <4>2, <4>3 DEF QuietMove
      <4>5. QED
        BY <4>4
    <3>2. QED
      BY <1>8, <2>3, <2>4, <2>5, <2>6, <3>1 DEF Boxed
  <2>9. QED
    BY <2>7, <2>8
<1>16. WithPeer(m, n)'
  <2>1. Kept(n)' = Kept(n) /\ Kept(n) \in Int /\ (Holds(n)' <=> Holds(n))
    BY <1>2 DEF Kept, Still, Holds
  <2>2. QED
    BY <1>2, <1>3, <1>8, <2>1 DEF WithPeer
<1>17. WithPeer(n, m)'
  <2>1. Route(m)
    BY DEF Context, Rally
  <2>2. Holds(m)' => Holds(m)
    BY <1>2, <2>1 DEF QuietMove, Holds, Route
  <2>3. Holds(m)' => Kept(m)' >= Kept(m) /\ Kept(m) \in Int /\ Kept(m)' \in Int
    BY <1>2, <1>3, <2>1 DEF QuietMove, Kept, Holds, Route, Clock
  <2>4. QED
    BY <1>3, <1>7, <1>8, <2>2, <2>3 DEF WithPeer
<1>18. OnItsWayBack(m, n)'
  <2>1. Turned(m) \in Int
    BY DEF Turned
  <2>2. QED
    BY <1>2, <1>3, <1>8, <1>9, <2>1 DEF OnItsWayBack, Turned
<1>19. OnItsWayBack(n, m)'
  BY <1>2, <1>3, <1>7 DEF OnItsWayBack, Turned, Still
<1>20. QED
  BY <1>1, <1>5, <1>6, <1>10, <1>11, <1>12, <1>13, <1>14, <1>15, <1>16, <1>17, <1>18, <1>19

\* A run of the worker in a call of thread m.
LEMMA WorkerTimed ==
  ASSUME Context, ClockTypesNext, NEW m \in ID, NEW n \in ID, m # n, ShadowWorker,
         UNCHANGED <<at, time_sleep, sleep, ready, timeout, lag>>,
         pc'[n] = pc[n],
         \/ pc[m] = "s_worker" /\ pc'[m] = "s_check"
         \/ pc[m] = "s_flush" /\ pc'[m] = "s_checker"
         \/ pc[m] = "r_worker" /\ pc'[m] = "d_worker"
         \/ pc[m] = "d_worker" /\ pc'[m] = "d_read"
  PROVE  /\ \A i \in ID : Clock(i)' /\ InOwnBox(i)'
         /\ \A i, j \in ID : i # j =>
              /\ OnItsWay(i, j)' /\ InPeersBox(i, j)' /\ WithPeer(i, j)' /\ OnItsWayBack(i, j)'
<1> USE WaitConstants DEF At
<1>1. /\ \A i \in ID : i = m \/ i = n
      /\ \A i, j \in ID : i # j => (i = m /\ j = n) \/ (i = n /\ j = m)
      /\ Peer(m) = n /\ Peer(n) = m
  BY DEF ID, Peer
<1>2. /\ \A i \in ID : ~is_send'[i] => ~is_send[i] /\ send_age[i] < TimeOnAir
      /\ \A i \in ID : is_send'[i] /\ ~is_send[i] => send_age[i] = TimeOnAir
      /\ send_age' = send_age
      /\ \A i \in ID : is_recieved'[i] => is_recieved[i] \/ Due(Peer(i))
  <2>1. PICK fate \in [ID -> Fates] :
          /\ is_send' = [i \in ID |-> is_send[i] \/ Due(i)]
          /\ is_recieved' = [i \in ID |-> is_recieved[i] \/ Lands(Peer(i), fate)]
          /\ send_age' = send_age
    BY DEF ShadowWorker
  <2>2. send_age \in [ID -> 0 .. TimeOnAir]
    BY DEF Context, Timed
  <2>3. \A i \in ID : is_send'[i] <=> is_send[i] \/ Due(i)
    BY <2>1
  <2>4. \A i \in ID : is_recieved'[i] => is_recieved[i] \/ Due(Peer(i))
    BY <2>1 DEF Lands, Heard
  <2>5. QED
    BY <2>1, <2>2, <2>3, <2>4 DEF Due
<1>3. /\ lag' = lag /\ lag \in [ID -> 0 .. MaxLag] /\ at' = at /\ time_sleep' = time_sleep
      /\ sleep' = sleep /\ ready' = ready /\ timeout' = timeout
      /\ time_sleep \in [ID -> Nat] /\ sleep \in [ID -> Nat] /\ send_age \in [ID -> 0 .. TimeOnAir]
      /\ program = "wait" /\ program' = "wait"
  BY DEF Context, ClientsTypeOK, Timed
<1>4. /\ Clock(m) /\ Clock(n) /\ InOwnBox(m) /\ InOwnBox(n)
      /\ OnItsWay(m, n) /\ InPeersBox(m, n) /\ WithPeer(m, n) /\ OnItsWayBack(m, n)
      /\ OnItsWay(n, m) /\ InPeersBox(n, m) /\ WithPeer(n, m) /\ OnItsWayBack(n, m)
  BY DEF Context, Timed
<1>5. pc[m] \notin {"d_sleep", "d_checker", "s_sleep"} /\ pc'[m] \notin {"d_sleep", "d_checker", "s_sleep"}
  OBVIOUS
<1>6. /\ RecvTimeout(m)' = RecvTimeout(m) /\ RecvTimeout(n)' = RecvTimeout(n)
      /\ Listened(m)' = Listened(m) /\ Listened(n)' = Listened(n)
      /\ Listened(m) \in Int /\ Listened(n) \in Int
      /\ LooksAgain(n)' <=> LooksAgain(n)
  BY <1>3, <1>5 DEF RecvTimeout, Listened, LooksAgain
<1>7. Clock(m)'
  BY <1>3, <1>4, <1>6 DEF Clock, DataPC
<1>8. Clock(n)'
  BY <1>2, <1>3, <1>4, <1>6 DEF Clock
<1>9. InOwnBox(m)'
  BY <1>5 DEF InOwnBox
<1>10. InOwnBox(n)'
  BY <1>1, <1>2, <1>3, <1>4, <1>6 DEF InOwnBox, OnItsWayBack, Due
<1>11. OnItsWay(m, n)'
  BY <1>2, <1>3, <1>4, <1>6 DEF OnItsWay
<1>12. OnItsWay(n, m)'
  BY <1>2, <1>3, <1>4, <1>6 DEF OnItsWay
<1>13. Boxed(n)' = Boxed(n) /\ Boxed(m)' = Boxed(m) /\ Boxed(n) \in Int /\ Boxed(m) \in Int
       /\ Boxed(m) >= TimeOnAir
  BY <1>3, <1>5 DEF Boxed
<1>14. InPeersBox(m, n)'
  <2>1. CASE is_recieved[n]
    BY <1>3, <1>4, <1>6, <1>13, <2>1 DEF InPeersBox, Ended
  <2>2. CASE Due(m)
    <3>1. Listened(m) <= TimeOnAir
      BY <1>4, <2>2 DEF OnItsWay, Due
    <3>2. Boxed(n) >= TimeOnAir
      BY <1>3, <1>4, <2>2 DEF OnItsWay, Due, Boxed
    <3>3. QED
      BY <1>6, <1>13, <3>1, <3>2 DEF InPeersBox
  <2>3. QED
    BY <1>1, <1>2, <2>1, <2>2 DEF InPeersBox
<1>15. InPeersBox(n, m)'
  <2>1. CASE is_recieved[m]
    BY <1>3, <1>4, <1>6, <1>13, <2>1 DEF InPeersBox, Ended
  <2>2. CASE Due(n)
    <3>1. Listened(n) <= TimeOnAir
      BY <1>4, <2>2 DEF OnItsWay, Due
    <3>2. QED
      BY <1>6, <1>13, <3>1 DEF InPeersBox
  <2>3. QED
    BY <1>1, <1>2, <2>1, <2>2 DEF InPeersBox
<1>16. WithPeer(m, n)' /\ WithPeer(n, m)'
  <2>1. (Holds(m)' => Holds(m)) /\ (Holds(n)' => Holds(n))
    BY <1>3 DEF Holds
  <2>2. Kept(m)' = Kept(m) /\ Kept(n)' = Kept(n)
    BY <1>3 DEF Kept
  <2>3. QED
    BY <1>4, <1>6, <2>1, <2>2 DEF WithPeer
<1>17. OnItsWayBack(m, n)' /\ OnItsWayBack(n, m)'
  BY <1>2, <1>4, <1>6 DEF OnItsWayBack, Turned
<1>18. QED
  BY <1>1, <1>7, <1>8, <1>9, <1>10, <1>11, <1>12, <1>14, <1>15, <1>16, <1>17

\* Thread m takes the packet out of its box.
LEMMA FillsTimed ==
  ASSUME Context, ClockTypesNext, NEW m \in ID, NEW n \in ID, m # n, Still(n),
         at[m] = "receive", at'[m] = "receive", pc[m] = "r_take", pc'[m] = "r_checker",
         is_recieved[m], is_recieved' = [is_recieved EXCEPT ![m] = FALSE],
         time_sleep'[m] = time_sleep[m], sleep'[m] = sleep[m], timeout'[m] = timeout[m],
         UNCHANGED <<airVars, lag>>
  PROVE  /\ \A i \in ID : Clock(i)' /\ InOwnBox(i)'
         /\ \A i, j \in ID : i # j =>
              /\ OnItsWay(i, j)' /\ InPeersBox(i, j)' /\ WithPeer(i, j)' /\ OnItsWayBack(i, j)'
<1> USE WaitConstants DEF At
<1>1. /\ \A i \in ID : i = m \/ i = n
      /\ \A i, j \in ID : i # j => (i = m /\ j = n) \/ (i = n /\ j = m)
  BY DEF ID
<1>2. /\ is_send' = is_send /\ send_age' = send_age
      /\ lag' = lag /\ lag \in [ID -> 0 .. MaxLag]
      /\ time_sleep \in [ID -> Nat] /\ sleep \in [ID -> Nat]
      /\ is_recieved \in [ID -> BOOLEAN]
      /\ program = "wait" /\ program' = "wait"
  BY DEF Context, ClientsTypeOK, Timed, airVars, RadioTypes
<1>3. Clock(m) /\ Clock(n) /\ InPeersBox(n, m)
  BY DEF Context, Timed
<1>4. /\ is_send[m] /\ is_send[n] /\ ~is_recieved[n] /\ ~Holds(n)
  BY <1>1 DEF Context, Rally, Alone
<1>5. ~is_recieved'[m] /\ ~is_recieved'[n] /\ is_send'[m] /\ is_send'[n]
  BY <1>2, <1>4
<1>6. ~Holds(n)'
  BY <1>4 DEF Holds, Still
<1>7. RecvTimeout(m)' = RecvTimeout(m) /\ RecvTimeout(n)' = RecvTimeout(n)
  BY <1>2 DEF RecvTimeout
<1>8. Clock(m)' /\ Clock(n)'
  BY <1>2, <1>3, <1>4, <1>5, <1>7 DEF Clock, Still, DataPC
<1>9. WithPeer(n, m)'
  <2>1. sleep[m] = 0
    BY <1>2, <1>3 DEF Clock
  <2>2. Listened(n) <= TimeOnAir + Pause + lag[m]
    BY <1>3, <2>1 DEF InPeersBox, Boxed, Ended
  <2>3. Listened(n)' = Listened(n)
    BY DEF Listened, Still
  <2>4. QED
    BY <1>2, <2>2, <2>3 DEF WithPeer, Kept
<1>10. QED
  BY <1>1, <1>5, <1>6, <1>8, <1>9 DEF OnItsWay, InPeersBox, WithPeer, OnItsWayBack, InOwnBox

\* Thread m puts it on the air.
LEMMA PutsTimed ==
  ASSUME Context, ClockTypesNext, NEW m \in ID, NEW n \in ID, m # n, Still(n),
         at[m] \in {"serve", "back"}, at'[m] = at[m], pc[m] = "s_put",
         is_send' = [is_send EXCEPT ![m] = FALSE], send_age' = [send_age EXCEPT ![m] = 0],
         time_sleep'[m] = time_sleep[m],
         \/ pc'[m] = "s_sleep" /\ sleep'[m] = TimeOnAir
         \/ pc'[m] = "s_checker" /\ sleep'[m] = sleep[m],
         UNCHANGED <<boxVars, lag>>
  PROVE  /\ \A i \in ID : Clock(i)' /\ InOwnBox(i)'
         /\ \A i, j \in ID : i # j =>
              /\ OnItsWay(i, j)' /\ InPeersBox(i, j)' /\ WithPeer(i, j)' /\ OnItsWayBack(i, j)'
<1> USE WaitConstants DEF At
<1>1. /\ \A i \in ID : i = m \/ i = n
      /\ \A i, j \in ID : i # j => (i = m /\ j = n) \/ (i = n /\ j = m)
  BY DEF ID
<1>2. /\ is_recieved' = is_recieved
      /\ lag' = lag /\ lag \in [ID -> 0 .. MaxLag]
      /\ time_sleep \in [ID -> Nat] /\ sleep \in [ID -> Nat] /\ send_age \in [ID -> 0 .. TimeOnAir]
      /\ is_send \in [ID -> BOOLEAN]
      /\ program = "wait" /\ program' = "wait"
  BY DEF Context, ClientsTypeOK, Timed, boxVars, RadioTypes
<1>3. Clock(m) /\ Clock(n) /\ WithPeer(n, m) /\ Route(m)
  BY DEF Context, Timed, Rally
<1>4. Holds(m)
  BY DEF Holds
<1>5. is_send[m] /\ is_send[n] /\ ~is_recieved[m] /\ ~is_recieved[n] /\ ~Holds(n)
  <2>1. \E i \in ID : ~Holds(i)
    BY DEF Context, Rally, Alone
  <2>2. QED
    BY <1>1, <1>4, <2>1 DEF Context, Rally, Alone
<1>6. ~is_recieved'[m] /\ ~is_recieved'[n] /\ ~is_send'[m] /\ is_send'[n]
      /\ send_age'[m] = 0 /\ send_age'[n] = send_age[n]
  BY <1>2, <1>5
<1>7. ~Holds(m)' /\ ~Holds(n)'
  BY <1>5 DEF Holds, Still
<1>8. RecvTimeout(m)' = RecvTimeout(m) /\ RecvTimeout(n)' = RecvTimeout(n)
  BY <1>2 DEF RecvTimeout
<1>9. time_sleep[m] = 0 /\ sleep[m] = 0
  BY <1>2, <1>3 DEF Clock, DataPC
<1>10. Clock(m)'
  BY <1>2, <1>3, <1>6, <1>8, <1>9 DEF Clock
<1>11. Clock(n)'
  BY <1>2, <1>3, <1>5, <1>6, <1>8 DEF Clock, Still
<1>12. OnItsWay(m, n)'
  BY <1>6, <1>9 DEF OnItsWay, Listened
<1>13. OnItsWayBack(n, m)'
  <2>1. Listened(n)' = Listened(n) /\ Listened(n) \in Int
    BY <1>2 DEF Listened, Still
  <2>2. Listened(n) <= Kept(m)
    BY <1>3, <1>4 DEF WithPeer
  <2>3. Kept(m) <= Turned(n)
    <3>1. lag[m] \in 0 .. MaxLag /\ Pause <= MaxLag + 1
      BY <1>2 DEF Pause
    <3>2. CASE at[m] = "serve"
      <4>1. m = 0 /\ n = 1
        BY <1>3, <3>2 DEF Route, ID
      <4>2. QED
        BY <1>9, <3>1, <3>2, <4>1 DEF Kept, Turned
    <3>3. CASE at[m] = "back"
      <4>1. Kept(m) = TimeOnAir + Pause + lag[m]
        BY <3>3 DEF Kept
      <4>2. QED
        BY <3>1, <4>1 DEF Turned
    <3>4. QED
      BY <3>2, <3>3
  <2>4. Kept(m) \in Int /\ Turned(n) \in Int /\ Turned(n)' = Turned(n)
    BY <1>2 DEF Kept, Turned
  <2>5. Listened(n)' <= Turned(n)' + 0
    BY <2>1, <2>2, <2>3, <2>4
  <2>6. QED
    BY <1>6, <2>5 DEF OnItsWayBack
<1>14. QED
  BY <1>1, <1>6, <1>7, <1>10, <1>11, <1>12, <1>13
     DEF OnItsWay, InPeersBox, WithPeer, OnItsWayBack, InOwnBox

\* How promptly the threads must run for the timeouts to be long enough: kept
\* for three halves of the time on air each, they are not.
Prompt == 2 * MaxLag < 3 * TimeOnAir

LEMMA TickTimed ==
  ASSUME Context, ClientsTick, Prompt
  PROVE  Timed'
<1> USE WaitConstants DEF At
<1>1. /\ UNCHANGED <<is_send, is_recieved, at, pc, timeout, time_sleep, ready, program, lost>>
      /\ \A i \in ID : /\ send_age'[i] = IF send_age[i] < TimeOnAir THEN send_age[i] + 1 ELSE TimeOnAir
                       /\ sleep'[i] = IF sleep[i] > 0 THEN sleep[i] - 1 ELSE 0
                       /\ lag'[i] = IF Rests(i) THEN 0 ELSE lag[i] + 1
                       /\ Rests(i) \/ lag[i] < MaxLag
  BY DEF ClientsTick, Tick, clientVars, boxVars
<1>2. /\ lag \in [ID -> 0 .. MaxLag]
      /\ time_sleep \in [ID -> Nat] /\ sleep \in [ID -> Nat] /\ send_age \in [ID -> 0 .. TimeOnAir]
      /\ pc \in [ID -> PC]
      /\ program = "wait" /\ program' = "wait"
  BY DEF Context, ClientsTypeOK, Timed, RadioTypes
<1>3. /\ time_sleep' \in [ID -> Nat] /\ sleep' \in [ID -> Nat] /\ send_age' \in [ID -> 0 .. TimeOnAir]
  BY <1>2 DEF ClientsTick, Tick
<1>4. GivesUpForAReason'
  BY <1>1 DEF Context, Timed, GivesUpForAReason
<1>5. SUFFICES ASSUME NEW i \in ID, NEW j \in ID, i # j
               PROVE  /\ Clock(i)' /\ InOwnBox(i)'
                      /\ OnItsWay(i, j)' /\ InPeersBox(i, j)' /\ WithPeer(i, j)'
                      /\ OnItsWayBack(i, j)'
  <2>1. \A i \in ID : \E j \in ID : i # j
    BY DEF ID
  <2>2. QED
    BY <1>3, <1>4, <1>5, <2>1 DEF Timed
<1>6. /\ Clock(i) /\ Clock(j) /\ InOwnBox(i) /\ Route(i) /\ Route(j)
      /\ OnItsWay(i, j) /\ InPeersBox(i, j) /\ WithPeer(i, j) /\ OnItsWayBack(i, j)
  <2>1. Route(i) /\ Route(j)
    BY DEF Context, Rally
  <2>2. Timed
    BY DEF Context
  <2>3. Clock(i) /\ Clock(j) /\ InOwnBox(i)
    BY <2>2 DEF Timed
  <2>4. OnItsWay(i, j) /\ InPeersBox(i, j) /\ WithPeer(i, j) /\ OnItsWayBack(i, j)
    BY <1>5, <2>2 DEF Timed
  <2>5. QED
    BY <2>1, <2>3, <2>4
<1>7. /\ sleep[i] \in Nat /\ sleep[j] \in Nat /\ time_sleep[i] \in Nat
      /\ send_age[i] \in 0 .. TimeOnAir /\ send_age[j] \in 0 .. TimeOnAir
      /\ lag[j] \in 0 .. MaxLag
      /\ sleep'[i] = (IF sleep[i] > 0 THEN sleep[i] - 1 ELSE 0)
      /\ sleep'[j] = (IF sleep[j] > 0 THEN sleep[j] - 1 ELSE 0)
      /\ send_age'[i] = (IF send_age[i] < TimeOnAir THEN send_age[i] + 1 ELSE TimeOnAir)
      /\ send_age'[j] = (IF send_age[j] < TimeOnAir THEN send_age[j] + 1 ELSE TimeOnAir)
      /\ time_sleep'[i] = time_sleep[i]
      /\ pc'[i] = pc[i] /\ pc'[j] = pc[j] /\ at'[i] = at[i] /\ at'[j] = at[j]
      /\ ready'[i] = ready[i] /\ ready'[j] = ready[j] /\ timeout'[i] = timeout[i]
      /\ is_send'[i] = is_send[i] /\ is_send'[j] = is_send[j]
      /\ is_recieved'[i] = is_recieved[i] /\ is_recieved'[j] = is_recieved[j]
  BY <1>1, <1>2
<1>8. /\ RecvTimeout(i)' = RecvTimeout(i)
      /\ LooksAgain(i)' <=> LooksAgain(i)
  BY <1>1, <1>7 DEF RecvTimeout, LooksAgain
<1>9. /\ Listened(i) \in Int /\ Listened(i)' \in Int /\ Listened(i)' <= Listened(i) + 1
      /\ ~(pc[i] = "d_sleep" /\ sleep[i] > 0) => Listened(i)' = Listened(i)
  BY <1>7 DEF Listened
<1>10. Clock(i)'
  BY <1>6, <1>7, <1>8 DEF Clock
<1>11. InOwnBox(i)'
  BY <1>6, <1>7, <1>8 DEF InOwnBox
<1>12. sleep[j] = 0 /\ ~Ended(j) => lag'[j] = lag[j] + 1 /\ lag[j] < MaxLag
  BY <1>1, <1>2, <1>7 DEF Rests
<1>13. sleep[j] > 0 => lag'[j] = 0
  BY <1>1, <1>7 DEF Rests
<1>14. OnItsWay(i, j)'
  <2>1. SUFFICES ASSUME ~is_send[i]
                 PROVE  /\ Listened(i)' <= send_age'[i]
                        /\ pc[i] \in {"d_read", "d_checker"} \/ (pc[i] = "d_sleep" /\ sleep'[i] > 0) =>
                             Listened(i)' < TimeOnAir
                        /\ pc[j] \in {"d_read", "d_checker"} /\ send_age'[i] = TimeOnAir => lag'[j] > 0
    BY <1>7 DEF OnItsWay
  <2>2. Listened(i)' <= send_age'[i]
    BY <1>6, <1>7, <1>9, <2>1 DEF OnItsWay
  <2>3. ~(pc[i] = "d_sleep" /\ sleep'[i] > 0)
    BY <1>6, <1>7 DEF Clock
  <2>4. pc[i] \in {"d_read", "d_checker"} => Listened(i)' < TimeOnAir
    BY <1>6, <1>9, <2>1 DEF OnItsWay
  <2>5. pc[j] \in {"d_read", "d_checker"} => sleep[j] = 0 /\ ~Ended(j)
    BY <1>6, <1>7 DEF Clock, Route, Ended
  <2>6. QED
    BY <1>7, <1>12, <2>2, <2>3, <2>4, <2>5
<1>15. InPeersBox(i, j)'
  <2>1. SUFFICES ASSUME is_recieved[j], ~Ended(j) PROVE Listened(i)' <= Boxed(j)'
    BY <1>7 DEF InPeersBox, Ended
  <2>2. Listened(i) <= Boxed(j)
    BY <1>6, <2>1 DEF InPeersBox
  <2>3. CASE sleep[j] = 0
    <3>1. Boxed(j) \in Int /\ Boxed(j)' = Boxed(j) + 1
      BY <1>7, <1>12, <2>1, <2>3 DEF Boxed
    <3>2. QED
      BY <1>9, <2>2, <3>1
  <2>4. CASE sleep[j] > 0
    <3>1. pc[j] = "d_sleep" /\ sleep[j] = 1
      <4>1. is_send[j] /\ ~Holds(j)
        BY <2>1 DEF Context, Rally, Alone
      <4>2. pc[j] # "s_sleep"
        BY <1>6, <2>4, <4>1 DEF Clock
      <4>3. ~(at[j] = "serve" /\ pc[j] = "client")
        BY <4>1 DEF Holds
      <4>4. QED
        BY <1>6, <1>7, <2>4, <4>2, <4>3 DEF Clock
    <3>2. Boxed(j) = TimeOnAir - 1 + Pause
      BY <2>4, <3>1 DEF Boxed
    <3>3. Boxed(j)' = TimeOnAir + Pause
      BY <1>7, <1>13, <2>4, <3>1 DEF Boxed
    <3>4. QED
      BY <1>9, <2>2, <3>2, <3>3
  <2>5. QED
    BY <1>7, <2>3, <2>4
<1>16. WithPeer(i, j)'
  <2>1. SUFFICES ASSUME Holds(j) PROVE Listened(i)' <= Kept(j)'
    BY <1>7 DEF WithPeer, Holds
  <2>2. Listened(i) <= Kept(j) /\ ~Ended(j)
    BY <1>6, <2>1 DEF WithPeer, Holds, Ended
  <2>3. CASE sleep[j] = 0
    <3>1. Kept(j) \in Int /\ Kept(j)' = Kept(j) + 1
      BY <1>7, <1>12, <2>2, <2>3 DEF Kept
    <3>2. QED
      BY <1>9, <2>2, <3>1
  <2>4. CASE sleep[j] > 0
    <3>1. at[j] = "serve"
      BY <1>6, <2>1, <2>4 DEF Clock, Holds
    <3>2. Kept(j) \in Int /\ Kept(j)' = Kept(j) + 1
      BY <1>7, <1>13, <2>4, <3>1 DEF Kept
    <3>3. QED
      BY <1>9, <2>2, <3>2
  <2>5. QED
    BY <1>7, <2>3, <2>4
<1>17. OnItsWayBack(i, j)'
  <2>1. Turned(i)' = Turned(i) /\ Turned(i) \in Int
    BY DEF Turned
  <2>2. SUFFICES ASSUME ~is_send[j]
                 PROVE  IF send_age'[j] < TimeOnAir THEN Listened(i)' <= Turned(i) + send_age'[j]
                        ELSE pc[i] \in {"d_read", "d_checker", "d_sleep"} => LooksAgain(i)
    BY <1>7, <1>8, <2>1 DEF OnItsWayBack
  <2>3. CASE send_age[j] < TimeOnAir
    <3>1. Listened(i) <= Turned(i) + send_age[j] /\ send_age'[j] = send_age[j] + 1
      BY <1>6, <1>7, <2>2, <2>3 DEF OnItsWayBack
    <3>2. CASE send_age'[j] < TimeOnAir
      BY <1>7, <1>9, <2>1, <3>1, <3>2
    <3>3. CASE send_age'[j] = TimeOnAir
      <4>1. Listened(i) < Turned(i) + TimeOnAir
        BY <1>7, <1>9, <2>1, <3>1, <3>3
      <4>2. time_sleep[i] <= Listened(i)
        BY <1>6, <1>7 DEF Clock, Listened
      <4>3. Turned(i) + TimeOnAir < RecvTimeout(i)
        <5>1. Pause + MaxLag < 3 * TimeOnAir
          BY DEF Prompt, Pause
        <5>2. CASE i = 0
          BY <1>2, <5>1, <5>2 DEF Turned, RecvTimeout, TIMEOUT
        <5>3. CASE i = 1
          BY <1>2, <5>3 DEF Turned, RecvTimeout, TIMEOUT, Prompt
        <5>4. QED
          BY <5>2, <5>3 DEF ID
      <4>4. RecvTimeout(i) \in Int
        BY DEF RecvTimeout, TIMEOUT
      <4>5. LooksAgain(i)
        BY <1>7, <1>9, <2>1, <4>1, <4>2, <4>3, <4>4 DEF LooksAgain
      <4>6. QED
        BY <3>3, <4>5
    <3>4. QED
      BY <1>7, <2>3, <3>1, <3>2, <3>3
  <2>4. CASE send_age[j] = TimeOnAir
    BY <1>6, <1>7, <2>2, <2>4 DEF OnItsWayBack
  <2>5. QED
    BY <1>7, <2>3, <2>4
<1>18. QED
  BY <1>10, <1>11, <1>14, <1>15, <1>16, <1>17

\* A thread whose time is up has no packet to come: every place it could be in
\* says that the thread has time left.
LEMMA GivesUpOnlyThen ==
  ASSUME Context, Prompt, NEW m \in ID, NEW n \in ID, m # n,
         at[m] = "receive", pc[m] = "d_sleep", sleep[m] = 0, ~(timeout[m] > time_sleep[m] + 1)
  PROVE  lost \/ (m = 1 /\ at[n] = "finished")
<1> USE WaitConstants DEF At
<1>1. \A i \in ID : i = m \/ i = n
  BY DEF ID
<1>2. /\ lag[n] \in 0 .. MaxLag /\ time_sleep[m] \in Nat /\ sleep[n] \in Nat
      /\ send_age[m] \in 0 .. TimeOnAir /\ send_age[n] \in 0 .. TimeOnAir
      /\ program = "wait"
      /\ OnItsWay(m, n) /\ InPeersBox(m, n) /\ WithPeer(m, n) /\ OnItsWayBack(m, n)
      /\ InOwnBox(m) /\ GivesUpForAReason /\ Clock(m)
      /\ at[n] \in {"nap", "serve", "look", "receive", "back", "finished", "gave_up", "script"}
  BY DEF Context, ClientsTypeOK, Timed
<1>3. Route(n)
  BY DEF Context, Rally
<1>4. RecvTimeout(m) = IF m = 0 THEN 5 * TimeOnAir ELSE 50 * TimeOnAir
  BY <1>2 DEF RecvTimeout, TIMEOUT
<1>5. ~LooksAgain(m) /\ Listened(m) >= RecvTimeout(m)
  <2>1. timeout[m] = RecvTimeout(m)
    BY <1>2 DEF Clock
  <2>2. RecvTimeout(m) \in Int
    BY <1>4
  <2>3. QED
    BY <1>2, <2>1, <2>2 DEF LooksAgain, Listened
<1>6. Pause + MaxLag < 3 * TimeOnAir
  BY DEF Prompt, Pause
<1>7. SUFFICES ASSUME ~lost, ~(m = 1 /\ at[n] = "finished") PROVE FALSE
  OBVIOUS
<1>8. \E i \in ID : ~is_send[i] \/ is_recieved[i] \/ Holds(i)
  BY <1>7 DEF Context, Rally, Alone
<1>9. Listened(m) \in Int
  BY <1>2 DEF Listened
<1>10. is_send[m]
  BY <1>2, <1>4, <1>5, <1>9 DEF OnItsWay
<1>11. ~is_recieved[m]
  BY <1>2, <1>5 DEF InOwnBox
<1>12. ~Holds(m)
  BY DEF Holds
<1>13. is_send[n]
  <2>1. SUFFICES ASSUME ~is_send[n] PROVE FALSE
    OBVIOUS
  <2>2. send_age[n] < TimeOnAir /\ Listened(m) <= Turned(m) + send_age[n]
    BY <1>2, <1>5, <2>1 DEF OnItsWayBack
  <2>3. CASE m = 0
    BY <1>2, <1>4, <1>5, <1>6, <1>9, <2>2, <2>3 DEF Turned
  <2>4. CASE m = 1
    BY <1>2, <1>4, <1>5, <1>9, <2>2, <2>4 DEF Turned, Prompt
  <2>5. QED
    BY <2>3, <2>4 DEF ID
<1>14. ~is_recieved[n]
  <2>1. SUFFICES ASSUME is_recieved[n] PROVE FALSE
    OBVIOUS
  <2>2. CASE Ended(n)
    <3>1. (m = 0 /\ n = 1) \/ (m = 1 /\ n = 0)
      BY DEF ID
    <3>2. at[n] = "finished" => n = 0
      BY DEF Context, Timed, Clock
    <3>3. QED
      BY <1>2, <1>7, <2>2, <3>1, <3>2 DEF Ended, GivesUpForAReason
  <2>3. CASE ~Ended(n)
    <3>1. Listened(m) <= Boxed(n)
      BY <1>2, <2>1, <2>3 DEF InPeersBox
    <3>2. Boxed(n) <= TimeOnAir + Pause + MaxLag /\ Boxed(n) \in Int
      BY <1>2 DEF Boxed
    <3>3. QED
      BY <1>4, <1>5, <1>6, <1>9, <3>1, <3>2
  <2>4. QED
    BY <2>2, <2>3
<1>15. ~Holds(n)
  <2>1. SUFFICES ASSUME Holds(n) PROVE FALSE
    OBVIOUS
  <2>2. Listened(m) <= Kept(n)
    BY <1>2, <2>1 DEF WithPeer
  <2>3. CASE at[n] \in {"nap", "serve"}
    <3>1. m = 1
      BY <1>3, <2>3 DEF Route, ID
    <3>2. Kept(n) <= 10 * TimeOnAir + 2 * MaxLag /\ Kept(n) \in Int
      BY <1>2, <2>3 DEF Kept
    <3>3. QED
      BY <1>4, <1>5, <1>9, <2>2, <3>1, <3>2 DEF Prompt
  <2>4. CASE at[n] \notin {"nap", "serve"}
    <3>1. Kept(n) <= TimeOnAir + Pause + MaxLag /\ Kept(n) \in Int
      BY <1>2, <2>4 DEF Kept
    <3>2. QED
      BY <1>4, <1>5, <1>6, <1>9, <2>2, <3>1
  <2>5. QED
    BY <2>3, <2>4
<1>16. QED
  BY <1>1, <1>8, <1>10, <1>11, <1>12, <1>13, <1>14, <1>15

\* The steps of the threads that the lemmas above are about.
LEMMA PlaysTimed ==
  ASSUME IInv, Timed, program = "wait", NEW m \in ID, Plays(m), History, UNCHANGED lag, Prompt
  PROVE  Timed'
<1> USE DEF At, Goto
<1> DEFINE n == Peer(m)
<1>1. n \in ID /\ m # n /\ n # m /\ \A i \in ID : i = m \/ i = n
  BY DEF ID, Peer
<1> HIDE DEF n
<1>2. Context
  BY DEF IInv, Context, Playing, Plays, History
<1>3. /\ pc \in [ID -> PC] /\ at \in [ID -> {"nap", "serve", "look", "receive", "back", "finished", "gave_up", "script"}]
      /\ timeout \in [ID -> Nat] /\ ready \in [ID -> BOOLEAN] /\ time_sleep \in [ID -> Nat]
      /\ sleep \in [ID -> Nat] /\ send_age \in [ID -> 0 .. TimeOnAir]
      /\ op \in [ID -> {"none", "send", "avail", "recv"}]
      /\ Route(m) /\ Route(n) /\ GivesUpForAReason /\ Clock(m) /\ Clock(n) /\ program # "poll"
      /\ at[m] # "look" /\ at[n] # "look"
  <2>1. Route(m) /\ Route(n)
    BY <1>1, <1>2 DEF Context, Rally
  <2>2. Clock(m) /\ Clock(n)
    BY <1>1 DEF Timed
  <2>3. QED
    BY <2>1, <2>2 DEF IInv, RadioTypes, ClientsTypeOK, Timed, Route
<1> DEFINE InTime ==
             /\ \A i \in ID : Clock(i)' /\ InOwnBox(i)'
             /\ \A i, j \in ID : i # j =>
                  /\ OnItsWay(i, j)' /\ InPeersBox(i, j)' /\ WithPeer(i, j)' /\ OnItsWayBack(i, j)'
<1>4. at[m] # "gave_up" /\ at[m] # "finished"
  <2>1. at[m] \in {"gave_up", "finished"} => pc[m] = "client"
    BY <1>3 DEF Route
  <2>2. pc[m] = "client" => at[m] \in {"nap", "serve", "back", "look", "receive"}
    BY DEF Plays, Naps, Starts, Looks, Fills, Receives, GivesUp, Puts, SendsBack, Inside,
           SendWorker, SendCheck, SendErr, SendWake, SendFlush, SendChecker, RecvWorker, DataWorker,
           DataRead, DataChecker, DataWake, RecvErr, RecvTake, RecvChecker, SendPut
  <2>3. QED
    BY <2>1, <2>2
<1>5. ASSUME QuietMove(m), Still(n), UNCHANGED <<airVars, boxVars>>, ClockTypesNext
      PROVE  InTime
  BY <1>1, <1>2, <1>5, QuietTimed
<1>6. ASSUME at'[m] # "gave_up", at'[n] = at[n]
      PROVE  GivesUpForAReason'
  BY <1>1, <1>2, <1>3, <1>4, <1>6 DEF GivesUpForAReason, Context, ID
<1>7. CASE SendCheck(m) /\ UNCHANGED at
  <2>1. is_send[m] /\ pc[m] = "s_check"
    <3>1. pc[m] = "s_check"
      BY <1>7 DEF SendCheck
    <3>2. Holds(m)
      BY <1>3, <3>1 DEF Route, Holds, DataPC, RecvPC
    <3>3. QED
      BY <1>2, <3>1, <3>2 DEF Context, Rally, Alone
  <2>2. QuietMove(m) /\ Still(n) /\ UNCHANGED <<airVars, boxVars>>
    BY <1>1, <1>3, <1>7, <2>1 DEF SendCheck, QuietMove, Still
  <2>3. ClockTypesNext
    BY <1>3, <1>7 DEF SendCheck, ClockTypesNext, airVars
  <2>4. QED
    BY <1>1, <1>3, <1>4, <1>5, <1>6, <1>7, <2>2, <2>3 DEF Timed, ClockTypesNext
<1>8. CASE SendWake(m) /\ UNCHANGED at
  <2>1. QuietMove(m) /\ Still(n) /\ UNCHANGED <<airVars, boxVars>>
    BY <1>1, <1>3, <1>8 DEF SendWake, QuietMove, Still
  <2>2. ClockTypesNext
    BY <1>3, <1>8 DEF SendWake, ClockTypesNext, airVars
  <2>3. QED
    BY <1>1, <1>3, <1>4, <1>5, <1>6, <1>8, <2>1, <2>2 DEF Timed, ClockTypesNext
<1>9. CASE DataRead(m) /\ UNCHANGED at
  <2>1. QuietMove(m) /\ Still(n) /\ UNCHANGED <<airVars, boxVars>>
    BY <1>1, <1>3, <1>9 DEF DataRead, QuietMove, Still
  <2>2. ClockTypesNext
    BY <1>3, <1>9 DEF DataRead, ClockTypesNext, airVars
  <2>3. QED
    BY <1>1, <1>3, <1>4, <1>5, <1>6, <1>9, <2>1, <2>2 DEF Timed, ClockTypesNext
<1>10. CASE (DataChecker(m) \/ DataWake(m)) /\ ~Returns(m) /\ UNCHANGED at
  <2>1. /\ UNCHANGED <<airVars, boxVars, ready>>
    BY <1>10 DEF DataChecker, DataWake, ShadowChecker
  <2>2. pc[m] \in {"d_checker", "d_sleep"} /\ timeout[m] > 0 /\ at[m] = "receive" /\ op[m] = "recv"
    <3>1. pc[m] \in {"d_checker", "d_sleep"}
      BY <1>10 DEF DataChecker, DataWake
    <3>2. QED
      BY <1>3, <3>1 DEF Route, SendPC
  <2>3. Goto(m, "client") => Returns(m)
    BY <1>3 DEF Returns
  <2>4. UNCHANGED timeout
    BY <1>10, <2>3 DEF DataChecker, DataWake, DataReturn, Return, Sleep
  <2>5. CASE DataChecker(m)
    <3>1. CASE ready[m]
      <4>1. Goto(m, "r_take") /\ time_sleep' = [time_sleep EXCEPT ![m] = 0] /\ UNCHANGED sleep
            /\ pc[m] = "d_checker"
        BY <1>10, <2>3, <2>5, <3>1 DEF DataChecker, DataReturn, Return
      <4>2. QuietMove(m) /\ Still(n)
        BY <1>1, <1>3, <1>10, <2>1, <2>4, <3>1, <4>1 DEF QuietMove, Still
      <4>3. ClockTypesNext
        BY <1>3, <2>1, <4>1 DEF ClockTypesNext, airVars
      <4>4. QED
        BY <1>1, <1>3, <1>4, <1>5, <1>6, <1>10, <2>1, <4>2, <4>3 DEF Timed, ClockTypesNext
    <3>2. CASE ~ready[m]
      <4>1. Goto(m, "d_sleep") /\ sleep' = [sleep EXCEPT ![m] = 1] /\ UNCHANGED time_sleep
            /\ pc[m] = "d_checker"
        BY <1>3, <2>2, <2>5, <3>2 DEF DataChecker, Sleep
      <4>2. QuietMove(m) /\ Still(n)
        BY <1>1, <1>3, <1>10, <2>1, <2>4, <3>2, <4>1 DEF QuietMove, Still
      <4>3. ClockTypesNext
        BY <1>3, <2>1, <4>1 DEF ClockTypesNext, airVars
      <4>4. QED
        BY <1>1, <1>3, <1>4, <1>5, <1>6, <1>10, <2>1, <4>2, <4>3 DEF Timed, ClockTypesNext
    <3>3. QED
      BY <3>1, <3>2
  <2>6. CASE DataWake(m)
    <3>1. pc[m] = "d_sleep" /\ sleep[m] = 0 /\ UNCHANGED sleep
      BY <2>6 DEF DataWake
    <3>2. CASE timeout[m] > time_sleep[m] + 1
      <4>1. Goto(m, "d_worker") /\ time_sleep' = [time_sleep EXCEPT ![m] = @ + 1]
        BY <2>6, <3>2 DEF DataWake
      <4>2. QuietMove(m) /\ Still(n)
        BY <1>1, <1>3, <1>10, <2>1, <2>4, <3>1, <4>1 DEF QuietMove, Still
      <4>3. ClockTypesNext
        BY <1>3, <2>1, <3>1, <4>1 DEF ClockTypesNext, airVars
      <4>4. QED
        BY <1>1, <1>3, <1>4, <1>5, <1>6, <1>10, <2>1, <4>2, <4>3 DEF Timed, ClockTypesNext
    <3>3. CASE ~(timeout[m] > time_sleep[m] + 1)
      <4>1. DataReturn(m)
        BY <2>6, <3>3 DEF DataWake
      <4>2. Goto(m, "r_take") /\ ready[m]
        BY <2>2, <2>3, <1>10, <4>1 DEF DataReturn, Return
      <4>3. ~ready[m]
        BY <1>3, <3>1 DEF Clock
      <4>4. QED
        BY <4>2, <4>3
    <3>4. QED
      BY <3>2, <3>3
  <2>7. QED
    BY <1>10, <2>5, <2>6
<1>11. CASE (SendWorker(m) \/ SendFlush(m) \/ RecvWorker(m) \/ DataWorker(m)) /\ UNCHANGED at
  <2>1. /\ ShadowWorker /\ UNCHANGED <<op, timeout, time_sleep, sleep, ready>>
        /\ \/ At(m, "s_worker") /\ Goto(m, "s_check")
           \/ At(m, "s_flush") /\ Goto(m, "s_checker")
           \/ At(m, "r_worker") /\ Goto(m, "d_worker")
           \/ At(m, "d_worker") /\ Goto(m, "d_read")
    BY <1>11 DEF SendWorker, SendFlush, RecvWorker, DataWorker
  <2>2. send_age' = send_age
    BY <2>1 DEF ShadowWorker
  <2>3. ClockTypesNext
    BY <1>3, <2>1, <2>2 DEF ClockTypesNext
  <2>4. InTime
    <3>1. pc'[n] = pc[n]
      BY <1>1, <1>3, <2>1
    <3>2. \/ pc[m] = "s_worker" /\ pc'[m] = "s_check"
          \/ pc[m] = "s_flush" /\ pc'[m] = "s_checker"
          \/ pc[m] = "r_worker" /\ pc'[m] = "d_worker"
          \/ pc[m] = "d_worker" /\ pc'[m] = "d_read"
      BY <1>3, <2>1
    <3>3. QED
      BY <1>1, <1>2, <1>11, <2>1, <2>3, <3>1, <3>2, WorkerTimed
  <2>5. QED
    BY <1>1, <1>4, <1>6, <1>11, <2>3, <2>4 DEF Timed, ClockTypesNext
<1>12. CASE Inside(m) /\ UNCHANGED <<at, buf, round>>
  <2>1. ~SendErr(m)
    BY <1>3 DEF SendErr, Route
  <2>2. QED
    BY <1>7, <1>8, <1>9, <1>10, <1>11, <1>12, <2>1 DEF Inside
<1>13. CASE Naps(m)
  <2>1. /\ at[m] = "nap" /\ at' = [at EXCEPT ![m] = "serve"] /\ sleep' = [sleep EXCEPT ![0] = ONE_SECOND]
        /\ UNCHANGED <<airVars, boxVars, pc, timeout, time_sleep, ready>>
    BY <1>13 DEF Naps, Nap, Becomes
  <2>2. m = 0 /\ pc[m] = "client"
    BY <1>3, <2>1 DEF Route
  <2>3. ONE_SECOND \in Nat
    BY WaitConstants
  <2>4. QuietMove(m) /\ Still(n)
    BY <1>1, <1>3, <2>1, <2>2 DEF QuietMove, Still
  <2>5. ClockTypesNext
    BY <1>3, <2>1, <2>3 DEF ClockTypesNext, airVars
  <2>6. at'[m] # "gave_up" /\ at'[n] = at[n]
    BY <1>1, <1>3, <2>1
  <2>7. QED
    BY <1>5, <1>6, <2>1, <2>4, <2>5, <2>6 DEF Timed, ClockTypesNext
<1>14. CASE Starts(m)
  <2>1. PICK l \in {"s_worker", "r_worker"}, t \in {SendTimeout(m), RecvTimeout(m)} :
          /\ pc[m] = "client" /\ pc' = [pc EXCEPT ![m] = l] /\ timeout' = [timeout EXCEPT ![m] = t]
          /\ \/ at[m] \in {"serve", "back"} /\ l = "s_worker" /\ sleep[m] = 0
             \/ at[m] = "receive" /\ l = "r_worker" /\ t = RecvTimeout(m)
          /\ UNCHANGED <<airVars, boxVars, time_sleep, sleep, ready, at>>
    <3>1. CASE at[m] \in {"serve", "back"} /\ sleep[m] = 0 /\ SendCall(m, SendTimeout(m)) /\ UNCHANGED at
      BY <3>1 DEF SendCall, Call
    <3>2. CASE at[m] = "receive" /\ RecvCall(m, RecvTimeout(m)) /\ UNCHANGED at
      BY <3>2 DEF RecvCall, Call
    <3>3. QED
      BY <1>3, <1>14, <3>1, <3>2 DEF Starts
  <2>2. QuietMove(m) /\ Still(n)
    BY <1>1, <1>3, <2>1 DEF QuietMove, Still
  <2>3. ClockTypesNext
    BY <1>3, <2>1 DEF ClockTypesNext, airVars
  <2>4. at'[m] # "gave_up" /\ at'[n] = at[n]
    BY <1>3, <2>1
  <2>5. QED
    BY <1>5, <1>6, <2>1, <2>2, <2>3, <2>4 DEF Timed, ClockTypesNext
<1>15. CASE Receives(m)
  <2>1. RecvChecker(m)
    BY <1>3, <1>15 DEF Receives, RecvErr, Route, DataPC
  <2>2. /\ at[m] = "receive" /\ at' = [at EXCEPT ![m] = "back"]
        /\ pc[m] = "r_checker" /\ pc' = [pc EXCEPT ![m] = "client"]
        /\ timeout' = [timeout EXCEPT ![m] = 0]
        /\ UNCHANGED <<airVars, boxVars, time_sleep, sleep, ready>>
    BY <1>15, <2>1 DEF Receives, RecvChecker, ShadowChecker, Return, Becomes
  <2>3. QuietMove(m) /\ Still(n)
    BY <1>1, <1>3, <2>2 DEF QuietMove, Still
  <2>4. ClockTypesNext
    BY <1>3, <2>2 DEF ClockTypesNext, airVars
  <2>5. at'[m] # "gave_up" /\ at'[n] = at[n]
    BY <1>1, <1>3, <2>2
  <2>6. QED
    BY <1>5, <1>6, <2>2, <2>3, <2>4, <2>5 DEF Timed, ClockTypesNext
<1>16. CASE SendsBack(m)
  <2>1. PICK a \in {"receive", "finished"} :
          /\ at[m] \in {"serve", "back"} /\ at' = [at EXCEPT ![m] = a]
          /\ a = "finished" => m = 0 /\ at[m] = "back"
    BY <1>3, <1>16 DEF SendsBack, Becomes, Waits
  <2>2. /\ pc[m] = "s_checker" /\ pc' = [pc EXCEPT ![m] = "client"]
        /\ timeout' = [timeout EXCEPT ![m] = 0]
        /\ UNCHANGED <<airVars, boxVars, time_sleep, sleep, ready>>
    BY <1>16 DEF SendsBack, SendChecker, ShadowChecker, Return
  <2>3. QuietMove(m) /\ Still(n)
    BY <1>1, <1>3, <2>1, <2>2 DEF QuietMove, Still
  <2>4. ClockTypesNext
    BY <1>3, <2>2 DEF ClockTypesNext, airVars
  <2>5. at'[m] # "gave_up" /\ at'[n] = at[n]
    BY <1>1, <1>3, <2>1
  <2>6. QED
    BY <1>5, <1>6, <2>2, <2>3, <2>4, <2>5 DEF Timed, ClockTypesNext
<1>17. CASE GivesUp(m)
  <2>1. /\ at[m] = "receive" /\ at' = [at EXCEPT ![m] = "gave_up"]
        /\ pc[m] = "d_sleep" /\ pc' = [pc EXCEPT ![m] = "client"] /\ sleep[m] = 0
        /\ UNCHANGED <<airVars, boxVars, sleep, ready>>
    BY <1>3, <1>17 DEF GivesUp, Becomes, DataWake, DataReturn, Return, Returns
  <2>2. /\ ~(timeout[m] > time_sleep[m] + 1)
        /\ time_sleep' = [time_sleep EXCEPT ![m] = 0] /\ timeout' = [timeout EXCEPT ![m] = 0]
    <3>1. ~(timeout[m] > time_sleep[m] + 1)
      BY <1>3, <1>17 DEF GivesUp, DataWake, Returns
    <3>2. DataReturn(m)
      BY <1>17, <3>1 DEF GivesUp, DataWake
    <3>3. pc'[m] = "client"
      BY <1>3, <2>1
    <3>4. QED
      BY <1>3, <3>1, <3>2, <3>3 DEF DataReturn, Return
  <2>3. QuietMove(m) /\ Still(n)
    BY <1>1, <1>3, <2>1, <2>2 DEF QuietMove, Still
  <2>4. ClockTypesNext
    BY <1>3, <2>1, <2>2 DEF ClockTypesNext, airVars
  <2>5. lost \/ (m = 1 /\ at[n] = "finished")
    BY <1>1, <1>2, <2>1, <2>2, GivesUpOnlyThen
  <2>6. GivesUpForAReason'
    <3>1. lost => lost'
      BY <1>2 DEF Context
    <3>2. at'[n] = at[n] /\ at'[m] = "gave_up"
      BY <1>1, <1>3, <2>1
    <3>3. (m = 0 /\ n = 1) \/ (m = 1 /\ n = 0)
      BY <1>1 DEF ID
    <3>4. QED
      BY <1>3, <2>5, <3>1, <3>2, <3>3 DEF GivesUpForAReason
  <2>7. QED
    BY <1>5, <2>1, <2>3, <2>4, <2>6 DEF Timed, ClockTypesNext
<1>18. CASE Fills(m)
  <2>1. /\ at[m] = "receive" /\ pc[m] = "r_take" /\ pc' = [pc EXCEPT ![m] = "r_checker"]
        /\ is_recieved' = [is_recieved EXCEPT ![m] = FALSE]
        /\ ready' = [ready EXCEPT ![m] = FALSE]
        /\ UNCHANGED <<airVars, at, timeout, time_sleep, sleep>>
    BY <1>18 DEF Fills, RecvTake
  <2>2. is_recieved[m]
    BY <1>2, <2>1 DEF Context, Rally, AvailableStays
  <2>3. Still(n) /\ ClockTypesNext
    BY <1>1, <1>3, <2>1 DEF Still, ClockTypesNext, airVars
  <2>4. pc'[m] = "r_checker" /\ at'[m] = "receive"
    BY <1>3, <2>1
  <2>5. InTime
    BY <1>1, <1>2, <2>1, <2>2, <2>3, <2>4, FillsTimed
  <2>6. QED
    BY <1>1, <1>6, <2>1, <2>3, <2>4, <2>5 DEF Timed, ClockTypesNext
<1>19. CASE Puts(m)
  <2>1. /\ at[m] \in {"serve", "back"} /\ pc[m] = "s_put"
        /\ is_send' = [is_send EXCEPT ![m] = FALSE] /\ send_age' = [send_age EXCEPT ![m] = 0]
        /\ \/ Goto(m, "s_sleep") /\ sleep' = [sleep EXCEPT ![m] = TimeOnAir]
           \/ Goto(m, "s_checker") /\ UNCHANGED sleep
        /\ UNCHANGED <<boxVars, timeout, time_sleep, ready, at>>
    BY <1>19 DEF Puts, SendPut, Sleep
  <2>2. Still(n) /\ ClockTypesNext
    BY <1>1, <1>3, <2>1, WaitConstants DEF Still, ClockTypesNext
  <2>3. \/ pc'[m] = "s_sleep" /\ sleep'[m] = TimeOnAir
        \/ pc'[m] = "s_checker" /\ sleep'[m] = sleep[m]
    BY <1>3, <2>1
  <2>4. InTime
    BY <1>1, <1>2, <2>1, <2>2, <2>3, PutsTimed
  <2>5. QED
    BY <1>1, <1>4, <1>6, <2>1, <2>2, <2>4 DEF Timed, ClockTypesNext
<1>20. CASE Looks(m)
  BY <1>3, <1>20 DEF Looks
<1>21. QED
  BY <1>12, <1>13, <1>14, <1>15, <1>16, <1>17, <1>18, <1>19, <1>20 DEF Plays

LEMMA InitTimed ==
  ASSUME ClientsInit, program = "wait"
  PROVE  Timed
<1> USE WaitConstants DEF At
<1>1. /\ at[0] = "nap" /\ at[1] = "receive"
  <2>1. 0 \in ID /\ 1 \in ID /\ program # "script" /\ program # "poll"
    BY DEF ID
  <2>2. at[1] = Waits
    BY <2>1 DEF ClientsInit
  <2>3. at[0] = "nap"
    <3>1. 0 # 1
      OBVIOUS
    <3>2. QED
      BY <2>1, <3>1 DEF ClientsInit
  <2>4. QED
    BY <2>1, <2>2, <2>3 DEF Waits
<1>2. /\ \A i \in ID : is_send[i] /\ ~is_recieved[i] /\ pc[i] = "client" /\ time_sleep[i] = 0
                       /\ sleep[i] = 0 /\ lag[i] = 0
      /\ time_sleep \in [ID -> Nat] /\ sleep \in [ID -> Nat] /\ send_age \in [ID -> 0 .. TimeOnAir]
  BY DEF ClientsInit, Init
<1>3. \A i \in ID : at[i] = IF i = 0 THEN "nap" ELSE "receive"
  BY <1>1 DEF ID
<1>4. \A i \in ID : Clock(i) /\ InOwnBox(i)
  BY <1>2, <1>3 DEF Clock, InOwnBox, DataPC
<1>5. \A i, j \in ID : i # j =>
        /\ OnItsWay(i, j) /\ InPeersBox(i, j) /\ WithPeer(i, j) /\ OnItsWayBack(i, j)
  <2>1. SUFFICES ASSUME NEW i \in ID, NEW j \in ID, i # j
                 PROVE  OnItsWay(i, j) /\ InPeersBox(i, j) /\ WithPeer(i, j) /\ OnItsWayBack(i, j)
    OBVIOUS
  <2>2. OnItsWay(i, j) /\ InPeersBox(i, j) /\ OnItsWayBack(i, j)
    BY <1>2 DEF OnItsWay, InPeersBox, OnItsWayBack
  <2>3. WithPeer(i, j)
    <3>1. Listened(i) = 0
      BY <1>2 DEF Listened
    <3>2. Holds(j) => at[j] = "nap"
      BY <1>2, <1>3 DEF Holds
    <3>3. at[j] = "nap" => Kept(j) = 0
      BY <1>2 DEF Kept
    <3>4. QED
      BY <3>1, <3>2, <3>3 DEF WithPeer
  <2>4. QED
    BY <2>2, <2>3
<1>6. GivesUpForAReason
  BY <1>1 DEF GivesUpForAReason
<1>7. QED
  BY <1>2, <1>4, <1>5, <1>6 DEF Timed

\* Without timeouts nobody gives up.
LEMMA OthersGoOn ==
  ASSUME IInv, program # "wait", \A i \in ID : at[i] # "gave_up", [ClientsNext]_allVars
  PROVE  program' = program /\ \A i \in ID : at'[i] # "gave_up"
<1>1. CASE UNCHANGED <<program, at>>
  BY <1>1
<1>2. CASE \E m \in ID : Plays(m)
  <2>1. PICK m \in ID : Plays(m)
    BY <1>2
  <2>2. program' = program /\ program = "poll" /\ Route(m)
    BY <2>1 DEF IInv, Plays, Playing, Rally, ClientsTypeOK
  <2>3. ~GivesUp(m)
    BY <2>2 DEF GivesUp, DataWake, Route
  <2>4. \/ UNCHANGED at
        \/ \E a \in {"serve", "receive", "look", "back", "finished"} : at' = [at EXCEPT ![m] = a]
    BY <2>1, <2>3 DEF Plays, Naps, Starts, Looks, Fills, Receives, Puts, SendsBack, Becomes, Waits
  <2>5. at \in [ID -> {"nap", "serve", "look", "receive", "back", "finished", "gave_up", "script"}]
    BY DEF IInv, ClientsTypeOK
  <2>6. QED
    BY <2>2, <2>4, <2>5
<1>3. QED
  BY <1>1, <1>2 DEF ClientsNext, ScriptInside, ScriptReturns, ScriptCalls, ScriptGoesOn,
                    ClientsTick, clientVars, allVars

\* The invariant of the timeouts.
THEOREM WaitInvariance ==
  ASSUME Prompt
  PROVE  ClientsSpec => []WaitIInv
<1>1. ClientsInit /\ IInv => WaitIInv
  <2>1. ClientsInit => \A i \in ID : program # "wait" => at[i] # "gave_up"
    <3>1. ASSUME ClientsInit, NEW i \in ID, program # "wait" PROVE at[i] # "gave_up"
      <4>1. CASE program = "script"
        BY <3>1, <4>1 DEF ClientsInit
      <4>2. CASE program = "poll"
        <5>1. program # "script" /\ (i = 0 \/ i = 1)
          BY <4>2 DEF ID
        <5>2. CASE i = 1
          BY <3>1, <5>1, <5>2 DEF ClientsInit, Waits
        <5>3. CASE i = 0
          <6>1. i # 1
            BY <5>3
          <6>2. QED
            BY <3>1, <4>2, <5>1, <5>3, <6>1 DEF ClientsInit
        <5>4. QED
          BY <5>1, <5>2, <5>3
      <4>3. QED
        BY <3>1, <4>1, <4>2 DEF ClientsInit
    <3>2. QED
      BY <3>1
  <2>2. QED
    BY <2>1, InitTimed DEF WaitIInv
<1>2. WaitIInv /\ IInv' /\ [ClientsNext]_allVars => WaitIInv'
  <2>1. SUFFICES ASSUME WaitIInv, IInv', [ClientsNext]_allVars PROVE WaitIInv'
    OBVIOUS
  <2>2. IInv
    BY <2>1 DEF WaitIInv
  <2>3. CASE program # "wait"
    BY <2>1, <2>2, <2>3, OthersGoOn DEF WaitIInv
  <2>4. CASE program = "wait"
    <3>1. Timed
      BY <2>1, <2>4 DEF WaitIInv
    <3>2. program' = "wait" /\ Timed'
      <4>1. CASE \E m \in ID : Plays(m) /\ History /\ UNCHANGED lag
        <5>1. PICK m \in ID : Plays(m) /\ History /\ UNCHANGED lag
          BY <4>1
        <5>2. program' = "wait"
          BY <2>4, <5>1 DEF Plays
        <5>3. Timed'
          BY <2>2, <2>4, <3>1, <5>1, PlaysTimed
        <5>4. QED
          BY <5>2, <5>3
      <4>2. CASE ClientsTick
        <5>1. program' = "wait" /\ lost' = lost
          BY <2>4, <4>2 DEF ClientsTick, clientVars
        <5>2. Context
          BY <2>2, <2>4, <3>1, <5>1 DEF Context, IInv, Playing
        <5>3. QED
          BY <4>2, <5>1, <5>2, TickTimed
      <4>3. CASE UNCHANGED allVars
        BY <2>4, <3>1, <4>3
           DEF Timed, Clock, InOwnBox, OnItsWay, InPeersBox, WithPeer, OnItsWayBack, GivesUpForAReason,
               Listened, LooksAgain, Boxed, Kept, Turned, Ended, Holds, RecvTimeout, At,
               allVars, vars, airVars, boxVars, callVars, clientVars
      <4>4. ~(ScriptInside \/ ScriptReturns \/ ScriptCalls \/ ScriptGoesOn)
        BY <2>4 DEF ScriptInside, ScriptReturns, ScriptCalls, ScriptGoesOn, Running
      <4>5. QED
        BY <2>1, <4>1, <4>2, <4>3, <4>4 DEF ClientsNext
    <3>3. QED
      BY <2>1, <3>2 DEF WaitIInv
  <2>5. QED
    BY <2>3, <2>4
<1>3. QED
  BY <1>1, <1>2, Invariance, PTL DEF ClientsSpec

\* The timeouts are long enough when neither thread is kept from running for
\* three halves of the time on air: nobody gives up while the packet is around.
THEOREM TimeoutsSuffice ==
  ASSUME Prompt
  PROVE  ClientsSpec => []GivesUpForAReason
<1>1. WaitIInv => GivesUpForAReason
  <2>1. 0 \in ID /\ 1 \in ID
    BY DEF ID
  <2>2. QED
    BY <2>1 DEF WaitIInv, Timed, GivesUpForAReason
<1>2. QED
  BY <1>1, WaitInvariance, PTL

-----------------------------------------------------------------------------
(* What the script expects.  It has one thread, so what is on the air, in the *)
(* boxes and in the error counter can be told from the line, and, inside a   *)
(* call, from whether the worker has run and the packet has been put.        *)

\* What line l is.
SendLines == {1, 6, 13, 14, 17, 18, 21, 23, 25}
AvailLines == {2, 4, 7, 9}
RecvLines == {5, 10}
SleepLines == {3, 8, 22, 24}
InitLines == {12, 16, 20}
ErrLines == {11, 15, 19, 26}

\* Before line l: whether the packet of device i is on the air, whether there is
\* one in its box, and how many errors are counted since the last reset.
Flies(i, l) == IF i = 0 THEN l \in {2, 3, 4, 14, 15, 16, 18, 19, 20, 22, 23, 24, 25, 26}
                        ELSE l \in {7, 8, 9, 19, 20}
Lies(i, l) == IF i = 0 THEN l = 10 ELSE l \in {5, 24, 25, 26}
Errors(l) == IF l \in {15, 16, 19, 20, 26} THEN 1 ELSE 0
RadioAt(l) == \A i \in ID : (is_send[i] <=> ~Flies(i, l)) /\ (is_recieved[i] <=> Lies(i, l))

\* Before these lines the thread has slept: what was on the air is due.
Ripe == {4, 9, 23, 25}

\* Once the worker has run in line l, things are as before the line StandsAt(l).
StandsAt(l) == IF l \in {4, 23, 25} THEN 5 ELSE IF l = 9 THEN 10 ELSE l

\* What was put since the last sleep is no older than the thread was kept waiting.
Fresh == \A i \in ID : ~is_send[i] => send_age[i] <= lag[0]

\* When the thread wakes, what was put before it slept has been on air long enough.
AllDue == \A i \in ID : ~is_send[i] => send_age[i] + sleep[0] >= TimeOnAir

\* The places in a call before and after the worker of the call has run.
BeforeWorker == {"client", "s_worker", "r_worker", "d_worker"}
AfterWorker == {"s_check", "s_err", "s_put", "d_read", "d_checker", "r_take"}

\* Line l, when thread c is at p in the library and the other one in no call.
Scene(l, c, p) ==
  /\ p \in BeforeWorker =>
       /\ RadioAt(l) /\ err = Errors(l)
       /\ IF l \in Ripe THEN AllDue ELSE Fresh
  /\ p \in AfterWorker =>
       /\ RadioAt(StandsAt(l)) /\ Fresh
       /\ err = IF l = 25 \/ (l = 14 /\ p = "s_put") THEN 1 ELSE Errors(l)
       /\ p = "s_err" => l = 14
       /\ p = "d_checker" => (ready[c] <=> is_recieved[c])
  /\ p = "s_checker" => RadioAt(l + 1) /\ Fresh /\ err = IF l = 18 THEN 0 ELSE Errors(l + 1)
  /\ p = "r_checker" => RadioAt(l + 1) /\ Fresh /\ err = 0 /\ buf[c] = Original
  /\ p \in BeforeWorker \cup AfterWorker \cup {"s_checker", "r_checker"}
  /\ p \in SendPC => l \in SendLines
  /\ p \in DataPC => l \in AvailLines \cup RecvLines
  /\ p \in RecvPC => l \in RecvLines
  /\ p # "client" \/ l \notin Ripe => sleep[0] = 0

\* Every packet of the script is the same one.
AllOriginal ==
  \A i \in ID : /\ ~is_send[i] => send_data[i] = Original
                /\ is_recieved[i] => recv_data[i] = Original

\* The thread of the script in the library.
Caller == IF At(0, "client") THEN 1 ELSE 0

\* The script is where its line says, unless the air has lost or broken a packet.
OnScript ==
  /\ ~Ended(0)
  /\ sleep \in [ID -> Nat] /\ send_age \in [ID -> 0 .. TimeOnAir]
  /\ lost \/ broken \/
       /\ ~failed
       /\ line <= Len(Script) => AllOriginal /\ Scene(line, Caller, pc[Caller])

\* One error is told from none, and a thread that does not sleep gets from one
\* sleep to the next in less than a time on air.
ScriptPrompt == MaxLag < TimeOnAir /\ ErrMod > 1

-----------------------------------------------------------------------------
\* One part of the script after another.
Joined(r, s, t) ==
  /\ r \in Seq(Lines) /\ Len(r) = Len(s) + Len(t)
  /\ \A l \in 1 .. Len(s) : r[l] = s[l]
  /\ \A l \in 1 .. Len(t) : r[Len(s) + l] = t[l]

\* The lines of two parts, one after the other.
LEMMA PartsJoined ==
  ASSUME NEW s \in Seq(Lines), NEW t \in Seq(Lines)
  PROVE  Joined(s \o t, s, t)
<1>1. /\ s \o t \in Seq(Lines) /\ Len(s \o t) = Len(s) + Len(t)
      /\ \A l \in 1 .. Len(s) + Len(t) : (s \o t)[l] = IF l <= Len(s) THEN s[l] ELSE t[l - Len(s)]
  BY ConcatProperties
<1> DEFINE m == Len(s)
           n == Len(t)
<1>2. m \in Nat /\ n \in Nat
  OBVIOUS
<1> HIDE DEF m, n
<1>3. \A l \in 1 .. m : l \in 1 .. m + n /\ l <= m
  BY <1>2
<1>4. \A l \in 1 .. n : m + l \in 1 .. m + n /\ ~(m + l <= m) /\ (m + l) - m = l
  BY <1>2
<1>5. QED
  BY <1>1, <1>3, <1>4 DEF m, n, Joined

\* The sets of lines above, against the script itself.
LEMMA ScriptTable ==
  /\ Len(Script) = 26
  /\ \A l \in 1 .. 26 :
       /\ Script[l].do = "send" <=> l \in SendLines
       /\ Script[l].do = "avail" <=> l \in AvailLines
       /\ Script[l].do = "recv" <=> l \in RecvLines
       /\ Script[l].do = "sleep" <=> l \in SleepLines
       /\ Script[l].do = "init" <=> l \in InitLines
       /\ Script[l].do = "err" <=> l \in ErrLines
       /\ l \in {1, 7, 9, 10, 13, 14, 17, 21, 23, 25} => Script[l].id = 0
       /\ l \in {2, 4, 5, 6, 18} => Script[l].id = 1
       /\ l \in {2, 7, 11} => Script[l].expected = FALSE
       /\ l \in {4, 9, 15, 19, 26} => Script[l].expected = TRUE
<1> DEFINE s0 == SendFrom(0)
           s1 == SendFrom(1)
           r0 == RecvAt(0)
           r1 == RecvAt(1)
           n0 == Expect(0, FALSE)
           y0 == Expect(0, TRUE)
           n1 == Expect(1, FALSE)
           y1 == Expect(1, TRUE)
           ok == ExpectErr(FALSE)
           ko == ExpectErr(TRUE)
           sl == SleepOn
           er == EnvReset
           a == <<s0, n1, sl, y1, r1, s1, n0, sl, y0, r0, ok>>
           b == <<er, s0, s0, ko>>
           c == <<er, s0, s1, ko>>
           d == <<er, s0, sl, s0, sl, s0, ko>>
<1>1. /\ s0.do = "send" /\ s0.id = 0 /\ s1.do = "send" /\ s1.id = 1
      /\ r0.do = "recv" /\ r0.id = 0 /\ r1.do = "recv" /\ r1.id = 1
      /\ n0.do = "avail" /\ n0.id = 0 /\ n0.expected = FALSE
      /\ y0.do = "avail" /\ y0.id = 0 /\ y0.expected = TRUE
      /\ n1.do = "avail" /\ n1.id = 1 /\ n1.expected = FALSE
      /\ y1.do = "avail" /\ y1.id = 1 /\ y1.expected = TRUE
      /\ ok.do = "err" /\ ok.expected = FALSE /\ ko.do = "err" /\ ko.expected = TRUE
      /\ sl.do = "sleep" /\ er.do = "init"
  BY DEF SendFrom, RecvAt, Expect, ExpectErr, SleepOn, EnvReset
<1>2. Script = ((a \o b) \o c) \o d
  BY DEF Script
<1>3. {s0, s1, r0, r1, n0, y0, n1, y1, ok, ko, sl, er} \subseteq Lines
  BY DEF SendFrom, RecvAt, Expect, ExpectErr, SleepOn, EnvReset, Lines, ID
<1> HIDE DEF s0, s1, r0, r1, n0, y0, n1, y1, ok, ko, sl, er
<1>4. /\ a \in Seq(Lines) /\ Len(a) = 11
      /\ a[1] = s0 /\ a[2] = n1 /\ a[3] = sl /\ a[4] = y1 /\ a[5] = r1 /\ a[6] = s1 /\ a[7] = n0
      /\ a[8] = sl /\ a[9] = y0 /\ a[10] = r0 /\ a[11] = ok
  BY <1>3
<1>5. /\ b \in Seq(Lines) /\ Len(b) = 4
      /\ b[1] = er /\ b[2] = s0 /\ b[3] = s0 /\ b[4] = ko
  BY <1>3
<1>6. /\ c \in Seq(Lines) /\ Len(c) = 4
      /\ c[1] = er /\ c[2] = s0 /\ c[3] = s1 /\ c[4] = ko
  BY <1>3
<1>7. /\ d \in Seq(Lines) /\ Len(d) = 7
      /\ d[1] = er /\ d[2] = s0 /\ d[3] = sl /\ d[4] = s0 /\ d[5] = sl /\ d[6] = s0 /\ d[7] = ko
  BY <1>3
<1> HIDE DEF a, b, c, d
<1> DEFINE ab == a \o b
           abc == ab \o c
           all == abc \o d
<1>8. ab = a \o b /\ abc = ab \o c /\ all = abc \o d /\ all = Script
  BY <1>2
<1> HIDE DEF ab, abc, all
<1>9. /\ ab \in Seq(Lines) /\ Len(ab) = 11 + 4
      /\ \A l \in 1 .. 11 : ab[l] = a[l]
      /\ \A l \in 1 .. 4 : ab[11 + l] = b[l]
  <2>1. a \in Seq(Lines) /\ b \in Seq(Lines)
    BY <1>4, <1>5, <1>8
  <2>2. Joined(a \o b, a, b)
    BY <2>1, PartsJoined
  <2>3. Joined(ab, a, b) /\ Len(a) = 11 /\ Len(b) = 4
    BY <1>4, <1>5, <1>8, <2>2
  <2>4. QED
    BY <2>3 DEF Joined
<1>10. /\ abc \in Seq(Lines) /\ Len(abc) = 15 + 4
       /\ \A l \in 1 .. 15 : abc[l] = ab[l]
       /\ \A l \in 1 .. 4 : abc[15 + l] = c[l]
  <2>1. ab \in Seq(Lines) /\ c \in Seq(Lines)
    BY <1>6, <1>8, <1>9
  <2>2. Joined(ab \o c, ab, c)
    BY <2>1, PartsJoined
  <2>3. Joined(abc, ab, c) /\ Len(ab) = 15 /\ Len(c) = 4
    BY <1>6, <1>8, <1>9, <2>2
  <2>4. QED
    BY <2>3 DEF Joined
<1>11. /\ all \in Seq(Lines) /\ Len(all) = 19 + 7
       /\ \A l \in 1 .. 19 : all[l] = abc[l]
       /\ \A l \in 1 .. 7 : all[19 + l] = d[l]
  <2>1. abc \in Seq(Lines) /\ d \in Seq(Lines)
    BY <1>7, <1>8, <1>10
  <2>2. Joined(abc \o d, abc, d)
    BY <2>1, PartsJoined
  <2>3. Joined(all, abc, d) /\ Len(abc) = 19 /\ Len(d) = 7
    BY <1>7, <1>8, <1>10, <2>2
  <2>4. QED
    BY <2>3 DEF Joined
<1>12. \A l \in 1 .. 26 :
         l = 1 \/ l = 2 \/ l = 3 \/ l = 4 \/ l = 5 \/ l = 6 \/ l = 7 \/ l = 8 \/ l = 9 \/ l = 10 \/ l = 11
         \/ l = 12 \/ l = 13 \/ l = 14 \/ l = 15 \/ l = 16 \/ l = 17 \/ l = 18 \/ l = 19
         \/ l = 20 \/ l = 21 \/ l = 22 \/ l = 23 \/ l = 24 \/ l = 25 \/ l = 26
  OBVIOUS
<1>13. /\ all[1] = s0 /\ all[2] = n1 /\ all[3] = sl /\ all[4] = y1 /\ all[5] = r1 /\ all[6] = s1 /\ all[7] = n0
       /\ all[8] = sl /\ all[9] = y0 /\ all[10] = r0 /\ all[11] = ok
       /\ all[12] = er /\ all[13] = s0 /\ all[14] = s0 /\ all[15] = ko
       /\ all[16] = er /\ all[17] = s0 /\ all[18] = s1 /\ all[19] = ko
       /\ all[20] = er /\ all[21] = s0 /\ all[22] = sl /\ all[23] = s0 /\ all[24] = sl /\ all[25] = s0 /\ all[26] = ko
  <2>1. ab[12] = b[1] /\ ab[13] = b[2] /\ ab[14] = b[3] /\ ab[15] = b[4]
    BY <1>9
  <2>2. abc[16] = c[1] /\ abc[17] = c[2] /\ abc[18] = c[3] /\ abc[19] = c[4]
    BY <1>10
  <2>3. all[20] = d[1] /\ all[21] = d[2] /\ all[22] = d[3] /\ all[23] = d[4] /\ all[24] = d[5]
        /\ all[25] = d[6] /\ all[26] = d[7]
    BY <1>11
  <2>4. QED
    BY <1>4, <1>5, <1>6, <1>7, <1>9, <1>10, <1>11, <2>1, <2>2, <2>3
<1>14. \A l \in 1 .. 26 :
       /\ all[l].do = "send" <=> l \in SendLines
       /\ all[l].do = "avail" <=> l \in AvailLines
       /\ all[l].do = "recv" <=> l \in RecvLines
       /\ all[l].do = "sleep" <=> l \in SleepLines
       /\ all[l].do = "init" <=> l \in InitLines
       /\ all[l].do = "err" <=> l \in ErrLines
  BY <1>1, <1>12, <1>13 DEF SendLines, AvailLines, RecvLines, SleepLines, InitLines, ErrLines
<1>15. \A l \in 1 .. 26 :
       /\ l \in {1, 7, 9, 10, 13, 14, 17, 21, 23, 25} => all[l].id = 0
       /\ l \in {2, 4, 5, 6, 18} => all[l].id = 1
       /\ l \in {2, 7, 11} => all[l].expected = FALSE
       /\ l \in {4, 9, 15, 19, 26} => all[l].expected = TRUE
  BY <1>1, <1>13
<1>16. QED
  BY <1>8, <1>11, <1>14, <1>15

-----------------------------------------------------------------------------
\* What the worker does in the script, if the air does nothing to the packets:
\* what is due arrives, or is counted because the box is full.
LEMMA WorkerDelivers ==
  ASSUME RadioTypes, {lost, broken} \subseteq BOOLEAN, ShadowWorker, History, ~lost', ~broken',
         ErrMod > 1, err \in {0, 1}, NEW a \in ID, NEW b \in ID, a # b, is_send[b]
  PROVE  /\ send_age' = send_age
         /\ is_send'[b] /\ is_recieved'[a] = is_recieved[a] /\ recv_data'[a] = recv_data[a]
         /\ ~Due(a) => /\ is_send'[a] = is_send[a] /\ send_data'[a] = send_data[a]
                       /\ is_recieved'[b] = is_recieved[b] /\ recv_data'[b] = recv_data[b]
                       /\ err' = err
         /\ Due(a) => /\ is_send'[a] /\ is_recieved'[b]
                      /\ ~is_recieved[b] => recv_data'[b] = send_data[a] /\ err' = err
                      /\ is_recieved[b] => recv_data'[b] = recv_data[b] /\ (err = 0 => err' = 1)
<1>1. PICK fate \in [ID -> Fates] :
        /\ is_send' = [i \in ID |-> is_send[i] \/ Due(i)]
        /\ send_data' = [i \in ID |-> IF Heard(i, fate) THEN OnAir(i, fate) ELSE send_data[i]]
        /\ is_recieved' = [i \in ID |-> is_recieved[i] \/ Lands(Peer(i), fate)]
        /\ recv_data' = [i \in ID |-> IF Lands(Peer(i), fate)
                                      THEN OnAir(Peer(i), fate) ELSE recv_data[i]]
        /\ Count(One(Overflows(0, fate)) + One(Overflows(1, fate)) + One(BothSending(is_send')))
        /\ UNCHANGED send_age
  BY DEF ShadowWorker
<1>2. /\ Peer(a) = b /\ Peer(b) = a /\ \A i \in ID : i = a \/ i = b
      /\ (a = 0 /\ b = 1) \/ (a = 1 /\ b = 0)
  BY DEF ID, Peer
<1>3. ~Due(b) /\ ~Heard(b, fate) /\ ~Lands(b, fate) /\ ~Overflows(b, fate)
  BY DEF Due, Heard, Lands, Overflows
<1>4. ~BothSending(is_send')
  BY <1>1 DEF BothSending
<1>5. err' = (err + One(Overflows(a, fate))) % ErrMod
  <2>1. One(Overflows(0, fate)) + One(Overflows(1, fate)) + One(BothSending(is_send')) = One(Overflows(a, fate))
    BY <1>2, <1>3, <1>4 DEF One
  <2>2. QED
    BY <1>1, <2>1 DEF Count
<1>6. (err + 0) % ErrMod = err /\ (0 + 1) % ErrMod = 1
  BY WlEnvAssumption
<1>7. /\ is_send'[b] /\ is_recieved'[a] = is_recieved[a] /\ recv_data'[a] = recv_data[a]
      /\ is_send'[a] = (is_send[a] \/ Due(a))
      /\ is_recieved'[b] = (is_recieved[b] \/ Lands(a, fate))
      /\ recv_data'[b] = IF Lands(a, fate) THEN OnAir(a, fate) ELSE recv_data[b]
      /\ send_data'[a] = IF Heard(a, fate) THEN OnAir(a, fate) ELSE send_data[a]
  BY <1>1, <1>2, <1>3 DEF RadioTypes
<1>8. CASE ~Due(a)
  <2>1. ~Heard(a, fate) /\ ~Lands(a, fate) /\ ~Overflows(a, fate)
    BY <1>8 DEF Heard, Lands, Overflows
  <2>2. err' = err
    BY <1>5, <1>6, <2>1 DEF One
  <2>3. QED
    BY <1>1, <1>7, <1>8, <2>1, <2>2 DEF RadioTypes
<1>9. CASE Due(a)
  <2>1. Leaves(a) /\ is_send'[a]
    BY <1>7, <1>9 DEF Leaves, Due
  <2>2. Heard(a, fate)
    <3>1. SUFFICES ASSUME ~Heard(a, fate) PROVE FALSE
      OBVIOUS
    <3>2. err' = err
      BY <1>5, <1>6, <3>1 DEF One, Overflows
    <3>3. is_recieved'[b] = is_recieved[b]
      BY <1>7, <3>1 DEF Lands, RadioTypes
    <3>4. Vanishes(a)
      BY <1>2, <2>1, <3>2, <3>3 DEF Vanishes
    <3>5. QED
      BY <3>4 DEF History
  <2>3. send_data'[a] # Garbled
    BY <2>1 DEF History
  <2>4. OnAir(a, fate) = send_data[a]
    BY <1>7, <2>2, <2>3 DEF OnAir
  <2>5. CASE ~is_recieved[b]
    <3>1. Lands(a, fate) /\ ~Overflows(a, fate)
      BY <1>2, <2>2, <2>5 DEF Lands, Overflows
    <3>2. err' = err
      BY <1>5, <1>6, <3>1 DEF One
    <3>3. QED
      BY <1>1, <1>7, <1>9, <2>1, <2>4, <2>5, <3>1, <3>2
  <2>6. CASE is_recieved[b]
    <3>1. ~Lands(a, fate) /\ Overflows(a, fate)
      BY <1>2, <2>2, <2>6 DEF Lands, Overflows
    <3>2. err = 0 => err' = 1
      BY <1>5, <1>6, <3>1 DEF One
    <3>3. QED
      BY <1>1, <1>7, <1>9, <2>1, <2>4, <2>6, <3>1, <3>2
  <2>7. QED
    BY <2>5, <2>6
<1>10. QED
  BY <1>8, <1>9

\* Thread c is in a call, in a script that has gone well so far.
CallOf(c, d) ==
  /\ RadioTypes /\ {lost, broken} \subseteq BOOLEAN
  /\ sleep \in [ID -> Nat] /\ send_age \in [ID -> 0 .. TimeOnAir] /\ lag \in [ID -> 0 .. MaxLag]
  /\ c \in ID /\ d \in ID /\ c # d /\ pc[d] = "client" /\ pc[c] # "client"
  /\ line \in 1 .. 26 /\ Now.id = c /\ Now.do = op[c] /\ timeout[c] = 0
  /\ AllOriginal /\ Scene(line, c, pc[c])
  /\ ~lost' /\ ~broken'

\* The worker of a call takes off the air what is due before its line, and
\* nothing else.
LEMMA ScriptWorker ==
  ASSUME ScriptPrompt, NEW c, NEW d, CallOf(c, d), ShadowWorker, History,
         UNCHANGED <<line, sleep, lag>>,
         \/ pc[c] = "s_worker" /\ pc'[c] = "s_check"
         \/ pc[c] = "r_worker" /\ pc'[c] = "d_worker"
         \/ pc[c] = "d_worker" /\ pc'[c] = "d_read"
  PROVE  AllOriginal' /\ Scene(line, c, pc[c])'
<1>1. /\ RadioAt(line) /\ err = Errors(line) /\ (IF line \in Ripe THEN AllDue ELSE Fresh)
      /\ sleep[0] = 0 /\ line \in SendLines \cup AvailLines \cup RecvLines
      /\ pc[c] = "s_worker" => line \in SendLines
      /\ pc[c] = "d_worker" => line \in AvailLines \cup RecvLines
      /\ pc[c] = "r_worker" => line \in RecvLines
  BY DEF CallOf, Scene, BeforeWorker, SendPC, DataPC, RecvPC
<1>2. PICK a \in ID, b \in ID : /\ a # b /\ is_send[b]
                                /\ a = IF line \in {7, 8, 9} THEN 1 ELSE 0
  <2> DEFINE a == IF line \in {7, 8, 9} THEN 1 ELSE 0
  <2>1. a \in ID /\ 1 - a \in ID /\ a # 1 - a
    BY DEF ID
  <2>2. is_send[1 - a]
    BY <1>1, <2>1 DEF RadioAt, Flies, SendLines, AvailLines, RecvLines
  <2>3. QED
    BY <2>1, <2>2
<1>3. err \in {0, 1}
  BY <1>1 DEF Errors
<1>4. /\ send_age' = send_age
      /\ is_send'[b] /\ is_recieved'[a] = is_recieved[a] /\ recv_data'[a] = recv_data[a]
      /\ ~Due(a) => /\ is_send'[a] = is_send[a] /\ send_data'[a] = send_data[a]
                    /\ is_recieved'[b] = is_recieved[b] /\ recv_data'[b] = recv_data[b]
                    /\ err' = err
      /\ Due(a) => /\ is_send'[a] /\ is_recieved'[b]
                   /\ ~is_recieved[b] => recv_data'[b] = send_data[a] /\ err' = err
                   /\ is_recieved[b] => recv_data'[b] = recv_data[b] /\ (err = 0 => err' = 1)
  BY <1>2, <1>3, WorkerDelivers DEF CallOf, ScriptPrompt
<1>5. \A i \in ID : i = a \/ i = b
  BY <1>2 DEF ID
<1>6. /\ line' = line /\ sleep' = sleep /\ lag' = lag
      /\ sleep'[0] = 0 /\ 0 \in ID
  BY <1>1 DEF ID
<1>7. AllOriginal'
  <2>1. AllOriginal
    BY DEF CallOf
  <2>2. Due(a) => ~is_send[a]
    BY DEF Due
  <2>3. /\ ~is_send'[a] => send_data'[a] = Original
        /\ ~is_send'[b] => send_data'[b] = Original
        /\ is_recieved'[a] => recv_data'[a] = Original
        /\ is_recieved'[b] => recv_data'[b] = Original
    BY <1>4, <2>1, <2>2 DEF AllOriginal, CallOf, RadioTypes
  <2>4. QED
    BY <1>5, <2>3 DEF AllOriginal
<1>8. CASE line \notin Ripe
  <2>1. ~Due(a)
    <3>1. ~is_send[a] => send_age[a] < TimeOnAir
      BY <1>1, <1>6, <1>8, WlEnvAssumption, ClientsAssumption DEF Fresh, CallOf, ScriptPrompt
    <3>2. QED
      BY <3>1, WlEnvAssumption DEF Due
  <2>2. /\ \A i \in ID : (is_send'[i] <=> is_send[i]) /\ (is_recieved'[i] <=> is_recieved[i])
        /\ err' = err
    BY <1>2, <1>4, <1>5, <2>1
  <2>3. RadioAt(line)' /\ Fresh'
    BY <1>1, <1>4, <1>6, <1>8, <2>2 DEF RadioAt, Fresh, Flies, Lies
  <2>4. StandsAt(line) = line /\ line # 25 /\ line # 4
    BY <1>8 DEF StandsAt, Ripe
  <2>5. err' = Errors(line)' /\ RadioAt(StandsAt(line))'
    BY <1>1, <1>6, <2>2, <2>3, <2>4 DEF Errors, StandsAt
  <2>6. QED
    BY <1>1, <1>6, <1>7, <1>8, <2>3, <2>4, <2>5 DEF Scene, BeforeWorker, AfterWorker, SendPC, DataPC, RecvPC
<1>9. CASE line \in Ripe
  <2>1. ~is_send[a] /\ Due(a)
    <3>1. ~is_send[a]
      BY <1>1, <1>2, <1>9 DEF RadioAt, Flies, Ripe
    <3>2. send_age[a] + sleep[0] >= TimeOnAir /\ send_age[a] \in 0 .. TimeOnAir
      BY <1>1, <1>9, <3>1 DEF AllDue, CallOf
    <3>3. QED
      BY <1>1, <3>1, <3>2, WlEnvAssumption DEF Due
  <2>2. is_send'[a] /\ is_send'[b] /\ is_recieved'[b] /\ is_recieved'[a] = is_recieved[a]
    BY <1>4, <2>1
  <2>3. RadioAt(StandsAt(line))' /\ Fresh'
    <3>1. Fresh'
      BY <1>5, <2>2 DEF Fresh
    <3>2. a = (IF line = 9 THEN 1 ELSE 0) /\ b = (IF line = 9 THEN 0 ELSE 1)
      BY <1>2, <1>9 DEF Ripe, ID
    <3>3. ~is_recieved[a]
      BY <1>1, <1>9, <3>2 DEF RadioAt, Lies, Ripe
    <3>4. StandsAt(line)' = IF line = 9 THEN 10 ELSE 5
      BY <1>6, <1>9 DEF StandsAt, Ripe
    <3>5. \A i \in ID : ~Flies(i, IF line = 9 THEN 10 ELSE 5)
      BY DEF Flies
    <3>6. /\ Lies(b, IF line = 9 THEN 10 ELSE 5) /\ ~Lies(a, IF line = 9 THEN 10 ELSE 5)
      BY <3>2 DEF Lies
    <3>7. QED
      BY <1>5, <2>2, <3>1, <3>3, <3>4, <3>5, <3>6 DEF RadioAt, Flies, Lies
  <2>4. err' = IF line = 25 THEN 1 ELSE 0
    <3>1. is_recieved[b] <=> line = 25
      BY <1>1, <1>2, <1>9 DEF RadioAt, Lies, Ripe, ID
    <3>2. err = 0
      BY <1>1, <1>9 DEF Errors, Ripe
    <3>3. QED
      BY <1>4, <2>1, <3>1, <3>2
  <2>5. pc'[c] \in {"s_check", "d_read"}
    BY <1>1, <1>9 DEF Ripe, RecvLines
  <2>6. Errors(line)' = 0 /\ line # 14
    BY <1>6, <1>9 DEF Errors, Ripe
  <2>7. QED
    BY <1>1, <1>6, <1>7, <2>3, <2>4, <2>5, <2>6
       DEF Scene, BeforeWorker, AfterWorker, SendPC, DataPC, RecvPC
<1>10. QED
  BY <1>8, <1>9

\* The other steps inside a call.
LEMMA ScriptInCall ==
  ASSUME ScriptPrompt, NEW c, NEW d, CallOf(c, d), UNCHANGED <<line, sleep, lag>>, pc'[c] # "client",
         SendCheck(c) \/ SendErr(c) \/ DataRead(c) \/ DataChecker(c)
  PROVE  AllOriginal' /\ Scene(line, c, pc[c])'
<1> USE DEF At, Goto
<1>1. /\ Scene(line, c, pc[c]) /\ pc[c] \in PC /\ pc \in [ID -> PC] /\ c \in ID
      /\ err \in 0 .. ErrMod - 1 /\ ready \in [ID -> BOOLEAN]
      /\ is_recieved \in [ID -> BOOLEAN] /\ is_send \in [ID -> BOOLEAN]
  BY DEF CallOf, RadioTypes
<1>2. line' = line /\ sleep' = sleep /\ lag' = lag
  OBVIOUS
<1>3. ASSUME UNCHANGED <<airVars, boxVars>>
      PROVE  /\ AllOriginal'
             /\ \A l : RadioAt(l) => RadioAt(l)'
             /\ Fresh => Fresh'
  BY <1>2, <1>3 DEF CallOf, AllOriginal, RadioAt, Fresh, airVars, boxVars
<1>4. CASE SendCheck(c)
  <2>1. /\ pc[c] = "s_check" /\ UNCHANGED <<airVars, boxVars, err, ready>>
        /\ pc'[c] = IF is_send[c] THEN "s_put" ELSE "s_err"
    BY <1>1, <1>4 DEF SendCheck
  <2>2. RadioAt(StandsAt(line)) /\ Fresh /\ line \in SendLines
        /\ err = (IF line = 25 THEN 1 ELSE Errors(line)) /\ sleep[0] = 0
    BY <1>1, <2>1 DEF Scene, AfterWorker, SendPC
  <2>3. line \in {1, 6, 13, 14, 17, 18, 21, 23, 25} /\ c = IF line \in {6, 18} THEN 1 ELSE 0
    <3>1. line \in {1, 6, 13, 14, 17, 18, 21, 23, 25}
      BY <2>2 DEF SendLines
    <3>2. QED
      BY <3>1, ScriptTable DEF CallOf, Now
  <2>4. is_send[c] <=> line # 14
    BY <1>1, <2>2, <2>3 DEF RadioAt, StandsAt, Flies
  <2>5. QED
    BY <1>1, <1>2, <1>3, <2>1, <2>2, <2>4
       DEF Scene, BeforeWorker, AfterWorker, SendPC, DataPC, RecvPC, StandsAt
<1>5. CASE SendErr(c)
  <2>1. /\ pc[c] = "s_err" /\ UNCHANGED <<airVars, boxVars, ready>>
        /\ err' = (err + 1) % ErrMod /\ pc'[c] = "s_put"
    BY <1>1, <1>5 DEF SendErr, Count
  <2>2. RadioAt(StandsAt(line)) /\ Fresh /\ line = 14 /\ line \in SendLines /\ err = 0 /\ sleep[0] = 0
    BY <1>1, <2>1 DEF Scene, AfterWorker, SendPC, Errors
  <2>3. err' = 1
    BY <2>1, <2>2, WlEnvAssumption DEF ScriptPrompt
  <2>4. QED
    BY <1>1, <1>2, <1>3, <2>1, <2>2, <2>3
       DEF Scene, BeforeWorker, AfterWorker, SendPC, DataPC, RecvPC, StandsAt
<1>6. CASE DataRead(c)
  <2>1. /\ pc[c] = "d_read" /\ UNCHANGED <<airVars, boxVars, err>>
        /\ ready'[c] = is_recieved[c] /\ pc'[c] = "d_checker"
    BY <1>1, <1>6 DEF DataRead
  <2>2. RadioAt(StandsAt(line)) /\ Fresh /\ line \in AvailLines \cup RecvLines
        /\ err = (IF line = 25 THEN 1 ELSE Errors(line)) /\ sleep[0] = 0
    BY <1>1, <2>1 DEF Scene, AfterWorker, DataPC
  <2>3. is_recieved' = is_recieved /\ line # 14
    BY <2>1, <2>2 DEF boxVars, AvailLines, RecvLines
  <2>4. QED
    BY <1>1, <1>2, <1>3, <2>1, <2>2, <2>3
       DEF Scene, BeforeWorker, AfterWorker, SendPC, DataPC, RecvPC, StandsAt
<1>7. CASE DataChecker(c)
  <2>1. /\ pc[c] = "d_checker" /\ UNCHANGED <<airVars, boxVars, ready>>
        /\ err' = (err + One(BothSending(is_send))) % ErrMod
        /\ timeout[c] = 0
    BY <1>7 DEF DataChecker, ShadowChecker, Count, CallOf
  <2>2. RadioAt(StandsAt(line)) /\ Fresh /\ line \in AvailLines \cup RecvLines
        /\ err = (IF line = 25 THEN 1 ELSE Errors(line)) /\ sleep[0] = 0
        /\ (ready[c] <=> is_recieved[c])
    BY <1>1, <2>1 DEF Scene, AfterWorker, DataPC
  <2>3. op[c] = "recv" /\ DataReturn(c) /\ pc' # [pc EXCEPT ![c] = "client"]
    <3>1. DataReturn(c) /\ pc' # [pc EXCEPT ![c] = "client"]
      BY <1>1, <1>7, <2>1 DEF DataChecker
    <3>2. QED
      BY <3>1 DEF DataReturn, Return
  <2>4. line \in {5, 10} /\ c = IF line = 5 THEN 1 ELSE 0
    <3>1. line \in {5, 10}
      BY <2>3, ScriptTable DEF CallOf, Now, RecvLines
    <3>2. QED
      BY <3>1, ScriptTable DEF CallOf, Now
  <2>5. is_recieved[c] /\ ready[c]
    BY <1>1, <2>2, <2>4 DEF RadioAt, StandsAt, Lies
  <2>6. pc'[c] = "r_take"
    BY <1>1, <2>3, <2>5 DEF DataReturn, Return
  <2>7. err' = err
    <3>1. ~BothSending(is_send)
      BY <1>1, <2>2, <2>4 DEF BothSending, RadioAt, StandsAt, Flies
    <3>2. QED
      BY <1>1, <2>1, <3>1, WlEnvAssumption DEF One
  <2>8. QED
    BY <1>1, <1>2, <1>3, <2>1, <2>2, <2>4, <2>6, <2>7
       DEF Scene, BeforeWorker, AfterWorker, SendPC, DataPC, RecvPC, StandsAt, RecvLines
<1>8. QED
  BY <1>4, <1>5, <1>6, <1>7

\* A packet is put, or taken.
LEMMA ScriptPacket ==
  ASSUME ScriptPrompt, NEW c, NEW d, CallOf(c, d), UNCHANGED <<line, lag>>,
         \/ SendPut(c, Original)
         \/ RecvTake(c) /\ buf'[c] = recv_data[c]
  PROVE  AllOriginal' /\ Scene(line, c, pc[c])' /\ sleep' = sleep
<1> USE DEF At, Goto
<1>1. /\ Scene(line, c, pc[c]) /\ pc \in [ID -> PC] /\ c \in ID /\ d \in ID /\ AllOriginal /\ timeout[c] = 0
      /\ is_recieved \in [ID -> BOOLEAN] /\ is_send \in [ID -> BOOLEAN]
      /\ send_data \in [ID -> Contents] /\ send_age \in [ID -> 0 .. TimeOnAir]
      /\ lag \in [ID -> 0 .. MaxLag] /\ line' = line /\ lag' = lag
      /\ \A i \in ID : i = c \/ i = d
  BY DEF CallOf, RadioTypes, ID
<1>2. CASE SendPut(c, Original)
  <2>1. /\ pc[c] = "s_put" /\ pc'[c] = "s_checker" /\ UNCHANGED <<boxVars, err, sleep>>
        /\ is_send' = [is_send EXCEPT ![c] = FALSE]
        /\ send_age' = [send_age EXCEPT ![c] = 0]
        /\ send_data' = [send_data EXCEPT ![c] = Original]
    BY <1>1, <1>2 DEF SendPut
  <2>2. RadioAt(StandsAt(line)) /\ Fresh /\ line \in SendLines
        /\ err = (IF line \in {14, 25} THEN 1 ELSE Errors(line)) /\ sleep[0] = 0
    BY <1>1, <2>1 DEF Scene, AfterWorker, SendPC
  <2>3. line \in {1, 6, 13, 14, 17, 18, 21, 23, 25} /\ c = IF line \in {6, 18} THEN 1 ELSE 0
    <3>1. line \in {1, 6, 13, 14, 17, 18, 21, 23, 25}
      BY <2>2 DEF SendLines
    <3>2. QED
      BY <3>1, ScriptTable DEF CallOf, Now
  <2>4. AllOriginal'
    BY <1>1, <2>1 DEF AllOriginal, boxVars
  <2>5. Fresh'
    BY <1>1, <2>1, <2>2 DEF Fresh, ID
  <2>6. RadioAt(line + 1)'
    <3>1. RadioAt(line + 1)' <=> \A i \in ID : /\ is_send'[i] <=> ~Flies(i, line + 1)
                                               /\ is_recieved'[i] <=> Lies(i, line + 1)
      BY <1>1 DEF RadioAt, Flies, Lies
    <3>2. \A i \in ID : is_recieved'[i] <=> Lies(i, line + 1)
      BY <1>1, <2>1, <2>2, <2>3 DEF RadioAt, StandsAt, Lies, boxVars
    <3>3. is_send'[c] <=> ~Flies(c, line + 1)
      BY <1>1, <2>1, <2>3 DEF Flies
    <3>4. is_send'[d] <=> ~Flies(d, line + 1)
      <4>1. is_send'[d] = is_send[d] /\ d = IF line \in {6, 18} THEN 0 ELSE 1
        BY <1>1, <2>1, <2>3 DEF CallOf, ID
      <4>2. QED
        BY <1>1, <2>2, <2>3, <4>1 DEF RadioAt, StandsAt, Flies
    <3>5. QED
      BY <1>1, <3>1, <3>2, <3>3, <3>4
  <2>7. err' = IF line = 18 THEN 0 ELSE Errors(line + 1)
    BY <2>1, <2>2, <2>3 DEF Errors
  <2>8. Scene(line, c, "s_checker")'
    <3>1. (IF line = 18 THEN 0 ELSE Errors(line + 1))' = IF line = 18 THEN 0 ELSE Errors(line + 1)
      BY <1>1 DEF Errors
    <3>2. sleep'[0] = 0
      BY <2>1, <2>2
    <3>3. QED
      BY <1>1, <2>2, <2>5, <2>6, <2>7, <3>1, <3>2
         DEF Scene, BeforeWorker, AfterWorker, SendPC, DataPC, RecvPC
  <2>9. QED
    BY <2>1, <2>4, <2>8
<1>3. CASE RecvTake(c) /\ buf'[c] = recv_data[c]
  <2>1. /\ pc[c] = "r_take" /\ pc'[c] = "r_checker" /\ UNCHANGED <<airVars, recv_data, err, sleep>>
        /\ is_recieved' = [is_recieved EXCEPT ![c] = FALSE]
    BY <1>1, <1>3 DEF RecvTake
  <2>2. RadioAt(StandsAt(line)) /\ Fresh /\ line \in RecvLines
        /\ err = (IF line = 25 THEN 1 ELSE Errors(line)) /\ sleep[0] = 0
    BY <1>1, <2>1 DEF Scene, AfterWorker, RecvPC
  <2>3. line \in {5, 10} /\ c = IF line = 5 THEN 1 ELSE 0
    <3>1. line \in {5, 10}
      BY <2>2 DEF RecvLines
    <3>2. QED
      BY <3>1, ScriptTable DEF CallOf, Now
  <2>4. is_recieved[c]
    BY <1>1, <2>2, <2>3 DEF RadioAt, StandsAt, Lies
  <2>5. buf'[c] = Original /\ AllOriginal'
    BY <1>1, <1>3, <2>1, <2>4 DEF AllOriginal, airVars
  <2>6. Fresh'
    BY <1>1, <2>1, <2>2 DEF Fresh, airVars
  <2>7. RadioAt(line + 1)'
    <3>1. RadioAt(line + 1)' <=> \A i \in ID : /\ is_send'[i] <=> ~Flies(i, line + 1)
                                               /\ is_recieved'[i] <=> Lies(i, line + 1)
      BY <1>1 DEF RadioAt, Flies, Lies
    <3>2. \A i \in ID : is_send'[i] /\ ~Flies(i, line + 1) /\ ~Lies(i, line + 1)
      BY <1>1, <2>1, <2>2, <2>3 DEF RadioAt, StandsAt, Flies, Lies, airVars
    <3>3. \A i \in ID : ~is_recieved'[i]
      <4>1. d = IF line = 5 THEN 0 ELSE 1
        BY <2>3 DEF CallOf, ID
      <4>2. ~is_recieved[d]
        BY <1>1, <2>2, <2>3, <4>1 DEF RadioAt, StandsAt, Lies
      <4>3. QED
        BY <1>1, <2>1, <4>2
    <3>4. QED
      BY <3>1, <3>2, <3>3
  <2>8. err' = 0
    BY <2>1, <2>2, <2>3 DEF Errors
  <2>9. Scene(line, c, "r_checker")'
    <3>1. sleep'[0] = 0
      BY <2>1, <2>2
    <3>2. QED
      BY <1>1, <2>2, <2>5, <2>6, <2>7, <2>8, <3>1
         DEF Scene, BeforeWorker, AfterWorker, SendPC, DataPC, RecvPC
  <2>10. QED
    BY <2>1, <2>5, <2>9
<1>4. QED
  BY <1>2, <1>3

\* A call returns what the line expects.
LEMMA ScriptReturn ==
  ASSUME ScriptPrompt, NEW c, NEW d, CallOf(c, d), ~failed, UNCHANGED lag, ScriptReturns
  PROVE  AllOriginal' /\ Scene(line, c, "client")' /\ ~failed' /\ pc'[c] = "client"
<1> USE DEF At, Goto
<1>1. /\ Scene(line, c, pc[c]) /\ pc \in [ID -> PC] /\ c \in ID /\ AllOriginal /\ timeout[c] = 0
      /\ is_recieved \in [ID -> BOOLEAN] /\ is_send \in [ID -> BOOLEAN] /\ ready \in [ID -> BOOLEAN]
      /\ lag' = lag /\ line \in 1 .. 26 /\ Now.id = c /\ Now.do = op[c]
  BY DEF CallOf, RadioTypes
<1>2. ASSUME ShadowChecker
      PROVE  /\ UNCHANGED <<airVars, boxVars>>
             /\ err \in {0, 1} /\ ~BothSending(is_send) => err' = err
             /\ err = 0 /\ BothSending(is_send) => err' = 1
             /\ AllOriginal' /\ (Fresh => Fresh') /\ \A l : RadioAt(l) => RadioAt(l)'
  <2>1. UNCHANGED <<airVars, boxVars>> /\ err' = (err + One(BothSending(is_send))) % ErrMod
    BY <1>2 DEF ShadowChecker, Count
  <2>2. (0 + 0) % ErrMod = 0 /\ (1 + 0) % ErrMod = 1 /\ (0 + 1) % ErrMod = 1
    BY WlEnvAssumption DEF ScriptPrompt
  <2>3. /\ err \in {0, 1} /\ ~BothSending(is_send) => err' = err
        /\ err = 0 /\ BothSending(is_send) => err' = 1
    BY <2>1, <2>2 DEF One
  <2>4. AllOriginal' /\ (Fresh => Fresh') /\ \A l : RadioAt(l) => RadioAt(l)'
    BY <1>1, <2>1 DEF AllOriginal, Fresh, RadioAt, airVars, boxVars
  <2>5. QED
    BY <2>1, <2>3, <2>4
<1>3. ASSUME line' = line + 1, line + 1 \notin Ripe, RadioAt(line + 1), ShadowChecker,
             Fresh, Fresh', err' = Errors(line + 1), sleep'[0] = 0
      PROVE  Scene(line, c, "client")'
  <2>1. RadioAt(line)'
    <3>1. UNCHANGED <<airVars, boxVars>>
      BY <1>2, <1>3
    <3>2. QED
      BY <1>3, <3>1 DEF RadioAt, Flies, Lies, airVars, boxVars
  <2>2. err' = Errors(line)'
    BY <1>3 DEF Errors
  <2>3. QED
    BY <1>3, <2>1, <2>2 DEF Scene, BeforeWorker, AfterWorker, SendPC, DataPC, RecvPC
<1>4. CASE SendChecker(c) /\ Done(TRUE)
  <2>1. /\ pc[c] = "s_checker" /\ ShadowChecker /\ UNCHANGED sleep
        /\ line' = line + 1
    BY <1>4 DEF SendChecker, Done
  <2>2. /\ RadioAt(line + 1) /\ Fresh /\ line \in SendLines /\ sleep[0] = 0
        /\ err = IF line = 18 THEN 0 ELSE Errors(line + 1)
    BY <1>1, <2>1 DEF Scene, SendPC
  <2>3. line + 1 \notin Ripe
    BY <2>2 DEF SendLines, Ripe
  <2>4. BothSending(is_send) <=> line = 18
    <3>1. Flies(0, line + 1) /\ Flies(1, line + 1) <=> line = 18
      BY <2>2 DEF Flies, SendLines
    <3>2. QED
      BY <2>2, <3>1 DEF RadioAt, BothSending, ID
  <2>5. err' = Errors(line + 1)
    BY <1>2, <2>1, <2>2, <2>4 DEF Errors
  <2>6. pc'[c] = "client"
    BY <1>1, <1>4 DEF SendChecker, Return
  <2>7. ~failed'
    BY <1>4 DEF Done
  <2>8. QED
    BY <1>2, <1>3, <2>1, <2>2, <2>3, <2>5, <2>6, <2>7
<1>5. CASE Now.do = "avail" /\ DataChecker(c) /\ Done(ready[c] = Now.expected)
  <2>1. /\ pc[c] = "d_checker" /\ ShadowChecker /\ line' = line + 1
        /\ failed' = (failed \/ ready[c] # Now.expected)
    BY <1>5 DEF DataChecker, Done
  <2>2. op[c] = "avail" /\ DataReturn(c) /\ sleep' = sleep
    BY <1>1, <1>5 DEF DataChecker
  <2>3. pc'[c] = "client"
    BY <1>1, <2>2 DEF DataReturn, Return
  <2>4. /\ RadioAt(StandsAt(line)) /\ Fresh /\ sleep[0] = 0 /\ (ready[c] <=> is_recieved[c])
        /\ err = IF line = 25 THEN 1 ELSE Errors(line)
    BY <1>1, <2>1 DEF Scene, AfterWorker
  <2>5. line \in AvailLines
    BY <1>1, <1>5, ScriptTable DEF Now
  <2>6. /\ c = IF line \in {2, 4} THEN 1 ELSE 0
        /\ line \in {4, 9} => Now.expected = TRUE
        /\ line \notin {4, 9} => Now.expected = FALSE
    <3>1. line \in {2, 4, 7, 9}
      BY <2>5 DEF AvailLines
    <3>2. QED
      BY <1>1, <3>1, ScriptTable DEF Now
  <2>7. ready[c] <=> line \in {4, 9}
    BY <1>1, <2>4, <2>5, <2>6 DEF RadioAt, StandsAt, Lies, AvailLines
  <2>8. ~failed'
    BY <1>1, <2>1, <2>6, <2>7
  <2>9. RadioAt(line + 1) /\ line + 1 \notin Ripe
    BY <2>4, <2>5 DEF RadioAt, StandsAt, Lies, Flies, AvailLines, Ripe
  <2>10. ~BothSending(is_send)
    <3>1. ~(Flies(0, line + 1) /\ Flies(1, line + 1))
      BY <2>5 DEF Flies, AvailLines
    <3>2. QED
      BY <2>9, <3>1 DEF RadioAt, BothSending, ID
  <2>11. err' = Errors(line + 1)
    BY <1>2, <2>1, <2>4, <2>5, <2>10 DEF Errors, AvailLines
  <2>12. QED
    BY <1>2, <1>3, <2>1, <2>2, <2>3, <2>4, <2>8, <2>9, <2>11
<1>6. CASE RecvChecker(c) /\ Done(buf[c] = Original)
  <2>1. /\ pc[c] = "r_checker" /\ ShadowChecker /\ UNCHANGED sleep /\ line' = line + 1
    BY <1>6 DEF RecvChecker, Done
  <2>2. /\ RadioAt(line + 1) /\ Fresh /\ line \in RecvLines /\ sleep[0] = 0
        /\ err = 0 /\ buf[c] = Original
    BY <1>1, <2>1 DEF Scene, RecvPC
  <2>3. line + 1 \notin Ripe /\ Errors(line + 1) = 0
    BY <2>2 DEF RecvLines, Ripe, Errors
  <2>4. ~BothSending(is_send)
    <3>1. ~(Flies(0, line + 1) /\ Flies(1, line + 1))
      BY <2>2 DEF Flies, RecvLines
    <3>2. QED
      BY <2>2, <3>1 DEF RadioAt, BothSending, ID
  <2>5. err' = Errors(line + 1)
    BY <1>2, <2>1, <2>2, <2>3, <2>4
  <2>6. pc'[c] = "client"
    BY <1>1, <1>6 DEF RecvChecker, Return
  <2>7. ~failed'
    BY <1>6, <2>2 DEF Done
  <2>8. QED
    BY <1>2, <1>3, <2>1, <2>2, <2>3, <2>5, <2>6, <2>7
<1>7. ~RecvErr(c)
  BY <1>1 DEF RecvErr, Scene, BeforeWorker, AfterWorker
<1>8. QED
  BY <1>1, <1>4, <1>5, <1>6, <1>7 DEF ScriptReturns

\* A call, and the lines that are none.
LEMMA ScriptOutside ==
  ASSUME ScriptPrompt, IInv, program = "script", OnScript, ~lost', ~broken',
         ScriptCalls \/ ScriptGoesOn, UNCHANGED lag
  PROVE  /\ ~failed'
         /\ line' <= Len(Script) => AllOriginal' /\ Scene(line, Caller, pc[Caller])'
<1> USE DEF At, Goto
<1>1. /\ \A i \in ID : pc[i] = "client"
      /\ pc \in [ID -> PC] /\ is_send \in [ID -> BOOLEAN] /\ is_recieved \in [ID -> BOOLEAN]
      /\ sleep[0] = 0 /\ ~lost /\ ~broken /\ lag' = lag /\ 0 \in ID /\ 1 \in ID
      /\ line \in 1 .. 26 /\ Len(Script) = 26 /\ sleep \in [ID -> Nat] /\ send_age \in [ID -> 0 .. TimeOnAir]
  <2>1. Len(Script) = 26
    BY ScriptTable
  <2>2. line \in 1 .. Len(Script) + 1 /\ line <= Len(Script)
    BY DEF ScriptCalls, ScriptGoesOn, Running, IInv, ClientsTypeOK
  <2>3. line \in 1 .. 26
    BY <2>1, <2>2
  <2>4. /\ \A i \in ID : pc[i] = "client"
        /\ sleep[0] = 0 /\ lag' = lag /\ lost' = lost /\ broken' = broken
    BY DEF ScriptCalls, ScriptGoesOn, InLibrary
  <2>5. QED
    BY <2>1, <2>3, <2>4 DEF IInv, RadioTypes, OnScript, ID
<1>2. /\ ~failed /\ AllOriginal /\ RadioAt(line) /\ err = Errors(line)
      /\ IF line \in Ripe THEN AllDue ELSE Fresh
  <2>1. Caller \in ID
    BY <1>1 DEF Caller
  <2>2. ~failed /\ AllOriginal /\ Scene(line, Caller, pc[Caller]) /\ pc[Caller] = "client"
    BY <1>1, <2>1 DEF OnScript
  <2>3. QED
    BY <2>2 DEF Scene, BeforeWorker
<1>3. CASE ScriptCalls
  <2>1. /\ UNCHANGED <<airVars, boxVars, err, sleep, line, failed>>
        /\ \/ Now.do = "send" /\ pc' = [pc EXCEPT ![Now.id] = "s_worker"]
           \/ Now.do = "recv" /\ pc' = [pc EXCEPT ![Now.id] = "r_worker"]
           \/ Now.do = "avail" /\ pc' = [pc EXCEPT ![Now.id] = "d_worker"]
    BY <1>3 DEF ScriptCalls, SendCall, AvailCall, RecvCall, Call, clientVars
  <2>2. PICK c \in ID : c = Now.id
    BY <1>1, <2>1, LineTypes
  <2>3. /\ Now.do = "send" <=> line \in SendLines
        /\ Now.do = "avail" <=> line \in AvailLines
        /\ Now.do = "recv" <=> line \in RecvLines
    BY <1>1, ScriptTable DEF Now
  <2>4. Caller' = c
    BY <1>1, <2>1, <2>2 DEF Caller, ID
  <2>5. \/ pc'[c] = "s_worker" /\ line \in SendLines
        \/ pc'[c] = "r_worker" /\ line \in RecvLines
        \/ pc'[c] = "d_worker" /\ line \in AvailLines
    BY <1>1, <2>1, <2>2, <2>3
  <2>6. AllOriginal'
    BY <1>2, <2>1 DEF AllOriginal, airVars, boxVars
  <2>7. RadioAt(line)' /\ (Fresh => Fresh') /\ (AllDue => AllDue')
    BY <1>1, <1>2, <2>1 DEF RadioAt, Flies, Lies, Fresh, AllDue, airVars, boxVars
  <2>8. err' = Errors(line)' /\ sleep'[0] = 0 /\ line' = line
    BY <1>1, <1>2, <2>1 DEF Errors
  <2>9. Scene(line, c, pc[c])'
    BY <1>1, <1>2, <2>5, <2>7, <2>8 DEF Scene, BeforeWorker, AfterWorker, SendPC, DataPC, RecvPC
  <2>10. Scene(line, Caller, pc[Caller])'
    BY <2>4, <2>9
  <2>11. QED
    BY <1>2, <2>1, <2>6, <2>10
<1>4. ASSUME pc' = pc, line' = line + 1, RadioAt(line)', err' = Errors(line)',
             (IF line \in Ripe THEN AllDue ELSE Fresh /\ sleep[0] = 0)', AllOriginal', ~failed'
      PROVE  /\ ~failed'
             /\ line' <= Len(Script) => AllOriginal' /\ Scene(line, Caller, pc[Caller])'
  <2>1. pc'[Caller'] = "client"
    BY <1>1, <1>4 DEF Caller
  <2>2. Scene(line, Caller, "client")'
    BY <1>4 DEF Scene, BeforeWorker, AfterWorker, SendPC, DataPC, RecvPC
  <2>3. QED
    BY <1>4, <2>1, <2>2
<1>5. CASE ScriptGoesOn
  <2>1. /\ Now.do = "init" <=> line \in InitLines
        /\ Now.do = "err" <=> line \in ErrLines
        /\ Now.do = "sleep" <=> line \in SleepLines
        /\ line' = line + 1
    BY <1>1, <1>5, ScriptTable DEF Now, ScriptGoesOn, Done
  <2>2. CASE Now.do = "init" /\ EnvInit /\ Done(TRUE)
    <3>1. /\ \A i \in ID : is_send'[i] /\ ~is_recieved'[i]
          /\ err' = 0 /\ pc' = pc /\ sleep' = sleep /\ ~failed'
      BY <1>2, <2>2 DEF EnvInit, Done
    <3>2. line' \in {13, 17, 21}
      BY <2>1, <2>2 DEF InitLines
    <3>3. RadioAt(line)'
      BY <3>1, <3>2 DEF RadioAt, Flies, Lies
    <3>4. err' = Errors(line)' /\ line' \notin Ripe' /\ line' = line + 1
      BY <2>1, <3>1, <3>2 DEF Errors, Ripe
    <3>5. Fresh' /\ AllOriginal' /\ sleep'[0] = 0
      BY <1>1, <3>1 DEF Fresh, AllOriginal
    <3>6. QED
      BY <1>4, <3>1, <3>3, <3>4, <3>5
  <2>3. CASE Now.do = "err" /\ Done((err > 0) = Now.expected) /\ UNCHANGED vars
    <3>1. UNCHANGED <<airVars, boxVars, err, pc, sleep>>
      BY <2>3 DEF vars, callVars
    <3>2. line \in {11, 15, 19, 26}
      BY <2>1, <2>3 DEF ErrLines
    <3>3. Now.expected = (IF line = 11 THEN FALSE ELSE TRUE)
      BY <1>1, <3>2, ScriptTable DEF Now
    <3>4. err = IF line = 11 THEN 0 ELSE 1
      BY <1>2, <3>2 DEF Errors
    <3>5. ~failed'
      <4>1. (err > 0) = Now.expected
        <5>1. CASE line = 11
          <6>1. (0 > 0) = FALSE
            OBVIOUS
          <6>2. QED
            BY <3>3, <3>4, <5>1, <6>1
        <5>2. CASE line # 11
          <6>1. (1 > 0) = TRUE
            OBVIOUS
          <6>2. QED
            BY <3>3, <3>4, <5>2, <6>1
        <5>3. QED
          BY <5>1, <5>2
      <4>2. QED
        BY <1>2, <2>3, <4>1 DEF Done
    <3>6. line' \in {12, 16, 20, 27} /\ line' = line + 1
      BY <2>1, <3>2
    <3>7. CASE line = 26
      BY <1>1, <3>5, <3>6, <3>7
    <3>8. CASE line # 26
      <4>1. RadioAt(line)'
        BY <1>2, <3>1, <3>2, <3>6, <3>8 DEF RadioAt, Flies, Lies, airVars, boxVars
      <4>2. err' = Errors(line)' /\ line' \notin Ripe' /\ line \notin Ripe
        BY <1>2, <3>1, <3>2, <3>6, <3>8 DEF Errors, Ripe
      <4>3. Fresh' /\ AllOriginal' /\ sleep'[0] = 0
        BY <1>1, <1>2, <3>1, <4>2 DEF Fresh, AllOriginal, airVars, boxVars
      <4>4. QED
        BY <1>4, <3>1, <3>5, <3>6, <4>1, <4>2, <4>3
    <3>9. QED
      BY <3>7, <3>8
  <2>4. CASE Now.do = "sleep" /\ Nap /\ Done(TRUE)
    <3>1. UNCHANGED <<airVars, boxVars, err, pc>> /\ sleep'[0] = ONE_SECOND /\ ~failed'
      BY <1>1, <1>2, <2>4 DEF Nap, Done
    <3>2. line \in {3, 8, 22, 24} /\ line' \in {4, 9, 23, 25} /\ line' = line + 1
      BY <2>1, <2>4 DEF SleepLines
    <3>3. RadioAt(line)' /\ err' = Errors(line)' /\ line' \in Ripe'
      <4>1. RadioAt(line)'
        BY <1>2, <3>1, <3>2 DEF RadioAt, Flies, Lies, airVars, boxVars
      <4>2. err' = Errors(line)' /\ line' \in Ripe'
        BY <1>2, <3>1, <3>2 DEF Errors, Ripe
      <4>3. QED
        BY <4>1, <4>2
    <3>4. AllDue'
      <4>1. \A i \in ID : send_age'[i] \in 0 .. TimeOnAir
        BY <1>1, <3>1 DEF airVars
      <4>2. QED
        BY <3>1, <4>1, WlEnvAssumption DEF AllDue, ONE_SECOND
    <3>5. AllOriginal'
      BY <1>2, <3>1 DEF AllOriginal, airVars, boxVars
    <3>6. QED
      BY <1>4, <3>1, <3>2, <3>3, <3>4, <3>5
  <2>5. QED
    BY <1>5, <2>2, <2>3, <2>4 DEF ScriptGoesOn
<1>6. QED
  BY <1>3, <1>5

\* A step of the thread in a call.
LEMMA ScriptStep ==
  ASSUME ScriptPrompt, IInv, program = "script", OnScript, ~lost', ~broken', History,
         ScriptInside \/ ScriptReturns, UNCHANGED lag
  PROVE  /\ ~failed'
         /\ line' <= Len(Script) => AllOriginal' /\ Scene(line, Caller, pc[Caller])'
<1> USE DEF At, Goto
<1>0. /\ RadioTypes /\ ClientsTypeOK /\ ScriptControl /\ line <= Len(Script) /\ Len(Script) = 26
      /\ pc \in [ID -> PC]
  BY ScriptTable DEF IInv, ScriptInside, ScriptReturns, Running, RadioTypes
<1>1. PICK c \in ID, d \in ID : /\ c = Now.id /\ c # d /\ pc[c] # "client" /\ pc[d] = "client"
                                /\ Now.do = op[c] /\ timeout[c] = 0
  <2>1. /\ Now.id \in ID /\ pc[Now.id] # "client"
        /\ Now.do = op[Now.id] /\ timeout[Now.id] = 0
        /\ \A j \in ID : j # Now.id => pc[j] = "client"
    BY <1>0 DEF ScriptInside, ScriptReturns, InLibrary, ScriptControl
  <2>2. \E d \in ID : d # Now.id
    BY DEF ID
  <2>3. QED
    BY <2>1, <2>2
<1>2. Library(c, Original, 0)
  BY <1>1 DEF ScriptInside, ScriptReturns, Library
<1>3. pc' \in [ID -> PC] /\ pc'[d] = "client"
  <2>1. RadioTypes' /\ \A j \in ID : j # c => pc'[j] = pc[j]
    BY <1>0, <1>1, <1>2, PayloadContents, LibraryTypes
  <2>2. QED
    BY <1>1, <2>1 DEF RadioTypes
<1>4. /\ Caller = c
      /\ pc'[c] # "client" => Caller' = c
      /\ pc'[c] = "client" => pc'[Caller'] = "client"
  <2>1. (c = 0 /\ d = 1) \/ (c = 1 /\ d = 0)
    BY <1>1 DEF ID
  <2>2. QED
    BY <1>1, <1>3, <2>1 DEF Caller
<1>5. ~failed /\ CallOf(c, d)
  <2>1. ~lost /\ ~broken /\ line \in 1 .. 26 /\ lag \in [ID -> 0 .. MaxLag]
        /\ {lost, broken} \subseteq BOOLEAN
    BY <1>0, ScriptTable DEF History, ClientsTypeOK
  <2>2. /\ sleep \in [ID -> Nat] /\ send_age \in [ID -> 0 .. TimeOnAir]
        /\ ~failed /\ AllOriginal /\ Scene(line, c, pc[c])
    BY <1>0, <1>4, <2>1 DEF OnScript
  <2>3. QED
    BY <1>0, <1>1, <2>1, <2>2 DEF CallOf
<1>6. CASE ScriptReturns
  <2>1. AllOriginal' /\ Scene(line, c, "client")' /\ ~failed' /\ pc'[c] = "client"
    BY <1>1, <1>5, <1>6, ScriptReturn
  <2>2. Scene(line, Caller, "client")'
    BY <2>1 DEF Scene, BeforeWorker, AfterWorker, SendPC, DataPC, RecvPC
  <2>3. QED
    BY <1>4, <2>1, <2>2
<1>7. CASE ScriptInside
  <2>1. /\ UNCHANGED <<line, failed>>
        /\ Inside(c) \/ SendPut(c, Original) \/ RecvTake(c)
        /\ buf' = IF pc[c] = "r_take" THEN [buf EXCEPT ![c] = recv_data[c]] ELSE buf
    BY <1>1, <1>7 DEF ScriptInside
  <2>4. pc[c] \in BeforeWorker \cup AfterWorker \cup {"s_checker", "r_checker"}
    BY <1>5 DEF CallOf, Scene
  <2>5. ~SendWake(c) /\ ~SendFlush(c) /\ ~DataWake(c)
    BY <2>4 DEF SendWake, SendFlush, DataWake, BeforeWorker, AfterWorker
  <2>6. AllOriginal' /\ Scene(line, c, pc[c])' /\ pc'[c] # "client"
    <3>1. CASE SendWorker(c) \/ RecvWorker(c) \/ DataWorker(c)
      <4>1. /\ ShadowWorker /\ UNCHANGED <<line, sleep, lag>>
            /\ \/ pc[c] = "s_worker" /\ pc'[c] = "s_check"
               \/ pc[c] = "r_worker" /\ pc'[c] = "d_worker"
               \/ pc[c] = "d_worker" /\ pc'[c] = "d_read"
        BY <1>0, <1>1, <2>1, <3>1 DEF SendWorker, RecvWorker, DataWorker
      <4>2. AllOriginal' /\ Scene(line, c, pc[c])'
        BY <1>5, <4>1, ScriptWorker
      <4>3. QED
        BY <4>1, <4>2
    <3>2. CASE SendCheck(c) \/ SendErr(c) \/ DataRead(c) \/ (DataChecker(c) /\ ~Returns(c))
      <4>1. pc'[c] # "client"
        BY <1>0, <1>1, <3>2 DEF SendCheck, SendErr, DataRead, Returns
      <4>2. UNCHANGED <<line, sleep, lag>>
        <5>1. CASE SendCheck(c) \/ SendErr(c) \/ DataRead(c)
          BY <2>1, <5>1 DEF SendCheck, SendErr, DataRead
        <5>2. CASE DataChecker(c)
          BY <1>1, <2>1, <5>2 DEF DataChecker
        <5>3. QED
          BY <3>2, <5>1, <5>2
      <4>3. AllOriginal' /\ Scene(line, c, pc[c])'
        BY <1>5, <3>2, <4>1, <4>2, ScriptInCall
      <4>4. QED
        BY <4>1, <4>3
    <3>3. CASE SendPut(c, Original) \/ RecvTake(c)
      <4>1. RecvTake(c) => buf'[c] = recv_data[c]
        BY <1>0, <1>1, <2>1 DEF RecvTake, ClientsTypeOK
      <4>2. pc'[c] # "client"
        BY <1>0, <1>1, <3>3 DEF SendPut, Sleep, RecvTake
      <4>3. AllOriginal' /\ Scene(line, c, pc[c])'
        BY <1>5, <2>1, <3>3, <4>1, ScriptPacket
      <4>4. QED
        BY <4>2, <4>3
    <3>4. QED
      BY <2>1, <2>5, <3>1, <3>2, <3>3 DEF Inside
  <2>7. Caller' = c /\ ~failed'
    BY <1>4, <1>5, <2>1, <2>6
  <2>8. QED
    BY <2>6, <2>7
<1>8. QED
  BY <1>6, <1>7

\* The clocks of the radio and of the threads.
ClockTypes == sleep \in [ID -> Nat] /\ send_age \in [ID -> 0 .. TimeOnAir]

\* No step of the script leaves their types.
LEMMA ScriptClocks ==
  ASSUME ClockTypes, ScriptInside \/ ScriptReturns \/ ScriptCalls \/ ScriptGoesOn
  PROVE  ClockTypes'
<1>1. TimeOnAir \in Nat /\ ONE_SECOND \in Nat
  BY WlEnvAssumption DEF ONE_SECOND
<1>2. CASE ScriptInside \/ ScriptReturns
  <2>1. UNCHANGED send_age \/ send_age' = [send_age EXCEPT ![Now.id] = 0]
    <3>1. CASE ScriptInside
      BY <3>1 DEF ScriptInside, Inside, SendWorker, SendCheck, SendErr, SendWake, SendFlush, RecvWorker,
            DataWorker, DataRead, DataChecker, DataWake, SendPut, RecvTake, ShadowWorker, ShadowChecker, airVars
    <3>2. CASE ScriptReturns
      BY <3>2 DEF ScriptReturns, SendChecker, DataChecker, RecvChecker, RecvErr, ShadowChecker, airVars
    <3>3. QED
      BY <1>2, <3>1, <3>2
  <2>2. UNCHANGED sleep \/ \E t \in {1, TimeOnAir} : sleep' = [sleep EXCEPT ![Now.id] = t]
    <3>1. CASE ScriptInside
      BY <3>1 DEF ScriptInside, Inside, SendWorker, SendCheck, SendErr, SendWake, SendFlush, RecvWorker,
            DataWorker, DataRead, DataChecker, DataWake, SendPut, RecvTake, Sleep
    <3>2. CASE ScriptReturns
      BY <3>2 DEF ScriptReturns, SendChecker, DataChecker, RecvChecker, RecvErr, Sleep
    <3>3. QED
      BY <1>2, <3>1, <3>2
  <2>3. QED
    BY <1>1, <2>1, <2>2 DEF ClockTypes
<1>3. CASE ScriptCalls \/ ScriptGoesOn
  <2>1. UNCHANGED send_age /\ (UNCHANGED sleep \/ sleep' = [sleep EXCEPT ![0] = ONE_SECOND])
    BY <1>3 DEF ScriptCalls, ScriptGoesOn, SendCall, AvailCall, RecvCall, Call, EnvInit, Nap,
                vars, callVars, airVars
  <2>2. QED
    BY <1>1, <2>1 DEF ClockTypes
<1>4. QED
  BY <1>2, <1>3

\* A tick: what is on the air ages no faster than the thread is kept waiting.
LEMMA ScriptTick ==
  ASSUME IInv, program = "script", OnScript, ClientsTick
  PROVE  OnScript'
<1> USE DEF At
<1>1. /\ sleep \in [ID -> Nat] /\ send_age \in [ID -> 0 .. TimeOnAir] /\ lag \in [ID -> 0 .. MaxLag]
      /\ send_age' = [i \in ID |-> IF send_age[i] < TimeOnAir THEN send_age[i] + 1 ELSE TimeOnAir]
      /\ sleep' = [i \in ID |-> IF sleep[i] > 0 THEN sleep[i] - 1 ELSE 0]
      /\ UNCHANGED <<is_send, send_data, is_recieved, recv_data, err, pc, ready, program, at, buf, line,
                     failed, lost, broken>>
      /\ TimeOnAir \in Nat /\ 0 \in ID
  BY WlEnvAssumption DEF OnScript, IInv, ClientsTypeOK, ClientsTick, Tick, boxVars, clientVars, ID
<1>2. sleep' \in [ID -> Nat] /\ send_age' \in [ID -> 0 .. TimeOnAir]
  BY <1>1
<1>3. ~Ended(0)'
  BY <1>1 DEF OnScript, Ended
<1>4. ASSUME ~lost, ~broken, line <= Len(Script)
      PROVE  AllOriginal' /\ Scene(line, Caller, pc[Caller])'
  <2>1. AllOriginal'
    BY <1>1, <1>4 DEF OnScript, AllOriginal
  <2>2. /\ Caller' = Caller /\ pc'[Caller'] = pc[Caller]
        /\ Scene(line, Caller, pc[Caller])
    BY <1>1, <1>4 DEF OnScript, Caller
  <2>3. sleep[0] = 0 => lag'[0] = lag[0] + 1 /\ sleep'[0] = 0
    <3>1. sleep[0] = 0 => ~Rests(0)
      BY <1>4 DEF OnScript, Rests, Running
    <3>2. QED
      BY <1>1, <3>1 DEF ClientsTick
  <2>4. sleep[0] = 0 /\ Fresh => Fresh'
    BY <1>1, <1>2, <2>3 DEF Fresh
  <2>5. AllDue => AllDue'
    BY <1>1, <1>2 DEF AllDue
  <2>6. \A l : RadioAt(l) => RadioAt(l)'
    BY <1>1 DEF RadioAt
  <2>7. PICK l, c, p : l = line /\ c = Caller /\ p = pc[Caller]
    OBVIOUS
  <2>8. Scene(l, c, p)'
    <3>1. Scene(l, c, p)
      BY <2>2, <2>7
    <3>2. err' = err /\ ready' = ready /\ is_recieved' = is_recieved /\ buf' = buf
      BY <1>1
    <3>3. sleep[0] = 0 => sleep'[0] = 0
      BY <2>3
    <3>4. CASE p \in BeforeWorker
      BY <2>3, <2>4, <2>5, <2>6, <3>1, <3>2, <3>3, <3>4
         DEF Scene, BeforeWorker, AfterWorker, SendPC, DataPC, RecvPC
    <3>5. CASE p \notin BeforeWorker
      <4>1. sleep[0] = 0
        BY <3>1, <3>5 DEF Scene, BeforeWorker
      <4>2. QED
        BY <2>3, <2>4, <2>6, <3>1, <3>2, <3>5, <4>1
           DEF Scene, BeforeWorker, AfterWorker, SendPC, DataPC, RecvPC
    <3>6. QED
      BY <3>4, <3>5
  <2>9. l = line' /\ c = Caller' /\ p = pc'[Caller']
    BY <1>1, <2>2, <2>7
  <2>10. QED
    BY <2>1, <2>8, <2>9
<1>5. ~failed \/ lost \/ broken
  BY DEF OnScript
<1>6. QED
  BY <1>1, <1>2, <1>3, <1>4, <1>5 DEF OnScript

\* Before the first line.
LEMMA ScriptInit ==
  ASSUME ClientsInit, program = "script"
  PROVE  OnScript
<1> USE DEF At
<1>1. /\ \A i \in ID : /\ is_send[i] /\ ~is_recieved[i] /\ pc[i] = "client" /\ at[i] = "script"
                       /\ sleep[i] = 0 /\ send_age[i] = TimeOnAir
      /\ sleep = [i \in ID |-> 0] /\ send_age = [i \in ID |-> TimeOnAir]
      /\ err = 0 /\ line = 1 /\ ~failed /\ 0 \in ID /\ 1 \in ID
  BY DEF ClientsInit, Init, ID
<1>2. AllOriginal /\ Fresh
  BY <1>1 DEF AllOriginal, Fresh
<1>3. RadioAt(line) /\ err = Errors(line)
  BY <1>1 DEF RadioAt, Flies, Lies, Errors
<1>4. pc[Caller] = "client"
  BY <1>1 DEF Caller
<1>5. Scene(line, Caller, "client")
  BY <1>1, <1>2, <1>3 DEF Scene, BeforeWorker, AfterWorker, SendPC, DataPC, RecvPC, Ripe
<1>6. QED
  BY <1>1, <1>2, <1>4, <1>5, WlEnvAssumption DEF OnScript, Ended

\* The invariant of the script.  The other programs never call test_fail.
ScriptIInv ==
  /\ IInv
  /\ program = "script" => OnScript
  /\ program # "script" => ~failed

\* Every line of the script finds the radio as the lines before it left it.
THEOREM ScriptInvariance ==
  ASSUME ScriptPrompt
  PROVE  ClientsSpec => []ScriptIInv
<1>1. ClientsInit /\ IInv => ScriptIInv
  BY ScriptInit DEF ScriptIInv, ClientsInit
<1>2. ScriptIInv /\ IInv' /\ [ClientsNext]_allVars => ScriptIInv'
  <2>1. SUFFICES ASSUME ScriptIInv, IInv', [ClientsNext]_allVars PROVE ScriptIInv'
    OBVIOUS
  <2>2. CASE \E i \in ID : Plays(i) /\ History /\ UNCHANGED lag
    BY <2>1, <2>2 DEF ScriptIInv, Plays
  <2>3. CASE \/ (ScriptInside \/ ScriptReturns) /\ History /\ UNCHANGED lag
             \/ (ScriptCalls \/ ScriptGoesOn) /\ UNCHANGED lag
    <3>1. program = "script" /\ program' = "script" /\ at' = at
      BY <2>3 DEF ScriptInside, ScriptReturns, ScriptCalls, ScriptGoesOn, Running, clientVars
    <3>2. OnScript
      BY <2>1, <3>1 DEF ScriptIInv
    <3>3. ClockTypes' /\ ~Ended(0)'
      BY <2>3, <3>1, <3>2, ScriptClocks DEF OnScript, ClockTypes, Ended
    <3>4. ASSUME ~lost', ~broken'
          PROVE  /\ ~failed'
                 /\ line' <= Len(Script) => AllOriginal' /\ Scene(line, Caller, pc[Caller])'
      BY <2>1, <2>3, <3>1, <3>2, <3>4, ScriptStep, ScriptOutside DEF ScriptIInv
    <3>5. OnScript'
      BY <3>3, <3>4 DEF OnScript, ClockTypes
    <3>6. QED
      BY <2>1, <3>1, <3>5 DEF ScriptIInv
  <2>4. CASE ClientsTick
    <3>1. program' = program /\ failed' = failed
      BY <2>4 DEF ClientsTick, clientVars
    <3>2. QED
      BY <2>1, <2>4, <3>1, ScriptTick DEF ScriptIInv
  <2>5. CASE UNCHANGED allVars
    BY <2>1, <2>5
       DEF ScriptIInv, OnScript, AllOriginal, Scene, RadioAt, Fresh, AllDue, Caller, Ended, At,
           allVars, vars, airVars, boxVars, callVars, clientVars
  <2>6. QED
    BY <2>1, <2>2, <2>3, <2>4, <2>5 DEF ClientsNext
<1>3. QED
  BY <1>1, <1>2, Invariance, PTL DEF ClientsSpec

\* st-test-env-core.c passes unless the air loses or breaks a packet, when its
\* thread is never kept from running for a whole time on air.
THEOREM ScriptSucceeds ==
  ASSUME ScriptPrompt
  PROVE  ClientsSpec => []ScriptPasses
<1>1. ScriptIInv => ScriptPasses
  BY DEF ScriptIInv, OnScript, ScriptPasses
<1>2. QED
  BY <1>1, ScriptInvariance, PTL
=============================================================================
