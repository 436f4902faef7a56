------------------------------- MODULE WlEnv -------------------------------
(***************************************************************************)
(* The radio emulator of env-core.c: two transceivers behind one spinlock, *)
(* used by one client thread each.  Everything between a spin_lock and its *)
(* spin_unlock is one step; reads made without the lock are steps of their *)
(* own.  There is no background thread: a packet leaves the air only when  *)
(* some client's call happens to run wl_shadow_worker.                     *)
(*                                                                         *)
(* Time is counted in CONFIG_WL_SLEEP_GRANULARITY units.  send_time is     *)
(* kept as an age (time since), saturated at TimeOnAir where it no longer  *)
(* tells anything apart, so no bound on the clock is needed.               *)
(***************************************************************************)
EXTENDS Integers

CONSTANTS
  Payload,    \* contents a client hands to wl_sendPacketTimeout
  Garbled,    \* any packet that had bits flipped while it was sent
  NoData,     \* what the buffers hold before the first packet
  TimeOnAir,  \* CONFIG_WL_STD_TIME_ON_AIR_MS
  Timeouts,   \* the timeouts clients pass, 0 among them for "do not wait"
  Loses,      \* CONFIG_WL_LOSE_PACKETS
  Breaks,     \* CONFIG_WL_ERR_DATA
  ErrMod      \* devs.err counts modulo ErrMod (2^32 in the code)

ASSUME WlEnvAssumption ==
  /\ TimeOnAir \in Nat \ {0}
  /\ Timeouts \subseteq Nat
  /\ Loses \in BOOLEAN
  /\ Breaks \in BOOLEAN
  /\ ErrMod \in Nat \ {0}
  /\ Garbled \notin Payload
  /\ NoData \notin Payload \cup {Garbled}

ID == {0, 1}                        \* enum conn_id: ID_0 and ID_1
Peer(i) == 1 - i
Contents == Payload \cup {Garbled, NoData}

VARIABLES
  is_send,      \* output_buff.is_send: nothing of this device is on the air
  send_age,     \* time since output_buff.send_time, at most TimeOnAir
  send_data,    \* output_buff.send_data
  is_recieved,  \* input_buff.is_recieved: an unread packet waits
  recv_data,    \* input_buff.recv_data
  err,          \* devs.err
  op,           \* the library call thread i is in, "none" in client code
  pc,           \* where in that call it is
  timeout,      \* the call's timeout argument
  time_sleep,   \* wl_availableData's time_sleep
  sleep,        \* what is left of a nanosleep
  ready,        \* wl_is_data's last answer, until the packet is taken
  warned,       \* history: this send already counted its busy transmitter
  unreported    \* history: a collision that no channel check has seen

airVars  == <<is_send, send_age, send_data>>
boxVars  == <<is_recieved, recv_data>>
callVars == <<op, pc, timeout, time_sleep, sleep, ready, warned>>
vars == <<airVars, boxVars, err, callVars, unreported>>

SendPC == {"s_worker", "s_check", "s_err", "s_put", "s_sleep", "s_flush", "s_checker"}
DataPC == {"d_worker", "d_read", "d_checker", "d_sleep"}
RecvPC == {"r_worker", "r_err", "r_take", "r_checker"}
PC == {"client"} \cup SendPC \cup DataPC \cup RecvPC

\* The types, and the bound of wl_availableData's loop: the time it has slept
\* stays below the timeout it was given.
TypeOK ==
  /\ is_send \in [ID -> BOOLEAN]
  /\ send_age \in [ID -> 0 .. TimeOnAir]
  /\ send_data \in [ID -> Contents]
  /\ is_recieved \in [ID -> BOOLEAN]
  /\ recv_data \in [ID -> Contents]
  /\ err \in 0 .. ErrMod - 1
  /\ op \in [ID -> {"none", "send", "avail", "recv"}]
  /\ pc \in [ID -> PC]
  /\ timeout \in [ID -> Timeouts \cup {0}]
  /\ time_sleep \in [ID -> Nat]
  /\ \A i \in ID : time_sleep[i] = 0 \/ time_sleep[i] < timeout[i]
  /\ sleep \in [ID -> 0 .. TimeOnAir]
  /\ ready \in [ID -> BOOLEAN]
  /\ warned \in [ID -> BOOLEAN]
  /\ unreported \in BOOLEAN

Init ==
  /\ is_send = [i \in ID |-> TRUE]
  /\ send_age = [i \in ID |-> TimeOnAir]
  /\ send_data = [i \in ID |-> NoData]
  /\ is_recieved = [i \in ID |-> FALSE]
  /\ recv_data = [i \in ID |-> NoData]
  /\ err = 0
  /\ op = [i \in ID |-> "none"]
  /\ pc = [i \in ID |-> "client"]
  /\ timeout = [i \in ID |-> 0]
  /\ time_sleep = [i \in ID |-> 0]
  /\ sleep = [i \in ID |-> 0]
  /\ ready = [i \in ID |-> FALSE]
  /\ warned = [i \in ID |-> FALSE]
  /\ unreported = FALSE

-----------------------------------------------------------------------------
(* The critical sections. *)

One(b) == IF b THEN 1 ELSE 0
Count(n) == err' = (err + n) % ErrMod

\* wl_is_packet_lost and wl_pack_break: what the air does to a packet.
Fates == {"clean"} \cup (IF Loses THEN {"lost"} ELSE {})
                   \cup (IF Breaks THEN {"broken"} ELSE {})

Due(src) == ~is_send[src] /\ send_age[src] = TimeOnAir

\* The packet of src survives the air; it then lands or finds the box full.
Heard(src, fate) == Due(src) /\ fate[src] # "lost"
LandsOnFullBox(src, fate) == Heard(src, fate)      \* mutant: no is_recieved test
Lands(src, fate) == Heard(src, fate) /\ ~is_recieved[Peer(src)]
Overflows(src, fate) == Heard(src, fate) /\ is_recieved[Peer(src)]
OnAir(src, fate) == IF fate[src] = "broken" THEN Garbled ELSE send_data[src]

BothSending(sent) == \A i \in ID : ~sent[i]

\* wl_shadow_worker_targ for both directions (they touch disjoint buffers),
\* then wl_shadow_worker_chanel_check, all under one lock.
ShadowWorker ==
  \E fate \in [ID -> Fates] :
    /\ is_send' = [i \in ID |-> is_send[i] \/ Due(i)]
    /\ send_data' = [i \in ID |-> IF Heard(i, fate) THEN OnAir(i, fate) ELSE send_data[i]]
    /\ is_recieved' = [i \in ID |-> is_recieved[i] \/ Lands(Peer(i), fate)]
    /\ recv_data' = [i \in ID |-> IF Lands(Peer(i), fate)
                                  THEN OnAir(Peer(i), fate) ELSE recv_data[i]]
    /\ Count(One(Overflows(0, fate)) + One(Overflows(1, fate)) + One(BothSending(is_send')))
    /\ unreported' = (unreported /\ ~BothSending(is_send'))
    /\ UNCHANGED send_age

\* wl_shadow_checker: wl_shadow_worker_chanel_check under the lock.
ShadowChecker ==
  /\ Count(One(BothSending(is_send)))
  /\ unreported' = (unreported /\ ~BothSending(is_send))
  /\ UNCHANGED <<airVars, boxVars>>

-----------------------------------------------------------------------------
(* Control inside a call. *)

At(i, l) == pc[i] = l
Goto(i, l) == pc' = [pc EXCEPT ![i] = l]
Call(i, o, l, t) ==
  /\ At(i, "client")
  /\ op' = [op EXCEPT ![i] = o]
  /\ timeout' = [timeout EXCEPT ![i] = t]
  /\ Goto(i, l)
  /\ UNCHANGED <<airVars, boxVars, err, time_sleep, sleep, ready, warned, unreported>>
Return(i) ==
  /\ op' = [op EXCEPT ![i] = "none"]
  /\ timeout' = [timeout EXCEPT ![i] = 0]
  /\ Goto(i, "client")

Sleep(i, l, t) == Goto(i, l) /\ sleep' = [sleep EXCEPT ![i] = t]

(* wl_sendPacketTimeout. *)

SendCall(i, t) == Call(i, "send", "s_worker", t)

SendWorker(i) ==
  /\ At(i, "s_worker") /\ ShadowWorker /\ Goto(i, "s_check")
  /\ UNCHANGED <<op, timeout, time_sleep, sleep, ready, warned>>

\* Mutant: looks at the other device's buffer.
SendCheckPeer(i) ==
  /\ At(i, "s_check")
  /\ Goto(i, IF is_send[Peer(i)] THEN "s_put" ELSE "s_err")
  /\ UNCHANGED <<airVars, boxVars, err, op, timeout, time_sleep, sleep, ready, warned, unreported>>

\* is_send is read here without the lock.
SendCheck(i) ==
  /\ At(i, "s_check")
  /\ Goto(i, IF is_send[i] THEN "s_put" ELSE "s_err")
  /\ UNCHANGED <<airVars, boxVars, err, op, timeout, time_sleep, sleep, ready, warned, unreported>>

SendErr(i) ==
  /\ At(i, "s_err") /\ Count(1) /\ Goto(i, "s_put")
  /\ warned' = [warned EXCEPT ![i] = TRUE]
  /\ UNCHANGED <<airVars, boxVars, op, timeout, time_sleep, sleep, ready, unreported>>

SendPut(i, p) ==
  /\ At(i, "s_put")
  /\ is_send' = [is_send EXCEPT ![i] = FALSE]
  /\ send_age' = [send_age EXCEPT ![i] = 0]
  /\ send_data' = [send_data EXCEPT ![i] = p]
  /\ unreported' = (unreported \/ ~is_send[Peer(i)])
  /\ warned' = [warned EXCEPT ![i] = FALSE]
  /\ IF timeout[i] > 0 THEN Sleep(i, "s_sleep", TimeOnAir)
                       ELSE Goto(i, "s_checker") /\ UNCHANGED sleep
  /\ UNCHANGED <<boxVars, err, op, timeout, time_sleep, ready>>

\* Mutant: no worker after the sleep.
SendWakeNoFlush(i) ==
  /\ At(i, "s_sleep") /\ sleep[i] = 0 /\ Goto(i, "s_checker")
  /\ UNCHANGED <<airVars, boxVars, err, op, timeout, time_sleep, sleep, ready, warned, unreported>>

SendWake(i) ==
  /\ At(i, "s_sleep") /\ sleep[i] = 0 /\ Goto(i, "s_flush")
  /\ UNCHANGED <<airVars, boxVars, err, op, timeout, time_sleep, sleep, ready, warned, unreported>>

SendFlush(i) ==
  /\ At(i, "s_flush") /\ ShadowWorker /\ Goto(i, "s_checker")
  /\ UNCHANGED <<op, timeout, time_sleep, sleep, ready, warned>>

SendChecker(i) ==
  /\ At(i, "s_checker") /\ ShadowChecker /\ Return(i)
  /\ UNCHANGED <<time_sleep, sleep, ready, warned>>

-----------------------------------------------------------------------------
(* wl_availableData, and wl_receivePacketTimeout which is built on it. *)

AvailCall(i, t) == Call(i, "avail", "d_worker", t)
RecvCall(i, t) == Call(i, "recv", "r_worker", t)

RecvWorker(i) ==
  /\ At(i, "r_worker") /\ ShadowWorker /\ Goto(i, "d_worker")
  /\ UNCHANGED <<op, timeout, time_sleep, sleep, ready, warned>>

DataWorker(i) ==
  /\ At(i, "d_worker") /\ ShadowWorker /\ Goto(i, "d_read")
  /\ UNCHANGED <<op, timeout, time_sleep, sleep, ready, warned>>

DataRead(i) ==
  /\ At(i, "d_read") /\ Goto(i, "d_checker")
  /\ ready' = [ready EXCEPT ![i] = is_recieved[i]]
  /\ UNCHANGED <<airVars, boxVars, err, op, timeout, time_sleep, sleep, warned, unreported>>

\* wl_availableData hands its answer to whoever called it.
DataReturn(i) ==
  /\ time_sleep' = [time_sleep EXCEPT ![i] = 0]
  /\ \/ /\ op[i] = "avail"
        /\ Return(i)
     \/ /\ op[i] = "recv" /\ ready[i]
        /\ Goto(i, "r_take")
        /\ UNCHANGED <<op, timeout>>
     \/ /\ op[i] = "recv" /\ ~ready[i] /\ timeout[i] = 0
        /\ Goto(i, "r_err")
        /\ UNCHANGED <<op, timeout>>
     \/ /\ op[i] = "recv" /\ ~ready[i] /\ timeout[i] > 0
        /\ Return(i)

\* The end of wl_is_data, and what the loop does with its answer.
DataChecker(i) ==
  /\ At(i, "d_checker") /\ ShadowChecker
  /\ IF ready[i] \/ timeout[i] = 0
     THEN DataReturn(i) /\ UNCHANGED sleep
     ELSE Sleep(i, "d_sleep", 1) /\ UNCHANGED <<op, timeout, time_sleep>>
  /\ UNCHANGED <<ready, warned>>

\* Mutants: one turn of the loop too many; time_sleep is not advanced.
DataWakeTooLong(i) ==
  /\ At(i, "d_sleep") /\ sleep[i] = 0
  /\ IF timeout[i] >= time_sleep[i] + 1
     THEN /\ time_sleep' = [time_sleep EXCEPT ![i] = @ + 1]
          /\ Goto(i, "d_worker")
          /\ UNCHANGED <<op, timeout>>
     ELSE DataReturn(i)
  /\ UNCHANGED <<airVars, boxVars, err, sleep, ready, warned, unreported>>
DataWakeForever(i) ==
  /\ At(i, "d_sleep") /\ sleep[i] = 0
  /\ IF timeout[i] > time_sleep[i]
     THEN Goto(i, "d_worker") /\ UNCHANGED <<op, timeout, time_sleep>>
     ELSE DataReturn(i)
  /\ UNCHANGED <<airVars, boxVars, err, sleep, ready, warned, unreported>>

\* Note that the loop does not look again after its last sleep.
DataWake(i) ==
  /\ At(i, "d_sleep") /\ sleep[i] = 0
  /\ IF timeout[i] > time_sleep[i] + 1
     THEN /\ time_sleep' = [time_sleep EXCEPT ![i] = @ + 1]
          /\ Goto(i, "d_worker")
          /\ UNCHANGED <<op, timeout>>
     ELSE DataReturn(i)
  /\ UNCHANGED <<airVars, boxVars, err, sleep, ready, warned, unreported>>

RecvErr(i) ==
  /\ At(i, "r_err") /\ Count(1) /\ Return(i)
  /\ UNCHANGED <<airVars, boxVars, time_sleep, sleep, ready, warned, unreported>>

\* Mutant: frees the other device's buffer.
RecvTakePeer(i) ==
  /\ At(i, "r_take") /\ Goto(i, "r_checker")
  /\ is_recieved' = [is_recieved EXCEPT ![Peer(i)] = FALSE]
  /\ ready' = [ready EXCEPT ![i] = FALSE]
  /\ UNCHANGED <<airVars, recv_data, err, op, timeout, time_sleep, sleep, warned, unreported>>

\* The caller's buffer receives recv_data[i] in this step.
RecvTake(i) ==
  /\ At(i, "r_take") /\ Goto(i, "r_checker")
  /\ is_recieved' = [is_recieved EXCEPT ![i] = FALSE]
  /\ ready' = [ready EXCEPT ![i] = FALSE]
  /\ UNCHANGED <<airVars, recv_data, err, op, timeout, time_sleep, sleep, warned, unreported>>

RecvChecker(i) ==
  /\ At(i, "r_checker") /\ ShadowChecker /\ Return(i)
  /\ UNCHANGED <<time_sleep, sleep, ready, warned>>

-----------------------------------------------------------------------------
(* The clock: a tick may fall between any two steps of any thread. *)
Tick ==
  /\ send_age' = [i \in ID |-> IF send_age[i] < TimeOnAir THEN send_age[i] + 1 ELSE TimeOnAir]
  /\ sleep' = [i \in ID |-> IF sleep[i] > 0 THEN sleep[i] - 1 ELSE 0]
  /\ UNCHANGED <<is_send, send_data, boxVars, err, op, pc, timeout, time_sleep, ready, warned,
                 unreported>>

\* wl_emul_env_init, run again between uses of the library: the flags and the
\* statistics are reset, times and data keep what they held.
EnvInit ==
  /\ \A i \in ID : At(i, "client")
  /\ is_send' = [i \in ID |-> TRUE]
  /\ is_recieved' = [i \in ID |-> FALSE]
  /\ err' = 0
  /\ ready' = [i \in ID |-> FALSE]
  /\ unreported' = FALSE
  /\ UNCHANGED <<send_age, send_data, recv_data, op, pc, timeout, time_sleep, sleep, warned>>

\* The steps of thread i inside the library; p is what its buffer holds.
LibStep(i, p) ==
  \/ SendWorker(i) \/ SendCheck(i) \/ SendErr(i) \/ SendPut(i, p)
  \/ SendWake(i) \/ SendFlush(i) \/ SendChecker(i)
  \/ RecvWorker(i) \/ DataWorker(i) \/ DataRead(i) \/ DataChecker(i) \/ DataWake(i)
  \/ RecvErr(i) \/ RecvTake(i) \/ RecvChecker(i)

\* For the modules that say what the clients do: the steps of a call that do not
\* return and take no data from or to the client, and a thread that sleeps.
Returns(i) == pc'[i] = "client"

Inside(i) ==
  \/ SendWorker(i) \/ SendCheck(i) \/ SendErr(i) \/ SendWake(i) \/ SendFlush(i)
  \/ RecvWorker(i) \/ DataWorker(i) \/ DataRead(i)
  \/ (DataChecker(i) \/ DataWake(i)) /\ ~Returns(i)

Asleep(i) == pc[i] \in {"s_sleep", "d_sleep"} /\ sleep[i] > 0

ClientCall(i) ==
  \E t \in Timeouts : SendCall(i, t) \/ AvailCall(i, t) \/ RecvCall(i, t)

Next ==
  \/ \E i \in ID : ClientCall(i)
  \/ \E i \in ID, p \in Payload : LibStep(i, p)
  \/ Tick
  \/ EnvInit

Spec == Init /\ [][Next]_vars

\* A thread inside the library is scheduled, and the clock runs.
Fairness ==
  /\ \A i \in ID : WF_vars(\E p \in Payload : LibStep(i, p))
  /\ WF_vars(Tick)

FairSpec == Spec /\ Fairness

-----------------------------------------------------------------------------
(* Properties. *)

\* The emulator implements the abstract radio: whatever the interleaving of
\* the two threads' critical sections, a packet is delivered at most once, to
\* the peer only, and never over an unread one.
R == INSTANCE Radio WITH
       Nothing <- NoData,
       air <- [i \in ID |-> IF is_send[i] THEN NoData ELSE send_data[i]],
       box <- [i \in ID |-> IF is_recieved[i] THEN recv_data[i] ELSE NoData]
ImplementsRadio == R!Spec

\* When a send that was asked to wait reaches its final channel check, its
\* packet is off the air, whichever thread's worker took it off: the time on
\* air slept in wl_sendPacketTimeout is enough for the worker that follows.
BlockingSendDone ==
  \A i \in ID : At(i, "s_checker") /\ timeout[i] > 0 => is_send[i]

\* Once wl_is_data has said yes, the packet is still there when it is taken,
\* although the lock was released in between and the peer kept sending.
AvailableStays == \A i \in ID : ready[i] \/ At(i, "r_take") => is_recieved[i]

\* The busy check of wl_sendPacketTimeout reads is_send without the lock; no
\* race makes it miss: a packet overwritten on the air was counted in err.
OverwriteCounted == \A i \in ID : At(i, "s_put") /\ ~is_send[i] => warned[i]

\* A collision has been counted by a channel check by the time both clients
\* are back from the library.
CollisionReported == (\A i \in ID : At(i, "client")) => ~unreported

\* Every library call returns.
CallReturns == \A i \in ID : ~At(i, "client") ~> At(i, "client")
=============================================================================
