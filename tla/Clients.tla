------------------------------- MODULE Clients -------------------------------
(***************************************************************************)
(* The test programs that use the radio directly, each with its own        *)
(* expectations:                                                           *)
(*   "poll"   mt-test-env-core.c: two threads pass one packet to and fro,  *)
(*            each asking in a loop whether it has come;                   *)
(*   "wait"   mt-test-env-core-w-timout.c: the same with timeouts, and a   *)
(*            thread whose packet does not come gives up;                  *)
(*   "script" st-test-env-core.c: one thread drives both devices.          *)
(***************************************************************************)
EXTENDS WlEnv, Sequences, FiniteSets

CONSTANTS
  Original,  \* send_data, with its checksum
  Mended,    \* a packet that came broken and was given a new checksum
  Blank,     \* zeros that were given a checksum
  Rounds,    \* bound: how often thread 0 gets the packet back, 100 in the code
  MaxLag     \* for how many ticks in a row a thread that does not sleep
             \* may be kept from running, where time matters

ASSUME ClientsAssumption ==
  /\ Payload = {Original, Mended, Blank}
  /\ Rounds \in Nat \ {0}
  /\ MaxLag \in Nat

TIMEOUTShort == TimeOnAir    \* mutant: the factor is missing
TIMEOUT == 5 * TimeOnAir
ONE_SECOND == 10 * TimeOnAir    \* the argument of sleep, with 100 ms on air

VARIABLES
  program,  \* which test runs
  at,       \* what thread i does next, or is doing in the library
  buf,      \* recv_data of thread i; NoData for zeros and for no contents yet
  round,    \* the i of thread 0's loop
  line,     \* how far the script has got
  failed,   \* test_fail was called by the script
  lost,     \* history: a packet vanished on the air
  broken,   \* history: a packet was garbled on the air
  lag       \* for how many ticks each thread has been kept from running

clientVars == <<program, at, buf, round, line, failed>>
allVars == <<vars, clientVars, lost, broken, lag>>

-----------------------------------------------------------------------------
(* The two threads of "poll" and "wait". *)

Waits == IF program = "poll" THEN "look" ELSE "receive"
Becomes(i, a) == at' = [at EXCEPT ![i] = a]

SendTimeout(i) == IF program = "wait" /\ at[i] # "serve" THEN TIMEOUT ELSE 0
RecvTimeout(i) == IF program = "poll" THEN 0 ELSE IF i = 0 THEN TIMEOUT ELSE 10 * TIMEOUT

\* sleep(1)
Nap ==
  /\ sleep' = [sleep EXCEPT ![0] = ONE_SECOND]
  /\ UNCHANGED <<airVars, boxVars, err, op, pc, timeout, time_sleep, ready, warned, unreported>>

\* Thread 0 of "wait" lets the other one start first.
Naps(i) == at[i] = "nap" /\ Nap /\ Becomes(i, "serve") /\ UNCHANGED <<buf, round>>

\* The next call.  Thread 0 clears its buffer before it receives.
Starts(i) ==
  /\ \/ /\ at[i] \in {"serve", "back"} /\ sleep[i] = 0
        /\ SendCall(i, SendTimeout(i))
        /\ UNCHANGED buf
     \/ /\ at[i] = "look"
        /\ AvailCall(i, 0)
        /\ UNCHANGED buf
     \/ /\ at[i] = "receive"
        /\ RecvCall(i, RecvTimeout(i))
        /\ buf' = IF i = 0 THEN [buf EXCEPT ![0] = NoData] ELSE buf
  /\ UNCHANGED <<at, round>>

\* Mutant: the answer is not looked at.
LooksAnyway(i) ==
  /\ at[i] = "look" /\ DataChecker(i) /\ Returns(i)
  /\ Becomes(i, "receive")
  /\ UNCHANGED <<buf, round>>

\* while (!wl_availableData(id, 0)) usleep(1000)
Looks(i) ==
  /\ at[i] = "look" /\ DataChecker(i) /\ Returns(i)
  /\ Becomes(i, IF ready[i] THEN "receive" ELSE "look")
  /\ UNCHANGED <<buf, round>>

Fills(i) ==
  /\ at[i] = "receive" /\ RecvTake(i)
  /\ buf' = [buf EXCEPT ![i] = recv_data[i]]
  /\ UNCHANGED <<at, round>>

\* Thread 0 sets a new checksum if the old one does not fit; the flips may
\* have hit nothing that is sent, or undone each other.
Checked(i, c) ==
  IF i = 1 THEN {c}
  ELSE CASE c = Garbled -> {Mended, Original}
         [] c = NoData -> {Blank}
         [] OTHER -> {c}

\* wl_receivePacketTimeout is back.  Without a timeout, whether it failed is
\* not looked at.
Receives(i) ==
  /\ at[i] = "receive"
  /\ RecvChecker(i) \/ RecvErr(i)
  /\ \E c \in Checked(i, buf[i]) : buf' = [buf EXCEPT ![i] = c]
  /\ Becomes(i, "back")
  /\ UNCHANGED round

\* With a timeout it is: the thread returns.
GivesUp(i) ==
  /\ at[i] = "receive" /\ DataWake(i) /\ Returns(i)
  /\ Becomes(i, "gave_up")
  /\ UNCHANGED <<buf, round>>

\* Mutant: thread 1 clears its buffer before it sends it back.
PutsCleared(i) ==
  /\ at[i] \in {"serve", "back"}
  /\ SendPut(i, IF at[i] = "serve" THEN Original ELSE IF i = 1 THEN NoData ELSE buf[i])
  /\ UNCHANGED <<at, buf, round>>

Puts(i) ==
  /\ at[i] \in {"serve", "back"}
  /\ SendPut(i, IF at[i] = "serve" THEN Original ELSE buf[i])
  /\ UNCHANGED <<at, buf, round>>

\* Mutant: one round too many.
EndOfLoopLate(i) == i > Rounds
EndOfLoop(i) == i = Rounds

\* Thread 0 counts its rounds, thread 1 clears its buffer and goes on for ever.
SendsBack(i) ==
  /\ SendChecker(i)
  /\ \/ /\ i = 0 /\ at[i] = "serve"
        /\ Becomes(i, Waits)
        /\ UNCHANGED <<buf, round>>
     \/ /\ i = 0 /\ at[i] = "back"
        /\ round' = round + 1
        /\ Becomes(i, IF EndOfLoop(round') THEN "finished" ELSE Waits)
        /\ UNCHANGED buf
     \/ /\ i = 1 /\ at[i] = "back"
        /\ buf' = [buf EXCEPT ![1] = NoData]
        /\ Becomes(i, Waits)
        /\ UNCHANGED round

Plays(i) ==
  /\ program # "script"
  /\ \/ Naps(i) \/ Starts(i) \/ Looks(i) \/ Fills(i) \/ Receives(i)
     \/ GivesUp(i) \/ Puts(i) \/ SendsBack(i)
     \/ Inside(i) /\ UNCHANGED <<at, buf, round>>
  /\ UNCHANGED <<program, line, failed>>

-----------------------------------------------------------------------------
(* The one thread of "script".  It has both devices to itself, and sleeps in *)
(* the place of thread 0.                                                    *)

SendFrom(i) == [do |-> "send", id |-> i]
RecvAt(i) == [do |-> "recv", id |-> i]
Expect(i, yes) == [do |-> "avail", id |-> i, expected |-> yes]
EnvReset == [do |-> "init"]
SleepOn == [do |-> "sleep"]
ExpectErr(yes) == [do |-> "err", expected |-> yes]

Script ==
  \* valid test
  <<SendFrom(0), Expect(1, FALSE), SleepOn, Expect(1, TRUE), RecvAt(1),
    SendFrom(1), Expect(0, FALSE), SleepOn, Expect(0, TRUE), RecvAt(0), ExpectErr(FALSE)>>
  \* send before previuous send is ready
  \o <<EnvReset, SendFrom(0), SendFrom(0), ExpectErr(TRUE)>>
  \* both transceivers send simultaneously
  \o <<EnvReset, SendFrom(0), SendFrom(1), ExpectErr(TRUE)>>
  \* send again before previuous data was read
  \o <<EnvReset, SendFrom(0), SleepOn, SendFrom(0), SleepOn, SendFrom(0), ExpectErr(TRUE)>>

Running == program = "script" /\ line <= Len(Script)
Now == Script[line]
InLibrary == \E i \in ID : ~At(i, "client")
Done(ok) == line' = line + 1 /\ failed' = (failed \/ ~ok)

ScriptCalls ==
  /\ Running /\ ~InLibrary /\ sleep[0] = 0
  /\ \/ Now.do = "send" /\ SendCall(Now.id, 0)
     \/ Now.do = "recv" /\ RecvCall(Now.id, 0)
     \/ Now.do = "avail" /\ AvailCall(Now.id, 0)
  /\ UNCHANGED <<clientVars, lost, broken>>

\* Every wl_emul_env_init is followed by err_prev = wl_get_err_count(), 0.
ScriptGoesOn ==
  /\ Running /\ ~InLibrary /\ sleep[0] = 0
  /\ \/ Now.do = "init" /\ EnvInit /\ Done(TRUE)
     \/ Now.do = "err" /\ Done((err > 0) = Now.expected) /\ UNCHANGED vars
     \/ Now.do = "sleep" /\ Nap /\ Done(TRUE)
  /\ UNCHANGED <<program, at, buf, round, lost, broken>>

\* A call goes on, or returns and its result is compared.
ScriptInside ==
  /\ Running /\ InLibrary
  /\ \/ Inside(Now.id) \/ SendPut(Now.id, Original)
     \/ RecvTake(Now.id)
  /\ buf' = IF At(Now.id, "r_take") THEN [buf EXCEPT ![Now.id] = recv_data[Now.id]] ELSE buf
  /\ UNCHANGED <<program, at, round, line, failed>>

ScriptReturns ==
  /\ Running /\ InLibrary
  /\ \/ SendChecker(Now.id) /\ Done(TRUE)
     \/ Now.do = "avail" /\ DataChecker(Now.id) /\ Done(ready[Now.id] = Now.expected)
     \/ RecvChecker(Now.id) /\ Done(buf[Now.id] = Original)
     \/ RecvErr(Now.id) /\ Done(FALSE)
  /\ UNCHANGED <<program, at, buf, round>>

-----------------------------------------------------------------------------
\* wl_emul_env_init has run.
ClientsInit ==
  /\ Init
  /\ program \in {"poll", "wait", "script"}
  /\ at = [i \in ID |-> CASE program = "script" -> "script"
                         [] program # "script" /\ i = 1 -> Waits
                         [] program = "poll" /\ i = 0 -> "serve"
                         [] program = "wait" /\ i = 0 -> "nap"]
  /\ buf = [i \in ID |-> NoData]
  /\ round = 0 /\ line = 1 /\ failed = FALSE
  /\ lost = FALSE /\ broken = FALSE
  /\ lag = [i \in ID |-> 0]

\* What the worker of a library step did to the packets on the air.  One that
\* is lost on its way to a full box shows by the error it does not cause.
Leaves(src) == ~is_send[src] /\ is_send'[src]
Vanishes(src) ==
  /\ Leaves(src)
  /\ is_recieved[Peer(src)] = is_recieved'[Peer(src)]
  /\ is_recieved[Peer(src)] => err' = err
History ==
  /\ lost' = (lost \/ \E src \in ID : Vanishes(src))
  /\ broken' = (broken \/ \E src \in ID : Leaves(src) /\ send_data'[src] = Garbled)

Ended(i) == at[i] \in {"finished", "gave_up"}

\* Threads that need not run before time passes.  "poll" has no timeouts.
Rests(i) ==
  \/ sleep[i] > 0 \/ Ended(i) \/ program = "poll"
  \/ program = "script" /\ (i = 1 \/ ~Running)

ClientsTick ==
  /\ \A i \in ID : Rests(i) \/ lag[i] < MaxLag
  /\ Tick
  /\ lag' = [i \in ID |-> IF Rests(i) THEN 0 ELSE lag[i] + 1]
  /\ UNCHANGED <<clientVars, lost, broken>>

ClientsNext ==
  \/ \E i \in ID : Plays(i) /\ History /\ UNCHANGED lag
  \/ (ScriptInside \/ ScriptReturns) /\ History /\ UNCHANGED lag
  \/ (ScriptCalls \/ ScriptGoesOn) /\ UNCHANGED lag
  \/ ClientsTick

ClientsSpec == ClientsInit /\ [][ClientsNext]_allVars

\* The threads are scheduled and the clock runs.
ClientsFairness ==
  /\ \A i \in ID : WF_allVars(Plays(i) /\ History /\ UNCHANGED lag)
  /\ WF_allVars((ScriptInside \/ ScriptReturns) /\ History /\ UNCHANGED lag)
  /\ WF_allVars((ScriptCalls \/ ScriptGoesOn) /\ UNCHANGED lag)
  /\ WF_allVars(ClientsTick)

ClientsFairSpec == ClientsSpec /\ ClientsFairness

-----------------------------------------------------------------------------
(* Properties. *)

ClientsTypeOK ==
  /\ program \in {"poll", "wait", "script"}
  /\ at \in [ID -> {"nap", "serve", "look", "receive", "back", "finished", "gave_up", "script"}]
  /\ buf \in [ID -> Contents]
  /\ round \in 0 .. Rounds
  /\ line \in 1 .. Len(Script) + 1
  /\ {failed, lost, broken} \subseteq BOOLEAN
  /\ lag \in [ID -> 0 .. MaxLag]

\* Thread i has the packet: from wl_pack_copy out of the radio to the one back.
Holds(i) ==
  \/ at[i] = "receive" /\ At(i, "r_checker")
  \/ at[i] \in {"nap", "serve", "back"} /\ pc[i] \in {"client", "s_worker", "s_check", "s_err", "s_put"}

\* There is always exactly one packet, on the air, in a box or with a thread,
\* and none once it was lost: neither thread ever sends one it did not receive,
\* although mt-test-env-core.c ignores what wl_receivePacketTimeout returns.
OneBall ==
  program # "script" =>
    Cardinality({i \in ID : ~is_send[i]}) + Cardinality({i \in ID : is_recieved[i]})
      + Cardinality({i \in ID : Holds(i)}) = One(~lost)

\* "result err number" stays 0: the two threads never send at once, overwrite
\* a packet, or read without one.
RallyErrorFree == program # "script" => err = 0

\* What is on the air is what was served, unless noise broke it on an earlier
\* flight; thread 0 never sends a checksum that does not fit, and neither sends
\* zeros.
SendsWhatCame ==
  program # "script" => \A i \in ID : ~is_send[i] =>
    send_data[i] \in {Original} \cup (IF broken THEN {Mended} ELSE {})
                                \cup (IF broken /\ i = 1 THEN {Garbled} ELSE {})

\* The timeouts of mt-test-env-core-w-timout.c are long enough: thread 0 only
\* gives up when the packet was lost, thread 1 also when thread 0 has ended.
GivesUpForAReason ==
  /\ at[0] = "gave_up" => lost
  /\ at[1] = "gave_up" => lost \/ at[0] = "finished"

\* st-test-env-core.c passes on an air that neither loses nor breaks packets,
\* wherever the clock ticks in between.
ScriptPasses == failed => lost \/ broken

\* The programs end, except that a lost packet leaves the threads of
\* mt-test-env-core.c polling for ever, and its thread 1 never ends.
TestsEnd ==
  /\ program = "poll" ~> at[0] = "finished" \/ lost
  /\ program = "wait" ~> Ended(0) /\ Ended(1)
  /\ program = "script" ~> ~Running
=============================================================================
