------------------------------- MODULE Timeval -------------------------------
(***************************************************************************)
(* The two places that ask whether a time has passed, as they compute it,  *)
(* in seconds and microseconds: tt_timer_is_timeouted and                  *)
(* wl_shadow_worker_targ.  The other modules keep ages and compare them    *)
(* with one number; HeaderProofs says that this is the same.               *)
(***************************************************************************)
EXTENDS Integers

Million == 1000000

\* struct timeval as gettimeofday returns it, and the time it stands for.
Timeval == [sec : Nat, usec : 0 .. Million - 1]
Micros(t) == Million * t.sec + t.usec

\* timeradd and timercmp(., ., <=) of sys/time.h
timeradd(a, b) ==
  LET usec == a.usec + b.usec
  IN IF usec >= Million
     THEN [sec |-> a.sec + b.sec + 1, usec |-> usec - Million]
     ELSE [sec |-> a.sec + b.sec, usec |-> usec]

timercmpLE(a, b) == IF a.sec = b.sec THEN a.usec <= b.usec ELSE a.sec <= b.sec

\* tv_sec and tv_usec of an interval in milliseconds.
Interval(ms) == [sec |-> ms \div 1000, usec |-> (ms % 1000) * 1000]

\* Whether the interval that began at start is over at now.
Over(start, ms, now) == timercmpLE(timeradd(start, Interval(ms)), now)
==============================================================================
