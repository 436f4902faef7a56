# lora-wl-bridge-emul in TLA+

A verification development for the LoRa link emulator in `src/`: a software
radio with two transceivers (`env-core.c`) and a stop-and-wait link layer for a
master and a slave on top of it (`stack-comm.c`).

## The system

| Part | State | Operations | Talks to |
|---|---|---|---|
| Radio emulator, `env-core.c` | per device an output buffer (`send_time`, `send_data`, `is_send`) and an input buffer (`recv_data`, `is_recieved`); one error counter; one spinlock | `wl_sendPacketTimeout`, `wl_availableData`, `wl_receivePacketTimeout`, `wl_emul_env_init` | both clients' threads, the clock |
| Bit errors, `wl_pack_break` in `env-core.c` | the sent buffer, a random generator | one call per packet that is due | called under the lock by the shadow worker |
| Transmitter and MAC, `stack-comm.c` | two pools of ten packs, send and receive queues, resend list, two counters | `stk_mac_worker` | one radio call per turn |
| Master, `stk_m_comm_loop` | LLC state, transaction id, `llc_timer` | LLC worker, then MAC worker, for ever | slave, through the radio |
| Slave, `stk_s_comm_loop` | LLC state, transaction id | LLC worker, then MAC worker, for ever | master, through the radio |
| Timer, `timeout-timer-internal.c` | start time, interval | `tt_timer_start`, `tt_timer_is_timeouted` | wall clock |
| Lists, `list.h` | `next` and `prev` of each node, poison in a deleted one | `list_add_tail`, `list_del`, `list_move_tail`, ... | every queue and pool |
| Checksum and header, `stack-comm.c` | none | `stk_crc16`, header bit fields | MAC and LLC |
| Ping-pong tests, `mt-test-env-core.c` and `-w-timout.c` | two threads, a buffer each, a loop counter | send, ask, receive, nap | the radio |
| Sequential test, `st-test-env-core.c` | one thread, an error flag | a script of calls on both devices | the radio |
| Stack test, `mt-test-stk-v2.c` | - | starts both loops | master, slave |

The emulator has no thread of its own.  Every library call begins with
`wl_shadow_worker`, which delivers whatever packets of *both* devices have been
on the air long enough, and most end with `wl_shadow_checker`, which looks for a
collision.  Each of these is one critical section; a call is a sequence of them
with unlocked reads and sleeps in between.  A transmitter of the link layer is
private to its thread.

What is hard here: two threads delivering each other's packets; checks whose
result is used after the lock was released; one read without the lock; time
(a sleep of exactly the time on air, polling with a timeout, a resend timer that
races the answer, threads that the scheduler holds up); loss and corruption;
two-bit transaction ids; hand-made list surgery with assertions that only log.
The hazards are listed one by one, at their lines, in `PROJECT.json`.

What makes each part correct:

- radio: a packet is delivered at most once, to the peer, never over an unread
  one; a blocking send returns with its packet off the air; availability is
  stable until the packet is taken; overwriting a packet on the air is counted;
  calls return;
- noise: the number of reported errors is right for up to two, and any number of
  flips leaves a wrong bit in the buffer;
- checksum: the byte-wise loop divides by the polynomial; up to two flips, and any
  odd number of them, are noticed;
- transmitter: no pack is lost from the pools or in two places, queues hold at
  most one pack, what is sent has been built;
- lists: following the pointers meets the packs the stack believes to be there;
- timer: yes exactly when the interval has passed;
- link: each transaction is taken up by the slave exactly once and in order and
  ends only after that; the radio's error counter stays 0; every transaction ends;
- tests: one packet in play, no error of the radio, a thread gives up only if the
  packet is gone, the scripted expectations hold, the programs end.

## Modules

| Module | Models | Notes |
|---|---|---|
| `Radio` | what the emulator promises | abstract: `air`, `box` |
| `WlEnv` | `env-core.c` | one action per critical section, unlocked read or sleep; implements `Radio` |
| `PackBreak` | `wl_pack_break` and its draws | `WlEnv` keeps only clean / lost / broken |
| `Checksum` | building and testing the checksum around the noise | extends `PackBreak` |
| `Tsm` | `struct stl_transmiter`, pools, queues, MAC worker | extended by `Master` and `Slave` |
| `Master`, `Slave` | `stk_m_comm_loop`, `stk_s_comm_loop` | one action per way through the LLC switch |
| `ListHead` | `list.h`, the operations `stack-comm.c` uses | functions on memories |
| `TsmLists`, `MasterLists`, `SlaveLists` | the stack with its lists as they are in memory | `Tsm`, `Master`, `Slave` and the pointers in step |
| `Timeval` | arithmetic on `struct timeval` | the timer and the due test, field by field |
| `StopAndWait` | what the link promises | abstract: `master`, `slave`, `waiting`, `busy` |
| `Link` | `Master` + `Slave` + `WlEnv` | the program of `mt-test-stk-v2.c`; implements `StopAndWait` |
| `Clients` | the tests of the radio: `"poll"`, `"wait"`, `"script"` | extends `WlEnv` |
| `MCPackBreak`, `MCChecksum`, `MCLink`, `MCClients` | - | constants for TLC |
| `WlEnvProofs`, `ChecksumProofs`, `MasterProofs`, `SlaveProofs`, `ClientsProofs`, `LinkProofs` | - | theorems; `ChecksumProofs` has those about `PackBreak` too |
| `HeaderProofs` | - | theorems about `ListHead` and `Timeval` |
| `TsmProofs` | - | lemmas about packs on lists; the invariant master and slave share |

### WlEnv

The variables are the fields of `devs` under their own names, and for each
thread the call it is in (`op`), where in it (`pc`), its argument and its locals.
`ShadowWorker` is `wl_shadow_worker`: the two directions and the channel check
under one lock; the two directions touch disjoint buffers, so they are written
as one assignment per buffer.  The two clock readings it makes are taken to be
equal.  `SendCheck` is the read of `is_send` without the lock at
`env-core.c:332`.  `wl_receivePacketTimeout` calls `wl_availableData`, which is
why the `d_...` steps serve two calls and `DataReturn` sends each where it
belongs.

`send_time` is kept as an age that stops at `TimeOnAir`, because the code only
ever asks whether the time on air has passed; so the clock needs no bound.  `Tick`
may fall between any two steps, so a thread may be held up anywhere for any
time.  Sleeps and ages advance together: `nanosleep` and `gettimeofday` are
assumed to agree (a wall clock that is set back is not modelled).  `warned` and
`unreported` are history variables for two of the properties; no guard reads
them.

A run of `wl_pack_break` is one outcome, `Garbled`.  `Loses` and `Breaks` are the
build flags `CONFIG_WL_LOSE_PACKETS` and `CONFIG_WL_ERR_DATA`.

### Checksum

A packet is built, broken by `wl_pack_break` and tested.  The sender's and the
receiver's loop of `stk_crc16` run over the same bytes, one before and one after
the flips; they do not touch each other, so they go side by side, a byte per step
(`SumByte`).  Bytes and words are the sets of their one-bits: exclusive or is
symmetric difference, and a shift drops what leaves 16 bits.  `Division` is the
reference, the bit-by-bit division by x^16 + x^12 + x^5 + 1.  `TestPack` is the
comparison of the two bytes of the sum, as written and as they arrived; the byte
order is that of `union stk_pack_checksum` on a little-endian machine.

The noise goes on past the two flips for which the note in `wl_pack_break` answers:
`MaxFlips` is 4 in `checksum_noise`, with the third and the fourth flip drawn from
`LateDraws`, two bits of the payload.  So flips of one bit do cancel there, and three
bits are wrong at once.  `FlipsNeverCancel` is about the buffer: the bit behind the
packet counts, and a packet with that one alone is reported and arrives whole
(`break_border`).

### Tsm, Master, Slave

A pack is a number, its buffer a header (`data`): type and transaction id.  The
payload and the length are the same constants in every packet the stack sends.
Lists are sequences, with one exception the code forces: `list_add_tail` of a node
that is queued already makes the node its own neighbour, and `list_del` of such a
node poisons it while the head still leads to it.  `send_link` keeps track of
that, and a `list_del` of a poisoned node ends in `crashed`.

`mac_state` is written and never read, `retries_num` only printed: both left out.
`llc_send_owned` is left out because each pack put on it goes on to the resend
list before anything else happens; its counter is kept.  `pr_assert` only logs
(`cc-traceinfo.h:18`), so an assertion is a property here and never a guard, with
one exception: with an empty pool the getters would read a pack that is none, and
`MacReceive` and `SendSingle` ask for a non-empty one, so that TLC would report
a deadlock.

`HeardTypes` says which types of packets arrive with a good checksum.  The stack
itself only sends `SINGLE`; the other types arrive only if noise happens to
produce a good checksum, and the runs of the single loops allow for it.

### Lists

`ListHead` has the memory as a function from nodes to their two pointers and an
operation as its writes, in the order of the code.  Writing through a bad pointer
gives `Fault`.  In `TsmLists` each pack has two nodes, as in the code: `mac_node`,
which nothing ever initialises (its contents are taken to be poison: the code
never reads them before writing, and the run would show a fault if it did), and
`owner_node`.  Each function of
`stack-comm.c` is written out as the calls it makes, and `MasterLists` and
`SlaveLists` let it go in step with the action of `Master` or `Slave` that it
belongs to.  The nodes it works on are found by following pointers and never by
asking the sequences, so `PointersAgree` says that the sequences of `Tsm` - and
`send_link`, its account of a node that was queued twice - are right.

### Timeval

`WlEnv`, `Link` and `Master` keep ages and compare them with one number.  The code
splits the interval into seconds and microseconds, adds with a carry and compares
fields; `Timeval` has just that.

### Clients

The three programs that use the radio directly share the actions of `WlEnv`: a
program is chosen at the start, `at` says what a thread does next or is doing in
the library, and each step of a thread is a step of the library or its return
together with what the program then does.  In `"poll"` a thread asks for ever;
in `"wait"` it gives up when its timeout runs out; `"script"` is one thread that
drives both devices and compares every result, `Script` being the calls of the
test in their order.  `lost` and `broken` record what the air did and are read by
properties only; a packet that is lost on its way to a full box shows by the error
it does not cause.

As in `Link`, times are in halves of a time on air, and `lag` bounds how long a
thread that is not asleep may be kept from running.  The bound applies to `"wait"`
and `"script"`, whose expectations are about time; `"poll"` has no timeouts, and
its threads may be held up for ever.

### Link

`Master` and `Slave` are instantiated with variables of their own; `MasterMac` and
`SlaveMac` join each MAC step with the library call it makes, so a `MacSend`
begins a `SendCall`, the packet in the buffer is what `SendPut` copies, `RecvTake`
fills the buffer of the pack, and so on.  `lag` counts for how many ticks a thread
that does not rest has been kept from running, and `LinkTick` waits for a thread
that has reached `MaxLag`.  A thread rests when it sleeps in the library, and the
master's also in the `sleep(1)` before its loop (`Starting`), during which the clock
may run for as long as it likes and the slave listens to a silent air.  This puts
the first packet at any point of the slave's polling.

## Runs

| Run | Question | Bounds |
|---|---|---|
| `wl_safety` | types, `BlockingSendDone`, `AvailableStays`, `OverwriteCounted`; `WlEnv` implements `Radio` | one payload, which noise may break, `TimeOnAir` 1, timeouts 0 and 2, lossless, where `Radio` promises most |
| `wl_live` | every call returns | timeout 2, `TimeOnAir` 1, lossy |
| `wl_collision` | violated, see below | blocking sends only |
| `checksum_noise` | one, two and three wrong bits are noticed, the loop divides; `TwoFlipsDiffer`, `FlipsNeverCancel` | the code's 152 bits, a packet of the stack, up to four flips: any two of the 152 bits and the one behind them, then two of bits 70 and 94 |
| `break_border` | violated, see below | the code's 152 bits and `RAND_MAX` |
| `master_lists` | pools, ownership, resend list, pointers, with a master stalled anywhere | pool of 2, all packet types, timer interval 2 |
| `master_stalled_commit` | violated, see below | |
| `slave_lists` | pools, ownership, what is sent, pointers | pool of 2, all packet types |
| `link_safety` | `Link` implements `StopAndWait`; acknowledged ids; radio errors; the master's queue; the answer the slave keeps | pool of 1, `TimeOnAir` 2, `MaxLag` 1, lossy and noisy |
| `link_live` | every transaction ends | the same with `MaxLag` 0 |
| `link_lag` | violated, see below | `MaxLag` 2 |
| `clients` | one packet in play, no radio error, what is sent, why a thread gives up, the script's expectations, the programs end | two rounds, `TimeOnAir` 2, `MaxLag` 1, lossy and noisy |

Why these bounds are enough to be of interest.  Two devices are all there are.
A box and an air hold one packet each, so a packet and its broken form tell an old
packet from a new one.  With `TimeOnAir` 1 a packet is new or due and a timeout of
2 is longer than the time on air; with 2 (`clients`, the link) it can also be half
way.  `ErrMod` 1
takes the error counter out of runs that do not look at it.  A pool of two lets
packs rotate, and the theorems about the pools hold for any size; the link never
has more than one pack of each pool in use (the `SendQueue` and `ReceiveQueue`
parts of the proved invariant), so one is enough there.  The slave's receive timeout is 1000 times the time on air in the code; 7
ticks let it run out far more often.  In `Link` all times are the code's in units
of half a time on air: the timer and the master's receive timeout are three times
on air, the send timeout two.

Two rounds of the tests let a packet that came back broken go round once more with
its mended checksum, and the script calls the checks too seldom to count up to the
`ErrMod` 16 of that run.

Four flips are the fewest with which a comparison that moves on to the last flip
(bits a, b, a, b) would leave a packet whole, and three wrong bits the fewest that a
sum can miss that notices every two: without the line `x ^= x >> 4` the loop still
notices all pairs in 19 bytes, but not all triples, and bits 70 and 94 are each in
several of those.

`Master_lists.cfg` turns the deadlock check off: a stalled master can end in a
segmentation fault, and stops.  All other runs check for deadlock.

Fairness.  `FairSpec` has weak fairness for the steps of each thread inside the
library and for the clock: threads are scheduled and nothing in the library
blocks (the spinlock is held for a bounded time).  `LinkFairSpec` has it for both
loops and the clock, and strong fairness for a packet getting through in each
direction: `b_rand` loses and breaks packets with a probability below one.
`ClientsFairSpec` has weak fairness for each thread, the script and the clock, and
none for the air: `TestsEnd` says that `"poll"` ends unless a packet is lost.

## What the violated runs show

- **`wl_collision`**: the channel is looked at only when a call happens to run the
  worker or the checker.  Two blocking sends whose times on air overlap sleep
  through the overlap; both packets are delivered and `err` does not grow, although
  the comment at `env-core.c:295` and the test at `st-test-env-core.c:82` expect
  simultaneous sending to be an error.
- **`break_border`**: `RAND_MAX` is not a multiple of 152, so `rand_pack_bit` can
  return 152, which `random-test.c:68` rules out; the flip falls behind the packet.
- **`master_stalled_commit`**: if the master is held up for the timer's interval
  between starting the timer and sending, it queues the queued pack again, against
  the assertion at `stack-comm.c:147`, and damages the list (`master_lists` goes
  on from there to the crash).
- **`link_lag`**: with a thread held up for a whole time on air, the master resends
  while the answer is on its way, the slave answers twice, and the second answer
  is taken for the answer to the next transaction, against the assertions at
  `stack-comm.c:527` and `:543`.  From then on the link is one answer ahead, and a
  lost packet is acknowledged that the slave never saw.

## Proofs

All theorems hold for every value of the constants that satisfies the named
assumptions (`WlEnvAssumption`, `PackBreakAssumption`, `ChecksumAssumption`,
`TsmAssumption`, `MasterAssumption`, `ClientsAssumption`, `LinkAssumption`,
`PacketAssumption`).  They say that the constants are of their types, that the marks
for an empty buffer and a broken packet are no packets, that the timeouts the loops
pass are among those of the radio, and that all packets are single packets of the
stack.  The theorems about time have a hypothesis about the lag besides, and the one
about two flips a hypothesis about the length of the packet, stated with them.

`WlEnvProofs`: the inductive invariant `IInv` adds three facts to the checked
properties.  `SleepCovers`: what is left of a blocking sender's sleep covers what
is left of its packet's time on air - needed because `BlockingSendDone` speaks of
the end of the sleep only.  `TakeReady`: a packet is taken only after a yes.
`TimeSleepLocal`: `time_sleep` is 0 outside the polling loop, so that the bound on
it survives a change of timeout.  There is a lemma per group of actions and
`WorkerFacts` for the one thing all of them share, a run of the shadow worker.
`Invariance` gives `TypeCorrect`, `BlockingSend`, `AvailableIsStable` and
`OverwriteIsCounted`.  `Refinement` shows that every step maps to a step of `Radio`
or to none, with the additional invariant `ContentsReal` (what is on the air or
in a box is never the empty marker): a run of the worker is `Settle` of the
packets that are due, `SendPut` is `Transmit`, `RecvTake` is `Read`, `EnvInit` is
`Reset`.

`ChecksumProofs` begins with the noise: the first flipped bit stays flipped because
every later draw avoids it and `bit_to_break_prev` is never moved on (`FirstStays`);
`TwoFlips` and `ReportIsTrue`, for any number of flips, follow.

Then the checksum: exclusive or of sets of bits is shown to be a commutative group
and the shifts to distribute over it, so one turn of the loop is linear.  Hence the
difference of the sender's and the receiver's sum is itself the sum of the flips,
whatever the packet says (`ContentsDoNotMatter`): the one packet `checksum_noise`
sends stands for all.  A turn of the loop changes the parity of the sum's one-bits
by that of the byte, so `SumInv`, that the two sums differ in an odd number of bits
exactly if an odd number was flipped so far, is inductive, and `OddFlipsNoticed`
follows for packets of any length.  `LoopIsDivision` compares the two forms bit by
bit.

For *two* flips a word is read as a polynomial: a turn of the loop over an unflipped
byte multiplies by x^8 modulo x^16 + x^12 + x^5 + 1 (`PowerStep`), and a flipped bit
adds a power of x (`FlipStep`).  `TwoInv`, that the two sums differ by exactly the
powers the two flips have added so far, is inductive next to `SumInv`.  With the
checksum's own bytes counted in, the test of the packet says that the two powers are
equal.  `OrderOfX` says when that can be: x^32767 = 1, computed by squaring
(`PowerTable`), and a smaller order would divide 217, 1057 or 4681, whose powers are
not 1.  So `TwoFlipsNoticed` holds for packets of up to 4095 bytes, with any contents
and the two flips anywhere; the bound is a hypothesis of the theorem and it is sharp,
since in 4096 bytes two bits can be 32767 apart.  The code's packets have 19 bytes.
`Power` is a recursive function; that it has a solution (`PowerDef`) and what is said
of all its values is shown with `NatSet`, induction said of sets rather than of
operators.

`HeaderProofs`, about `list.h`: `Chain` is a list in the mathematical sense, a
sequence of different nodes and a head that is none of them, and `Holds` says that
the memory has it.  From what one assignment writes (`SetNode`) follows what
`__list_add` and `__list_del` write when their two neighbours may be one node
(`LinkWrites`, `UnlinkWrites`), and from that what the operations do to a list of any
length and, which is what lists that share their packs depend on, that they leave
every node of other lists alone (`AddTail`, `DelAt`, `MoveTail`).  `AddedTwice`
proves the three steps `send_link` takes when a node is queued twice.  A `Family` is a
memory with several lists, no node on two of them: `FamilyAdd`, `FamilyDel` and
`FamilyMove` say that each operation changes its own lists and keeps the family.

`HeaderProofs`, about `struct timeval`: `OverIsElapsed` says that the comparison of fields after the carry is the
comparison of the microseconds, for every start, interval and clock; the TODO at
`env-core.c:229`, which doubts intervals of a second and more, need not worry.

`TsmProofs`, `MasterProofs`, `SlaveProofs`: a pool is shown to be whole from what
each list operation does to the packs on a list (`TakeFirst`, `AddLast`,
`Rotate`), and these lemmas ask that a pack which is put back is the one that is
out.  That is what the shared invariant `TsmInv` supplies: `ReceiveQueue` says
that at most one received pack is out of its pool, in the MAC's hands or in the
receive queue, and that the queue is empty whenever the MAC runs, which in turn
needs that the MAC only runs in one LLC state (`SEND_ALL` for the master, `IDLE`
for the slave).  `MacKeeps` shows it once for both; then each loop has one lemma
per action.  The master's `IInv` adds `ResendIsCurrent`, which holds even for a
stalled master that damages its send queue.  The slave's adds `Answers`, which
follows a queued pack from the state that built it to the MAC worker: it is what
makes `Sends` true even in the corner where the slave has no answer to repeat and
sends back the pack it has just looked at.  `Kept` says that this corner needs a
packet the stack never sends: it is proved for `HeardTypes = {"SINGLE"}`, the
value `Link` uses.  `OnlyCurrentIsSent`, for the master and (with the same
hypothesis) for the slave, says that what is handed to the radio belongs to the
transaction the loop is in; `QueueIsCurrent` and `QueueIsAnswer` carry it from
where the pack is queued to where it is sent.

`TsmProofs` ends with the pointers.  `Stored` is the family of the stack's seven
lists over the two nodes of each pack.  `PoolsLists` says that it is there after
initialisation, and there is one lemma for what each function of `stack-comm.c` does to it
(`CommitLists`, `DelLists`, `PutLists`, `LookLists`, `SendLists`, `ClearLists`).
The two loops of the code, over the pools and over the resend list, are the recursive
functions `PoolsInit` and `ResendRounds`; `NatSet` does the induction over their
rounds.  `PointersAgree` is not inductive: that no
pack is on two lists by the same node has to be known before anything is moved.
`MemInv` says it: while `send_link` is `"ok"` all seven lists are a family; once a
late resend has queued a node twice, the send queue is no list any more, but the six
others still are, for the damage is between the head and that one node
(`DamagedMemory`); after the fault there is no memory.  For this the one pack in the
queue has to be the one that is queued again, which is `QueueIsCurrent` of the master;
the slave never queues over a pack (`Answers`).  `MasterProofs` and `SlaveProofs` have
one lemma per function of the LLC that touches lists, `ListInvariance` puts them
together, and `PointersFollow` and `ClearLeavesEmpty` are what follows.

`ClientsProofs` has three parts.  The first does not depend on time.  `OneBall`
counts packets, and counting is not inductive; the invariant says instead that wherever the packet is,
it is nowhere else (`Alone`): on one of two airs, in one of two boxes, or in the
hands of a thread.  To keep it, the proof has to know which calls a thread can be in
at each place of its program (`Route`), that a thread of the polling test receives
only what it has seen in its box (`Seen`: its answer of `wl_availableData` stays
true because nobody else empties the box), and that what is on its way is a packet
and no empty buffer (`Genuine`).  `PacketStaysOne`, `ErrorFree` and
`ContentsSurvive` follow, for every time on air, number of rounds, lag and noise.

The second part is the timeouts of `mt-test-env-core-w-timout.c`, under `Prompt`:
`2 * MaxLag < 3 * TimeOnAir`, no thread that could run is held up for one and a half
times on air.  For how long a thread can have listened (`Listened`) is bounded by
where its packet is: on its way to the peer (`OnItsWay`), in the peer's box
(`InPeersBox`), with the peer (`WithPeer`), on its way back (`OnItsWayBack`), in its
own box (`InOwnBox`); each step moves the packet on to a place with a later bound,
and the last bound leaves time for one more look (`LooksAgain`).  The nap
of one second that thread 0 takes before it serves counts as well, and the tenfold
timeout of thread 1 covers it.  `TimeoutsSuffice` follows from `WaitInvariance`.  The hypothesis cannot be
weaker: with `TimeOnAir = 2` and `MaxLag = 3` in `Clients.cfg` TLC finds a thread
that gives up on a packet that is on its way to it.

The third part is `st-test-env-core.c`.  `ScriptTable` says what each of its 26 lines
is; `Flies`, `Lies` and `Errors` say, by the line, what is on the air, what is in the
boxes and what the error counter holds, and `Scene` how that differs inside a call
before and after the worker has run.  The invariant `OnScript` says that the radio
agrees, unless the air has lost or broken a packet.  `Fresh` is the part about time:
what was put since the last sleep is no older than the thread has been held up, so it
is still on the air when the next line expects it there.  Hence the hypothesis
`MaxLag < TimeOnAir` of `ScriptSucceeds`; its other half, `ErrMod > 1`, says that the
counter tells one error from none.  Without either, TLC finds the test failing
(`MaxLag = TimeOnAir`, or `ErrMod = 1`).

`LinkProofs` has two parts.  The first is the composition.  `LinkInv` joins the
invariants of the radio, the master and the slave with where each loop is in the
library (`Joined`).  `LinkMoves` shows that each step of `Link` is a step of each of
the three modules or none, and `RunsTheRadio`, `RunsTheMaster`, `RunsTheSlave` that
`LinkSpec` therefore implements all three: what is proved of a part holds in the
whole.  `LinkTypes` and `AnswerKept` follow, and none of this depends on time.

The second part is the timing, under the hypothesis `MaxLag < TimeOnAir`: no thread
that could run is kept from running for as long as a packet is on the air (100 ms).
The hypothesis is needed as it stands: with `MaxLag = TimeOnAir` `link_lag` finds the
counterexample.  `TimedInv` divides an exchange into stages, of which at most
one is going on (`OneStage`): the packet is on the air, waits in the slave's box, is
with the slave, the answer is on the air, waits in the master's box.  All the while
the master has sent and listens (`Waiting`).  For how long the master can have slept
since it put its packet on the air (`Slept`) is bounded in every stage
(`Deadlines`), by the times on air that have passed and one `MaxLag` for each time
the slave may have been held up.  The bound at the last stage is below the four
times on air that the master sleeps before it gives up, with one polling interval
left: the master is sure to look again (`LooksAgain`), also though
`wl_availableData` does not look after its last sleep.  Hence a resend only starts
when nothing is on its way (`GivesUpQuiet`).  `MasterTimed` does the same for the
timer: while the packet is queued the timer shows no more than the master's own
lag.  `Exchanged` says that what is on its way belongs to the master's transaction.
There is one lemma per step of each loop (`MasterSendTimed`, `SlaveFillTimed`, ...),
one for a run of the shadow worker, and one for the clock.  `ErrorFree`,
`AnswersMatch`, `CommitsToEmptyQueue` and `SendsWhatWasBuilt` follow from
`TimedInvariance`, and `StopsAndWaits` maps each step to `Begin`, `TakeUp`, `Done`,
`End` or none: with less than a time on air of lag, two bits of id and a timer are
enough, for every time on air, pool size and timeout of the slave.

Only model-checked: liveness (`CallReturns`, `TransactionEnds`, `TestsEnd`), which is
beyond the prover.  Every invariant of the passing runs has a theorem.

## Not modelled

Tracing; `wl_gen_random_pack` (unused); `mt-test-stk.c`, which calls functions that
no longer exist and is commented out in `build.bash`; the rest of `list.h` (splice,
cut, rotate, replace, the other iterators, hash lists), which has no caller;
`compiler.h`, whose macros no source uses; build flags other than the two above;
the wall clock being set; the width of `time_sleep`, since no caller's timeout comes
near 2^32.  The usleep(1000) in the polling test is left out: it delays a thread
that may be delayed anyway.

## Plan

Done: `WlEnv`, `Radio`, `PackBreak`, `Checksum`, `Tsm`, `Master`, `Slave`, `Timeval`,
`Link`, `StopAndWait`, `Clients`, `ListHead`, the stack on it, and their proofs.
Every source with state is modelled.
