----------------------------- MODULE TsmProofs -----------------------------
(***************************************************************************)
(* Lemmas about the pools and queues of Tsm: what each operation does to   *)
(* the packs on a list, and that the MAC steps keep the pools whole.  Then *)
(* the same lists as pointers: what the functions of stack-comm.c do to a  *)
(* memory that holds the seven lists of a transmitter.                     *)
(***************************************************************************)
EXTENDS TsmLists, HeaderProofs, FiniteSetTheorems, SequenceTheorems, WellFoundedInduction, TLAPS

LEMMA TailFacts ==
  ASSUME NEW T, NEW s \in Seq(T), s # <<>>
  PROVE  /\ Head(s) \in T
         /\ Tail(s) \in Seq(T)
         /\ Len(Tail(s)) = Len(s) - 1
         /\ \A n \in 1 .. Len(Tail(s)) : Tail(s)[n] = s[n + 1]
         /\ Len(s) \in Nat /\ Len(s) >= 1 /\ Head(s) = s[1]
  OBVIOUS

LEMMA AppendFacts ==
  ASSUME NEW T, NEW s \in Seq(T), NEW p \in T
  PROVE  /\ Append(s, p) \in Seq(T)
         /\ Len(Append(s, p)) = Len(s) + 1
         /\ Len(s) \in Nat
         /\ \A n \in 1 .. Len(s) : Append(s, p)[n] = s[n]
         /\ Append(s, p)[Len(s) + 1] = p
         /\ Append(s, p) # <<>>
  OBVIOUS

\* Taking the first entry off a list without repetitions takes its pack off.
LEMMA TakeFirst ==
  ASSUME NEW T, NEW s \in Seq(T), s # <<>>, NoRepeat(s)
  PROVE  NoRepeat(Tail(s)) /\ Listed(Tail(s)) = Listed(s) \ {Head(s)} /\ Head(s) \in Listed(s)
<1>1. NoRepeat(Tail(s))
  BY TailFacts DEF NoRepeat
<1>2. Listed(Tail(s)) \subseteq Listed(s) \ {Head(s)}
  BY TailFacts DEF NoRepeat, Listed
<1>3. ASSUME NEW q \in Listed(s), q # Head(s) PROVE q \in Listed(Tail(s))
  <2>1. PICK n \in 1 .. Len(s) : q = s[n]
    BY DEF Listed
  <2>2. n - 1 \in 1 .. Len(Tail(s)) /\ Tail(s)[n - 1] = s[n]
    BY <1>3, <2>1, TailFacts
  <2>3. QED
    BY <2>1, <2>2 DEF Listed
<1>4. Head(s) \in Listed(s)
  BY TailFacts DEF Listed
<1>5. QED
  BY <1>1, <1>2, <1>3, <1>4

\* Adding a pack that is not on the list at its tail.
LEMMA AddLast ==
  ASSUME NEW T, NEW s \in Seq(T), NEW p \in T
  PROVE  /\ Listed(Append(s, p)) = Listed(s) \cup {p}
         /\ NoRepeat(s) /\ p \notin Listed(s) => NoRepeat(Append(s, p))
<1>1. Listed(Append(s, p)) = Listed(s) \cup {p}
  <2>1. \A n \in 1 .. Len(s) + 1 : n \in 1 .. Len(s) \/ n = Len(s) + 1
    BY AppendFacts
  <2>2. Len(s) + 1 \in 1 .. Len(s) + 1 /\ \A n \in 1 .. Len(s) : n \in 1 .. Len(s) + 1
    BY AppendFacts
  <2>3. QED
    BY <2>1, <2>2, AppendFacts DEF Listed
<1>2. ASSUME NoRepeat(s), p \notin Listed(s) PROVE NoRepeat(Append(s, p))
  BY <1>2, AppendFacts DEF NoRepeat, Listed
<1>3. QED
  BY <1>1, <1>2

\* What was taken off the front is added at the tail: the same packs.
LEMMA Rotate ==
  ASSUME NEW T, NEW s \in Seq(T), s # <<>>, NoRepeat(s)
  PROVE  /\ NoRepeat(Append(Tail(s), Head(s)))
         /\ Listed(Append(Tail(s), Head(s))) = Listed(s)
<1>1. Head(s) \in T /\ Tail(s) \in Seq(T)
  BY TailFacts
<1>2. NoRepeat(Tail(s)) /\ Listed(Tail(s)) = Listed(s) \ {Head(s)} /\ Head(s) \in Listed(s)
  BY TakeFirst
<1>3. Listed(Append(Tail(s), Head(s))) = Listed(Tail(s)) \cup {Head(s)}
  <2>1. \A t \in Seq(T), h \in T : Listed(Append(t, h)) = Listed(t) \cup {h}
    BY AddLast
  <2>2. QED
    BY <1>1, <2>1, Zenon
<1>4. NoRepeat(Tail(s)) /\ Head(s) \notin Listed(Tail(s)) => NoRepeat(Append(Tail(s), Head(s)))
  BY <1>1, AddLast, Zenon
<1>5. QED
  BY <1>2, <1>3, <1>4

LEMMA OneLong ==
  ASSUME NEW T, NEW s \in Seq(T), s # <<>>, Len(s) <= 1
  PROVE  Len(s) = 1 /\ Head(s) \in T /\ Listed(s) = {Head(s)} /\ Tail(s) = <<>>
<1>1. Len(s) = 1 /\ Head(s) = s[1] /\ Head(s) \in T
  OBVIOUS
<1>2. Tail(s) = <<>>
  <2>1. Tail(s) \in Seq(T) /\ Len(Tail(s)) = 0
    BY <1>1
  <2>2. QED
    BY <2>1, EmptySeq
<1>3. Listed(s) = {Head(s)}
  BY <1>1 DEF Listed
<1>4. QED
  BY <1>1, <1>2, <1>3

\* The pools' packs are two disjoint sets.
LEMMA PackFacts ==
  /\ SendPack \subseteq Pack /\ RecvPack \subseteq Pack
  /\ SendPack \cap RecvPack = {}
  /\ IsFiniteSet(RecvPack)
  BY TsmAssumption, FS_Interval DEF SendPack, RecvPack, Pack

-----------------------------------------------------------------------------
(* The invariant the two loops share.  s is the one LLC state in which the *)
(* MAC worker runs: the master's SEND_ALL, the slave's IDLE.               *)

\* The receive queue is the bridge between the ownership of a pack in the MAC
\* and in the LLC: it holds at most one pack, only until the LLC runs.
ReceiveQueue(s) ==
  /\ pc # "llc" => llc = s
  /\ recv_list # <<>> => pc = "llc" /\ llc = s
  /\ Len(recv_list) <= 1
  /\ \A p \in Listed(recv_list) : data[p] # Broken
  /\ pc \in {"recv", "filled"} => pack \in RecvPack /\ llc_recv_owned = {pack}
  /\ pc \notin {"recv", "filled"} => llc_recv_owned = Listed(recv_list)

SendQueue ==
  /\ pc = "send" => send_list # <<>>
  /\ Len(llc_resend_list) <= 1

TsmInv(s) == TsmTypeOK /\ PoolsWhole /\ ReceiveQueue(s) /\ SendQueue

-----------------------------------------------------------------------------
(* What the operations on the receive pool do to it. *)

\* stk_put_recv_packholder gives back the one pack that is out.
LEMMA PutKeeps ==
  ASSUME TsmTypeOK, RecvPoolWhole, NEW p \in RecvPack, llc_recv_owned = {p},
         PutRecvPackholder(p)
  PROVE  /\ RecvPoolWhole'
         /\ recv_list_pool' \in Seq(RecvPack)
         /\ llc_recv_owned' = {}
         /\ llc_recv_owned_counter' = 0
<1>1. llc_recv_owned' = {} /\ recv_list_pool' = Append(recv_list_pool, p)
  BY DEF PutRecvPackholder
<1>2. llc_recv_owned_counter = 1
  BY FS_Singleton DEF RecvPoolWhole
<1>3. llc_recv_owned_counter' = 0
  BY <1>2 DEF PutRecvPackholder
<1>4. recv_list_pool \in Seq(RecvPack)
  BY DEF TsmTypeOK
<1>5. p \notin Listed(recv_list_pool) /\ Listed(recv_list_pool) \cup {p} = RecvPack
  BY DEF RecvPoolWhole
<1>6. NoRepeat(recv_list_pool') /\ Listed(recv_list_pool') = RecvPack
  <2>1. NoRepeat(recv_list_pool)
    BY DEF RecvPoolWhole
  <2>2. /\ NoRepeat(Append(recv_list_pool, p))
        /\ Listed(Append(recv_list_pool, p)) = Listed(recv_list_pool) \cup {p}
    <3>1. Listed(Append(recv_list_pool, p)) = Listed(recv_list_pool) \cup {p}
      BY <1>4, AddLast
    <3>2. NoRepeat(recv_list_pool) /\ p \notin Listed(recv_list_pool) => NoRepeat(Append(recv_list_pool, p))
      BY <1>4, AddLast
    <3>3. QED
      BY <1>5, <2>1, <3>1, <3>2
  <2>3. QED
    BY <1>1, <1>5, <2>2
<1>7. Cardinality({}) = 0
  BY FS_EmptySet
<1>8. RecvPoolWhole'
  BY <1>1, <1>3, <1>6, <1>7 DEF RecvPoolWhole
<1>9. recv_list_pool' \in Seq(RecvPack)
  BY <1>1, <1>4, AppendFacts
<1>10. QED
  BY <1>1, <1>3, <1>8, <1>9

\* stk_mac_do_receive takes the first pack off a pool that is complete.
LEMMA TakeKeeps ==
  ASSUME TsmTypeOK, RecvPoolWhole, llc_recv_owned = {}, MacReceive
  PROVE  /\ RecvPoolWhole'
         /\ recv_list_pool' \in Seq(RecvPack)
         /\ pack' \in RecvPack
         /\ llc_recv_owned' = {pack'}
         /\ llc_recv_owned_counter' = 1
<1>1. /\ recv_list_pool \in Seq(RecvPack) /\ recv_list_pool # <<>>
      /\ NoRepeat(recv_list_pool) /\ Listed(recv_list_pool) = RecvPack
  BY DEF TsmTypeOK, RecvPoolWhole, MacReceive
<1>2. /\ NoRepeat(recv_list_pool') /\ Listed(recv_list_pool') = RecvPack \ {pack'}
      /\ pack' \in RecvPack
  BY <1>1, TakeFirst DEF MacReceive
<1>3. llc_recv_owned' = {pack'}
  BY DEF MacReceive
<1>4. llc_recv_owned_counter' = 1
  <2>1. llc_recv_owned_counter = 0
    BY FS_EmptySet DEF RecvPoolWhole
  <2>2. QED
    BY <2>1 DEF MacReceive
<1>5. Cardinality({pack'}) = 1
  BY FS_Singleton
<1>6. recv_list_pool' \in Seq(RecvPack)
  BY <1>1, TailFacts DEF MacReceive
<1>7. QED
  BY <1>2, <1>3, <1>4, <1>5, <1>6 DEF RecvPoolWhole

-----------------------------------------------------------------------------
(* The MAC worker keeps the invariant. *)

\* Looking at the buffers of one step: only the pack that is filled changes.
LEMMA FillKeepsOthers ==
  ASSUME TsmTypeOK, pack \in RecvPack, NEW d \in Heard, MacFill(d)
  PROVE  /\ data' \in [Pack -> Header \cup {Broken}]
         /\ \A p \in SendPack : data'[p] = data[p]
         /\ data'[pack] = d
<1>1. d \in Header \cup {Broken}
  BY TsmAssumption DEF Heard, Header
<1>2. data \in [Pack -> Header \cup {Broken}] /\ data' = [data EXCEPT ![pack] = d]
  BY DEF TsmTypeOK, MacFill
<1>3. pack \in Pack /\ \A p \in SendPack : p \in Pack /\ p # pack
  BY PackFacts
<1>4. QED
  BY <1>1, <1>2, <1>3

LEMMA MacKeeps ==
  ASSUME NEW s \in State, TsmInv(s), MacStep
  PROVE  TsmInv(s)'
<1> USE DEF TsmInv
<1>1. CASE MacSend
  <2>1. TsmTypeOK'
    BY <1>1 DEF TsmTypeOK, MacSend, sendVars, recvVars, PC
  <2>2. PoolsWhole'
    BY <1>1 DEF PoolsWhole, SendPoolWhole, RecvPoolWhole, MacSend, sendVars, recvVars
  <2>3. ReceiveQueue(s)' /\ SendQueue'
    BY <1>1 DEF ReceiveQueue, SendQueue, MacSend, sendVars, recvVars
  <2>4. QED
    BY <2>1, <2>2, <2>3
<1>2. CASE MacSent
  <2>1. send_list' \in Seq(Pack)
    <3>1. send_list \in Seq(Pack) /\ send_list # <<>>
      BY <1>2 DEF TsmTypeOK, SendQueue, MacSent
    <3>2. Tail(send_list) \in Seq(Pack)
      BY <3>1, TailFacts
    <3>3. QED
      BY <1>2, <3>1, <3>2 DEF MacSent
  <2>2. pc' \in {"llc", "crashed"} /\ send_link' \in {"ok", "looped", "poisoned"}
    BY <1>2 DEF TsmTypeOK, MacSent
  <2>3. TsmTypeOK'
    BY <1>2, <2>1, <2>2 DEF TsmTypeOK, MacSent, recvVars, PC
  <2>4. PoolsWhole'
    BY <1>2 DEF PoolsWhole, SendPoolWhole, RecvPoolWhole, MacSent, recvVars
  <2>5. ReceiveQueue(s)' /\ SendQueue'
    BY <1>2, <2>2 DEF ReceiveQueue, SendQueue, MacSent, recvVars
  <2>6. QED
    BY <2>3, <2>4, <2>5
<1>3. CASE MacReceive
  <2>1. recv_list = <<>> /\ llc_recv_owned = {} /\ pc' = "recv" /\ llc = s
    BY <1>3 DEF ReceiveQueue, MacReceive, Listed
  <2>2. /\ RecvPoolWhole' /\ recv_list_pool' \in Seq(RecvPack) /\ pack' \in RecvPack
        /\ llc_recv_owned' = {pack'} /\ llc_recv_owned_counter' = 1
    BY <1>3, <2>1, TakeKeeps DEF PoolsWhole
  <2>3. TsmTypeOK'
    BY <1>3, <2>2, PackFacts, TsmAssumption DEF TsmTypeOK, MacReceive, sendVars, PC
  <2>4. PoolsWhole'
    BY <1>3, <2>2 DEF PoolsWhole, SendPoolWhole, MacReceive, sendVars
  <2>5. ReceiveQueue(s)' /\ SendQueue'
    BY <1>3, <2>1, <2>2 DEF ReceiveQueue, SendQueue, MacReceive, sendVars, Listed
  <2>6. QED
    BY <2>3, <2>4, <2>5
<1>4. CASE MacReceived
  <2>1. /\ recv_list = <<>> /\ llc = s /\ pc' = "llc" /\ llc' = s
        /\ pack \in RecvPack /\ llc_recv_owned = {pack} /\ data' = data
    BY <1>4 DEF ReceiveQueue, MacReceived
  <2>2. CASE data[pack] = Broken
    <3>1. PutRecvPackholder(pack) /\ recv_list' = recv_list
      BY <1>4, <2>2 DEF MacReceived
    <3>2. /\ RecvPoolWhole' /\ recv_list_pool' \in Seq(RecvPack)
          /\ llc_recv_owned' = {} /\ llc_recv_owned_counter' = 0
      BY <2>1, <3>1, PutKeeps DEF PoolsWhole
    <3>3. TsmTypeOK'
      BY <1>4, <3>1, <3>2, TsmAssumption DEF TsmTypeOK, MacReceived, sendVars, PC
    <3>4. PoolsWhole'
      BY <1>4, <3>2 DEF PoolsWhole, SendPoolWhole, MacReceived, sendVars
    <3>5. ReceiveQueue(s)' /\ SendQueue'
      BY <1>4, <2>1, <3>1, <3>2 DEF ReceiveQueue, SendQueue, MacReceived, sendVars, Listed
    <3>6. QED
      BY <3>3, <3>4, <3>5
  <2>3. CASE data[pack] # Broken
    <3>1. recv_list' = Append(recv_list, pack)
      BY <1>4, <2>3 DEF MacReceived
    <3>2. recv_list' = <<pack>> /\ Listed(recv_list') = {pack} /\ Len(recv_list') = 1
      BY <2>1, <3>1 DEF Listed
    <3>3. recv_list' \in Seq(RecvPack)
      BY <2>1, <3>2
    <3>4. TsmTypeOK'
      BY <1>4, <2>3, <3>3 DEF TsmTypeOK, MacReceived, sendVars, PC
    <3>5. PoolsWhole'
      BY <1>4, <2>3 DEF PoolsWhole, SendPoolWhole, RecvPoolWhole, MacReceived, sendVars
    <3>6. llc_recv_owned' = {pack}
      BY <1>4, <2>1, <2>3 DEF MacReceived
    <3>7. ReceiveQueue(s)'
      BY <2>1, <2>3, <3>2, <3>6 DEF ReceiveQueue
    <3>8. SendQueue'
      BY <1>4 DEF SendQueue, MacReceived, sendVars
    <3>9. QED
      BY <3>4, <3>5, <3>7, <3>8
  <2>4. QED
    BY <2>2, <2>3
<1>5. CASE MacNothing
  <2>1. /\ recv_list = <<>> /\ llc = s /\ pc' = "llc" /\ llc' = s /\ recv_list' = recv_list
        /\ pack \in RecvPack /\ llc_recv_owned = {pack} /\ data' = data
        /\ PutRecvPackholder(pack)
    BY <1>5 DEF ReceiveQueue, MacNothing
  <2>2. /\ RecvPoolWhole' /\ recv_list_pool' \in Seq(RecvPack)
        /\ llc_recv_owned' = {} /\ llc_recv_owned_counter' = 0
    BY <2>1, PutKeeps DEF PoolsWhole
  <2>3. TsmTypeOK'
    BY <1>5, <2>2, TsmAssumption DEF TsmTypeOK, MacNothing, sendVars, PC
  <2>4. PoolsWhole'
    BY <1>5, <2>2 DEF PoolsWhole, SendPoolWhole, MacNothing, sendVars
  <2>5. ReceiveQueue(s)' /\ SendQueue'
    BY <1>5, <2>1, <2>2 DEF ReceiveQueue, SendQueue, MacNothing, sendVars, Listed
  <2>6. QED
    BY <2>3, <2>4, <2>5
<1>6. ASSUME NEW d \in Heard, MacFill(d) PROVE TsmInv(s)'
  <2>1. /\ recv_list = <<>> /\ llc = s /\ pc' = "filled" /\ llc' = s
        /\ recv_list' = recv_list /\ pack' = pack
        /\ pack \in RecvPack /\ llc_recv_owned = {pack}
    BY <1>6 DEF ReceiveQueue, MacFill, recvVars
  <2>2. data' \in [Pack -> Header \cup {Broken}]
    BY <1>6, <2>1, FillKeepsOthers
  <2>3. TsmTypeOK'
    BY <1>6, <2>2 DEF TsmTypeOK, MacFill, sendVars, recvVars, PC
  <2>4. PoolsWhole'
    BY <1>6 DEF PoolsWhole, SendPoolWhole, RecvPoolWhole, MacFill, sendVars, recvVars
  <2>5. ReceiveQueue(s)' /\ SendQueue'
    BY <1>6, <2>1 DEF ReceiveQueue, SendQueue, MacFill, sendVars, recvVars, Listed
  <2>6. QED
    BY <2>3, <2>4, <2>5
<1>7. QED
  BY <1>1, <1>2, <1>3, <1>4, <1>5, <1>6 DEF MacStep

-----------------------------------------------------------------------------
(* What the LLC workers' operations do. *)

LEMMA CommitFacts ==
  ASSUME TsmTypeOK, NEW p \in Pack, PackCommit(p)
  PROVE  /\ send_list' \in Seq(Pack) /\ send_list' # <<>>
         /\ send_link' \in {"ok", "looped", "poisoned"}
         /\ send_list = <<>> => send_list' = <<p>> /\ send_link' = send_link
<1>1. send_list \in Seq(Pack) /\ send_link \in {"ok", "looped", "poisoned"}
  BY DEF TsmTypeOK
<1>2. CASE \E n \in 1 .. Len(send_list) : send_list[n] = p
  <2>1. send_list # <<>>
    BY <1>2
  <2>2. send_list' = send_list /\ send_link' = "looped"
    BY <1>2 DEF PackCommit
  <2>3. QED
    BY <1>1, <2>1, <2>2
<1>3. CASE ~ \E n \in 1 .. Len(send_list) : send_list[n] = p
  <2>1. send_list' = Append(send_list, p) /\ send_link' = send_link
    BY <1>3 DEF PackCommit
  <2>2. Append(send_list, p) \in Seq(Pack) /\ Append(send_list, p) # <<>>
    BY <1>1, AppendFacts
  <2>3. send_list = <<>> => Append(send_list, p) = <<p>>
    OBVIOUS
  <2>4. QED
    BY <1>1, <2>1, <2>2, <2>3
<1>4. QED
  BY <1>2, <1>3

\* A fresh packet is built in the first pack of a pool that is complete.
LEMMA BuildKeeps ==
  ASSUME TsmTypeOK,
         NEW pool \in Seq(SendPack), NoRepeat(pool), Listed(pool) = SendPack,
         NEW resend, resend = <<>>,
         NEW counter, counter = 0,
         NEW id \in TransId,
         SendSingle(pool, resend, counter, id)
  PROVE  /\ SendPoolWhole'
         /\ send_list_pool' \in Seq(SendPack)
         /\ llc_resend_list' = <<pack'>> /\ pack' \in SendPack
         /\ llc_send_owned_counter' = 1
         /\ data' \in [Pack -> Header \cup {Broken}]
         /\ data'[pack'] = Single(id)
         /\ PackCommit(pack')
<1>1. /\ pool # <<>> /\ pack' = Head(pool) /\ send_list_pool' = Tail(pool)
      /\ llc_send_owned_counter' = 1 /\ PackCommit(pack')
      /\ data' = [data EXCEPT ![Head(pool)] = Single(id)]
  BY DEF SendSingle
<1>2. llc_resend_list' = <<pack'>> /\ Len(llc_resend_list') = 1
  BY DEF SendSingle
<1>3. /\ NoRepeat(Tail(pool)) /\ Listed(Tail(pool)) = SendPack \ {pack'}
      /\ pack' \in SendPack /\ Tail(pool) \in Seq(SendPack)
  <2>1. NoRepeat(Tail(pool)) /\ Listed(Tail(pool)) = Listed(pool) \ {Head(pool)}
    BY <1>1, TakeFirst
  <2>2. Head(pool) \in SendPack /\ Tail(pool) \in Seq(SendPack)
    BY <1>1, TailFacts
  <2>3. QED
    BY <1>1, <2>1, <2>2
<1>4. SendPoolWhole'
  <2>1. send_list_pool' \o llc_resend_list' = Append(Tail(pool), Head(pool))
    BY <1>1, <1>2, <1>3
  <2>2. /\ NoRepeat(Append(Tail(pool), Head(pool)))
        /\ Listed(Append(Tail(pool), Head(pool))) = SendPack
    BY <1>1, Rotate
  <2>3. QED
    BY <1>1, <1>2, <2>1, <2>2 DEF SendPoolWhole
<1>5. Single(id) \in Header
  BY DEF Single, Header, Type
<1>6. data' \in [Pack -> Header \cup {Broken}] /\ data'[pack'] = Single(id)
  BY <1>1, <1>3, <1>5, PackFacts DEF TsmTypeOK
<1>7. QED
  BY <1>1, <1>2, <1>3, <1>4, <1>6

\* stk_llc_mark_as_received of the one pack in the receive queue.
LEMMA LookKeeps ==
  ASSUME NEW s \in State, TsmInv(s), recv_list # <<>>, MarkAsReceived
  PROVE  /\ pc = "llc" /\ llc = s
         /\ Head(recv_list) \in RecvPack
         /\ data[Head(recv_list)] \in Header
         /\ recv_list' = <<>>
         /\ RecvPoolWhole'
         /\ recv_list_pool' \in Seq(RecvPack)
         /\ llc_recv_owned' = {}
         /\ llc_recv_owned_counter' = 0
<1> USE DEF TsmInv
<1>1. pc = "llc" /\ llc = s /\ llc_recv_owned = Listed(recv_list)
  BY DEF ReceiveQueue
<1>2. recv_list \in Seq(RecvPack) /\ Len(recv_list) <= 1
  BY DEF TsmTypeOK, ReceiveQueue
<1>3. /\ Head(recv_list) \in RecvPack /\ Listed(recv_list) = {Head(recv_list)}
      /\ Tail(recv_list) = <<>>
  BY <1>2, OneLong
<1>4. data[Head(recv_list)] \in Header
  BY <1>3, PackFacts DEF ReceiveQueue, TsmTypeOK
<1>5. PutRecvPackholder(Head(recv_list)) /\ recv_list' = Tail(recv_list)
  BY DEF MarkAsReceived
<1>6. /\ RecvPoolWhole' /\ recv_list_pool' \in Seq(RecvPack)
      /\ llc_recv_owned' = {} /\ llc_recv_owned_counter' = 0
  BY <1>1, <1>3, <1>5, PutKeeps DEF PoolsWhole
<1>7. QED
  BY <1>1, <1>3, <1>4, <1>5, <1>6

\* A transmitter that stk_c_tsm_init has just set up.
LEMMA InitKeeps ==
  ASSUME NEW s \in State, NEW id \in TransId \cup {TRANS_ID_NONE}, TsmInit(id)
  PROVE  TsmInv(s)
<1>1. /\ send_list_pool \in Seq(SendPack) /\ recv_list_pool \in Seq(RecvPack)
      /\ NoRepeat(send_list_pool) /\ NoRepeat(recv_list_pool)
      /\ Len(send_list_pool) = PoolSize /\ Len(recv_list_pool) = PoolSize
  BY TsmAssumption DEF TsmInit, SendPack, RecvPack, NoRepeat
<1>2. Listed(send_list_pool) = SendPack
  BY TsmAssumption, <1>1 DEF TsmInit, SendPack, Listed
<1>3. Listed(recv_list_pool) = RecvPack
  <2>1. \A p \in RecvPack : p - PoolSize \in 1 .. PoolSize /\ recv_list_pool[p - PoolSize] = p
    BY TsmAssumption DEF TsmInit, RecvPack
  <2>2. \A n \in 1 .. PoolSize : recv_list_pool[n] \in RecvPack
    BY TsmAssumption DEF TsmInit, RecvPack
  <2>3. QED
    BY <1>1, <2>1, <2>2 DEF Listed
<1>4. SendPoolWhole
  BY <1>1, <1>2 DEF SendPoolWhole, TsmInit
<1>5. RecvPoolWhole
  BY <1>1, <1>3, FS_EmptySet DEF RecvPoolWhole, TsmInit
<1>6. TsmTypeOK
  BY <1>1, TsmAssumption DEF TsmTypeOK, TsmInit, PC, State, Pack, SendPack
<1>7. ReceiveQueue(s) /\ SendQueue
  BY DEF ReceiveQueue, SendQueue, TsmInit, Listed
<1>8. QED
  BY <1>4, <1>5, <1>6, <1>7 DEF TsmInv, PoolsWhole

-----------------------------------------------------------------------------
(* Recursive functions exist: by induction, said of sets. *)

\* Induction on numbers, said of sets.
LEMMA NatSet ==
  ASSUME NEW S, 0 \in S, \A n \in Nat : n \in S => n + 1 \in S
  PROVE  Nat \subseteq S
<1> SUFFICES ASSUME Nat \ S # {} PROVE FALSE
  OBVIOUS
<1>1. IsWellFoundedOn(OpToRel(<, Nat), Nat)
  BY NatLessThanWellFounded
<1>2. PICK n \in Nat \ S : \A k \in Nat \ S : <<k, n>> \notin OpToRel(<, Nat)
  BY <1>1, WFMin
<1>3. n # 0 /\ n - 1 \in Nat /\ (n - 1) + 1 = n /\ n - 1 < n
  OBVIOUS
<1>4. n - 1 \notin S
  BY <1>3
<1>5. <<n - 1, n>> \in OpToRel(<, Nat)
  BY <1>3 DEF OpToRel
<1>6. QED
  BY <1>2, <1>3, <1>4, <1>5

\* The loops of stk_c_init_pools: there is a function with the values that
\* PoolsInit asks for, found one round at a time.
LEMMA PoolsInitDef ==
  PoolsInit = [k \in 0 .. 2 * PoolSize |->
                 IF k = 0 THEN HeadsInit
                 ELSE list_add_tail(PoolsInit[k - 1], OwnerNode(k),
                                    IF k \in SendPack THEN SendListPool ELSE RecvListPool)]
<1> DEFINE step(v, k) == list_add_tail(v, OwnerNode(k),
                                       IF k \in SendPack THEN SendListPool ELSE RecvListPool)
           S == {n \in Nat : \E g : g = [k \in 0 .. n |-> IF k = 0 THEN HeadsInit ELSE step(g[k - 1], k)]}
<1>0. PoolsInit = CHOOSE g : g = [k \in 0 .. 2 * PoolSize |-> IF k = 0 THEN HeadsInit ELSE step(g[k - 1], k)]
  BY DEF PoolsInit
<1> HIDE DEF step
<1>1. 0 \in S
  <2> DEFINE g == [k \in 0 .. 0 |-> HeadsInit]
  <2>1. g = [k \in 0 .. 0 |-> IF k = 0 THEN HeadsInit ELSE step(g[k - 1], k)]
    OBVIOUS
  <2> HIDE DEF g
  <2>2. QED
    BY <2>1
<1>2. ASSUME NEW n \in Nat, n \in S PROVE n + 1 \in S
  <2>1. PICK f : f = [k \in 0 .. n |-> IF k = 0 THEN HeadsInit ELSE step(f[k - 1], k)]
    BY <1>2
  <2> DEFINE g == [k \in 0 .. n + 1 |-> IF k <= n THEN f[k] ELSE step(f[n], n + 1)]
  <2>2. ASSUME NEW k \in 0 .. n + 1 PROVE g[k] = IF k = 0 THEN HeadsInit ELSE step(g[k - 1], k)
    <3>1. CASE k = 0
      BY <2>1, <3>1
    <3>2. CASE k # 0 /\ k <= n
      <4>1. k \in 0 .. n /\ k - 1 \in 0 .. n + 1 /\ k - 1 <= n
        BY <3>2
      <4>2. f[k] = step(f[k - 1], k)
        BY <2>1, <3>2, <4>1
      <4>3. QED
        BY <3>2, <4>1, <4>2
    <3>3. CASE k = n + 1
      <4>1. k # 0 /\ k - 1 = n /\ n \in 0 .. n + 1 /\ ~(k <= n) /\ n <= n
        BY <3>3
      <4>2. QED
        BY <3>3, <4>1
    <3>4. QED
      BY <3>1, <3>2, <3>3
  <2>3. g = [k \in 0 .. n + 1 |-> g[k]]
    OBVIOUS
  <2> HIDE DEF g
  <2>4. g = [k \in 0 .. n + 1 |-> IF k = 0 THEN HeadsInit ELSE step(g[k - 1], k)]
    BY <2>2, <2>3
  <2>5. n + 1 \in Nat
    OBVIOUS
  <2>6. QED
    BY <2>4, <2>5
<1>3. 2 * PoolSize \in S
  <2>1. Nat \subseteq S
    BY <1>1, <1>2, NatSet
  <2>2. 2 * PoolSize \in Nat
    BY TsmAssumption
  <2>3. QED
    BY <2>1, <2>2
<1>4. PoolsInit = [k \in 0 .. 2 * PoolSize |-> IF k = 0 THEN HeadsInit ELSE step(PoolsInit[k - 1], k)]
  BY <1>0, <1>3
<1>5. QED
  BY <1>4 DEF step

\* The same for the rounds of stk_llc_resend_clear_all.
LEMMA ResendRoundsDef ==
  ASSUME NEW m
  PROVE  LET f == ResendRounds(m)
         IN f = [k \in 0 .. PoolSize |->
                   IF k = 0 THEN [mem |-> m, child |-> list_first(m, LlcResendList)]
                   ELSE IF f[k - 1].child = LlcResendList THEN f[k - 1]
                   ELSE [mem |-> list_move_tail(f[k - 1].mem, f[k - 1].child, SendListPool),
                         child |-> Get(f[k - 1].mem, f[k - 1].child, "next")]]
<1> DEFINE first == [mem |-> m, child |-> list_first(m, LlcResendList)]
           step(v) == IF v.child = LlcResendList THEN v
                      ELSE [mem |-> list_move_tail(v.mem, v.child, SendListPool),
                            child |-> Get(v.mem, v.child, "next")]
           S == {n \in Nat : \E g : g = [k \in 0 .. n |-> IF k = 0 THEN first ELSE step(g[k - 1])]}
<1>0. ResendRounds(m) = CHOOSE g : g = [k \in 0 .. PoolSize |-> IF k = 0 THEN first ELSE step(g[k - 1])]
  BY DEF ResendRounds
<1> HIDE DEF step, first
<1>1. 0 \in S
  <2> DEFINE g == [k \in 0 .. 0 |-> first]
  <2>1. g = [k \in 0 .. 0 |-> IF k = 0 THEN first ELSE step(g[k - 1])]
    OBVIOUS
  <2> HIDE DEF g
  <2>2. QED
    BY <2>1
<1>2. ASSUME NEW n \in Nat, n \in S PROVE n + 1 \in S
  <2>1. PICK f : f = [k \in 0 .. n |-> IF k = 0 THEN first ELSE step(f[k - 1])]
    BY <1>2
  <2> DEFINE g == [k \in 0 .. n + 1 |-> IF k <= n THEN f[k] ELSE step(f[n])]
  <2>2. ASSUME NEW k \in 0 .. n + 1 PROVE g[k] = IF k = 0 THEN first ELSE step(g[k - 1])
    <3>1. CASE k = 0
      BY <2>1, <3>1
    <3>2. CASE k # 0 /\ k <= n
      <4>1. k \in 0 .. n /\ k - 1 \in 0 .. n + 1 /\ k - 1 <= n
        BY <3>2
      <4>2. f[k] = step(f[k - 1])
        BY <2>1, <3>2, <4>1
      <4>3. QED
        BY <3>2, <4>1, <4>2
    <3>3. CASE k = n + 1
      <4>1. k # 0 /\ k - 1 = n /\ n \in 0 .. n + 1 /\ ~(k <= n) /\ n <= n
        BY <3>3
      <4>2. QED
        BY <3>3, <4>1
    <3>4. QED
      BY <3>1, <3>2, <3>3
  <2>3. g = [k \in 0 .. n + 1 |-> g[k]]
    OBVIOUS
  <2> HIDE DEF g
  <2>4. g = [k \in 0 .. n + 1 |-> IF k = 0 THEN first ELSE step(g[k - 1])]
    BY <2>2, <2>3
  <2>5. n + 1 \in Nat
    OBVIOUS
  <2>6. QED
    BY <2>4, <2>5
<1>3. PoolSize \in S
  <2>1. Nat \subseteq S
    BY <1>1, <1>2, NatSet
  <2>2. QED
    BY <2>1, TsmAssumption
<1>4. ResendRounds(m) = [k \in 0 .. PoolSize |-> IF k = 0 THEN first ELSE step(ResendRounds(m)[k - 1])]
  BY <1>0, <1>3
<1>5. QED
  BY <1>4 DEF step, first

-----------------------------------------------------------------------------
(* The nodes and heads of a transmitter. *)

Ptr == Node \cup {LIST_POISON1, LIST_POISON2}
Heads == {SendList, RecvList, SendListPool, RecvListPool, LlcSendOwned, LlcRecvOwned, LlcResendList}

\* The seven heads are seven nodes.
LEMMA HeadsDiffer ==
  /\ Heads \subseteq Node
  /\ SendList \notin {RecvList, SendListPool, RecvListPool, LlcSendOwned, LlcRecvOwned, LlcResendList}
  /\ RecvList \notin {SendListPool, RecvListPool, LlcSendOwned, LlcRecvOwned, LlcResendList}
  /\ SendListPool \notin {RecvListPool, LlcSendOwned, LlcRecvOwned, LlcResendList}
  /\ RecvListPool \notin {LlcSendOwned, LlcRecvOwned, LlcResendList}
  /\ LlcSendOwned \notin {LlcRecvOwned, LlcResendList}
  /\ LlcRecvOwned # LlcResendList
BY TsmAssumption DEF Heads, Node, SendList, RecvList, SendListPool, RecvListPool, LlcSendOwned,
                     LlcRecvOwned, LlcResendList

\* No two packs share a node, and none is a head.
LEMMA NodeFacts ==
  /\ \A p \in Pack : /\ MacNode(p) \in Node /\ OwnerNode(p) \in Node
                     /\ MacNode(p) \notin Heads /\ OwnerNode(p) \notin Heads
                     /\ MacNode(p) = p /\ PackOfOwner(OwnerNode(p)) = p
  /\ \A p, q \in Pack : /\ MacNode(p) # OwnerNode(q)
                        /\ OwnerNode(p) = OwnerNode(q) => p = q
  /\ Node \subseteq Ptr /\ LIST_POISON1 \notin Node
<1>1. Pack = 1 .. 2 * PoolSize
  BY TsmAssumption DEF Pack, SendPack, RecvPack
<1>2. QED
  BY <1>1, TsmAssumption DEF Ptr, Heads, Node, SendList, RecvList, SendListPool, RecvListPool,
       LlcSendOwned, LlcRecvOwned, LlcResendList, MacNode, OwnerNode, PackOfOwner, LIST_POISON1

\* The owner nodes of packs on a list.
OwnerNodes(s) == Nodes(s, OwnerNode)

LEMMA OwnerNodesFacts ==
  ASSUME NEW s \in Seq(Pack)
  PROVE  /\ OwnerNodes(s) \in Seq(Node) /\ Len(OwnerNodes(s)) = Len(s)
         /\ \A n \in 1 .. Len(s) : OwnerNodes(s)[n] = OwnerNode(s[n])
         /\ OwnerNodes(s) = <<>> <=> s = <<>>
<1>1. Len(s) \in Nat /\ \A n \in 1 .. Len(s) : OwnerNode(s[n]) \in Node
  BY NodeFacts
<1>2. OwnerNodes(s) = [n \in 1 .. Len(s) |-> OwnerNode(s[n])]
  BY DEF OwnerNodes, Nodes
<1> HIDE DEF OwnerNodes
<1>3. OwnerNodes(s) \in Seq(Node) /\ Len(OwnerNodes(s)) = Len(s)
  BY <1>1, <1>2
<1>4. OwnerNodes(s) = <<>> <=> Len(OwnerNodes(s)) = 0
  BY <1>3, EmptySeq
<1>5. s = <<>> <=> Len(s) = 0
  BY EmptySeq
<1>6. QED
  BY <1>2, <1>3, <1>4, <1>5

\* A sequence of owner nodes is known from its elements.
LEMMA OwnerNodesSame ==
  ASSUME NEW s \in Seq(Pack), NEW t \in Seq(Node), Len(t) = Len(s),
         \A n \in 1 .. Len(s) : t[n] = OwnerNode(s[n])
  PROVE  OwnerNodes(s) = t
BY OwnerNodesFacts, SeqEqual

\* What the calls do to the packs they do to the owner nodes.
LEMMA OwnerNodesOps ==
  ASSUME NEW s \in Seq(Pack)
  PROVE  /\ \A p \in Pack : OwnerNodes(Append(s, p)) = Append(OwnerNodes(s), OwnerNode(p))
         /\ s # <<>> => /\ Head(OwnerNodes(s)) = OwnerNode(Head(s))
                        /\ OwnerNodes(Tail(s)) = Tail(OwnerNodes(s))
<1>0. OwnerNodes(s) \in Seq(Node) /\ Len(OwnerNodes(s)) = Len(s) /\ Len(s) \in Nat
      /\ \A n \in 1 .. Len(s) : OwnerNodes(s)[n] = OwnerNode(s[n])
  BY OwnerNodesFacts
<1> HIDE DEF OwnerNodes
<1>1. ASSUME NEW p \in Pack PROVE OwnerNodes(Append(s, p)) = Append(OwnerNodes(s), OwnerNode(p))
  <2>1. OwnerNode(p) \in Node
    BY NodeFacts
  <2>2. Append(s, p) \in Seq(Pack) /\ Append(OwnerNodes(s), OwnerNode(p)) \in Seq(Node)
        /\ Len(Append(s, p)) = Len(s) + 1 /\ Len(Append(OwnerNodes(s), OwnerNode(p))) = Len(s) + 1
    BY <1>0, <2>1
  <2>3. \A n \in 1 .. Len(s) + 1 : Append(OwnerNodes(s), OwnerNode(p))[n] = OwnerNode(Append(s, p)[n])
    <3>1. \A n \in 1 .. Len(s) + 1 : n \in 1 .. Len(s) \/ n = Len(s) + 1
      BY <1>0
    <3>2. \A n \in 1 .. Len(s) : /\ Append(OwnerNodes(s), OwnerNode(p))[n] = OwnerNodes(s)[n]
                                 /\ Append(s, p)[n] = s[n]
      BY <1>0, <2>1
    <3>3. /\ Append(OwnerNodes(s), OwnerNode(p))[Len(s) + 1] = OwnerNode(p)
          /\ Append(s, p)[Len(s) + 1] = p
      BY <1>0, <2>1
    <3>4. QED
      BY <1>0, <3>1, <3>2, <3>3
  <2>4. QED
    BY <2>2, <2>3, OwnerNodesSame
<1>2. ASSUME s # <<>>
      PROVE  Head(OwnerNodes(s)) = OwnerNode(Head(s)) /\ OwnerNodes(Tail(s)) = Tail(OwnerNodes(s))
  <2>1. OwnerNodes(s) # <<>>
    BY <1>2, OwnerNodesFacts
  <2>2. /\ Head(s) = s[1] /\ 1 \in 1 .. Len(s) /\ Tail(s) \in Seq(Pack) /\ Len(Tail(s)) = Len(s) - 1
        /\ \A n \in 1 .. Len(s) - 1 : Tail(s)[n] = s[n + 1] /\ n + 1 \in 1 .. Len(s)
    BY <1>2
  <2>3. /\ Head(OwnerNodes(s)) = OwnerNodes(s)[1] /\ Tail(OwnerNodes(s)) \in Seq(Node)
        /\ Len(Tail(OwnerNodes(s))) = Len(s) - 1
        /\ \A n \in 1 .. Len(s) - 1 : Tail(OwnerNodes(s))[n] = OwnerNodes(s)[n + 1]
    BY <1>0, <2>1
  <2>4. QED
    BY <1>0, <2>2, <2>3, OwnerNodesSame
<1>3. QED
  BY <1>1, <1>2

\* A list of one node: the first is taken off and nothing is left.
LEMMA OneNode ==
  ASSUME NEW T, NEW e \in T
  PROVE  <<e>> \in Seq(T) /\ <<e>> # <<>> /\ Head(<<e>>) = e /\ Tail(<<e>>) = <<>> /\ Append(<<>>, e) = <<e>>
<1>1. Tail(<<e>>) \in Seq(T) /\ Len(Tail(<<e>>)) = 0
  OBVIOUS
<1>2. Append(<<>>, e) \in Seq(T) /\ Len(Append(<<>>, e)) = 1 /\ Append(<<>>, e)[1] = e
  OBVIOUS
<1>3. <<e>> \in Seq(T) /\ Len(<<e>>) = 1 /\ <<e>>[1] = e
  OBVIOUS
<1>4. \A n \in 1 .. 1 : n = 1
  OBVIOUS
<1>5. \A s, t \in Seq(T) : Len(s) = 1 /\ Len(t) = 1 /\ s[1] = t[1] => s = t
  BY <1>4, SeqEqual
<1>6. QED
  BY <1>1, <1>2, <1>3, <1>5, EmptySeq

-----------------------------------------------------------------------------
(* The seven lists of packs, by their heads. *)

PackLists(sl, rl, sp, rp, so, ro, rs) ==
  [h \in Heads |->
     CASE h = SendList -> sl [] h = RecvList -> rl
       [] h = SendListPool -> OwnerNodes(sp) [] h = RecvListPool -> OwnerNodes(rp)
       [] h = LlcSendOwned -> OwnerNodes(so) [] h = LlcRecvOwned -> OwnerNodes(ro)
       [] h = LlcResendList -> OwnerNodes(rs)]

\* The memory m holds them.
Stored(m, sl, rl, sp, rp, so, ro, rs) ==
  m \in Memory(Node, Ptr) /\ Family(m, Node, Heads, PackLists(sl, rl, sp, rp, so, ro, rs))

\* The list behind each head.
LEMMA ListsAt ==
  ASSUME NEW sl, NEW rl, NEW sp, NEW rp, NEW so, NEW ro, NEW rs
  PROVE  LET ls == PackLists(sl, rl, sp, rp, so, ro, rs)
         IN /\ ls[SendList] = sl /\ ls[RecvList] = rl
            /\ ls[SendListPool] = OwnerNodes(sp) /\ ls[RecvListPool] = OwnerNodes(rp)
            /\ ls[LlcSendOwned] = OwnerNodes(so) /\ ls[LlcRecvOwned] = OwnerNodes(ro)
            /\ ls[LlcResendList] = OwnerNodes(rs)
<1> HIDE DEF OwnerNodes
<1>1. /\ SendList \in Heads /\ RecvList \in Heads /\ SendListPool \in Heads /\ RecvListPool \in Heads
      /\ LlcSendOwned \in Heads /\ LlcRecvOwned \in Heads /\ LlcResendList \in Heads
  BY DEF Heads
<1>2. QED
  BY <1>1, HeadsDiffer DEF PackLists

\* While nothing is queued no mac_node is on a list; a head is only on its own.
LEMMA NodesFree ==
  ASSUME NEW sl, NEW rl, rl = <<>>, NEW sp \in Seq(Pack), NEW rp \in Seq(Pack), NEW so \in Seq(Pack),
         NEW ro \in Seq(Pack), NEW rs \in Seq(Pack), NEW H \in SUBSET Heads,
         SendList \in H => sl = <<>>
  PROVE  LET ls == PackLists(sl, rl, sp, rp, so, ro, rs)
         IN /\ \A p \in Pack : ~OnAny(MacNode(p), H, ls)
            /\ \A h \in Heads : h \notin H => ~OnAny(h, H, ls)
<1> DEFINE ls == PackLists(sl, rl, sp, rp, so, ro, rs)
<1>1. ASSUME NEW g \in H PROVE ls[g] = <<>> \/ \E s \in Seq(Pack) : ls[g] = OwnerNodes(s)
  <2> HIDE DEF ls
  <2>1. /\ ls[SendList] = sl /\ ls[RecvList] = rl
        /\ ls[SendListPool] = OwnerNodes(sp) /\ ls[RecvListPool] = OwnerNodes(rp)
        /\ ls[LlcSendOwned] = OwnerNodes(so) /\ ls[LlcRecvOwned] = OwnerNodes(ro)
        /\ ls[LlcResendList] = OwnerNodes(rs)
    BY ListsAt DEF ls
  <2> HIDE DEF OwnerNodes
  <2>2. CASE g = SendList
    BY <1>1, <2>1, <2>2
  <2>3. CASE g = RecvList
    BY <2>1, <2>3
  <2>4. CASE g \notin {SendList, RecvList}
    BY <2>1, <2>4 DEF Heads
  <2>5. QED
    BY <2>2, <2>3, <2>4
<1> HIDE DEF ls
<1>2. ASSUME NEW g \in H, NEW i \in 1 .. Len(ls[g]) PROVE \E q \in Pack : ls[g][i] = OwnerNode(q)
  <2>1. CASE ls[g] = <<>>
    <3>1. Len(ls[g]) = 0
      BY <2>1
    <3>2. QED
      BY <3>1
  <2>2. CASE \E s \in Seq(Pack) : ls[g] = OwnerNodes(s)
    <3>1. PICK s \in Seq(Pack) : ls[g] = OwnerNodes(s)
      BY <2>2
    <3>2. Len(ls[g]) = Len(s) /\ ls[g][i] = OwnerNode(s[i])
      BY <3>1, OwnerNodesFacts
    <3>3. s[i] \in Pack
      BY <3>2
    <3>4. QED
      BY <3>2, <3>3
  <2>3. QED
    BY <1>1, <2>1, <2>2
<1>3. ASSUME NEW p \in Pack, NEW g \in H PROVE ~OnList(MacNode(p), g, ls[g])
  BY <1>2, NodeFacts DEF OnList
<1>4. ASSUME NEW h \in Heads, h \notin H, NEW g \in H PROVE ~OnList(h, g, ls[g])
  BY <1>2, <1>4, NodeFacts DEF OnList
<1>5. QED
  BY <1>3, <1>4 DEF OnAny, ls

-----------------------------------------------------------------------------
(* What the functions of stack-comm.c do to the memory that holds them. *)

\* The operations of list.h on the seven lists.
LEMMA AddHere ==
  ASSUME NEW m \in Memory(Node, Ptr), NEW ls, Family(m, Node, Heads, ls),
         NEW h \in Heads, NEW e \in Node, ~OnAny(e, Heads, ls),
         NEW k, k[h] = Append(ls[h], e), \A g \in Heads : g # h => k[g] = ls[g]
  PROVE  list_add_tail(m, e, h) \in Memory(Node, Ptr) /\ Family(list_add_tail(m, e, h), Node, Heads, k)
<1>1. Node \subseteq Ptr
  BY DEF Ptr
<1>2. QED
  BY <1>1, FamilyAdd

\* FamilyDel for the first node of one of the seven lists.
LEMMA DelHere ==
  ASSUME NEW m \in Memory(Node, Ptr), NEW ls, Family(m, Node, Heads, ls),
         NEW h \in Heads, ls[h] # <<>>,
         NEW k, k[h] = Tail(ls[h]), \A g \in Heads : g # h => k[g] = ls[g]
  PROVE  list_del(m, Head(ls[h])) \in Memory(Node, Ptr) /\ Family(list_del(m, Head(ls[h])), Node, Heads, k)
<1>1. Node \cup {LIST_POISON1, LIST_POISON2} \subseteq Ptr
  BY DEF Ptr
<1>2. QED
  BY <1>1, FamilyDel

\* FamilyMove from the front of one of them to the end of another.
LEMMA MoveHere ==
  ASSUME NEW m \in Memory(Node, Ptr), NEW H, NEW ls, Family(m, Node, H, ls),
         NEW from \in H, NEW to \in H, from # to, ls[from] # <<>>,
         NEW k, k[from] = Tail(ls[from]), k[to] = Append(ls[to], Head(ls[from])),
         \A g \in H : g # from /\ g # to => k[g] = ls[g]
  PROVE  LET r == list_move_tail(m, Head(ls[from]), to) IN r \in Memory(Node, Ptr) /\ Family(r, Node, H, k)
<1>1. Node \subseteq Ptr
  BY DEF Ptr
<1>2. QED
  BY <1>1, FamilyMove

\* What the head of a queue, of a pool and of the resend list leads to.
LEMMA QueueFirst ==
  ASSUME NEW m, NEW sl, NEW rl, NEW sp, NEW rp, NEW so, NEW ro, NEW rs, NEW p,
         Stored(m, sl, rl, sp, rp, so, ro, rs)
  PROVE  /\ sl = <<p>> => list_first(m, SendList) = p
         /\ rl = <<p>> => list_first(m, RecvList) = p
<1> DEFINE ls == PackLists(sl, rl, sp, rp, so, ro, rs)
<1>1. ls[SendList] = sl /\ ls[RecvList] = rl
  BY ListsAt
<1>2. m \in Memory(Node, Ptr) /\ Family(m, Node, Heads, ls)
  BY DEF Stored
<1> HIDE DEF ls
<1>3. \A h \in Heads : list_first(m, h) = IF ls[h] = <<>> THEN h ELSE Head(ls[h])
  BY <1>2, FamilyFirst
<1>4. SendList \in Heads /\ RecvList \in Heads
  BY DEF Heads
<1>5. <<p>> # <<>> /\ Head(<<p>>) = p
  BY OneNode
<1>6. QED
  BY <1>1, <1>3, <1>4, <1>5

\* What list_first_entry finds on a list of owner nodes.
LEMMA OwnersFirst ==
  ASSUME NEW m \in Memory(Node, Ptr), NEW ls, Family(m, Node, Heads, ls), NEW h \in Heads,
         NEW s \in Seq(Pack), ls[h] = OwnerNodes(s)
  PROVE  /\ list_first(m, h) = IF s = <<>> THEN h ELSE OwnerNode(Head(s))
         /\ list_empty(m, h) <=> s = <<>>
<1>1. /\ list_first(m, h) = IF ls[h] = <<>> THEN h ELSE Head(ls[h])
      /\ list_empty(m, h) <=> ls[h] = <<>>
  BY FamilyFirst
<1>2. OwnerNodes(s) = <<>> <=> s = <<>>
  BY OwnerNodesFacts
<1>3. s # <<>> => Head(OwnerNodes(s)) = OwnerNode(Head(s))
  BY OwnerNodesOps
<1> HIDE DEF OwnerNodes
<1>4. QED
  BY <1>1, <1>2, <1>3

\* list_first_entry of the send pool, the receive pool and the resend list.
LEMMA SendPoolFirst ==
  ASSUME NEW m, NEW sl, NEW rl, NEW sp \in Seq(Pack), NEW rp, NEW so,
         NEW ro, NEW rs, Stored(m, sl, rl, sp, rp, so, ro, rs)
  PROVE  sp # <<>> => list_first(m, SendListPool) = OwnerNode(Head(sp))
<1> DEFINE ls == PackLists(sl, rl, sp, rp, so, ro, rs)
<1>1. SendListPool \in Heads /\ ls[SendListPool] = OwnerNodes(sp)
  BY ListsAt DEF Heads
<1>2. m \in Memory(Node, Ptr) /\ Family(m, Node, Heads, ls)
  BY DEF Stored
<1> HIDE DEF ls
<1>3. QED
  BY <1>1, <1>2, OwnersFirst

LEMMA RecvPoolFirst ==
  ASSUME NEW m, NEW sl, NEW rl, NEW sp, NEW rp \in Seq(Pack), NEW so,
         NEW ro, NEW rs, Stored(m, sl, rl, sp, rp, so, ro, rs)
  PROVE  rp # <<>> => list_first(m, RecvListPool) = OwnerNode(Head(rp))
<1> DEFINE ls == PackLists(sl, rl, sp, rp, so, ro, rs)
<1>1. RecvListPool \in Heads /\ ls[RecvListPool] = OwnerNodes(rp)
  BY ListsAt DEF Heads
<1>2. m \in Memory(Node, Ptr) /\ Family(m, Node, Heads, ls)
  BY DEF Stored
<1> HIDE DEF ls
<1>3. QED
  BY <1>1, <1>2, OwnersFirst

LEMMA ResendFirst ==
  ASSUME NEW m, NEW sl, NEW rl, NEW sp, NEW rp, NEW so,
         NEW ro, NEW rs \in Seq(Pack), Stored(m, sl, rl, sp, rp, so, ro, rs)
  PROVE  /\ list_first(m, LlcResendList) = IF rs = <<>> THEN LlcResendList ELSE OwnerNode(Head(rs))
         /\ list_empty(m, LlcResendList) <=> rs = <<>>
<1> DEFINE ls == PackLists(sl, rl, sp, rp, so, ro, rs)
<1>1. LlcResendList \in Heads /\ ls[LlcResendList] = OwnerNodes(rs)
  BY ListsAt DEF Heads
<1>2. m \in Memory(Node, Ptr) /\ Family(m, Node, Heads, ls)
  BY DEF Stored
<1> HIDE DEF ls
<1>3. QED
  BY <1>1, <1>2, OwnersFirst

\* list_add_tail of a mac_node to the send queue or the receive queue.
LEMMA CommitLists ==
  ASSUME NEW m, NEW sp \in Seq(Pack), NEW rp \in Seq(Pack), NEW so \in Seq(Pack),
         NEW ro \in Seq(Pack), NEW rs \in Seq(Pack), NEW p \in Pack,
         Stored(m, <<>>, <<>>, sp, rp, so, ro, rs)
  PROVE  /\ Stored(list_add_tail(m, MacNode(p), SendList), <<p>>, <<>>, sp, rp, so, ro, rs)
         /\ Stored(list_add_tail(m, MacNode(p), RecvList), <<>>, <<p>>, sp, rp, so, ro, rs)
<1> DEFINE ls == PackLists(<<>>, <<>>, sp, rp, so, ro, rs)
           e == MacNode(p)
<1>0. e \in Node /\ e = p
  BY NodeFacts
<1>1. m \in Memory(Node, Ptr) /\ Family(m, Node, Heads, ls) /\ ~OnAny(e, Heads, ls)
  <2>1. <<>> \in Seq(Pack)
    OBVIOUS
  <2>2. QED
    BY <2>1, NodesFree DEF Stored
<1>2. Append(<<>>, e) = <<p>>
  BY <1>0
<1>3. Node \subseteq Ptr /\ SendList \in Heads /\ RecvList \in Heads /\ SendList # RecvList
  BY HeadsDiffer DEF Ptr, Heads
<1>4. ASSUME NEW k, k = PackLists(<<p>>, <<>>, sp, rp, so, ro, rs)
      PROVE  Stored(list_add_tail(m, MacNode(p), SendList), <<p>>, <<>>, sp, rp, so, ro, rs)
  <2>1. k[SendList] = Append(ls[SendList], e) /\ \A g \in Heads : g # SendList => k[g] = ls[g]
    <3> HIDE DEF e
    <3>1. ls[SendList] = <<>> /\ k[SendList] = <<p>>
      BY <1>4, ListsAt
    <3>2. \A g \in Heads : g # SendList => k[g] = ls[g]
      BY <1>4, ListsAt DEF Heads
    <3>3. QED
      BY <1>2, <3>1, <3>2
  <2> HIDE DEF ls
  <2>2. LET r == list_add_tail(m, e, SendList) IN r \in Memory(Node, Ptr) /\ Family(r, Node, Heads, k)
    BY <1>0, <1>1, <1>3, <2>1, AddHere
  <2>3. QED
    BY <1>4, <2>2 DEF Stored
<1>5. ASSUME NEW k, k = PackLists(<<>>, <<p>>, sp, rp, so, ro, rs)
      PROVE  Stored(list_add_tail(m, MacNode(p), RecvList), <<>>, <<p>>, sp, rp, so, ro, rs)
  <2>1. k[RecvList] = Append(ls[RecvList], e) /\ \A g \in Heads : g # RecvList => k[g] = ls[g]
    <3> HIDE DEF e
    <3>1. ls[RecvList] = <<>> /\ k[RecvList] = <<p>>
      BY <1>5, ListsAt
    <3>2. \A g \in Heads : g # RecvList => k[g] = ls[g]
      BY <1>5, ListsAt DEF Heads
    <3>3. QED
      BY <1>2, <3>1, <3>2
  <2> HIDE DEF ls
  <2>2. LET r == list_add_tail(m, e, RecvList) IN r \in Memory(Node, Ptr) /\ Family(r, Node, Heads, k)
    BY <1>0, <1>1, <1>3, <2>1, AddHere
  <2>3. QED
    BY <1>5, <2>2 DEF Stored
<1>6. QED
  BY <1>4, <1>5

\* list_del of the only node of the send queue or the receive queue.
LEMMA DelLists ==
  ASSUME NEW m, NEW sl, NEW rl, NEW sp \in Seq(Pack), NEW rp \in Seq(Pack), NEW so \in Seq(Pack),
         NEW ro \in Seq(Pack), NEW rs \in Seq(Pack), NEW p \in Pack,
         Stored(m, sl, rl, sp, rp, so, ro, rs)
  PROVE  /\ sl = <<p>> => Stored(list_del(m, p), <<>>, rl, sp, rp, so, ro, rs)
         /\ rl = <<p>> => Stored(list_del(m, p), sl, <<>>, sp, rp, so, ro, rs)
<1> DEFINE ls == PackLists(sl, rl, sp, rp, so, ro, rs)
<1>1. m \in Memory(Node, Ptr) /\ Family(m, Node, Heads, ls)
  BY DEF Stored
<1>2. <<p>> # <<>> /\ Head(<<p>>) = p /\ Tail(<<p>>) = <<>>
  BY OneNode
<1>3. /\ Node \cup {LIST_POISON1, LIST_POISON2} \subseteq Ptr
      /\ SendList \in Heads /\ RecvList \in Heads /\ SendList # RecvList
  BY HeadsDiffer DEF Ptr, Heads
<1>4. ASSUME sl = <<p>>, NEW k, k = PackLists(<<>>, rl, sp, rp, so, ro, rs)
      PROVE  Stored(list_del(m, p), <<>>, rl, sp, rp, so, ro, rs)
  <2>1. ls[SendList] = sl /\ k[SendList] = <<>> /\ \A g \in Heads : g # SendList => k[g] = ls[g]
    <3>1. ls[SendList] = sl /\ k[SendList] = <<>>
      BY <1>4, ListsAt
    <3>2. \A g \in Heads : g # SendList => k[g] = ls[g]
      BY <1>4, ListsAt DEF Heads
    <3>3. QED
      BY <3>1, <3>2
  <2> HIDE DEF ls
  <2>2. ls[SendList] # <<>> /\ k[SendList] = Tail(ls[SendList]) /\ Head(ls[SendList]) = p
    BY <1>2, <1>4, <2>1
  <2>3. LET r == list_del(m, Head(ls[SendList])) IN r \in Memory(Node, Ptr) /\ Family(r, Node, Heads, k)
    BY <1>1, <1>3, <2>1, <2>2, DelHere
  <2>4. QED
    BY <1>4, <2>2, <2>3 DEF Stored
<1>5. ASSUME rl = <<p>>, NEW k, k = PackLists(sl, <<>>, sp, rp, so, ro, rs)
      PROVE  Stored(list_del(m, p), sl, <<>>, sp, rp, so, ro, rs)
  <2>1. ls[RecvList] = rl /\ k[RecvList] = <<>> /\ \A g \in Heads : g # RecvList => k[g] = ls[g]
    <3>1. ls[RecvList] = rl /\ k[RecvList] = <<>>
      BY <1>5, ListsAt
    <3>2. \A g \in Heads : g # RecvList => k[g] = ls[g]
      BY <1>5, ListsAt DEF Heads
    <3>3. QED
      BY <3>1, <3>2
  <2> HIDE DEF ls
  <2>2. ls[RecvList] # <<>> /\ k[RecvList] = Tail(ls[RecvList]) /\ Head(ls[RecvList]) = p
    BY <1>2, <1>5, <2>1
  <2>3. LET r == list_del(m, Head(ls[RecvList])) IN r \in Memory(Node, Ptr) /\ Family(r, Node, Heads, k)
    BY <1>1, <1>3, <2>1, <2>2, DelHere
  <2>4. QED
    BY <1>5, <2>2, <2>3 DEF Stored
<1>6. QED
  BY <1>4, <1>5

\* list_move_tail of the first owner_node of one list of owner_nodes to another.
LEMMA MoveLists ==
  ASSUME NEW m, NEW from \in Heads, NEW to \in Heads, from # to, NEW s \in Seq(Pack), s # <<>>,
         NEW t \in Seq(Pack),
         NEW ls, m \in Memory(Node, Ptr), Family(m, Node, Heads, ls),
         ls[from] = OwnerNodes(s), ls[to] = OwnerNodes(t),
         NEW k, k[from] = OwnerNodes(Tail(s)), k[to] = OwnerNodes(Append(t, Head(s))),
         \A g \in Heads : g # from /\ g # to => k[g] = ls[g]
  PROVE  LET r == list_move_tail(m, OwnerNode(Head(s)), to)
         IN r \in Memory(Node, Ptr) /\ Family(r, Node, Heads, k)
<1>1. Head(s) \in Pack /\ Node \subseteq Ptr
  BY TailFacts DEF Ptr
<1>2. /\ OwnerNodes(s) # <<>> /\ Head(OwnerNodes(s)) = OwnerNode(Head(s))
      /\ OwnerNodes(Tail(s)) = Tail(OwnerNodes(s))
      /\ OwnerNodes(Append(t, Head(s))) = Append(OwnerNodes(t), OwnerNode(Head(s)))
  BY <1>1, OwnerNodesFacts, OwnerNodesOps
<1> HIDE DEF OwnerNodes
<1>3. /\ ls[from] # <<>> /\ Head(ls[from]) = OwnerNode(Head(s))
      /\ k[from] = Tail(ls[from]) /\ k[to] = Append(ls[to], Head(ls[from]))
  BY <1>2
<1>4. LET r == list_move_tail(m, Head(ls[from]), to)
      IN r \in Memory(Node, Ptr) /\ Family(r, Node, Heads, k)
  BY <1>1, <1>3, MoveHere
<1>5. QED
  BY <1>3, <1>4

\* The moves between the pools and the owned and resend lists.
LEMMA MovesStored ==
  ASSUME NEW m, NEW sl, NEW rl, NEW sp \in Seq(Pack), NEW rp \in Seq(Pack), NEW so \in Seq(Pack),
         NEW ro \in Seq(Pack), NEW rs \in Seq(Pack),
         Stored(m, sl, rl, sp, rp, so, ro, rs)
  PROVE  /\ ro # <<>> => Stored(list_move_tail(m, OwnerNode(Head(ro)), RecvListPool),
                                sl, rl, sp, Append(rp, Head(ro)), so, Tail(ro), rs)
         /\ rp # <<>> => Stored(list_move_tail(m, OwnerNode(Head(rp)), LlcRecvOwned),
                                sl, rl, sp, Tail(rp), so, Append(ro, Head(rp)), rs)
         /\ rs # <<>> => Stored(list_move_tail(m, OwnerNode(Head(rs)), SendListPool),
                                sl, rl, Append(sp, Head(rs)), rp, so, ro, Tail(rs))
         /\ sp # <<>> => Stored(list_move_tail(m, OwnerNode(Head(sp)), LlcSendOwned),
                                sl, rl, Tail(sp), rp, Append(so, Head(sp)), ro, rs)
         /\ so # <<>> => Stored(list_move_tail(m, OwnerNode(Head(so)), LlcResendList),
                                sl, rl, sp, rp, Tail(so), ro, Append(rs, Head(so)))
<1> DEFINE ls == PackLists(sl, rl, sp, rp, so, ro, rs)
<1>1. m \in Memory(Node, Ptr) /\ Family(m, Node, Heads, ls)
  BY DEF Stored
<1>2. /\ ls[SendList] = sl /\ ls[RecvList] = rl
      /\ ls[SendListPool] = OwnerNodes(sp) /\ ls[RecvListPool] = OwnerNodes(rp)
      /\ ls[LlcSendOwned] = OwnerNodes(so) /\ ls[LlcRecvOwned] = OwnerNodes(ro)
      /\ ls[LlcResendList] = OwnerNodes(rs)
  BY ListsAt
<1>3. /\ SendListPool \in Heads /\ RecvListPool \in Heads /\ LlcSendOwned \in Heads
      /\ LlcRecvOwned \in Heads /\ LlcResendList \in Heads
  BY DEF Heads
<1> HIDE DEF ls, OwnerNodes
<1>4. ASSUME ro # <<>>, NEW k, k = PackLists(sl, rl, sp, Append(rp, Head(ro)), so, Tail(ro), rs)
      PROVE  Stored(list_move_tail(m, OwnerNode(Head(ro)), RecvListPool), sl, rl, sp, Append(rp, Head(ro)), so, Tail(ro), rs)
  <2>1. k[LlcRecvOwned] = OwnerNodes(Tail(ro)) /\ k[RecvListPool] = OwnerNodes(Append(rp, Head(ro)))
    BY <1>4, ListsAt
  <2>2. \A g \in Heads : g # LlcRecvOwned /\ g # RecvListPool => k[g] = ls[g]
    BY <1>2, <1>4, ListsAt DEF Heads
  <2>3. /\ ro # <<>> /\ LlcRecvOwned \in Heads /\ RecvListPool \in Heads /\ LlcRecvOwned # RecvListPool
        /\ ls[LlcRecvOwned] = OwnerNodes(ro) /\ ls[RecvListPool] = OwnerNodes(rp)
    BY <1>2, <1>3, <1>4, HeadsDiffer
  <2>4. LET r == list_move_tail(m, OwnerNode(Head(ro)), RecvListPool)
        IN r \in Memory(Node, Ptr) /\ Family(r, Node, Heads, k)
    BY <1>1, <2>1, <2>2, <2>3, MoveLists
  <2>5. QED
    BY <1>4, <2>4 DEF Stored
<1>5. ASSUME rp # <<>>, NEW k, k = PackLists(sl, rl, sp, Tail(rp), so, Append(ro, Head(rp)), rs)
      PROVE  Stored(list_move_tail(m, OwnerNode(Head(rp)), LlcRecvOwned), sl, rl, sp, Tail(rp), so, Append(ro, Head(rp)), rs)
  <2>1. k[RecvListPool] = OwnerNodes(Tail(rp)) /\ k[LlcRecvOwned] = OwnerNodes(Append(ro, Head(rp)))
    BY <1>5, ListsAt
  <2>2. \A g \in Heads : g # RecvListPool /\ g # LlcRecvOwned => k[g] = ls[g]
    BY <1>2, <1>5, ListsAt DEF Heads
  <2>3. /\ rp # <<>> /\ RecvListPool \in Heads /\ LlcRecvOwned \in Heads /\ RecvListPool # LlcRecvOwned
        /\ ls[RecvListPool] = OwnerNodes(rp) /\ ls[LlcRecvOwned] = OwnerNodes(ro)
    BY <1>2, <1>3, <1>5, HeadsDiffer
  <2>4. LET r == list_move_tail(m, OwnerNode(Head(rp)), LlcRecvOwned)
        IN r \in Memory(Node, Ptr) /\ Family(r, Node, Heads, k)
    BY <1>1, <2>1, <2>2, <2>3, MoveLists
  <2>5. QED
    BY <1>5, <2>4 DEF Stored
<1>6. ASSUME rs # <<>>, NEW k, k = PackLists(sl, rl, Append(sp, Head(rs)), rp, so, ro, Tail(rs))
      PROVE  Stored(list_move_tail(m, OwnerNode(Head(rs)), SendListPool), sl, rl, Append(sp, Head(rs)), rp, so, ro, Tail(rs))
  <2>1. k[LlcResendList] = OwnerNodes(Tail(rs)) /\ k[SendListPool] = OwnerNodes(Append(sp, Head(rs)))
    BY <1>6, ListsAt
  <2>2. \A g \in Heads : g # LlcResendList /\ g # SendListPool => k[g] = ls[g]
    BY <1>2, <1>6, ListsAt DEF Heads
  <2>3. /\ rs # <<>> /\ LlcResendList \in Heads /\ SendListPool \in Heads /\ LlcResendList # SendListPool
        /\ ls[LlcResendList] = OwnerNodes(rs) /\ ls[SendListPool] = OwnerNodes(sp)
    BY <1>2, <1>3, <1>6, HeadsDiffer
  <2>4. LET r == list_move_tail(m, OwnerNode(Head(rs)), SendListPool)
        IN r \in Memory(Node, Ptr) /\ Family(r, Node, Heads, k)
    BY <1>1, <2>1, <2>2, <2>3, MoveLists
  <2>5. QED
    BY <1>6, <2>4 DEF Stored
<1>7. ASSUME sp # <<>>, NEW k, k = PackLists(sl, rl, Tail(sp), rp, Append(so, Head(sp)), ro, rs)
      PROVE  Stored(list_move_tail(m, OwnerNode(Head(sp)), LlcSendOwned), sl, rl, Tail(sp), rp, Append(so, Head(sp)), ro, rs)
  <2>1. k[SendListPool] = OwnerNodes(Tail(sp)) /\ k[LlcSendOwned] = OwnerNodes(Append(so, Head(sp)))
    BY <1>7, ListsAt
  <2>2. \A g \in Heads : g # SendListPool /\ g # LlcSendOwned => k[g] = ls[g]
    BY <1>2, <1>7, ListsAt DEF Heads
  <2>3. /\ sp # <<>> /\ SendListPool \in Heads /\ LlcSendOwned \in Heads /\ SendListPool # LlcSendOwned
        /\ ls[SendListPool] = OwnerNodes(sp) /\ ls[LlcSendOwned] = OwnerNodes(so)
    BY <1>2, <1>3, <1>7, HeadsDiffer
  <2>4. LET r == list_move_tail(m, OwnerNode(Head(sp)), LlcSendOwned)
        IN r \in Memory(Node, Ptr) /\ Family(r, Node, Heads, k)
    BY <1>1, <2>1, <2>2, <2>3, MoveLists
  <2>5. QED
    BY <1>7, <2>4 DEF Stored
<1>8. ASSUME so # <<>>, NEW k, k = PackLists(sl, rl, sp, rp, Tail(so), ro, Append(rs, Head(so)))
      PROVE  Stored(list_move_tail(m, OwnerNode(Head(so)), LlcResendList), sl, rl, sp, rp, Tail(so), ro, Append(rs, Head(so)))
  <2>1. k[LlcSendOwned] = OwnerNodes(Tail(so)) /\ k[LlcResendList] = OwnerNodes(Append(rs, Head(so)))
    BY <1>8, ListsAt
  <2>2. \A g \in Heads : g # LlcSendOwned /\ g # LlcResendList => k[g] = ls[g]
    BY <1>2, <1>8, ListsAt DEF Heads
  <2>3. /\ so # <<>> /\ LlcSendOwned \in Heads /\ LlcResendList \in Heads /\ LlcSendOwned # LlcResendList
        /\ ls[LlcSendOwned] = OwnerNodes(so) /\ ls[LlcResendList] = OwnerNodes(rs)
    BY <1>2, <1>3, <1>8, HeadsDiffer
  <2>4. LET r == list_move_tail(m, OwnerNode(Head(so)), LlcResendList)
        IN r \in Memory(Node, Ptr) /\ Family(r, Node, Heads, k)
    BY <1>1, <2>1, <2>2, <2>3, MoveLists
  <2>5. QED
    BY <1>8, <2>4 DEF Stored
<1>9. QED
  BY <1>4, <1>5, <1>6, <1>7, <1>8

\* stk_put_recv_packholder of the one pack that is out.
LEMMA PutLists ==
  ASSUME NEW m, NEW sl, NEW rl, NEW sp \in Seq(Pack), NEW rp \in Seq(Pack), NEW so \in Seq(Pack),
         NEW rs \in Seq(Pack), NEW p \in Pack,
         Stored(m, sl, rl, sp, rp, so, <<p>>, rs)
  PROVE  Stored(ListPutRecv(m, p), sl, rl, sp, Append(rp, p), so, <<>>, rs)
<1>1. <<p>> \in Seq(Pack) /\ <<p>> # <<>> /\ Head(<<p>>) = p /\ Tail(<<p>>) = <<>>
  BY OneNode
<1>2. Stored(list_move_tail(m, OwnerNode(Head(<<p>>)), RecvListPool),
             sl, rl, sp, Append(rp, Head(<<p>>)), so, Tail(<<p>>), rs)
  BY <1>1, MovesStored
<1>3. QED
  BY <1>1, <1>2 DEF ListPutRecv

\* stk_llc_mark_as_received of the one pack in the receive queue.
LEMMA LookLists ==
  ASSUME NEW m, NEW sl \in Seq(Pack), NEW sp \in Seq(Pack), NEW rp \in Seq(Pack), NEW so \in Seq(Pack),
         NEW rs \in Seq(Pack), NEW p \in Pack,
         Stored(m, sl, <<p>>, sp, rp, so, <<p>>, rs)
  PROVE  Stored(ListMarkAsReceived(m), sl, <<>>, sp, Append(rp, p), so, <<>>, rs)
<1>1. <<p>> \in Seq(Pack) /\ <<p>> # <<>> /\ Head(<<p>>) = p
  BY OneNode
<1>2. list_first(m, RecvList) = p
  BY QueueFirst
<1>3. Stored(list_del(m, p), sl, <<>>, sp, rp, so, <<p>>, rs)
  BY <1>1, DelLists
<1>4. Stored(ListPutRecv(list_del(m, p), p), sl, <<>>, sp, Append(rp, p), so, <<>>, rs)
  BY <1>3, PutLists
<1>5. QED
  BY <1>2, <1>4 DEF ListMarkAsReceived

\* A fresh packet: from the pool through the owned list to the resend list, its
\* mac_node to the send queue.
LEMMA SendLists ==
  ASSUME NEW m, NEW sp \in Seq(Pack), sp # <<>>, NEW rp \in Seq(Pack), NEW ro \in Seq(Pack),
         Stored(m, <<>>, <<>>, sp, rp, <<>>, ro, <<>>)
  PROVE  Stored(ListSendSingle(m), <<Head(sp)>>, <<>>, Tail(sp), rp, <<>>, ro, <<Head(sp)>>)
<1> DEFINE p == Head(sp)
           owned == list_move_tail(m, OwnerNode(p), LlcSendOwned)
           queued == list_add_tail(owned, MacNode(p), SendList)
<1>1. p \in Pack /\ Tail(sp) \in Seq(Pack) /\ <<>> \in Seq(Pack)
  BY TailFacts
<1>2. <<p>> \in Seq(Pack) /\ <<p>> # <<>> /\ Head(<<p>>) = p /\ Tail(<<p>>) = <<>> /\ Append(<<>>, p) = <<p>>
  BY <1>1, OneNode
<1>3. list_first(m, SendListPool) = OwnerNode(p) /\ PackOfOwner(OwnerNode(p)) = p
  <2>1. list_first(m, SendListPool) = OwnerNode(Head(sp))
    BY <1>1, SendPoolFirst
  <2>2. QED
    BY <1>1, <2>1, NodeFacts
<1>4. Stored(owned, <<>>, <<>>, Tail(sp), rp, <<p>>, ro, <<>>)
  <2>1. Stored(owned, <<>>, <<>>, Tail(sp), rp, Append(<<>>, p), ro, <<>>)
    BY <1>1, MovesStored
  <2>2. QED
    BY <1>2, <2>1
<1> HIDE DEF owned
<1>5. Stored(queued, <<p>>, <<>>, Tail(sp), rp, <<p>>, ro, <<>>)
  <2> HIDE DEF p
  <2>1. QED
    BY <1>1, <1>2, <1>4, CommitLists
<1> HIDE DEF queued
<1>6. Stored(list_move_tail(queued, OwnerNode(p), LlcResendList),
             <<p>>, <<>>, Tail(sp), rp, <<>>, ro, <<p>>)
  <2> HIDE DEF p
  <2>1. Stored(list_move_tail(queued, OwnerNode(Head(<<p>>)), LlcResendList),
               <<p>>, <<>>, Tail(sp), rp, Tail(<<p>>), ro, Append(<<>>, Head(<<p>>)))
    BY <1>1, <1>2, <1>5, MovesStored
  <2>2. QED
    BY <1>2, <2>1
<1>7. ListSendSingle(m) = list_move_tail(queued, OwnerNode(p), LlcResendList)
  BY <1>3 DEF ListSendSingle, ListCommit, owned, queued
<1>8. QED
  BY <1>6, <1>7

\* Once the loop of stk_llc_resend_clear_all has come back to the head, it ends.
LEMMA RoundsEnd ==
  ASSUME NEW m, NEW j \in 0 .. PoolSize, ResendRounds(m)[j].child = LlcResendList
  PROVE  MoveResendToPool(m) = ResendRounds(m)[j].mem
<1>1. PICK f : f = ResendRounds(m)
  OBVIOUS
<1>2. \A k \in 1 .. PoolSize : f[k - 1].child = LlcResendList => f[k] = f[k - 1]
  <2>1. ASSUME NEW k \in 1 .. PoolSize, f[k - 1].child = LlcResendList PROVE f[k] = f[k - 1]
    <3>1. k \in 0 .. PoolSize /\ k # 0
      OBVIOUS
    <3>2. QED
      BY <1>1, <2>1, <3>1, ResendRoundsDef
  <2>2. QED
    BY <2>1
<1> DEFINE S == {n \in Nat : j + n <= PoolSize => f[j + n] = f[j]}
<1>3. 0 \in S
  OBVIOUS
<1>4. ASSUME NEW n \in Nat, n \in S PROVE n + 1 \in S
  <2>1. SUFFICES ASSUME j + (n + 1) <= PoolSize PROVE f[j + (n + 1)] = f[j]
    OBVIOUS
  <2>2. j + (n + 1) \in 1 .. PoolSize /\ (j + (n + 1)) - 1 = j + n /\ j + n <= PoolSize
    BY <2>1, TsmAssumption
  <2>3. f[j + n] = f[j] /\ f[j + n].child = LlcResendList
    BY <1>1, <1>4, <2>2
  <2>4. QED
    BY <1>2, <2>2, <2>3
<1>5. PoolSize - j \in Nat /\ j + (PoolSize - j) = PoolSize
  BY TsmAssumption
<1>6. PoolSize - j \in S
  <2> HIDE DEF S
  <2>1. QED
    BY <1>3, <1>4, <1>5, NatSet
<1>7. f[PoolSize] = f[j]
  BY <1>5, <1>6
<1>8. QED
  BY <1>1, <1>7 DEF MoveResendToPool

\* Initialising the head of an empty list writes what is there.
LEMMA InitEmpty ==
  ASSUME NEW N, NEW L, NEW m \in Memory(N, L), NEW h, Chain(N, h, <<>>), Holds(m, h, <<>>)
  PROVE  INIT_LIST_HEAD(m, h) = m
<1>1. h \in N /\ Linked(m, h, <<>>)
  BY ListNodes
<1>2. m[h].next = h /\ m[h].prev = h /\ DOMAIN m = N /\ m[h] \in [next : L, prev : L]
  BY <1>1 DEF Linked, Memory
<1>3. [m[h] EXCEPT !["next"] = h] = m[h] /\ [m[h] EXCEPT !["prev"] = h] = m[h]
  BY <1>2
<1>4. Set(m, h, "next", h) = m /\ Set(m, h, "prev", h) = m
  BY <1>1, <1>2, <1>3 DEF Set, Memory
<1>5. QED
  BY <1>4 DEF INIT_LIST_HEAD

\* The loop of stk_llc_resend_clear_all on a list of at most one pack.
LEMMA ClearRounds ==
  ASSUME NEW m \in Memory(Node, Ptr), NEW s \in Seq(Pack), Len(s) <= 1,
         Chain(Node, LlcResendList, OwnerNodes(s)), Holds(m, LlcResendList, OwnerNodes(s))
  PROVE  /\ s = <<>> => MoveResendToPool(m) = m
         /\ s # <<>> => MoveResendToPool(m) = list_move_tail(m, OwnerNode(Head(s)), SendListPool)
<1>1. PICK r : r = MoveResendToPool(m)
  OBVIOUS
<1>2. PICK f : f = ResendRounds(m)
  OBVIOUS
<1>3. PICK t : t = OwnerNodes(s)
  OBVIOUS
<1>4. 0 \in 0 .. PoolSize /\ 1 \in 0 .. PoolSize /\ 1 # 0 /\ 1 - 1 = 0
  BY TsmAssumption
<1>5. f[0] = [mem |-> m, child |-> list_first(m, LlcResendList)]
  BY <1>2, <1>4, ResendRoundsDef
<1>6. f[0].mem = m /\ f[0].child = m[LlcResendList].next
  BY <1>5, HeadsDiffer DEF list_first, Get, Memory, Heads
<1>7. Linked(m, LlcResendList, t) /\ Len(t) = Len(s)
  BY <1>3, ListNodes, OwnerNodesFacts
<1>8. CASE s = <<>>
  <2>1. m[LlcResendList].next = LlcResendList
    BY <1>7, <1>8 DEF Linked
  <2>2. r = m
    BY <1>1, <1>2, <1>4, <1>6, <2>1, RoundsEnd
  <2>3. QED
    BY <1>1, <1>8, <2>2
<1>9. CASE s # <<>>
  <2> DEFINE e == OwnerNode(Head(s))
             moved == list_move_tail(m, e, SendListPool)
  <2>1. Len(s) = 1 /\ 1 \in 1 .. Len(s) /\ Head(s) = s[1] /\ Head(s) \in Pack
    <3>1. Len(s) = 1 /\ Head(s) \in Pack
      BY <1>9, OneLong
    <3>2. Head(s) = s[1]
      BY <1>9, TailFacts
    <3>3. QED
      BY <3>1, <3>2
  <2>2. t[1] = e /\ e \in Node /\ e # LlcResendList
    <3>1. e \in Node /\ e \notin Heads
      BY <2>1, NodeFacts
    <3>2. t[1] = e
      BY <1>3, <2>1, OwnerNodesFacts
    <3>3. QED
      BY <3>1, <3>2 DEF Heads
  <2> HIDE DEF e
  <2>3. m[LlcResendList].next = e /\ m[e].next = LlcResendList
    BY <1>7, <2>1, <2>2 DEF Linked
  <2>4. f[0].child = e /\ Get(m, e, "next") = LlcResendList
    BY <1>6, <2>2, <2>3 DEF Get, Memory
  <2>5. f[1] = [mem |-> moved, child |-> LlcResendList]
    <3>1. f = [k \in 0 .. PoolSize |->
                 IF k = 0 THEN [mem |-> m, child |-> list_first(m, LlcResendList)]
                 ELSE IF f[k - 1].child = LlcResendList THEN f[k - 1]
                 ELSE [mem |-> list_move_tail(f[k - 1].mem, f[k - 1].child, SendListPool),
                       child |-> Get(f[k - 1].mem, f[k - 1].child, "next")]]
      BY <1>2, ResendRoundsDef
    <3>2. \A k \in 0 .. PoolSize : k # 0 =>
            f[k] = IF f[k - 1].child = LlcResendList THEN f[k - 1]
                   ELSE [mem |-> list_move_tail(f[k - 1].mem, f[k - 1].child, SendListPool),
                         child |-> Get(f[k - 1].mem, f[k - 1].child, "next")]
      BY <3>1
    <3>3. f[1] = IF f[1 - 1].child = LlcResendList THEN f[1 - 1]
                 ELSE [mem |-> list_move_tail(f[1 - 1].mem, f[1 - 1].child, SendListPool),
                       child |-> Get(f[1 - 1].mem, f[1 - 1].child, "next")]
      BY <1>4, <3>2
    <3>4. f[1 - 1] = f[0] /\ f[0].child # LlcResendList
      BY <1>4, <2>2, <2>4
    <3>5. QED
      BY <1>6, <2>4, <3>3, <3>4
  <2> HIDE DEF moved
  <2>6. f[1].mem = moved /\ f[1].child = LlcResendList
    BY <2>5
  <2>7. r = moved
    BY <1>1, <1>2, <1>4, <2>6, RoundsEnd
  <2>8. QED
    BY <1>1, <1>9, <2>7 DEF moved, e
<1>10. QED
  BY <1>8, <1>9

\* The moves leave the list empty, also when the send queue H leaves out is not
\* a list any more.
LEMMA ClearEmpties ==
  ASSUME NEW m \in Memory(Node, Ptr), NEW H \in SUBSET Heads, NEW ls, Family(m, Node, H, ls),
         LlcResendList \in H, SendListPool \in H,
         NEW s \in Seq(Pack), Len(s) <= 1, ls[LlcResendList] = OwnerNodes(s)
  PROVE  list_empty(MoveResendToPool(m), LlcResendList)
<1>1. Chain(Node, LlcResendList, OwnerNodes(s)) /\ Holds(m, LlcResendList, OwnerNodes(s))
  BY DEF Family
<1>2. OwnerNodes(s) = <<>> <=> s = <<>>
  BY OwnerNodesFacts
<1> HIDE DEF OwnerNodes
<1>3. CASE s = <<>>
  <2>1. MoveResendToPool(m) = m
    BY <1>1, <1>3, ClearRounds
  <2>2. list_empty(m, LlcResendList) <=> ls[LlcResendList] = <<>>
    BY FamilyFirst
  <2>3. QED
    BY <1>2, <1>3, <2>1, <2>2
<1>4. CASE s # <<>>
  <2> DEFINE e == OwnerNode(Head(s))
             moved == list_move_tail(m, e, SendListPool)
             k == [g \in H |-> IF g = LlcResendList THEN Tail(ls[g])
                               ELSE IF g = SendListPool THEN Append(ls[g], e) ELSE ls[g]]
  <2>1. MoveResendToPool(m) = moved
    BY <1>1, <1>4, ClearRounds
  <2>2. ls[LlcResendList] # <<>> /\ Head(ls[LlcResendList]) = e /\ Tail(ls[LlcResendList]) = <<>>
    <3>1. Head(OwnerNodes(s)) = e /\ Tail(OwnerNodes(s)) = OwnerNodes(Tail(s)) /\ Tail(s) = <<>>
      BY <1>4, OwnerNodesOps, OneLong
    <3>2. OwnerNodes(<<>>) = <<>>
      <4>1. <<>> \in Seq(Pack)
        OBVIOUS
      <4>2. QED
        BY <4>1, OwnerNodesFacts
    <3> HIDE DEF e
    <3>3. QED
      BY <1>2, <1>4, <3>1, <3>2
  <2> HIDE DEF e
  <2>3. /\ LlcResendList # SendListPool
        /\ k[LlcResendList] = Tail(ls[LlcResendList]) /\ k[SendListPool] = Append(ls[SendListPool], e)
        /\ \A g \in H : g # LlcResendList /\ g # SendListPool => k[g] = ls[g]
    BY HeadsDiffer
  <2>4. ls[LlcResendList] # <<>> /\ k[SendListPool] = Append(ls[SendListPool], Head(ls[LlcResendList]))
    BY <2>2, <2>3
  <2> HIDE DEF k
  <2>5. LET r == list_move_tail(m, Head(ls[LlcResendList]), SendListPool)
        IN r \in Memory(Node, Ptr) /\ Family(r, Node, H, k)
    BY <2>3, <2>4, MoveHere
  <2>6. moved \in Memory(Node, Ptr) /\ Family(moved, Node, H, k)
    BY <2>2, <2>5
  <2> HIDE DEF moved
  <2>7. list_empty(moved, LlcResendList) <=> k[LlcResendList] = <<>>
    BY <2>6, FamilyFirst
  <2>8. QED
    BY <2>1, <2>2, <2>3, <2>7
<1>5. QED
  BY <1>3, <1>4

\* stk_llc_resend_clear_all: the pack goes back to the pool, and the head is
\* initialised for nothing.
LEMMA ClearLists ==
  ASSUME NEW m, NEW sl, NEW rl, NEW sp \in Seq(Pack), NEW rp \in Seq(Pack), NEW ro \in Seq(Pack),
         NEW rs \in Seq(Pack), Len(rs) <= 1,
         Stored(m, sl, rl, sp, rp, <<>>, ro, rs)
  PROVE  Stored(ListResendClear(m), sl, rl, sp \o rs, rp, <<>>, ro, <<>>)
<1>0. <<>> \in Seq(Pack)
  OBVIOUS
<1>1. PICK r : r = MoveResendToPool(m)
  OBVIOUS
<1>2. /\ rs = <<>> => r = m
      /\ rs # <<>> => r = list_move_tail(m, OwnerNode(Head(rs)), SendListPool)
  <2> DEFINE ls == PackLists(sl, rl, sp, rp, <<>>, ro, rs)
  <2>1. ls[LlcResendList] = OwnerNodes(rs) /\ LlcResendList \in Heads
    BY ListsAt DEF Heads
  <2>2. /\ m \in Memory(Node, Ptr) /\ Chain(Node, LlcResendList, OwnerNodes(rs))
        /\ Holds(m, LlcResendList, OwnerNodes(rs))
    BY <2>1 DEF Stored, Family
  <2>3. QED
    BY <1>1, <2>2, ClearRounds
<1>3. Stored(r, sl, rl, sp \o rs, rp, <<>>, ro, <<>>)
  <2>1. CASE rs = <<>>
    <3>1. sp \o <<>> = sp
      OBVIOUS
    <3>2. QED
      BY <1>2, <2>1, <3>1
  <2>2. CASE rs # <<>>
    <3> DEFINE p == Head(rs)
    <3>1. p \in Pack /\ Tail(rs) = <<>> /\ Len(rs) = 1
      BY <2>2, OneLong
    <3>2. sp \o rs = Append(sp, p)
      <4>1. rs = <<p>>
        BY <2>2, <3>1
      <4>2. sp \o <<p>> = Append(sp, p)
        BY <3>1
      <4> HIDE DEF p
      <4>3. QED
        BY <4>1, <4>2
    <3>3. Stored(list_move_tail(m, OwnerNode(p), SendListPool),
                 sl, rl, Append(sp, p), rp, <<>>, ro, Tail(rs))
      BY <1>0, <2>2, MovesStored
    <3>4. r = list_move_tail(m, OwnerNode(p), SendListPool)
      BY <1>2, <2>2
    <3> HIDE DEF p
    <3>5. QED
      BY <3>1, <3>2, <3>3, <3>4
  <2>3. QED
    BY <2>1, <2>2
<1>4. INIT_LIST_HEAD(r, LlcResendList) = r
  <2> DEFINE ls == PackLists(sl, rl, sp \o rs, rp, <<>>, ro, <<>>)
  <2>1. ls[LlcResendList] = <<>> /\ LlcResendList \in Heads
    <3>1. ls[LlcResendList] = OwnerNodes(<<>>) /\ LlcResendList \in Heads
      BY ListsAt DEF Heads
    <3>2. OwnerNodes(<<>>) = <<>>
      BY <1>0, OwnerNodesFacts
    <3> HIDE DEF ls, OwnerNodes
    <3>3. QED
      BY <3>1, <3>2
  <2>2. r \in Memory(Node, Ptr) /\ Chain(Node, LlcResendList, <<>>) /\ Holds(r, LlcResendList, <<>>)
    BY <1>3, <2>1 DEF Stored, Family
  <2>3. QED
    BY <2>2, InitEmpty
<1>5. QED
  BY <1>1, <1>3, <1>4 DEF ListResendClear

-----------------------------------------------------------------------------
(* The pools that stk_c_init_pools builds. *)

\* A pack that is in no pool yet is added to one.
LEMMA FillLists ==
  ASSUME NEW m, NEW sp \in Seq(Pack), NEW rp \in Seq(Pack), NEW p \in Pack,
         p \notin Listed(sp), p \notin Listed(rp),
         Stored(m, <<>>, <<>>, sp, rp, <<>>, <<>>, <<>>)
  PROVE  /\ Stored(list_add_tail(m, OwnerNode(p), SendListPool), <<>>, <<>>, Append(sp, p), rp, <<>>, <<>>, <<>>)
         /\ Stored(list_add_tail(m, OwnerNode(p), RecvListPool), <<>>, <<>>, sp, Append(rp, p), <<>>, <<>>, <<>>)
<1> DEFINE ls == PackLists(<<>>, <<>>, sp, rp, <<>>, <<>>, <<>>)
           e == OwnerNode(p)
<1>0. OwnerNodes(<<>>) = <<>>
  <2>1. <<>> \in Seq(Pack)
    OBVIOUS
  <2>2. QED
    BY <2>1, OwnerNodesFacts
<1>1. m \in Memory(Node, Ptr) /\ Family(m, Node, Heads, ls) /\ e \in Node
  BY NodeFacts DEF Stored
<1>2. /\ ls[SendList] = <<>> /\ ls[RecvList] = <<>>
      /\ ls[SendListPool] = OwnerNodes(sp) /\ ls[RecvListPool] = OwnerNodes(rp)
      /\ ls[LlcSendOwned] = <<>> /\ ls[LlcRecvOwned] = <<>> /\ ls[LlcResendList] = <<>>
  <2> HIDE DEF OwnerNodes, ls
  <2>1. /\ ls[SendList] = <<>> /\ ls[RecvList] = <<>>
        /\ ls[SendListPool] = OwnerNodes(sp) /\ ls[RecvListPool] = OwnerNodes(rp)
        /\ ls[LlcSendOwned] = OwnerNodes(<<>>) /\ ls[LlcRecvOwned] = OwnerNodes(<<>>)
        /\ ls[LlcResendList] = OwnerNodes(<<>>)
    BY ListsAt DEF ls
  <2>2. QED
    BY <1>0, <2>1
<1>3. ~OnAny(e, Heads, ls)
  <2> HIDE DEF ls
  <2>1. e \notin Heads
    BY NodeFacts
  <2>2. ASSUME NEW s \in Seq(Pack), p \notin Listed(s), NEW g \in Heads PROVE ~OnList(e, g, OwnerNodes(s))
    <3>1. \A i \in 1 .. Len(s) : s[i] \in Pack /\ s[i] # p
      BY <2>2 DEF Listed
    <3>2. \A i \in 1 .. Len(s) : OwnerNodes(s)[i] # e
      BY <3>1, OwnerNodesFacts, NodeFacts
    <3>3. Len(OwnerNodes(s)) = Len(s)
      BY OwnerNodesFacts
    <3> HIDE DEF OwnerNodes, e
    <3>4. QED
      BY <2>1, <3>2, <3>3 DEF OnList
  <2>3. ASSUME NEW g \in Heads PROVE ~OnList(e, g, <<>>)
    BY <2>1 DEF OnList
  <2> HIDE DEF OwnerNodes, e
  <2>4. \A g \in Heads : ~OnList(e, g, ls[g])
    <3>1. \A g \in Heads : ls[g] = <<>> \/ ls[g] = OwnerNodes(sp) \/ ls[g] = OwnerNodes(rp)
      BY <1>2 DEF Heads
    <3>2. QED
      BY <2>2, <2>3, <3>1
  <2>5. QED
    BY <2>4 DEF OnAny
<1>4. /\ OwnerNodes(Append(sp, p)) = Append(OwnerNodes(sp), e)
      /\ OwnerNodes(Append(rp, p)) = Append(OwnerNodes(rp), e)
  BY OwnerNodesOps
<1>5. SendListPool \in Heads /\ RecvListPool \in Heads
  BY DEF Heads
<1> HIDE DEF ls, e, OwnerNodes
<1>6. ASSUME NEW k, k = PackLists(<<>>, <<>>, Append(sp, p), rp, <<>>, <<>>, <<>>)
      PROVE  Stored(list_add_tail(m, e, SendListPool), <<>>, <<>>, Append(sp, p), rp, <<>>, <<>>, <<>>)
  <2>1. k[SendListPool] = OwnerNodes(Append(sp, p))
    BY <1>6, ListsAt
  <2>2. \A g \in Heads : g # SendListPool => k[g] = ls[g]
    BY <1>6, ListsAt DEF Heads, ls
  <2>3. k[SendListPool] = Append(ls[SendListPool], e)
    BY <1>2, <1>4, <2>1
  <2>4. /\ list_add_tail(m, e, SendListPool) \in Memory(Node, Ptr)
        /\ Family(list_add_tail(m, e, SendListPool), Node, Heads, k)
    BY <1>1, <1>3, <1>5, <2>2, <2>3, AddHere
  <2>5. QED
    BY <1>6, <2>4 DEF Stored
<1>7. ASSUME NEW k, k = PackLists(<<>>, <<>>, sp, Append(rp, p), <<>>, <<>>, <<>>)
      PROVE  Stored(list_add_tail(m, e, RecvListPool), <<>>, <<>>, sp, Append(rp, p), <<>>, <<>>, <<>>)
  <2>1. k[RecvListPool] = OwnerNodes(Append(rp, p))
    BY <1>7, ListsAt
  <2>2. \A g \in Heads : g # RecvListPool => k[g] = ls[g]
    BY <1>7, ListsAt DEF Heads, ls
  <2>3. k[RecvListPool] = Append(ls[RecvListPool], e)
    BY <1>2, <1>4, <2>1
  <2>4. /\ list_add_tail(m, e, RecvListPool) \in Memory(Node, Ptr)
        /\ Family(list_add_tail(m, e, RecvListPool), Node, Heads, k)
    BY <1>1, <1>3, <1>5, <2>2, <2>3, AddHere
  <2>5. QED
    BY <1>7, <2>4 DEF Stored
<1>8. QED
  BY <1>6, <1>7 DEF e

\* The seven heads, each its own neighbour: seven empty lists.
LEMMA EmptyLists == Stored(HeadsInit, <<>>, <<>>, <<>>, <<>>, <<>>, <<>>, <<>>)
<1> DEFINE ls == PackLists(<<>>, <<>>, <<>>, <<>>, <<>>, <<>>, <<>>)
<1>1. \A h \in Heads : h \in Node /\ h > 4 * PoolSize
  BY TsmAssumption DEF Heads, Node, SendList, RecvList, SendListPool, RecvListPool, LlcSendOwned,
                       LlcRecvOwned, LlcResendList
<1>2. HeadsInit \in Memory(Node, Ptr)
  BY DEF HeadsInit, Memory, Ptr
<1>3. \A h \in Heads : HeadsInit[h].next = h /\ HeadsInit[h].prev = h
  BY <1>1 DEF HeadsInit
<1>4. \A h \in Heads : ls[h] = <<>>
  <2>1. OwnerNodes(<<>>) = <<>>
    <3>1. <<>> \in Seq(Pack)
      OBVIOUS
    <3>2. QED
      BY <3>1, OwnerNodesFacts
  <2> HIDE DEF OwnerNodes
  <2>2. QED
    BY <2>1 DEF PackLists, Heads
<1> HIDE DEF ls
<1>5. ASSUME NEW h \in Heads PROVE Chain(Node, h, <<>>) /\ Holds(HeadsInit, h, <<>>)
  <2>1. h \in Node /\ <<>> \in Seq(Node)
    BY <1>1
  <2>2. Linked(HeadsInit, h, <<>>)
    BY <1>3 DEF Linked
  <2>3. Holds(HeadsInit, h, <<>>)
    BY <2>1, <2>2, HoldsLinked
  <2>4. QED
    BY <2>1, <2>3 DEF Chain
<1>6. \A h \in Heads, x \in Node : OnList(x, h, <<>>) => x = h
  BY DEF OnList
<1>7. Family(HeadsInit, Node, Heads, ls)
  BY <1>4, <1>5, <1>6 DEF Family
<1>8. QED
  BY <1>2, <1>7 DEF Stored, ls

\* The memory after stk_c_tsm_init: the two pools in order, nothing else listed.
LEMMA PoolsLists ==
  ASSUME NEW id, TsmInit(id), MemInit
  PROVE  Stored(mem, <<>>, <<>>, send_list_pool, recv_list_pool, <<>>, <<>>, <<>>)
<1> DEFINE sp(k) == [n \in 1 .. (IF k <= PoolSize THEN k ELSE PoolSize) |-> n]
           rp(k) == [n \in 1 .. (IF k <= PoolSize THEN 0 ELSE k - PoolSize) |-> PoolSize + n]
           S == {k \in Nat : k <= 2 * PoolSize =>
                   Stored(PoolsInit[k], <<>>, <<>>, sp(k), rp(k), <<>>, <<>>, <<>>)}
<1>1. 0 \in S
  <2>1. PoolsInit[0] = HeadsInit
    <3>1. 0 \in 0 .. 2 * PoolSize
      BY TsmAssumption
    <3>2. QED
      BY <3>1, PoolsInitDef
  <2>2. sp(0) = <<>> /\ rp(0) = <<>>
    BY TsmAssumption
  <2> HIDE DEF sp, rp
  <2>3. Stored(PoolsInit[0], <<>>, <<>>, sp(0), rp(0), <<>>, <<>>, <<>>)
    BY <2>1, <2>2, EmptyLists
  <2>4. QED
    BY <2>3
<1>2. ASSUME NEW k \in Nat, k \in S PROVE k + 1 \in S
  <2>1. SUFFICES ASSUME k + 1 <= 2 * PoolSize
                 PROVE  Stored(PoolsInit[k + 1], <<>>, <<>>, sp(k + 1), rp(k + 1), <<>>, <<>>, <<>>)
    OBVIOUS
  <2>2. k + 1 \in 0 .. 2 * PoolSize /\ k + 1 # 0 /\ (k + 1) - 1 = k /\ k <= 2 * PoolSize
    BY <2>1, TsmAssumption
  <2>3. PICK p : p = k + 1
    OBVIOUS
  <2>4. p \in Pack /\ (p \in SendPack <=> p <= PoolSize)
    BY <2>2, <2>3, TsmAssumption DEF Pack, SendPack, RecvPack
  <2>5. PoolsInit[k + 1] = list_add_tail(PoolsInit[k], OwnerNode(p),
                                         IF p \in SendPack THEN SendListPool ELSE RecvListPool)
    <3>1. \A n \in 0 .. 2 * PoolSize : n # 0 =>
            PoolsInit[n] = list_add_tail(PoolsInit[n - 1], OwnerNode(n),
                                         IF n \in SendPack THEN SendListPool ELSE RecvListPool)
      BY PoolsInitDef
    <3>2. QED
      BY <2>2, <2>3, <3>1
  <2>6. Stored(PoolsInit[k], <<>>, <<>>, sp(k), rp(k), <<>>, <<>>, <<>>)
    BY <1>2, <2>2
  <2>7. /\ sp(k) \in Seq(Pack) /\ rp(k) \in Seq(Pack)
        /\ p \notin Listed(sp(k)) /\ p \notin Listed(rp(k))
    <3>1. PICK s : s = sp(k)
      OBVIOUS
    <3>2. PICK r : r = rp(k)
      OBVIOUS
    <3>3. s \in Seq(Pack) /\ \A n \in 1 .. Len(s) : s[n] # p
      BY <2>2, <2>3, <3>1, TsmAssumption DEF Pack, SendPack, RecvPack
    <3>4. r \in Seq(Pack) /\ \A n \in 1 .. Len(r) : r[n] # p
      BY <2>2, <2>3, <3>2, TsmAssumption DEF Pack, SendPack, RecvPack
    <3>5. QED
      BY <3>1, <3>2, <3>3, <3>4 DEF Listed
  <2>8. CASE p <= PoolSize
    <3>1. sp(k + 1) = Append(sp(k), p) /\ rp(k + 1) = rp(k)
      BY <2>2, <2>3, <2>8, TsmAssumption
    <3> HIDE DEF sp, rp
    <3>2. QED
      BY <2>4, <2>5, <2>6, <2>7, <2>8, <3>1, FillLists
  <2>9. CASE ~(p <= PoolSize)
    <3>1. sp(k + 1) = sp(k) /\ rp(k + 1) = Append(rp(k), p)
      BY <2>2, <2>3, <2>9, TsmAssumption
    <3> HIDE DEF sp, rp
    <3>2. QED
      BY <2>4, <2>5, <2>6, <2>7, <2>9, <3>1, FillLists
  <2>10. QED
    BY <2>8, <2>9
<1>3. 2 * PoolSize \in S
  <2> HIDE DEF S
  <2>1. Nat \subseteq S
    BY <1>1, <1>2, NatSet
  <2>2. QED
    BY <2>1, TsmAssumption
<1>4. Stored(PoolsInit[2 * PoolSize], <<>>, <<>>, sp(2 * PoolSize), rp(2 * PoolSize), <<>>, <<>>, <<>>)
  BY <1>3, TsmAssumption
<1>5. sp(2 * PoolSize) = send_list_pool /\ rp(2 * PoolSize) = recv_list_pool
  <2>1. ~(2 * PoolSize <= PoolSize) /\ 2 * PoolSize - PoolSize = PoolSize
    BY TsmAssumption
  <2>2. QED
    BY <2>1 DEF TsmInit
<1> HIDE DEF sp, rp
<1>6. QED
  BY <1>4, <1>5 DEF MemInit

-----------------------------------------------------------------------------
(* The memory of a running transmitter. *)

\* What is on the lists that the operation leaves alone stays there.
LEMMA FamilyElsewhere ==
  ASSUME NEW N, NEW m, NEW r, NEW H, NEW K \in SUBSET H, NEW ls, Family(m, N, H, ls),
         \A x \in N : OnAny(x, K, ls) => r[x] = m[x]
  PROVE  Family(r, N, K, ls)
<1>1. ASSUME NEW h \in K PROVE Chain(N, h, ls[h]) /\ Holds(r, h, ls[h])
  <2>1. Chain(N, h, ls[h]) /\ Holds(m, h, ls[h])
    BY DEF Family
  <2>2. \A x \in N : OnList(x, h, ls[h]) => r[x] = m[x]
    BY DEF OnAny
  <2>3. QED
    BY <2>1, <2>2, Elsewhere
<1>2. QED
  BY <1>1 DEF Family

\* The one pack that may be out, as a list.
Owned == IF llc_recv_owned = {} THEN <<>> ELSE <<CHOOSE p : p \in llc_recv_owned>>

Lists == PackLists(send_list, recv_list, send_list_pool, recv_list_pool, <<>>, Owned, llc_resend_list)

\* Every list Tsm keeps is in memory, node by node; a damaged send queue is not
\* a list any more, but all the others still are.
MemInv ==
  IF pc = "crashed" THEN mem = Fault
  ELSE /\ mem \in Memory(Node, Ptr)
       /\ Family(mem, Node, IF send_link = "ok" THEN Heads ELSE Heads \ {SendList}, Lists)
       /\ send_link # "ok" => send_list # <<>> /\ SendListShape

\* One pack at a time is queued for sending, and none while one is received.
OneQueued ==
  /\ Len(send_list) <= 1
  /\ send_list # <<>> => recv_list = <<>> /\ pc \notin {"recv", "filled"}

\* Nothing that the memory is compared with changes.
LEMMA SameMemory ==
  ASSUME MemInv, pc # "crashed", pc' # "crashed",
         UNCHANGED <<mem, send_list, send_link, recv_list, send_list_pool, recv_list_pool,
                     llc_recv_owned, llc_resend_list>>
  PROVE  MemInv'
BY DEF MemInv, Lists, Owned, SendListShape

\* A healthy queue: MemInv is Stored.
LEMMA HealthyMemory ==
  ASSUME MemInv, pc # "crashed", send_list = <<>> \/ send_link = "ok"
  PROVE  /\ send_link = "ok"
         /\ Stored(mem, send_list, recv_list, send_list_pool, recv_list_pool, <<>>, Owned, llc_resend_list)
BY DEF MemInv, Lists, Stored

\* Where the queue is healthy after a step, Stored is all that is to be shown.
LEMMA StoredMemory ==
  ASSUME pc' # "crashed", send_link' = "ok",
         Stored(mem', send_list', recv_list', send_list_pool', recv_list_pool', <<>>, Owned', llc_resend_list')
  PROVE  MemInv'
BY DEF MemInv, Lists, Stored

\* The shape of a queue that is damaged or about to be, and what else is then
\* in memory: nothing of it is on another list.
LEMMA DamagedMemory ==
  ASSUME NEW s \in State, TsmInv(s), OneQueued, MemInv, pc # "crashed", send_list # <<>>
  PROVE  \E p \in Pack :
           /\ send_list = <<p>> /\ Head(send_list) = p /\ recv_list = <<>>
           /\ p \in Node /\ p # SendList /\ SendList \in Node
           /\ mem \in Memory(Node, Ptr)
           /\ mem[SendList] = [next |-> p, prev |-> p]
           /\ send_link = "looped" => mem[p] = [next |-> p, prev |-> p]
           /\ send_link = "poisoned" => mem[p] = [next |-> LIST_POISON1, prev |-> LIST_POISON2]
           /\ \A r : (\A x \in Node : x # SendList /\ x # p => r[x] = mem[x])
                     => Family(r, Node, Heads \ {SendList}, Lists)
<1>1. send_list \in Seq(Pack) /\ Len(send_list) <= 1 /\ recv_list = <<>>
  BY DEF TsmInv, TsmTypeOK, OneQueued
<1>2. PICK p \in Pack : send_list = <<p>> /\ Head(send_list) = p
  <2>1. Head(send_list) \in Pack /\ Len(send_list) = 1 /\ Head(send_list) = send_list[1]
    BY <1>1, OneLong
  <2>2. send_list = <<Head(send_list)>>
    BY <1>1, <2>1
  <2>3. QED
    BY <2>1, <2>2
<1>3. p \in Node /\ p # SendList /\ SendList \in Node /\ SendList \in Heads
  <2>1. p \in Node /\ p \notin Heads
    BY NodeFacts
  <2>2. SendList \in Heads
    BY DEF Heads
  <2>3. QED
    BY <2>1, <2>2, HeadsDiffer
<1>4. mem \in Memory(Node, Ptr)
  BY DEF MemInv
<1>5. send_link \in {"ok", "looped", "poisoned"}
  BY DEF TsmInv, TsmTypeOK
<1>6. /\ mem[SendList] = [next |-> p, prev |-> p]
      /\ send_link = "looped" => mem[p] = [next |-> p, prev |-> p]
      /\ send_link = "poisoned" => mem[p] = [next |-> LIST_POISON1, prev |-> LIST_POISON2]
  <2>1. CASE send_link = "ok"
    <3>1. Stored(mem, <<p>>, recv_list, send_list_pool, recv_list_pool, <<>>, Owned, llc_resend_list)
      BY <1>2, <2>1, HealthyMemory
    <3> DEFINE ls == PackLists(<<p>>, recv_list, send_list_pool, recv_list_pool, <<>>, Owned, llc_resend_list)
    <3>2. ls[SendList] = <<p>>
      BY ListsAt
    <3>3. Chain(Node, SendList, <<p>>) /\ Holds(mem, SendList, <<p>>)
      BY <1>3, <3>1, <3>2 DEF Stored, Family
    <3>4. QED
      BY <1>4, <2>1, <3>3, AloneOnList
  <2>2. CASE send_link # "ok"
    <3>1. SendListShape
      BY <2>2 DEF MemInv
    <3>2. QED
      BY <1>2, <1>5, <2>2, <3>1 DEF SendListShape, MacNode
  <2>3. QED
    BY <2>1, <2>2
<1>7. ASSUME NEW r, \A x \in Node : x # SendList /\ x # p => r[x] = mem[x]
      PROVE  Family(r, Node, Heads \ {SendList}, Lists)
  <2> DEFINE K == Heads \ {SendList}
  <2>1. K \in SUBSET Heads /\ K \in SUBSET K /\ SendList \notin K
    OBVIOUS
  <2>2. /\ send_list_pool \in Seq(Pack) /\ recv_list_pool \in Seq(Pack) /\ <<>> \in Seq(Pack)
        /\ Owned \in Seq(Pack) /\ llc_resend_list \in Seq(Pack)
    <3>1. /\ send_list_pool \in Seq(SendPack) /\ llc_resend_list \in Seq(SendPack)
          /\ recv_list_pool \in Seq(RecvPack) /\ llc_recv_owned \subseteq RecvPack
      BY DEF TsmInv, TsmTypeOK
    <3>2. \A T \in SUBSET Pack : Seq(T) \subseteq Seq(Pack)
      OBVIOUS
    <3>3. Owned \in Seq(Pack)
      BY <3>1, PackFacts DEF Owned
    <3>4. QED
      BY <3>1, <3>2, <3>3, PackFacts
  <2>3. ~OnAny(p, K, Lists) /\ ~OnAny(SendList, K, Lists)
    <3>1. MacNode(p) = p
      BY DEF MacNode
    <3> HIDE DEF K
    <3>2. /\ \A q \in Pack : ~OnAny(MacNode(q), K, Lists)
          /\ \A h \in Heads : h \notin K => ~OnAny(h, K, Lists)
      BY <1>1, <2>1, <2>2, NodesFree DEF Lists
    <3>3. QED
      BY <1>3, <2>1, <3>1, <3>2
  <2>4. \A x \in Node : OnAny(x, K, Lists) => r[x] = mem[x]
    BY <1>7, <2>3
  <2>5. CASE send_link = "ok"
    <3>1. Family(mem, Node, Heads, Lists)
      BY <2>5 DEF MemInv
    <3> HIDE DEF K
    <3>2. Family(r, Node, K, Lists)
      BY <2>1, <2>4, <3>1, FamilyElsewhere
    <3>3. QED
      BY <3>2 DEF K
  <2>6. CASE send_link # "ok"
    <3>1. Family(mem, Node, K, Lists)
      BY <2>6 DEF MemInv
    <3> HIDE DEF K
    <3>2. Family(r, Node, K, Lists)
      BY <2>1, <2>4, <3>1, FamilyElsewhere
    <3>3. QED
      BY <3>2 DEF K
  <2>7. QED
    BY <2>5, <2>6
<1>8. QED
  BY <1>1, <1>2, <1>3, <1>4, <1>6, <1>7

-----------------------------------------------------------------------------
(* The steps of the MAC worker on the pointers. *)

\* The lists of a transmitter are sequences of packs.
LEMMA PackSeqs ==
  ASSUME NEW s \in State, TsmInv(s)
  PROVE  /\ send_list \in Seq(Pack) /\ recv_list \in Seq(Pack) /\ send_list_pool \in Seq(Pack)
         /\ recv_list_pool \in Seq(Pack) /\ llc_resend_list \in Seq(Pack) /\ <<>> \in Seq(Pack)
         /\ pack \in Pack /\ Len(llc_resend_list) <= 1
<1>1. \A T \in SUBSET Pack : Seq(T) \subseteq Seq(Pack)
  OBVIOUS
<1>2. QED
  BY <1>1, PackFacts DEF TsmInv, TsmTypeOK, SendQueue

\* stk_mac_mark_as_send on a queue in each of its three states.
LEMMA SentPointers ==
  ASSUME NEW s \in State, TsmInv(s), OneQueued, MemInv, MacSent, mem' = ListMarkAsSent(mem)
  PROVE  MemInv'
<1>1. /\ pc = "send" /\ pc # "crashed" /\ send_list # <<>> /\ send_link \in {"ok", "looped", "poisoned"}
      /\ UNCHANGED <<recv_list, send_list_pool, recv_list_pool, llc_recv_owned, llc_resend_list>>
  BY DEF MacSent, TsmInv, SendQueue, TsmTypeOK, recvVars
<1>2. PICK p \in Pack :
           /\ send_list = <<p>> /\ Head(send_list) = p /\ recv_list = <<>>
           /\ p \in Node /\ p # SendList /\ SendList \in Node
           /\ mem \in Memory(Node, Ptr)
           /\ mem[SendList] = [next |-> p, prev |-> p]
           /\ send_link = "looped" => mem[p] = [next |-> p, prev |-> p]
           /\ send_link = "poisoned" => mem[p] = [next |-> LIST_POISON1, prev |-> LIST_POISON2]
           /\ \A r : (\A x \in Node : x # SendList /\ x # p => r[x] = mem[x])
                     => Family(r, Node, Heads \ {SendList}, Lists)
  BY <1>1, DamagedMemory
<1>3. mem' = list_del(mem, p)
  <2>1. list_first(mem, SendList) = p
    BY <1>2 DEF list_first, Get, Memory
  <2>2. QED
    BY <2>1 DEF ListMarkAsSent
<1>4. Owned' = Owned
  BY <1>1 DEF Owned
<1>5. CASE send_link = "ok"
  <2>1. pc' # "crashed" /\ send_link' = "ok" /\ send_list' = <<>>
    <3>1. Tail(<<p>>) = <<>>
      BY OneNode
    <3>2. QED
      BY <1>2, <1>5, <3>1 DEF MacSent
  <2>2. Stored(mem, <<p>>, recv_list, send_list_pool, recv_list_pool, <<>>, Owned, llc_resend_list)
    BY <1>1, <1>2, <1>5, HealthyMemory
  <2>3. /\ send_list_pool \in Seq(Pack) /\ recv_list_pool \in Seq(Pack) /\ <<>> \in Seq(Pack)
        /\ llc_resend_list \in Seq(Pack) /\ Owned \in Seq(Pack)
    <3>1. llc_recv_owned \subseteq Pack
      BY PackFacts DEF TsmInv, TsmTypeOK
    <3>2. Owned \in Seq(Pack)
      BY <3>1 DEF Owned
    <3>3. QED
      BY <3>2, PackSeqs
  <2>4. Stored(list_del(mem, p), <<>>, recv_list, send_list_pool, recv_list_pool, <<>>, Owned, llc_resend_list)
    BY <2>2, <2>3, DelLists
  <2>5. QED
    BY <1>1, <1>3, <1>4, <2>1, <2>4, StoredMemory
<1>6. CASE send_link = "looped"
  <2>1. pc' # "crashed" /\ send_link' = "poisoned" /\ send_list' = send_list
    BY <1>6 DEF MacSent
  <2>2. Node \cup {LIST_POISON1, LIST_POISON2} \subseteq Ptr
    BY DEF Ptr
  <2>3. /\ mem' \in Memory(Node, Ptr) /\ mem'[p] = [next |-> LIST_POISON1, prev |-> LIST_POISON2]
        /\ \A x \in Node : x # p => mem'[x] = mem[x]
    BY <1>2, <1>3, <1>6, <2>2, DelLooped
  <2>4. Family(mem', Node, Heads \ {SendList}, Lists)
    BY <1>2, <2>3
  <2>5. Lists' = Lists
    BY <1>1, <1>4, <2>1 DEF Lists
  <2>6. SendListShape'
    <3>1. mem'[SendList] = [next |-> p, prev |-> p]
      BY <1>2, <2>3
    <3>2. QED
      BY <1>2, <2>1, <2>3, <3>1 DEF SendListShape, MacNode
  <2>7. QED
    BY <1>1, <2>1, <2>3, <2>4, <2>5, <2>6 DEF MemInv
<1>7. CASE send_link = "poisoned"
  <2>1. pc' = "crashed"
    BY <1>7 DEF MacSent
  <2>2. mem[p].next = LIST_POISON1 /\ LIST_POISON1 \notin Node
    BY <1>2, <1>7, NodeFacts
  <2>3. mem' = Fault
    BY <1>2, <1>3, <2>2, DelFaults
  <2>4. QED
    BY <2>1, <2>3 DEF MemInv
<1>8. QED
  BY <1>1, <1>5, <1>6, <1>7

\* The pack that is out is given back.
LEMMA PutPointers ==
  ASSUME NEW s \in State, TsmInv(s), OneQueued, MemInv, pc \in {"recv", "filled"}, pc' = "llc",
         recv_list = <<>>, recv_list' = <<>>, llc_recv_owned = {pack},
         PutRecvPackholder(pack), UNCHANGED sendVars, mem' = ListPutRecv(mem, pack)
  PROVE  MemInv'
<1>1. send_list = <<>> /\ pc # "crashed" /\ pc' # "crashed"
  BY DEF OneQueued
<1>2. send_link = "ok" /\ Stored(mem, <<>>, <<>>, send_list_pool, recv_list_pool, <<>>, Owned, llc_resend_list)
  BY <1>1, HealthyMemory
<1>3. Owned = <<pack>> /\ Owned' = <<>> /\ recv_list_pool' = Append(recv_list_pool, pack)
  BY DEF Owned, PutRecvPackholder
<1>4. Stored(ListPutRecv(mem, pack), <<>>, <<>>, send_list_pool, Append(recv_list_pool, pack), <<>>, <<>>, llc_resend_list)
  BY <1>2, <1>3, PackSeqs, PutLists
<1>5. QED
  BY <1>1, <1>2, <1>3, <1>4, StoredMemory DEF sendVars

\* A step of the MAC worker keeps memory and sequences together.
LEMMA MacPointers ==
  ASSUME NEW s \in State, TsmInv(s), OneQueued, MemInv, MacListStep
  PROVE  MemInv'
<1>1. CASE MacSend /\ UNCHANGED mem
  BY <1>1, SameMemory DEF MacSend, sendVars, recvVars
<1>2. CASE MacSent /\ mem' = ListMarkAsSent(mem)
  BY <1>2, SentPointers
<1>3. CASE MacReceive /\ mem' = list_move_tail(mem, list_first(mem, RecvListPool), LlcRecvOwned)
  <2>1. /\ pc = "mac" /\ send_list = <<>> /\ recv_list_pool # <<>> /\ pc' = "recv"
        /\ recv_list_pool' = Tail(recv_list_pool)
        /\ llc_recv_owned' = llc_recv_owned \cup {Head(recv_list_pool)}
        /\ UNCHANGED <<send_list, send_link, send_list_pool, llc_resend_list, recv_list>>
    BY <1>3 DEF MacReceive, sendVars
  <2>2. recv_list = <<>> /\ llc_recv_owned = {}
    BY <2>1 DEF TsmInv, ReceiveQueue, Listed
  <2>3. Owned = <<>> /\ Owned' = <<Head(recv_list_pool)>>
    BY <2>1, <2>2 DEF Owned
  <2>4. send_link = "ok" /\ Stored(mem, <<>>, <<>>, send_list_pool, recv_list_pool, <<>>, <<>>, llc_resend_list)
    BY <2>1, <2>2, <2>3, HealthyMemory
  <2>5. mem' = list_move_tail(mem, OwnerNode(Head(recv_list_pool)), LlcRecvOwned)
    BY <1>3, <2>1, <2>4, PackSeqs, RecvPoolFirst
  <2>6. Stored(mem', <<>>, <<>>, send_list_pool, Tail(recv_list_pool), <<>>,
               Append(<<>>, Head(recv_list_pool)), llc_resend_list)
    BY <2>1, <2>4, <2>5, PackSeqs, MovesStored
  <2>7. Append(<<>>, Head(recv_list_pool)) = <<Head(recv_list_pool)>>
    BY OneNode
  <2>8. QED
    BY <2>1, <2>2, <2>3, <2>4, <2>6, <2>7, StoredMemory
<1>4. CASE (\E d \in Heard : MacFill(d)) /\ UNCHANGED mem
  BY <1>4, SameMemory DEF MacFill, sendVars, recvVars
<1>5. CASE /\ MacReceived
           /\ mem' = IF data[pack] = Broken THEN ListPutRecv(mem, pack)
                                            ELSE list_add_tail(mem, MacNode(pack), RecvList)
  <2>1. /\ pc = "filled" /\ pc' = "llc" /\ UNCHANGED sendVars
        /\ llc_recv_owned = {pack} /\ recv_list = <<>>
    BY <1>5 DEF MacReceived, TsmInv, ReceiveQueue
  <2>2. CASE data[pack] = Broken
    BY <1>5, <2>1, <2>2, PutPointers DEF MacReceived
  <2>3. CASE data[pack] # Broken
    <3>1. /\ recv_list' = Append(<<>>, pack) /\ UNCHANGED <<recv_list_pool, llc_recv_owned>>
          /\ mem' = list_add_tail(mem, MacNode(pack), RecvList)
      BY <1>5, <2>1, <2>3 DEF MacReceived
    <3>2. recv_list' = <<pack>>
      BY <3>1, PackSeqs, OneNode
    <3>3. send_list = <<>> /\ pc # "crashed" /\ pc' # "crashed" /\ UNCHANGED <<send_list, send_link, send_list_pool, llc_resend_list>>
      BY <2>1 DEF OneQueued, sendVars
    <3>4. Owned = <<pack>> /\ Owned' = <<pack>> /\ <<pack>> \in Seq(Pack)
      BY <2>1, <3>1, PackSeqs DEF Owned
    <3>5. send_link = "ok" /\ Stored(mem, <<>>, <<>>, send_list_pool, recv_list_pool, <<>>, <<pack>>, llc_resend_list)
      BY <2>1, <3>3, <3>4, HealthyMemory
    <3>6. Stored(mem', <<>>, <<pack>>, send_list_pool, recv_list_pool, <<>>, <<pack>>, llc_resend_list)
      BY <3>1, <3>4, <3>5, PackSeqs, CommitLists
    <3>7. QED
      BY <3>1, <3>2, <3>3, <3>4, <3>5, <3>6, StoredMemory
  <2>4. QED
    BY <2>2, <2>3
<1>6. CASE MacNothing /\ mem' = ListPutRecv(mem, pack)
  BY <1>6, PutPointers DEF MacNothing, TsmInv, ReceiveQueue
<1>7. QED
  BY <1>1, <1>2, <1>3, <1>4, <1>5, <1>6 DEF MacListStep

-----------------------------------------------------------------------------
(* The operations of the LLC workers on the pointers. *)

\* A received pack is looked at, in a memory that may have been cleared first.
LEMMA LookPointers ==
  ASSUME NEW s \in State, TsmInv(s), pc' # "crashed", recv_list # <<>>, MarkAsReceived,
         send_list = <<>>, send_link = "ok", UNCHANGED <<send_list, send_link>>,
         send_list_pool' \in Seq(Pack), llc_resend_list' \in Seq(Pack), NEW m,
         Stored(m, <<>>, recv_list, send_list_pool', recv_list_pool, <<>>, Owned, llc_resend_list'),
         mem' = ListMarkAsReceived(m)
  PROVE  MemInv'
<1> DEFINE p == Head(recv_list)
<1>1. recv_list = <<p>> /\ p \in Pack /\ Tail(recv_list) = <<>> /\ llc_recv_owned = {p}
  <2>1. recv_list \in Seq(Pack) /\ Len(recv_list) <= 1 /\ llc_recv_owned = Listed(recv_list)
    BY PackSeqs DEF TsmInv, ReceiveQueue
  <2>2. p \in Pack /\ Listed(recv_list) = {p} /\ Tail(recv_list) = <<>> /\ Len(recv_list) = 1
    BY <2>1, OneLong
  <2>3. recv_list = <<p>>
    BY <2>1, <2>2
  <2>4. QED
    BY <2>1, <2>2, <2>3
<1>2. /\ recv_list' = <<>> /\ recv_list_pool' = Append(recv_list_pool, p) /\ llc_recv_owned' = {}
  BY <1>1 DEF MarkAsReceived, PutRecvPackholder
<1> HIDE DEF p
<1>3. Owned = <<p>> /\ Owned' = <<>>
  BY <1>1, <1>2 DEF Owned
<1>4. Stored(m, <<>>, <<p>>, send_list_pool', recv_list_pool, <<>>, <<p>>, llc_resend_list')
  BY <1>1, <1>3
<1>5. Stored(mem', <<>>, <<>>, send_list_pool', Append(recv_list_pool, p), <<>>, <<>>, llc_resend_list')
  BY <1>1, <1>4, PackSeqs, LookLists
<1>6. QED
  BY <1>2, <1>3, <1>5, StoredMemory

\* A fresh packet is built and queued.
LEMMA BuildPointers ==
  ASSUME NEW s \in State, TsmInv(s), pc' # "crashed", recv_list = <<>>, llc_recv_owned = {},
         send_list = <<>>, send_link = "ok", NEW m, NEW pool \in Seq(Pack), NEW counter, NEW id,
         Stored(m, <<>>, <<>>, pool, recv_list_pool, <<>>, Owned, <<>>),
         SendSingle(pool, <<>>, counter, id), UNCHANGED recvVars,
         mem' = ListSendSingle(m)
  PROVE  MemInv'
<1>1. /\ pool # <<>> /\ send_list_pool' = Tail(pool) /\ llc_resend_list' = Append(<<>>, Head(pool))
      /\ PackCommit(Head(pool)) /\ Head(pool) \in Pack
  BY TailFacts DEF SendSingle
<1>2. llc_resend_list' = <<Head(pool)>>
  BY <1>1, OneNode
<1>3. send_list' = <<Head(pool)>> /\ send_link' = "ok"
  BY <1>1, CommitFacts DEF TsmInv
<1>4. Owned = <<>> /\ Owned' = <<>> /\ recv_list' = <<>> /\ recv_list_pool' = recv_list_pool
  BY DEF recvVars, Owned
<1>5. Stored(mem', <<Head(pool)>>, <<>>, Tail(pool), recv_list_pool, <<>>, <<>>, <<Head(pool)>>)
  BY <1>1, <1>4, PackSeqs, SendLists
<1>6. QED
  BY <1>1, <1>2, <1>3, <1>4, <1>5, StoredMemory

\* A pack is queued for sending, perhaps for the second time.
LEMMA CommitPointers ==
  ASSUME NEW s \in State, TsmInv(s), OneQueued, MemInv, pc = "llc", pc' # "crashed",
         recv_list = <<>>, NEW p \in Pack, send_list = <<>> \/ send_list = <<p>>, PackCommit(p),
         UNCHANGED <<recv_list, send_list_pool, recv_list_pool, llc_recv_owned, llc_resend_list>>,
         mem' = ListCommit(mem, p)
  PROVE  MemInv'
<1>1. Owned' = Owned
  BY DEF Owned
<1>2. CASE send_list = <<>>
  <2>1. send_link = "ok" /\ Stored(mem, <<>>, <<>>, send_list_pool, recv_list_pool, <<>>, Owned, llc_resend_list)
    BY <1>2, HealthyMemory
  <2>2. send_list' = <<p>> /\ send_link' = "ok"
    BY <1>2, <2>1, CommitFacts DEF TsmInv
  <2>3. Owned \in Seq(Pack)
    <3>1. llc_recv_owned \subseteq Pack
      BY PackFacts DEF TsmInv, TsmTypeOK
    <3>2. QED
      BY <3>1 DEF Owned
  <2>4. Stored(mem', <<p>>, <<>>, send_list_pool, recv_list_pool, <<>>, Owned, llc_resend_list)
    BY <2>1, <2>3, PackSeqs, CommitLists DEF ListCommit
  <2>5. QED
    BY <1>1, <2>2, <2>4, StoredMemory
<1>3. CASE send_list = <<p>>
  <2>1. send_list # <<>> /\ \E n \in 1 .. Len(send_list) : send_list[n] = p
    BY <1>3
  <2>2. send_link' = "looped" /\ send_list' = send_list
    BY <2>1 DEF PackCommit
  <2>3. /\ p \in Node /\ p # SendList /\ SendList \in Node /\ Head(send_list) = p
        /\ mem \in Memory(Node, Ptr)
        /\ mem[SendList] = [next |-> p, prev |-> p]
        /\ \A r : (\A x \in Node : x # SendList /\ x # p => r[x] = mem[x])
                  => Family(r, Node, Heads \ {SendList}, Lists)
    <3>1. PICK q \in Pack :
           /\ send_list = <<q>> /\ Head(send_list) = q /\ recv_list = <<>>
           /\ q \in Node /\ q # SendList /\ SendList \in Node
           /\ mem \in Memory(Node, Ptr)
           /\ mem[SendList] = [next |-> q, prev |-> q]
           /\ send_link = "looped" => mem[q] = [next |-> q, prev |-> q]
           /\ send_link = "poisoned" => mem[q] = [next |-> LIST_POISON1, prev |-> LIST_POISON2]
           /\ \A r : (\A x \in Node : x # SendList /\ x # q => r[x] = mem[x])
                     => Family(r, Node, Heads \ {SendList}, Lists)
      BY <2>1, DamagedMemory
    <3>2. q = p
      BY <1>3, <3>1
    <3>3. QED
      BY <3>1, <3>2
  <2>4. Node \subseteq Ptr /\ mem' = list_add_tail(mem, p, SendList)
    BY DEF Ptr, ListCommit, MacNode
  <2>5. /\ mem' \in Memory(Node, Ptr)
        /\ mem'[SendList] = [next |-> p, prev |-> p] /\ mem'[p] = [next |-> p, prev |-> p]
        /\ \A x \in Node : x # SendList /\ x # p => mem'[x] = mem[x]
    BY <2>3, <2>4, AddLoops
  <2>6. Family(mem', Node, Heads \ {SendList}, Lists)
    BY <2>3, <2>5
  <2>7. Lists' = Lists
    BY <1>1, <2>2 DEF Lists
  <2>8. SendListShape'
    BY <2>2, <2>3, <2>5 DEF SendListShape, MacNode
  <2>9. QED
    BY <2>1, <2>2, <2>5, <2>6, <2>7, <2>8 DEF MemInv
<1>4. QED
  BY <1>2, <1>3

\* stk_llc_resend_clear_all before anything else.
LEMMA ClearPointers ==
  ASSUME NEW s \in State, TsmInv(s), MemInv, pc = "llc", send_list = <<>>
  PROVE  /\ send_link = "ok"
         /\ Stored(ListResendClear(mem), <<>>, recv_list, send_list_pool \o llc_resend_list,
                   recv_list_pool, <<>>, Owned, <<>>)
<1>1. send_link = "ok" /\ Stored(mem, <<>>, recv_list, send_list_pool, recv_list_pool, <<>>, Owned, llc_resend_list)
  BY HealthyMemory
<1>2. Owned \in Seq(Pack)
  <2>1. llc_recv_owned \subseteq Pack
    BY PackFacts DEF TsmInv, TsmTypeOK
  <2>2. QED
    BY <2>1 DEF Owned
<1>3. QED
  BY <1>1, <1>2, PackSeqs, ClearLists

-----------------------------------------------------------------------------
(* What the invariant says of the pointers. *)

\* What a memory that is Stored says of each list is what PointersAgree asks.
LEMMA Agree ==
  ASSUME NEW s \in State, TsmInv(s), MemInv
  PROVE  PointersAgree
<1>1. CASE pc = "crashed"
  BY <1>1 DEF MemInv, PointersAgree
<1>2. CASE pc # "crashed"
  <2>1. mem # Fault
    <3>1. mem \in Memory(Node, Ptr) /\ SendList \in Node
      BY <1>2, HeadsDiffer DEF MemInv, Heads
    <3>2. DOMAIN mem # {}
      BY <3>1 DEF Memory
    <3>3. DOMAIN Fault = {}
      BY DEF Fault
    <3>4. QED
      BY <3>2, <3>3
  <2>2. /\ Lists[SendList] = send_list /\ Lists[RecvList] = recv_list
        /\ Lists[SendListPool] = OwnerNodes(send_list_pool)
        /\ Lists[RecvListPool] = OwnerNodes(recv_list_pool)
        /\ Lists[LlcSendOwned] = OwnerNodes(<<>>) /\ Lists[LlcRecvOwned] = OwnerNodes(Owned)
        /\ Lists[LlcResendList] = OwnerNodes(llc_resend_list)
    BY ListsAt DEF Lists
  <2>3. \A h \in Heads : h # SendList \/ send_link = "ok" => Holds(mem, h, Lists[h])
    BY <1>2 DEF MemInv, Family
  <2>4. \A q : q \in Seq(Pack) => Nodes(q, MacNode) = q
    BY DEF Nodes, MacNode
  <2>5. OwnerNodes(<<>>) = <<>>
    BY PackSeqs, OwnerNodesFacts
  <2>6. SendListShape
    <3>1. CASE send_link = "ok"
      <4>1. Holds(mem, SendList, Nodes(send_list, MacNode))
        BY <2>2, <2>3, <2>4, <3>1, PackSeqs DEF Heads
      <4>2. QED
        BY <3>1, <4>1 DEF SendListShape
    <3>2. CASE send_link # "ok"
      BY <1>2, <3>2 DEF MemInv
    <3>3. QED
      BY <3>1, <3>2
  <2>7. \E q \in [1 .. Cardinality(llc_recv_owned) -> llc_recv_owned] :
          Listed(q) = llc_recv_owned /\ Holds(mem, LlcRecvOwned, Nodes(q, OwnerNode))
    <3>1. Len(recv_list) <= 1 /\ recv_list \in Seq(Pack)
      BY PackSeqs DEF TsmInv, ReceiveQueue
    <3>2. llc_recv_owned = {} \/ \E p : llc_recv_owned = {p}
      <4>1. CASE pc \in {"recv", "filled"}
        BY <4>1 DEF TsmInv, ReceiveQueue
      <4>2. CASE pc \notin {"recv", "filled"} /\ recv_list = <<>>
        BY <4>2 DEF TsmInv, ReceiveQueue, Listed
      <4>3. CASE pc \notin {"recv", "filled"} /\ recv_list # <<>>
        BY <3>1, <4>3, OneLong DEF TsmInv, ReceiveQueue
      <4>4. QED
        BY <4>1, <4>2, <4>3
    <3>3. Owned \in [1 .. Cardinality(llc_recv_owned) -> llc_recv_owned] /\ Listed(Owned) = llc_recv_owned
      <4>1. CASE llc_recv_owned = {}
        <5>1. Cardinality(llc_recv_owned) = 0 /\ Owned = <<>>
          BY <4>1, FS_EmptySet DEF Owned
        <5>2. QED
          BY <4>1, <5>1 DEF Listed
      <4>2. CASE \E p : llc_recv_owned = {p}
        <5>1. PICK p : llc_recv_owned = {p}
          BY <4>2
        <5>2. Cardinality(llc_recv_owned) = 1 /\ Owned = <<p>>
          BY <5>1, FS_Singleton DEF Owned
        <5>3. QED
          BY <5>1, <5>2 DEF Listed
      <4>3. QED
        BY <3>2, <4>1, <4>2
    <3>4. Holds(mem, LlcRecvOwned, Nodes(Owned, OwnerNode))
      <4>1. LlcRecvOwned \in Heads /\ LlcRecvOwned # SendList
        BY HeadsDiffer DEF Heads
      <4> HIDE DEF OwnerNodes
      <4>2. Holds(mem, LlcRecvOwned, OwnerNodes(Owned))
        BY <2>2, <2>3, <4>1
      <4>3. QED
        BY <4>2 DEF OwnerNodes
    <3> HIDE DEF Owned
    <3>5. QED
      BY <3>3, <3>4
  <2>8. /\ Holds(mem, RecvList, recv_list)
        /\ Holds(mem, SendListPool, OwnerNodes(send_list_pool))
        /\ Holds(mem, RecvListPool, OwnerNodes(recv_list_pool))
        /\ Holds(mem, LlcResendList, OwnerNodes(llc_resend_list))
        /\ Holds(mem, LlcSendOwned, <<>>)
    <3> HIDE DEF OwnerNodes
    <3>1. QED
      BY <2>2, <2>3, <2>5, HeadsDiffer DEF Heads
  <2>9. Nodes(recv_list, MacNode) = recv_list
    BY <2>4, PackSeqs
  <2>10. QED
    BY <1>2, <2>1, <2>6, <2>7, <2>8, <2>9 DEF PointersAgree, OwnerNodes
<1>3. QED
  BY <1>1, <1>2

\* Whatever became of the send queue, clearing the resend list empties it.
LEMMA ClearMemory ==
  ASSUME NEW s \in State, TsmInv(s), MemInv
  PROVE  ResendClearLeavesEmpty
<1>1. SUFFICES ASSUME pc = "llc" PROVE list_empty(MoveResendToPool(mem), LlcResendList)
  BY DEF ResendClearLeavesEmpty
<1>2. PICK H : H = IF send_link = "ok" THEN Heads ELSE Heads \ {SendList}
  OBVIOUS
<1>3. mem \in Memory(Node, Ptr) /\ Family(mem, Node, H, Lists)
  BY <1>1, <1>2 DEF MemInv
<1>4. H \in SUBSET Heads /\ LlcResendList \in H /\ SendListPool \in H
  BY <1>2, HeadsDiffer DEF Heads
<1>5. Lists[LlcResendList] = OwnerNodes(llc_resend_list)
  BY ListsAt DEF Lists
<1>6. QED
  BY <1>3, <1>4, <1>5, PackSeqs, ClearEmpties
=============================================================================
