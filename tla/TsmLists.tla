------------------------------ MODULE TsmLists ------------------------------
(***************************************************************************)
(* The transmitter with its lists as they are in memory: what the calls to *)
(* list.h in stack-comm.c do to the pointers, next to what Tsm says they   *)
(* do to sequences and sets.  The code's choices depend on the pointers    *)
(* only; that Tsm chooses the same follows from the two staying in step.   *)
(***************************************************************************)
EXTENDS Tsm, ListHead

VARIABLE mem  \* the next and prev of every list_head in struct stl_transmiter

\* The nodes: two in each pack, and the seven heads.
MacNode(p) == p
OwnerNode(p) == 2 * PoolSize + p
PackOfOwner(n) == n - 2 * PoolSize      \* container_of; a mac_node is its pack's number
SendList == 4 * PoolSize + 1
RecvList == 4 * PoolSize + 2
SendListPool == 4 * PoolSize + 3
RecvListPool == 4 * PoolSize + 4
LlcSendOwned == 4 * PoolSize + 5
LlcRecvOwned == 4 * PoolSize + 6
LlcResendList == 4 * PoolSize + 7
Node == 1 .. 4 * PoolSize + 7

\* INIT_LIST_HEAD of the seven heads; no mac_node is ever initialised.
HeadsInit ==
  [n \in Node |-> IF n > 4 * PoolSize THEN [next |-> n, prev |-> n]
                  ELSE [next |-> LIST_POISON1, prev |-> LIST_POISON2]]

\* The loops of stk_c_init_pools after k packs.
PoolsInit[k \in 0 .. 2 * PoolSize] ==
  IF k = 0 THEN HeadsInit
  ELSE list_add_tail(PoolsInit[k - 1], OwnerNode(k),
                     IF k \in SendPack THEN SendListPool ELSE RecvListPool)

\* stk_c_tsm_init
MemInit == mem = PoolsInit[2 * PoolSize]

-----------------------------------------------------------------------------
(* What each function of stack-comm.c does to memory m. *)

\* The loop of stk_llc_resend_clear_all after k rounds, on a list of at most
\* PoolSize packs: list_for_each_entry_safe reads what comes after child before
\* the body moves it.
ResendRounds(m) ==
  LET rounds[k \in 0 .. PoolSize] ==
        IF k = 0 THEN [mem |-> m, child |-> list_first(m, LlcResendList)]
        ELSE IF rounds[k - 1].child = LlcResendList THEN rounds[k - 1]
        ELSE [mem |-> list_move_tail(rounds[k - 1].mem, rounds[k - 1].child, SendListPool),
              child |-> Get(rounds[k - 1].mem, rounds[k - 1].child, "next")]
  IN rounds
MoveResendToPool(m) == ResendRounds(m)[PoolSize].mem
ListResendClear(m) == INIT_LIST_HEAD(MoveResendToPool(m), LlcResendList)

\* stk_llc_pack_commit
ListCommit(m, p) == list_add_tail(m, MacNode(p), SendList)

\* stk_get_send_packholder, stk_llc_pack_commit and stk_llc_resend_add
ListSendSingle(m) ==
  LET node == list_first(m, SendListPool)
      owned == list_move_tail(m, node, LlcSendOwned)
  IN list_move_tail(ListCommit(owned, PackOfOwner(node)), node, LlcResendList)

\* stk_put_recv_packholder
ListPutRecv(m, p) == list_move_tail(m, OwnerNode(p), RecvListPool)

\* Mutant: the pack goes back to its pool with its mac_node still queued.
ListMarkAsReceivedQueued(m) == ListPutRecv(m, list_first(m, RecvList))

\* stk_llc_mark_as_received
ListMarkAsReceived(m) ==
  LET node == list_first(m, RecvList)
  IN ListPutRecv(list_del(m, node), node)

\* stk_mac_mark_as_send
ListMarkAsSent(m) == list_del(m, list_first(m, SendList))

\* stk_mac_worker with its lists
MacListStep ==
  \/ MacSend /\ UNCHANGED mem
  \/ MacSent /\ mem' = ListMarkAsSent(mem)
  \/ MacReceive /\ mem' = list_move_tail(mem, list_first(mem, RecvListPool), LlcRecvOwned)
  \/ (\E d \in Heard : MacFill(d)) /\ UNCHANGED mem
  \/ /\ MacReceived
     /\ mem' = IF data[pack] = Broken THEN ListPutRecv(mem, pack)
                                      ELSE list_add_tail(mem, MacNode(pack), RecvList)
  \/ MacNothing /\ mem' = ListPutRecv(mem, pack)

-----------------------------------------------------------------------------
Nodes(s, node(_)) == [n \in 1 .. Len(s) |-> node(s[n])]

\* The send queue in its three states: a list; one whose node is its own
\* neighbour; one whose node has been poisoned under the head.
SendListShape ==
  LET p == MacNode(Head(send_list))
  IN CASE send_link = "ok" -> Holds(mem, SendList, Nodes(send_list, MacNode))
       [] send_link = "looped" -> /\ mem[SendList] = [next |-> p, prev |-> p]
                                  /\ mem[p] = [next |-> p, prev |-> p]
       [] send_link = "poisoned" -> /\ mem[SendList] = [next |-> p, prev |-> p]
                                    /\ mem[p] = [next |-> LIST_POISON1, prev |-> LIST_POISON2]

\* Following the pointers from each head meets the packs Tsm has on that list,
\* in that order, in both directions, whatever was moved between the lists and
\* by whichever of its two nodes; the process faults exactly where Tsm says.
PointersAgree ==
  /\ mem = Fault <=> pc = "crashed"
  /\ pc # "crashed" =>
       /\ SendListShape
       /\ Holds(mem, RecvList, Nodes(recv_list, MacNode))
       /\ Holds(mem, SendListPool, Nodes(send_list_pool, OwnerNode))
       /\ Holds(mem, RecvListPool, Nodes(recv_list_pool, OwnerNode))
       /\ Holds(mem, LlcResendList, Nodes(llc_resend_list, OwnerNode))
       /\ Holds(mem, LlcSendOwned, <<>>)
       /\ \E s \in [1 .. Cardinality(llc_recv_owned) -> llc_recv_owned] :
            Listed(s) = llc_recv_owned /\ Holds(mem, LlcRecvOwned, Nodes(s, OwnerNode))

\* The TODO in stk_llc_resend_clear_all asks whether the list needs to be
\* initialised once its nodes are moved away: it does not, the moves leave it
\* empty whenever it is cleared.
ResendClearLeavesEmpty ==
  pc = "llc" => list_empty(MoveResendToPool(mem), LlcResendList)
=============================================================================
