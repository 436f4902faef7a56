------------------------------ MODULE ListHead ------------------------------
(***************************************************************************)
(* list.h: circular doubly linked lists whose nodes live inside the        *)
(* structures they link.  The memory is a function from nodes to their two *)
(* pointers, and an operation is a function from memories to memories, its *)
(* writes in the order of the code.  Only what stack-comm.c uses is here.  *)
(***************************************************************************)
EXTENDS Integers, Sequences

LIST_POISON1 == -1
LIST_POISON2 == -2

\* The memory after an access that is no node's: the process is gone.
Fault == <<>>

\* entry->next and entry->prev, and the assignments to them.  What is read
\* through a bad pointer is a bad pointer; writing through one is fatal.
Get(mem, n, f) == IF n \in DOMAIN mem THEN mem[n][f] ELSE LIST_POISON1
Set(mem, n, f, v) == IF n \in DOMAIN mem THEN [mem EXCEPT ![n][f] = v] ELSE Fault

INIT_LIST_HEAD(mem, list) == Set(Set(mem, list, "next", list), list, "prev", list)

list_empty(mem, head) == Get(mem, head, "next") = head
list_first(mem, head) == Get(mem, head, "next")

\* __list_add and __list_del
Link(mem, new, prev, next) ==
  Set(Set(Set(Set(mem, next, "prev", new), new, "next", next), new, "prev", prev),
      prev, "next", new)
Unlink(mem, prev, next) == Set(Set(mem, next, "prev", prev), prev, "next", next)

list_add_tail(mem, new, head) == Link(mem, new, Get(mem, head, "prev"), head)

\* __list_del_entry
UnlinkEntry(mem, entry) == Unlink(mem, Get(mem, entry, "prev"), Get(mem, entry, "next"))

\* Mutant: the node keeps its links.
list_del_unpoisoned(mem, entry) == UnlinkEntry(mem, entry)

list_del(mem, entry) ==
  Set(Set(UnlinkEntry(mem, entry), entry, "next", LIST_POISON1), entry, "prev", LIST_POISON2)

\* Mutant: the node is not taken off its old list.
list_move_tail_linked(mem, entry, head) == list_add_tail(mem, entry, head)

list_move_tail(mem, entry, head) == list_add_tail(UnlinkEntry(mem, entry), entry, head)

-----------------------------------------------------------------------------
\* What a list is to its users: head leads through the nodes of s, in order,
\* and back, in both directions.
Holds(mem, head, s) ==
  LET ring == <<head>> \o s
      after(i) == IF i = Len(ring) THEN head ELSE ring[i + 1]
  IN \A i \in 1 .. Len(ring) : /\ mem[ring[i]].next = after(i)
                               /\ mem[after(i)].prev = ring[i]
=============================================================================
