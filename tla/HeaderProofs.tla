----------------------------- MODULE HeaderProofs -----------------------------
(***************************************************************************)
(* The two headers the program rests on: what the operations of list.h do  *)
(* to lists of any length, and what the comparison of struct timeval says  *)
(* of time.                                                                *)
(***************************************************************************)
EXTENDS ListHead, Timeval, SequenceTheorems, TLAPS

\* Memories of the nodes N, whose pointers are in L.
Memory(N, L) == [N -> [next : L, prev : L]]

\* The nodes of a list, all different and none of them its head.
Chain(N, head, s) ==
  /\ head \in N /\ s \in Seq(N)
  /\ \A i \in 1 .. Len(s) : s[i] # head
  /\ \A i, j \in 1 .. Len(s) : s[i] = s[j] => i = j
OnList(n, head, s) == n = head \/ \E i \in 1 .. Len(s) : n = s[i]

\* Holds, said of each node.
Linked(m, head, s) ==
  /\ m[head].next = (IF Len(s) = 0 THEN head ELSE s[1])
  /\ m[head].prev = (IF Len(s) = 0 THEN head ELSE s[Len(s)])
  /\ \A i \in 1 .. Len(s) : /\ m[s[i]].next = (IF i = Len(s) THEN head ELSE s[i + 1])
                            /\ m[s[i]].prev = (IF i = 1 THEN head ELSE s[i - 1])

\* Holds goes round the ring; the same, node by node.
LEMMA HoldsLinked ==
  ASSUME NEW N, NEW m, NEW head \in N, NEW s \in Seq(N)
  PROVE  Holds(m, head, s) <=> Linked(m, head, s)
<1> DEFINE ring == <<head>> \o s
           n == Len(s)
           after(i) == IF i = Len(ring) THEN head ELSE ring[i + 1]
<1>1. /\ n \in Nat /\ Len(ring) = n + 1 /\ ring[1] = head
      /\ \A i \in 1 .. n : ring[i + 1] = s[i]
  <2>1. <<head>> \in Seq(N) /\ Len(<<head>>) = 1 /\ <<head>>[1] = head
    OBVIOUS
  <2>2. /\ Len(ring) = Len(<<head>>) + n
        /\ \A i \in 1 .. Len(<<head>>) + n :
             ring[i] = IF i <= Len(<<head>>) THEN <<head>>[i] ELSE s[i - Len(<<head>>)]
    BY <2>1, ConcatProperties
  <2>3. n \in Nat
    OBVIOUS
  <2> HIDE DEF ring, n
  <2>4. Len(ring) = n + 1 /\ \A i \in 1 .. n + 1 : ring[i] = IF i <= 1 THEN <<head>>[i] ELSE s[i - 1]
    BY <2>1, <2>2, <2>3
  <2>5. ring[1] = head
    BY <2>1, <2>3, <2>4
  <2>6. \A i \in 1 .. n : ring[i + 1] = s[i]
    BY <2>3, <2>4
  <2>7. QED
    BY <2>3, <2>4, <2>5, <2>6
<1>2. Holds(m, head, s) <=> \A i \in 1 .. Len(ring) : m[ring[i]].next = after(i) /\ m[after(i)].prev = ring[i]
  BY DEF Holds
<1> HIDE DEF ring, n
<1>3. \A i \in 1 .. n + 1 : after(i) = IF i = n + 1 THEN head ELSE s[i]
  BY <1>1
<1>4. \A i \in 1 .. n + 1 : ring[i] = IF i = 1 THEN head ELSE s[i - 1]
  <2>1. ASSUME NEW i \in 1 .. n + 1, i # 1 PROVE ring[i] = s[i - 1]
    <3>1. i - 1 \in 1 .. n /\ (i - 1) + 1 = i
      BY <1>1, <2>1
    <3>2. QED
      BY <1>1, <3>1
  <2>2. QED
    BY <1>1, <2>1
<1> DEFINE from(i) == IF i = 1 THEN head ELSE s[i - 1]
           to(i) == IF i = n + 1 THEN head ELSE s[i]
<1>5. Holds(m, head, s) <=> \A i \in 1 .. n + 1 : m[from(i)].next = to(i) /\ m[to(i)].prev = from(i)
  <2>1. Holds(m, head, s) <=> \A i \in 1 .. n + 1 : m[ring[i]].next = after(i) /\ m[after(i)].prev = ring[i]
    BY <1>1, <1>2
  <2>2. \A i \in 1 .. n + 1 : after(i) = to(i) /\ ring[i] = from(i)
    BY <1>3, <1>4
  <2> HIDE DEF after, to, from
  <2>3. QED
    BY <2>1, <2>2, Zenon
<1>6. ASSUME Holds(m, head, s) PROVE Linked(m, head, s)
  <2>1. \A i \in 1 .. n + 1 :
          /\ m[IF i = 1 THEN head ELSE s[i - 1]].next = (IF i = n + 1 THEN head ELSE s[i])
          /\ m[IF i = n + 1 THEN head ELSE s[i]].prev = (IF i = 1 THEN head ELSE s[i - 1])
    BY <1>5, <1>6
  <2>2. 1 \in 1 .. n + 1 /\ n + 1 \in 1 .. n + 1
    BY <1>1
  <2>3. m[head].next = IF n = 0 THEN head ELSE s[1]
    BY <1>1, <2>1, <2>2
  <2>4. m[head].prev = IF n = 0 THEN head ELSE s[n]
    <3>1. m[head].prev = IF n + 1 = 1 THEN head ELSE s[(n + 1) - 1]
      BY <2>1, <2>2
    <3>2. QED
      BY <1>1, <3>1
  <2>5. ASSUME NEW i \in 1 .. n
        PROVE  /\ m[s[i]].next = (IF i = n THEN head ELSE s[i + 1])
               /\ m[s[i]].prev = (IF i = 1 THEN head ELSE s[i - 1])
    <3>1. i \in 1 .. n + 1 /\ i + 1 \in 1 .. n + 1 /\ i # n + 1 /\ i + 1 # 1 /\ (i + 1) - 1 = i
      BY <1>1
    <3>2. m[s[i]].prev = (IF i = 1 THEN head ELSE s[i - 1])
      BY <2>1, <3>1
    <3>3. m[s[i]].next = (IF i + 1 = n + 1 THEN head ELSE s[i + 1])
      BY <2>1, <3>1
    <3>4. QED
      BY <1>1, <3>2, <3>3
  <2>6. QED
    BY <2>3, <2>4, <2>5 DEF Linked, n
<1>7. ASSUME Linked(m, head, s) PROVE Holds(m, head, s)
  <2>1. /\ m[head].next = (IF n = 0 THEN head ELSE s[1])
        /\ m[head].prev = (IF n = 0 THEN head ELSE s[n])
        /\ \A i \in 1 .. n : /\ m[s[i]].next = (IF i = n THEN head ELSE s[i + 1])
                             /\ m[s[i]].prev = (IF i = 1 THEN head ELSE s[i - 1])
    BY <1>7 DEF Linked, n
  <2>2. ASSUME NEW i \in 1 .. n + 1
        PROVE  m[IF i = 1 THEN head ELSE s[i - 1]].next = (IF i = n + 1 THEN head ELSE s[i])
    <3>1. CASE i = 1
      BY <1>1, <2>1, <3>1
    <3>2. CASE i # 1
      <4>1. i - 1 \in 1 .. n /\ (i - 1 = n <=> i = n + 1) /\ (i - 1) + 1 = i
        BY <1>1, <3>2
      <4>2. QED
        BY <2>1, <3>2, <4>1
    <3>3. QED
      BY <3>1, <3>2
  <2>3. ASSUME NEW i \in 1 .. n + 1
        PROVE  m[IF i = n + 1 THEN head ELSE s[i]].prev = (IF i = 1 THEN head ELSE s[i - 1])
    <3>1. CASE i = n + 1
      BY <1>1, <2>1, <3>1
    <3>2. CASE i # n + 1
      <4>1. i \in 1 .. n
        BY <1>1, <3>2
      <4>2. QED
        BY <2>1, <3>2, <4>1
    <3>3. QED
      BY <3>1, <3>2
  <2>4. QED
    BY <1>5, <2>2, <2>3
<1>8. QED
  BY <1>6, <1>7

\* An assignment through a good pointer.
LEMMA SetNode ==
  ASSUME NEW N, NEW L, NEW m \in Memory(N, L), NEW n \in N, NEW f \in {"next", "prev"}, NEW v \in L
  PROVE  /\ Set(m, n, f, v) \in Memory(N, L)
         /\ Set(m, n, f, v)[n][f] = v
         /\ \A k \in N, g \in {"next", "prev"} : k # n \/ g # f => Set(m, n, f, v)[k][g] = m[k][g]
BY DEF Memory, Set

\* Two nodes are the same if their pointers are.
LEMMA SameNode ==
  ASSUME NEW N, NEW L, NEW m \in Memory(N, L), NEW r \in Memory(N, L), NEW n \in N,
         r[n].next = m[n].next, r[n].prev = m[n].prev
  PROVE  r[n] = m[n]
BY DEF Memory

\* __list_add, between two nodes that may be one and the same: the four writes
\* of the code do not get in each other's way.
LEMMA LinkWrites ==
  ASSUME NEW N, NEW L, N \subseteq L, NEW m \in Memory(N, L),
         NEW new \in N, NEW prev \in N, NEW next \in N, new # prev, new # next
  PROVE  LET r == Link(m, new, prev, next)
         IN /\ r \in Memory(N, L)
            /\ r[new] = [next |-> next, prev |-> prev]
            /\ r[prev].next = new /\ r[next].prev = new
            /\ \A k \in N \ {new} : /\ k # prev => r[k].next = m[k].next
                                    /\ k # next => r[k].prev = m[k].prev
<1> DEFINE a == Set(m, next, "prev", new)
           b == Set(a, new, "next", next)
           c == Set(b, new, "prev", prev)
           d == Set(c, prev, "next", new)
<1>0. Link(m, new, prev, next) = d
  BY DEF Link
<1>1. /\ a \in Memory(N, L) /\ a[next].prev = new
      /\ \A k \in N, g \in {"next", "prev"} : k # next \/ g # "prev" => a[k][g] = m[k][g]
  BY SetNode
<1> HIDE DEF a
<1>2. /\ b \in Memory(N, L) /\ b[new].next = next
      /\ \A k \in N, g \in {"next", "prev"} : k # new \/ g # "next" => b[k][g] = a[k][g]
  BY <1>1, SetNode
<1> HIDE DEF b
<1>3. /\ c \in Memory(N, L) /\ c[new].prev = prev
      /\ \A k \in N, g \in {"next", "prev"} : k # new \/ g # "prev" => c[k][g] = b[k][g]
  BY <1>2, SetNode
<1> HIDE DEF c
<1>4. /\ d \in Memory(N, L) /\ d[prev].next = new
      /\ \A k \in N, g \in {"next", "prev"} : k # prev \/ g # "next" => d[k][g] = c[k][g]
  BY <1>3, SetNode
<1> HIDE DEF d
<1>5. d[new].next = next /\ d[new].prev = prev
  BY <1>2, <1>3, <1>4
<1>6. d[new] = [next |-> next, prev |-> prev]
  BY <1>4, <1>5 DEF Memory
<1>7. d[next].prev = new
  BY <1>1, <1>2, <1>3, <1>4
<1>8. ASSUME NEW k \in N \ {new}
      PROVE  /\ k # prev => d[k].next = m[k].next
             /\ k # next => d[k].prev = m[k].prev
  BY <1>1, <1>2, <1>3, <1>4
<1>9. QED
  BY <1>0, <1>4, <1>6, <1>7, <1>8

\* __list_del, also of the last node of a list, whose neighbours are both the
\* head.
LEMMA UnlinkWrites ==
  ASSUME NEW N, NEW L, N \subseteq L, NEW m \in Memory(N, L), NEW prev \in N, NEW next \in N
  PROVE  LET r == Unlink(m, prev, next)
         IN /\ r \in Memory(N, L)
            /\ r[prev].next = next /\ r[next].prev = prev
            /\ \A k \in N : /\ k # prev => r[k].next = m[k].next
                            /\ k # next => r[k].prev = m[k].prev
<1> DEFINE a == Set(m, next, "prev", prev)
           b == Set(a, prev, "next", next)
<1>0. Unlink(m, prev, next) = b
  BY DEF Unlink
<1>1. /\ a \in Memory(N, L) /\ a[next].prev = prev
      /\ \A k \in N, g \in {"next", "prev"} : k # next \/ g # "prev" => a[k][g] = m[k][g]
  BY SetNode
<1> HIDE DEF a
<1>2. /\ b \in Memory(N, L) /\ b[prev].next = next
      /\ \A k \in N, g \in {"next", "prev"} : k # prev \/ g # "next" => b[k][g] = a[k][g]
  BY <1>1, SetNode
<1> HIDE DEF b
<1>3. QED
  BY <1>0, <1>1, <1>2

-----------------------------------------------------------------------------
(* What the operations do to lists, of any length.                           *)

\* A list does not notice what happens to other nodes.
LEMMA Elsewhere ==
  ASSUME NEW N, NEW m, NEW r, NEW head, NEW s, Chain(N, head, s), Holds(m, head, s),
         \A n \in N : OnList(n, head, s) => r[n] = m[n]
  PROVE  Holds(r, head, s)
<1>1. head \in N /\ s \in Seq(N) /\ \A i \in 1 .. Len(s) : s[i] \in N
  BY DEF Chain
<1>2. Linked(m, head, s)
  BY <1>1, HoldsLinked
<1>3. r[head] = m[head] /\ \A i \in 1 .. Len(s) : r[s[i]] = m[s[i]]
  BY <1>1 DEF OnList
<1>4. Linked(r, head, s)
  BY <1>2, <1>3 DEF Linked
<1>5. QED
  BY <1>1, <1>4, HoldsLinked

\* What the proofs below need of a list.
LEMMA ListNodes ==
  ASSUME NEW N, NEW m, NEW head, NEW s, Chain(N, head, s), Holds(m, head, s)
  PROVE  /\ head \in N /\ s \in Seq(N) /\ Len(s) \in Nat /\ \A i \in 1 .. Len(s) : s[i] \in N
         /\ Linked(m, head, s)
BY HoldsLinked DEF Chain

\* list_add_tail of a node that is not on the list, whatever its pointers were:
\* the list holds it last, and no other node is written.
THEOREM AddTail ==
  ASSUME NEW N, NEW L, N \subseteq L, NEW m \in Memory(N, L), NEW head, NEW s,
         Chain(N, head, s), Holds(m, head, s), NEW new \in N, ~OnList(new, head, s)
  PROVE  LET r == list_add_tail(m, new, head)
         IN /\ r \in Memory(N, L)
            /\ Chain(N, head, Append(s, new)) /\ Holds(r, head, Append(s, new))
            /\ \A k \in N : ~OnList(k, head, Append(s, new)) => r[k] = m[k]
<1> DEFINE n == Len(s)
           last == IF n = 0 THEN head ELSE s[n]
           r == Link(m, new, last, head)
           t == Append(s, new)
<1>1. /\ head \in N /\ s \in Seq(N) /\ n \in Nat /\ \A i \in 1 .. n : s[i] \in N
      /\ m[head].next = (IF n = 0 THEN head ELSE s[1])
      /\ m[head].prev = last
      /\ \A i \in 1 .. n : /\ m[s[i]].next = (IF i = n THEN head ELSE s[i + 1])
                           /\ m[s[i]].prev = (IF i = 1 THEN head ELSE s[i - 1])
  BY ListNodes DEF Linked
<1>2. /\ t \in Seq(N) /\ Len(t) = n + 1 /\ t[n + 1] = new /\ \A i \in 1 .. n : t[i] = s[i]
  BY <1>1
<1>3. /\ \A i \in 1 .. n : s[i] # head /\ s[i] # new
      /\ \A i, j \in 1 .. n : s[i] = s[j] => i = j
      /\ new # head
  BY DEF Chain, OnList
<1>4. last \in N /\ new # last
  BY <1>1, <1>3
<1>5. list_add_tail(m, new, head) = r
  BY <1>1 DEF list_add_tail, Get, Memory
<1> HIDE DEF n, t
<1>6. /\ r \in Memory(N, L)
      /\ r[new] = [next |-> head, prev |-> last]
      /\ r[last].next = new /\ r[head].prev = new
      /\ \A k \in N \ {new} : /\ k # last => r[k].next = m[k].next
                              /\ k # head => r[k].prev = m[k].prev
  BY <1>1, <1>3, <1>4, LinkWrites
<1> HIDE DEF r
<1>7. Chain(N, head, t)
  <2>1. \A i \in 1 .. n + 1 : i \in 1 .. n \/ i = n + 1
    BY <1>1
  <2>2. \A i \in 1 .. n + 1 : t[i] # head
    BY <1>2, <1>3, <2>1
  <2>3. \A i, j \in 1 .. n + 1 : t[i] = t[j] => i = j
    BY <1>2, <1>3, <2>1
  <2>4. QED
    BY <1>1, <1>2, <2>2, <2>3 DEF Chain
<1>8. Linked(r, head, t)
  <2>1. r[head].next = t[1]
    <3>1. CASE n = 0
      BY <1>2, <1>6, <3>1
    <3>2. CASE n # 0
      <4>1. head # last /\ 1 \in 1 .. n
        BY <1>1, <1>3, <3>2
      <4>2. QED
        BY <1>1, <1>2, <1>3, <1>6, <3>2, <4>1
    <3>3. QED
      BY <3>1, <3>2
  <2>2. r[head].prev = t[n + 1]
    BY <1>2, <1>6
  <2>3. ASSUME NEW i \in 1 .. n + 1
        PROVE  /\ r[t[i]].next = (IF i = n + 1 THEN head ELSE t[i + 1])
               /\ r[t[i]].prev = (IF i = 1 THEN head ELSE t[i - 1])
    <3>1. CASE i = n + 1
      <4>1. t[i] = new /\ (i = 1 <=> n = 0) /\ (n # 0 => t[i - 1] = s[n])
        BY <1>1, <1>2, <3>1
      <4>2. QED
        BY <1>6, <3>1, <4>1
    <3>2. CASE i # n + 1
      <4>1. i \in 1 .. n /\ t[i] = s[i] /\ s[i] \in N \ {new} /\ s[i] # head /\ n # 0
        BY <1>1, <1>2, <1>3, <3>2
      <4>2. r[t[i]].prev = (IF i = 1 THEN head ELSE t[i - 1])
        <5>1. i # 1 => i - 1 \in 1 .. n
          BY <1>1, <4>1
        <5>2. r[s[i]].prev = m[s[i]].prev /\ m[s[i]].prev = (IF i = 1 THEN head ELSE s[i - 1])
          BY <1>1, <1>6, <4>1
        <5>3. i # 1 => t[i - 1] = s[i - 1]
          BY <1>2, <5>1
        <5>4. QED
          BY <4>1, <5>2, <5>3
      <4>3. CASE i = n
        BY <1>2, <1>6, <3>2, <4>1, <4>2, <4>3
      <4>4. CASE i # n
        <5>1. s[i] # last /\ i + 1 \in 1 .. n
          BY <1>1, <1>3, <4>1, <4>4
        <5>2. r[s[i]].next = m[s[i]].next /\ m[s[i]].next = s[i + 1] /\ t[i + 1] = s[i + 1]
          BY <1>1, <1>2, <1>6, <4>1, <4>4, <5>1
        <5>3. QED
          BY <3>2, <4>1, <4>2, <5>2
      <4>5. QED
        BY <4>3, <4>4
    <3>3. QED
      BY <3>1, <3>2
  <2>4. QED
    BY <1>1, <1>2, <2>1, <2>2, <2>3 DEF Linked
<1>9. ASSUME NEW k \in N, ~OnList(k, head, t) PROVE r[k] = m[k]
  <2>1. k # head /\ k # new /\ k # last
    <3>1. \A i \in 1 .. n + 1 : k # t[i]
      BY <1>2, <1>9 DEF OnList
    <3>2. n # 0 => n \in 1 .. n + 1 /\ t[n] = s[n]
      BY <1>1, <1>2
    <3>3. n + 1 \in 1 .. n + 1
      BY <1>1
    <3>4. QED
      BY <1>2, <1>9, <3>1, <3>2, <3>3 DEF OnList
  <2>2. r[k].next = m[k].next /\ r[k].prev = m[k].prev
    BY <1>6, <2>1
  <2>3. QED
    BY <1>6, <2>2, SameNode
<1>10. Holds(r, head, t)
  BY <1>1, <1>2, <1>8, HoldsLinked
<1>11. QED
  BY <1>5, <1>6, <1>7, <1>9, <1>10 DEF t

\* A list without its k-th node.
Without(s, k) == [i \in 1 .. Len(s) - 1 |-> IF i < k THEN s[i] ELSE s[i + 1]]

\* A list without one node is a list, and that node is not on it.
LEMMA WithoutNodes ==
  ASSUME NEW N, NEW head, NEW s, Chain(N, head, s), NEW k \in 1 .. Len(s)
  PROVE  /\ Chain(N, head, Without(s, k)) /\ Len(Without(s, k)) = Len(s) - 1
         /\ \A i \in 1 .. Len(s) - 1 : Without(s, k)[i] = IF i < k THEN s[i] ELSE s[i + 1]
         /\ ~OnList(s[k], head, Without(s, k))
         /\ \A x : OnList(x, head, s) <=> x = s[k] \/ OnList(x, head, Without(s, k))
<1> DEFINE n == Len(s)
           w == Without(s, k)
<1>1. /\ head \in N /\ s \in Seq(N) /\ n \in Nat /\ \A i \in 1 .. n : s[i] \in N /\ s[i] # head
      /\ \A i, j \in 1 .. n : s[i] = s[j] => i = j
  BY DEF Chain
<1>2. k \in 1 .. n /\ n - 1 \in Nat
  BY <1>1
<1>3. w = [i \in 1 .. n - 1 |-> IF i < k THEN s[i] ELSE s[i + 1]]
  BY DEF Without
<1> HIDE DEF n, w
<1>4. \A i \in 1 .. n - 1 : i \in 1 .. n /\ i + 1 \in 1 .. n
  BY <1>1
<1>5. w \in [1 .. n - 1 -> N]
  BY <1>1, <1>3, <1>4
<1>6. w \in Seq(N) /\ Len(w) = n - 1
  BY <1>2, <1>5
<1>7. \A i \in 1 .. n - 1 : w[i] = IF i < k THEN s[i] ELSE s[i + 1]
  BY <1>3
<1>8. Chain(N, head, w)
  <2>1. \A i \in 1 .. n - 1 : w[i] # head
    BY <1>1, <1>4, <1>7
  <2>2. ASSUME NEW i \in 1 .. n - 1, NEW j \in 1 .. n - 1, w[i] = w[j] PROVE i = j
    <3>1. (IF i < k THEN s[i] ELSE s[i + 1]) = (IF j < k THEN s[j] ELSE s[j + 1])
      BY <1>7, <2>2
    <3>2. (IF i < k THEN i ELSE i + 1) = (IF j < k THEN j ELSE j + 1)
      BY <1>1, <1>4, <3>1
    <3>3. QED
      BY <1>2, <3>2
  <2>3. QED
    BY <1>1, <1>6, <2>1, <2>2 DEF Chain
<1>9. ~OnList(s[k], head, w)
  <2>1. ASSUME NEW i \in 1 .. n - 1 PROVE w[i] # s[k]
    BY <1>1, <1>2, <1>4, <1>7
  <2>2. QED
    BY <1>1, <1>2, <1>6, <2>1 DEF OnList
<1>10. ASSUME NEW x PROVE OnList(x, head, s) <=> x = s[k] \/ OnList(x, head, w)
  <2>1. ASSUME NEW i \in 1 .. n, i # k PROVE \E j \in 1 .. n - 1 : w[j] = s[i]
    <3>1. CASE i < k
      <4>1. i \in 1 .. n - 1
        BY <1>1, <1>2, <3>1
      <4>2. QED
        BY <1>7, <3>1, <4>1
    <3>2. CASE i > k
      <4>1. i - 1 \in 1 .. n - 1 /\ ~(i - 1 < k) /\ (i - 1) + 1 = i
        BY <1>1, <1>2, <3>2
      <4>2. QED
        BY <1>7, <4>1
    <3>3. QED
      BY <1>2, <2>1, <3>1, <3>2
  <2>2. \A j \in 1 .. n - 1 : \E i \in 1 .. n : w[j] = s[i]
    BY <1>4, <1>7
  <2>3. OnList(x, head, s) <=> x = head \/ \E i \in 1 .. n : x = s[i]
    BY DEF OnList, n
  <2>4. OnList(x, head, w) <=> x = head \/ \E j \in 1 .. n - 1 : x = w[j]
    BY <1>6 DEF OnList
  <2>5. QED
    BY <1>2, <2>1, <2>2, <2>3, <2>4
<1>11. QED
  BY <1>6, <1>7, <1>8, <1>9, <1>10 DEF n, w

\* __list_del_entry, from any place on the list: the list holds the others.
LEMMA UnlinkAt ==
  ASSUME NEW N, NEW L, N \subseteq L, NEW m \in Memory(N, L), NEW head, NEW s,
         Chain(N, head, s), Holds(m, head, s), NEW k \in 1 .. Len(s)
  PROVE  LET r == UnlinkEntry(m, s[k])
         IN /\ r \in Memory(N, L)
            /\ Holds(r, head, Without(s, k))
            /\ \A x \in N : ~OnList(x, head, Without(s, k)) => r[x] = m[x]
<1> DEFINE n == Len(s)
           w == Without(s, k)
           prev == IF k = 1 THEN head ELSE s[k - 1]
           next == IF k = n THEN head ELSE s[k + 1]
           r == Unlink(m, prev, next)
<1>1. /\ head \in N /\ s \in Seq(N) /\ n \in Nat /\ \A i \in 1 .. n : s[i] \in N
      /\ m[head].next = (IF n = 0 THEN head ELSE s[1])
      /\ m[head].prev = (IF n = 0 THEN head ELSE s[n])
      /\ \A i \in 1 .. n : /\ m[s[i]].next = (IF i = n THEN head ELSE s[i + 1])
                           /\ m[s[i]].prev = (IF i = 1 THEN head ELSE s[i - 1])
  BY ListNodes DEF Linked
<1>2. /\ \A i \in 1 .. n : s[i] # head
      /\ \A i, j \in 1 .. n : s[i] = s[j] => i = j
      /\ k \in 1 .. n
  BY DEF Chain
<1>3. prev \in N /\ next \in N
  <2>1. (k # 1 => k - 1 \in 1 .. n) /\ (k # n => k + 1 \in 1 .. n)
    BY <1>1, <1>2
  <2>2. QED
    BY <1>1, <2>1
<1>4. UnlinkEntry(m, s[k]) = r
  BY <1>1, <1>2 DEF UnlinkEntry, Get, Memory
<1>5. /\ Chain(N, head, w) /\ Len(w) = n - 1 /\ w \in Seq(N)
      /\ \A i \in 1 .. n - 1 : w[i] = IF i < k THEN s[i] ELSE s[i + 1]
  <2>1. /\ Chain(N, head, w) /\ Len(w) = n - 1
        /\ \A i \in 1 .. n - 1 : w[i] = IF i < k THEN s[i] ELSE s[i + 1]
    BY WithoutNodes
  <2>2. QED
    BY <2>1 DEF Chain
<1> HIDE DEF n, w
<1>6. /\ r \in Memory(N, L)
      /\ r[prev].next = next /\ r[next].prev = prev
      /\ \A x \in N : /\ x # prev => r[x].next = m[x].next
                      /\ x # next => r[x].prev = m[x].prev
  <2> HIDE DEF prev, next
  <2>1. QED
    BY <1>1, <1>3, UnlinkWrites
<1> HIDE DEF r
<1>7. Linked(r, head, w)
  <2>1. r[head].next = IF n = 1 THEN head ELSE w[1]
    <3>1. CASE k = 1
      <4>1. prev = head /\ (n # 1 => w[1] = s[2])
        BY <1>1, <1>2, <1>5, <3>1
      <4>2. QED
        BY <1>6, <3>1, <4>1
    <3>2. CASE k # 1
      <4>1. n # 1 /\ k - 1 \in 1 .. n /\ 1 < k /\ 1 \in 1 .. n - 1
        BY <1>1, <1>2, <3>2
      <4>2. prev # head /\ w[1] = s[1] /\ n # 0
        BY <1>1, <1>2, <1>5, <3>2, <4>1
      <4>3. QED
        BY <1>1, <1>6, <4>1, <4>2
    <3>3. QED
      BY <3>1, <3>2
  <2>2. r[head].prev = IF n = 1 THEN head ELSE w[n - 1]
    <3>1. CASE k = n
      <4>1. next = head /\ (n = 1 => prev = head)
        BY <1>2, <3>1
      <4>2. n # 1 => n - 1 \in 1 .. n - 1 /\ n - 1 < k
        BY <1>1, <1>2, <3>1
      <4>3. n # 1 => w[n - 1] = prev
        BY <1>5, <3>1, <4>2
      <4>4. QED
        BY <1>6, <4>1, <4>3
    <3>2. CASE k # n
      <4>1. n # 1 /\ k + 1 \in 1 .. n /\ n - 1 \in 1 .. n - 1 /\ ~(n - 1 < k) /\ (n - 1) + 1 = n /\ n # 0
        BY <1>1, <1>2, <3>2
      <4>2. next # head /\ w[n - 1] = s[n]
        BY <1>2, <1>5, <3>2, <4>1
      <4>3. QED
        BY <1>1, <1>6, <4>1, <4>2
    <3>3. QED
      BY <3>1, <3>2
  <2>3. ASSUME NEW i \in 1 .. n - 1
        PROVE  r[w[i]].next = (IF i = n - 1 THEN head ELSE w[i + 1])
    <3>1. i \in 1 .. n /\ i + 1 \in 1 .. n /\ (i # n - 1 => i + 1 \in 1 .. n - 1)
      BY <1>1
    <3>2. CASE i = k - 1
      <4>1. w[i] = s[k - 1] /\ k # 1 /\ (i = n - 1 <=> k = n) /\ (i # n - 1 => w[i + 1] = s[k + 1])
        BY <1>1, <1>2, <1>5, <3>1, <3>2
      <4>2. QED
        BY <1>6, <4>1
    <3>3. CASE i # k - 1
      <4> DEFINE j == IF i < k THEN i ELSE i + 1
      <4>1. /\ j \in 1 .. n /\ w[i] = s[j] /\ j # k - 1 /\ j # k
            /\ (j = n <=> i = n - 1) /\ (i # n - 1 => w[i + 1] = s[j + 1])
        BY <1>1, <1>2, <1>5, <3>1, <3>3
      <4> HIDE DEF j
      <4>2. s[j] # prev
        <5>1. k # 1 => k - 1 \in 1 .. n
          BY <1>1, <1>2
        <5>2. QED
          BY <1>2, <4>1, <5>1
      <4>3. r[s[j]].next = m[s[j]].next
        BY <1>1, <1>6, <4>1, <4>2
      <4>4. QED
        BY <1>1, <4>1, <4>3
    <3>4. QED
      BY <3>2, <3>3
  <2>4. ASSUME NEW i \in 1 .. n - 1
        PROVE  r[w[i]].prev = (IF i = 1 THEN head ELSE w[i - 1])
    <3>1. i \in 1 .. n /\ i + 1 \in 1 .. n /\ (i # 1 => i - 1 \in 1 .. n - 1)
      BY <1>1
    <3>2. CASE i = k
      <4>1. w[i] = s[k + 1] /\ k # n /\ (i # 1 => w[i - 1] = s[k - 1])
        BY <1>1, <1>2, <1>5, <3>1, <3>2
      <4>2. QED
        BY <1>6, <3>2, <4>1
    <3>3. CASE i # k
      <4> DEFINE j == IF i < k THEN i ELSE i + 1
      <4>1. /\ j \in 1 .. n /\ w[i] = s[j] /\ j # k + 1 /\ j # k
            /\ (j = 1 <=> i = 1) /\ (i # 1 => w[i - 1] = s[j - 1])
        <5>1. CASE i < k
          <6>1. j = i /\ i # k + 1 /\ (i # 1 => i - 1 < k)
            BY <1>1, <1>2, <5>1
          <6>2. QED
            BY <1>5, <3>1, <3>3, <5>1, <6>1
        <5>2. CASE i > k
          <6>1. /\ j = i + 1 /\ ~(i < k) /\ i + 1 # k + 1 /\ i + 1 # k /\ i # 1 /\ i + 1 # 1
                /\ ~(i - 1 < k) /\ (i - 1) + 1 = i /\ (i + 1) - 1 = i
            BY <1>1, <1>2, <5>2
          <6>2. QED
            BY <1>5, <3>1, <6>1
        <5>3. QED
          BY <1>1, <1>2, <3>3, <5>1, <5>2
      <4> HIDE DEF j
      <4>2. s[j] # next
        <5>1. k # n => k + 1 \in 1 .. n
          BY <1>1, <1>2
        <5>2. QED
          BY <1>2, <4>1, <5>1
      <4>3. r[s[j]].prev = m[s[j]].prev
        BY <1>1, <1>6, <4>1, <4>2
      <4>4. QED
        BY <1>1, <4>1, <4>3
    <3>4. QED
      BY <3>2, <3>3
  <2>5. n - 1 = 0 <=> n = 1
    BY <1>1
  <2>6. QED
    BY <1>5, <2>1, <2>2, <2>3, <2>4, <2>5 DEF Linked
<1>8. Holds(r, head, w)
  BY <1>1, <1>5, <1>7, HoldsLinked
<1>9. ASSUME NEW x \in N, ~OnList(x, head, w) PROVE r[x] = m[x]
  <2>1. k # 1 => k - 1 \in 1 .. n - 1 /\ w[k - 1] = s[k - 1]
    BY <1>1, <1>2, <1>5
  <2>2. k # n => k \in 1 .. n - 1 /\ w[k] = s[k + 1]
    BY <1>1, <1>2, <1>5
  <2>3. x # prev /\ x # next
    BY <1>5, <1>9, <2>1, <2>2 DEF OnList
  <2>4. QED
    BY <1>6, <2>3, SameNode
<1>10. QED
  BY <1>4, <1>6, <1>8, <1>9 DEF w

\* list_del, from any place on the list: the list holds the others, the node is
\* poisoned, and no node of another list is written.
THEOREM DelAt ==
  ASSUME NEW N, NEW L, N \cup {LIST_POISON1, LIST_POISON2} \subseteq L, NEW m \in Memory(N, L),
         NEW head, NEW s, Chain(N, head, s), Holds(m, head, s), NEW k \in 1 .. Len(s)
  PROVE  LET r == list_del(m, s[k])
         IN /\ r \in Memory(N, L)
            /\ Chain(N, head, Without(s, k)) /\ Holds(r, head, Without(s, k))
            /\ r[s[k]] = [next |-> LIST_POISON1, prev |-> LIST_POISON2]
            /\ \A x \in N : ~OnList(x, head, s) => r[x] = m[x]
<1> DEFINE e == s[k]
           w == Without(s, k)
           u == UnlinkEntry(m, e)
           a == Set(u, e, "next", LIST_POISON1)
           r == Set(a, e, "prev", LIST_POISON2)
<1>0. list_del(m, e) = r
  BY DEF list_del
<1>1. e \in N
  BY DEF Chain
<1>2. u \in Memory(N, L) /\ Holds(u, head, w) /\ \A x \in N : ~OnList(x, head, w) => u[x] = m[x]
  <2>1. N \subseteq L
    OBVIOUS
  <2>2. QED
    BY <2>1, UnlinkAt
<1>3. Chain(N, head, w) /\ ~OnList(e, head, w) /\ \A x : OnList(x, head, s) <=> x = e \/ OnList(x, head, w)
  BY WithoutNodes
<1> HIDE DEF u, w, e
<1>p. LIST_POISON1 \in L /\ LIST_POISON2 \in L
  OBVIOUS
<1>4. /\ a \in Memory(N, L) /\ a[e].next = LIST_POISON1
      /\ \A x \in N, g \in {"next", "prev"} : x # e \/ g # "next" => a[x][g] = u[x][g]
  BY <1>1, <1>2, <1>p, SetNode
<1> HIDE DEF a
<1>5. /\ r \in Memory(N, L) /\ r[e].prev = LIST_POISON2
      /\ \A x \in N, g \in {"next", "prev"} : x # e \/ g # "prev" => r[x][g] = a[x][g]
  BY <1>1, <1>4, <1>p, SetNode
<1> HIDE DEF r
<1>6. r[e] = [next |-> LIST_POISON1, prev |-> LIST_POISON2]
  BY <1>1, <1>4, <1>5 DEF Memory
<1>7. ASSUME NEW x \in N, x # e PROVE r[x] = u[x]
  <2>1. r[x].next = u[x].next /\ r[x].prev = u[x].prev
    BY <1>4, <1>5, <1>7
  <2>2. QED
    BY <1>2, <1>5, <2>1, SameNode
<1>8. Holds(r, head, w)
  BY <1>2, <1>3, <1>7, Elsewhere
<1>9. QED
  BY <1>0, <1>2, <1>3, <1>5, <1>6, <1>7, <1>8 DEF e, w

\* list_move_tail from one list to another that shares no node with it: the node
\* becomes the last of the other, whichever place it had on the first, and no
\* third list is written.
THEOREM MoveTail ==
  ASSUME NEW N, NEW L, N \subseteq L, NEW m \in Memory(N, L),
         NEW from, NEW s, Chain(N, from, s), Holds(m, from, s), NEW k \in 1 .. Len(s),
         NEW to, NEW t, Chain(N, to, t), Holds(m, to, t),
         \A x \in N : ~(OnList(x, from, s) /\ OnList(x, to, t))
  PROVE  LET r == list_move_tail(m, s[k], to)
         IN /\ r \in Memory(N, L)
            /\ Chain(N, from, Without(s, k)) /\ Holds(r, from, Without(s, k))
            /\ Chain(N, to, Append(t, s[k])) /\ Holds(r, to, Append(t, s[k]))
            /\ \A x \in N : ~OnList(x, from, s) /\ ~OnList(x, to, t) => r[x] = m[x]
<1> DEFINE e == s[k]
           w == Without(s, k)
           u == UnlinkEntry(m, e)
           r == list_add_tail(u, e, to)
           v == Append(t, e)
<1>0. list_move_tail(m, e, to) = r
  BY DEF list_move_tail
<1>1. e \in N /\ from \in N /\ to \in N /\ t \in Seq(N) /\ Len(t) \in Nat
  BY DEF Chain
<1>2. u \in Memory(N, L) /\ Holds(u, from, w) /\ \A x \in N : ~OnList(x, from, w) => u[x] = m[x]
  BY UnlinkAt
<1>3. Chain(N, from, w) /\ ~OnList(e, from, w) /\ \A x : OnList(x, from, s) <=> x = e \/ OnList(x, from, w)
  BY WithoutNodes
<1> HIDE DEF u, w, e
<1>4. ~OnList(e, to, t)
  BY <1>1, <1>3
<1>5. Holds(u, to, t)
  <2>1. \A x \in N : OnList(x, to, t) => u[x] = m[x]
    BY <1>2, <1>3
  <2>2. QED
    BY <2>1, Elsewhere
<1>6. /\ r \in Memory(N, L) /\ Chain(N, to, v) /\ Holds(r, to, v)
      /\ \A x \in N : ~OnList(x, to, v) => r[x] = u[x]
  BY <1>1, <1>2, <1>4, <1>5, AddTail
<1>7. \A x : OnList(x, to, v) => x = e \/ OnList(x, to, t)
  <2>1. Len(v) = Len(t) + 1 /\ v[Len(t) + 1] = e /\ \A i \in 1 .. Len(t) : v[i] = t[i]
    BY <1>1
  <2>2. \A i \in 1 .. Len(t) + 1 : i \in 1 .. Len(t) \/ i = Len(t) + 1
    BY <1>1
  <2>3. QED
    BY <2>1, <2>2 DEF OnList
<1> HIDE DEF r, v
<1>8. Holds(r, from, w)
  <2>1. \A x \in N : OnList(x, from, w) => r[x] = u[x]
    BY <1>3, <1>6, <1>7
  <2>2. QED
    BY <1>2, <1>3, <2>1, Elsewhere
<1>9. ASSUME NEW x \in N, ~OnList(x, from, s), ~OnList(x, to, t) PROVE r[x] = m[x]
  BY <1>2, <1>3, <1>6, <1>7, <1>9
<1>10. QED
  BY <1>0, <1>3, <1>6, <1>8, <1>9 DEF e, w, v

\* The head of a list of one node leads to it both ways.
LEMMA AloneOnList ==
  ASSUME NEW N, NEW L, NEW m \in Memory(N, L), NEW head, NEW p,
         Chain(N, head, <<p>>), Holds(m, head, <<p>>)
  PROVE  head \in N /\ p \in N /\ p # head /\ m[head] = [next |-> p, prev |-> p]
<1>1. head \in N /\ p \in N /\ p # head
  <2>1. Len(<<p>>) = 1 /\ <<p>>[1] = p /\ 1 \in 1 .. 1
    OBVIOUS
  <2>2. <<p>> \in Seq(N)
    BY DEF Chain
  <2>3. QED
    BY <2>1, <2>2 DEF Chain
<1>2. PICK s \in Seq(N) : s = <<p>> /\ Len(s) = 1 /\ s[1] = p
  <2>1. <<p>> \in Seq(N) /\ Len(<<p>>) = 1 /\ <<p>>[1] = p
    BY <1>1
  <2>2. QED
    BY <2>1
<1>3. Linked(m, head, s)
  BY <1>1, <1>2, HoldsLinked
<1>4. m[head].next = p /\ m[head].prev = p
  BY <1>2, <1>3 DEF Linked
<1>5. QED
  BY <1>1, <1>4 DEF Memory

\* list_add_tail of a node to which the head leads both ways already makes the
\* node its own neighbour, whatever its pointers were.
LEMMA AddLoops ==
  ASSUME NEW N, NEW L, N \subseteq L, NEW m \in Memory(N, L),
         NEW head \in N, NEW p \in N, p # head, m[head] = [next |-> p, prev |-> p]
  PROVE  LET r == list_add_tail(m, p, head)
             self == [next |-> p, prev |-> p]
         IN /\ r \in Memory(N, L) /\ r[head] = self /\ r[p] = self
            /\ \A x \in N : x # head /\ x # p => r[x] = m[x]
<1> DEFINE self == [next |-> p, prev |-> p]
           r == list_add_tail(m, p, head)
           t1 == Set(m, head, "prev", p)
           t2 == Set(t1, p, "next", head)
           t3 == Set(t2, p, "prev", p)
           t4 == Set(t3, p, "next", p)
<1>1. Get(m, head, "prev") = p
  BY DEF Get, Memory
<1>2. r = t4
  BY <1>1 DEF list_add_tail, Link
<1> HIDE DEF r
<1>3. /\ t1 \in Memory(N, L) /\ t1[head].prev = p
      /\ \A x \in N, g \in {"next", "prev"} : x # head \/ g # "prev" => t1[x][g] = m[x][g]
  BY SetNode
<1> HIDE DEF t1
<1>4. /\ t2 \in Memory(N, L)
      /\ \A x \in N, g \in {"next", "prev"} : x # p \/ g # "next" => t2[x][g] = t1[x][g]
  BY <1>3, SetNode
<1> HIDE DEF t2
<1>5. /\ t3 \in Memory(N, L) /\ t3[p].prev = p
      /\ \A x \in N, g \in {"next", "prev"} : x # p \/ g # "prev" => t3[x][g] = t2[x][g]
  BY <1>4, SetNode
<1> HIDE DEF t3
<1>6. /\ t4 \in Memory(N, L) /\ t4[p].next = p
      /\ \A x \in N, g \in {"next", "prev"} : x # p \/ g # "next" => t4[x][g] = t3[x][g]
  BY <1>5, SetNode
<1> HIDE DEF t4
<1>7. t4[head].next = p /\ t4[head].prev = p /\ t4[p].next = p /\ t4[p].prev = p
  BY <1>3, <1>4, <1>5, <1>6
<1>8. ASSUME NEW x \in N, x # head, x # p PROVE t4[x] = m[x]
  <2>1. t4[x].next = m[x].next /\ t4[x].prev = m[x].prev
    BY <1>3, <1>4, <1>5, <1>6, <1>8
  <2>2. QED
    BY <1>6, <2>1, SameNode
<1>9. t4[head] = self /\ t4[p] = self
  BY <1>6, <1>7 DEF Memory
<1>10. QED
  BY <1>2, <1>6, <1>8, <1>9 DEF r

\* list_del of a node that is its own neighbour only poisons it.
LEMMA DelLooped ==
  ASSUME NEW N, NEW L, N \cup {LIST_POISON1, LIST_POISON2} \subseteq L, NEW m \in Memory(N, L),
         NEW p \in N, m[p] = [next |-> p, prev |-> p]
  PROVE  LET r == list_del(m, p)
         IN /\ r \in Memory(N, L) /\ r[p] = [next |-> LIST_POISON1, prev |-> LIST_POISON2]
            /\ \A x \in N : x # p => r[x] = m[x]
<1> DEFINE u1 == Set(m, p, "prev", p)
           u2 == Set(u1, p, "next", p)
           a == Set(u2, p, "next", LIST_POISON1)
           r == Set(a, p, "prev", LIST_POISON2)
<1>1. Get(m, p, "next") = p /\ Get(m, p, "prev") = p
  BY DEF Get, Memory
<1>2. list_del(m, p) = r
  BY <1>1 DEF list_del, UnlinkEntry, Unlink
<1>3. p \in L /\ LIST_POISON1 \in L /\ LIST_POISON2 \in L
  OBVIOUS
<1>4. /\ u1 \in Memory(N, L)
      /\ \A x \in N, g \in {"next", "prev"} : x # p \/ g # "prev" => u1[x][g] = m[x][g]
  BY <1>3, SetNode
<1> HIDE DEF u1
<1>5. /\ u2 \in Memory(N, L)
      /\ \A x \in N, g \in {"next", "prev"} : x # p \/ g # "next" => u2[x][g] = u1[x][g]
  BY <1>3, <1>4, SetNode
<1> HIDE DEF u2
<1>6. /\ a \in Memory(N, L) /\ a[p].next = LIST_POISON1
      /\ \A x \in N, g \in {"next", "prev"} : x # p \/ g # "next" => a[x][g] = u2[x][g]
  BY <1>3, <1>5, SetNode
<1> HIDE DEF a
<1>7. /\ r \in Memory(N, L) /\ r[p].prev = LIST_POISON2
      /\ \A x \in N, g \in {"next", "prev"} : x # p \/ g # "prev" => r[x][g] = a[x][g]
  BY <1>3, <1>6, SetNode
<1> HIDE DEF r
<1>8. r[p] = [next |-> LIST_POISON1, prev |-> LIST_POISON2]
  BY <1>6, <1>7 DEF Memory
<1>9. ASSUME NEW x \in N, x # p PROVE r[x] = m[x]
  <2>1. r[x].next = m[x].next /\ r[x].prev = m[x].prev
    BY <1>4, <1>5, <1>6, <1>7, <1>9
  <2>2. QED
    BY <1>7, <2>1, SameNode
<1>10. QED
  BY <1>2, <1>7, <1>8, <1>9

\* list_del of a poisoned node writes through a bad pointer.
LEMMA DelFaults ==
  ASSUME NEW N, NEW L, NEW m \in Memory(N, L), LIST_POISON1 \notin N,
         NEW p \in N, m[p].next = LIST_POISON1
  PROVE  list_del(m, p) = Fault
<1>1. DOMAIN m = N
  BY DEF Memory
<1>2. Get(m, p, "next") = LIST_POISON1
  BY <1>1 DEF Get
<1>3. \A x, g, y : Set(Fault, x, g, y) = Fault
  BY DEF Set, Fault
<1>4. \A y : Set(m, LIST_POISON1, "prev", y) = Fault
  BY <1>1 DEF Set
<1>5. UnlinkEntry(m, p) = Fault
  BY <1>2, <1>3, <1>4 DEF UnlinkEntry, Unlink
<1>6. QED
  BY <1>3, <1>5 DEF list_del

\* list_add_tail of a node that is alone on that list already makes it its own
\* neighbour; list_del then poisons it while the head still leads to it, and the
\* list_del of what the head leads to goes through a bad pointer.  These are the
\* steps of send_link in Tsm, from "ok" to "looped" to "poisoned" to the crash.
THEOREM AddedTwice ==
  ASSUME NEW N, NEW L, N \cup {LIST_POISON1, LIST_POISON2} \subseteq L, NEW m \in Memory(N, L),
         LIST_POISON1 \notin N, NEW head, NEW p, Chain(N, head, <<p>>), Holds(m, head, <<p>>)
  PROVE  LET twice == list_add_tail(m, p, head)
             gone == list_del(twice, p)
             self == [next |-> p, prev |-> p]
         IN /\ twice \in Memory(N, L) /\ twice[head] = self /\ twice[p] = self
            /\ gone \in Memory(N, L) /\ gone[head] = self
            /\ gone[p] = [next |-> LIST_POISON1, prev |-> LIST_POISON2]
            /\ \A x \in N : x # head /\ x # p => gone[x] = m[x]
            /\ list_del(gone, list_first(gone, head)) = Fault
<1> DEFINE twice == list_add_tail(m, p, head)
           gone == list_del(twice, p)
           self == [next |-> p, prev |-> p]
<1>1. head \in N /\ p \in N /\ p # head /\ m[head] = self
  BY AloneOnList
<1>2. /\ twice \in Memory(N, L) /\ twice[head] = self /\ twice[p] = self
      /\ \A x \in N : x # head /\ x # p => twice[x] = m[x]
  <2>1. N \subseteq L
    OBVIOUS
  <2>2. QED
    BY <1>1, <2>1, AddLoops
<1> HIDE DEF twice
<1>3. /\ gone \in Memory(N, L) /\ gone[p] = [next |-> LIST_POISON1, prev |-> LIST_POISON2]
      /\ \A x \in N : x # p => gone[x] = twice[x]
  BY <1>1, <1>2, DelLooped
<1> HIDE DEF gone
<1>4. gone[head] = self /\ \A x \in N : x # head /\ x # p => gone[x] = m[x]
  BY <1>1, <1>2, <1>3
<1>5. list_first(gone, head) = p
  BY <1>1, <1>3, <1>4 DEF list_first, Get, Memory
<1>6. list_del(gone, p) = Fault
  BY <1>1, <1>3, DelFaults
<1>7. QED
  BY <1>2, <1>3, <1>4, <1>5, <1>6, Zenon DEF gone, twice

-----------------------------------------------------------------------------
(* Several lists in one memory that share no node, as the pools and queues   *)
(* of a transmitter: each head h in H has the list ls[h].                    *)

Family(m, N, H, ls) ==
  /\ \A h \in H : Chain(N, h, ls[h]) /\ Holds(m, h, ls[h])
  /\ \A h, g \in H : \A x \in N : OnList(x, h, ls[h]) /\ OnList(x, g, ls[g]) => h = g
OnAny(x, H, ls) == \E h \in H : OnList(x, h, ls[h])

\* What a head leads to: the first node, or the head itself.
LEMMA FamilyFirst ==
  ASSUME NEW N, NEW L, NEW m \in Memory(N, L), NEW H, NEW ls, Family(m, N, H, ls), NEW h \in H
  PROVE  /\ h \in N /\ ls[h] \in Seq(N)
         /\ list_first(m, h) = IF ls[h] = <<>> THEN h ELSE Head(ls[h])
         /\ list_empty(m, h) <=> ls[h] = <<>>
<1> DEFINE s == ls[h]
<1>1. Chain(N, h, s) /\ Holds(m, h, s)
  BY DEF Family
<1> HIDE DEF s
<1>2. /\ h \in N /\ s \in Seq(N) /\ Len(s) \in Nat
      /\ m[h].next = IF Len(s) = 0 THEN h ELSE s[1]
  BY <1>1, ListNodes DEF Linked
<1>3. list_first(m, h) = m[h].next
  BY <1>2 DEF list_first, Get, Memory
<1>4. s # <<>> => Head(s) = s[1] /\ Len(s) # 0 /\ s[1] # h
  <2>1. ASSUME s # <<>> PROVE Head(s) = s[1] /\ Len(s) # 0 /\ 1 \in 1 .. Len(s)
    BY <1>2, <2>1
  <2>2. QED
    BY <1>1, <2>1 DEF Chain
<1>5. s = <<>> => Len(s) = 0
  OBVIOUS
<1>6. list_first(m, h) = IF s = <<>> THEN h ELSE Head(s)
  BY <1>2, <1>3, <1>4, <1>5
<1>7. list_empty(m, h) <=> s = <<>>
  BY <1>4, <1>6 DEF list_empty, list_first
<1>8. QED
  BY <1>2, <1>6, <1>7 DEF s

\* What is left without the first node, as Without says it.
LEMMA WithoutFirst ==
  ASSUME NEW T, NEW s \in Seq(T), s # <<>>
  PROVE  /\ Len(s) \in Nat /\ 1 \in 1 .. Len(s) /\ Head(s) = s[1] /\ Head(s) \in T
         /\ Tail(s) \in Seq(T) /\ Tail(s) = Without(s, 1)
<1>1. \A t \in Seq(T) : t = [i \in 1 .. Len(t) |-> t[i]]
  OBVIOUS
<1>2. /\ Len(s) \in Nat /\ 1 \in 1 .. Len(s) /\ Head(s) = s[1] /\ Head(s) \in T
      /\ Tail(s) \in Seq(T) /\ Len(Tail(s)) = Len(s) - 1
      /\ \A i \in 1 .. Len(Tail(s)) : Tail(s)[i] = s[i + 1]
  OBVIOUS
<1>3. PICK t \in Seq(T) : t = Tail(s)
  BY <1>2
<1>4. t = [i \in 1 .. Len(t) |-> t[i]]
  BY <1>1
<1>5. \A i \in 1 .. Len(s) - 1 : ~(i < 1)
  BY <1>2
<1>6. t = Without(s, 1)
  BY <1>2, <1>3, <1>4, <1>5 DEF Without
<1>7. QED
  BY <1>2, <1>3, <1>6

\* list_add_tail of a node that is on none of the lists.
LEMMA FamilyAdd ==
  ASSUME NEW N, NEW L, N \subseteq L, NEW m \in Memory(N, L), NEW H, NEW ls, Family(m, N, H, ls),
         NEW h \in H, NEW e \in N, ~OnAny(e, H, ls),
         NEW k, k[h] = Append(ls[h], e), \A g \in H : g # h => k[g] = ls[g]
  PROVE  LET r == list_add_tail(m, e, h)
         IN /\ r \in Memory(N, L) /\ Family(r, N, H, k)
            /\ \A x \in N : OnAny(x, H, k) <=> x = e \/ OnAny(x, H, ls)
            /\ \A x \in N : x # e /\ ~OnAny(x, H, ls) => r[x] = m[x]
<1> DEFINE r == list_add_tail(m, e, h)
           s == ls[h]
           t == Append(s, e)
<1>1. Chain(N, h, s) /\ Holds(m, h, s) /\ ~OnList(e, h, s)
  BY DEF Family, OnAny
<1>2. s \in Seq(N)
  BY <1>1 DEF Chain
<1>3. k[h] = t /\ \A g \in H : g # h => k[g] = ls[g]
  OBVIOUS
<1> HIDE DEF s, r
<1>4. /\ r \in Memory(N, L) /\ Chain(N, h, t) /\ Holds(r, h, t)
      /\ \A x \in N : ~OnList(x, h, t) => r[x] = m[x]
  BY <1>1, AddTail DEF r
<1>5. \A x : OnList(x, h, t) <=> x = e \/ OnList(x, h, s)
  <2>1. /\ Len(s) \in Nat /\ Len(t) = Len(s) + 1 /\ t[Len(s) + 1] = e
        /\ \A i \in 1 .. Len(s) : t[i] = s[i]
    BY <1>2
  <2>2. \A i \in 1 .. Len(s) + 1 : i \in 1 .. Len(s) \/ i = Len(s) + 1
    BY <2>1
  <2>3. Len(s) + 1 \in 1 .. Len(s) + 1 /\ \A i \in 1 .. Len(s) : i \in 1 .. Len(s) + 1
    BY <2>1
  <2> HIDE DEF t
  <2>4. QED
    BY <2>1, <2>2, <2>3 DEF OnList
<1> HIDE DEF t
<1>6. \A g \in H, x \in N : OnList(x, g, k[g]) <=> OnList(x, g, ls[g]) \/ (g = h /\ x = e)
  BY <1>3, <1>5 DEF s
<1>7. ASSUME NEW g \in H PROVE Chain(N, g, k[g]) /\ Holds(r, g, k[g])
  <2>1. CASE g = h
    BY <1>3, <1>4, <2>1
  <2>2. CASE g # h
    <3>1. k[g] = ls[g] /\ Chain(N, g, ls[g]) /\ Holds(m, g, ls[g])
      BY <1>3, <2>2 DEF Family
    <3>2. ASSUME NEW x \in N, OnList(x, g, ls[g]) PROVE r[x] = m[x]
      <4>1. ~OnList(x, h, s) /\ x # e
        BY <2>2, <3>2 DEF Family, OnAny, s
      <4>2. QED
        BY <1>4, <1>5, <4>1
    <3>3. Holds(r, g, ls[g])
      BY <3>1, <3>2, Elsewhere
    <3>4. QED
      BY <3>1, <3>3
  <2>3. QED
    BY <2>1, <2>2
<1>8. Family(r, N, H, k)
  <2>1. ASSUME NEW g \in H, NEW f \in H, NEW x \in N, OnList(x, g, k[g]), OnList(x, f, k[f])
        PROVE  g = f
    BY <1>6, <2>1 DEF Family, OnAny
  <2>2. QED
    BY <1>7, <2>1 DEF Family
<1>9. \A x \in N : OnAny(x, H, k) <=> x = e \/ OnAny(x, H, ls)
  BY <1>6 DEF OnAny
<1>10. \A x \in N : x # e /\ ~OnAny(x, H, ls) => r[x] = m[x]
  BY <1>4, <1>5 DEF OnAny, s
<1>11. QED
  BY <1>4, <1>8, <1>9, <1>10 DEF r

\* list_del of the first node of one of them.
LEMMA FamilyDel ==
  ASSUME NEW N, NEW L, N \cup {LIST_POISON1, LIST_POISON2} \subseteq L, NEW m \in Memory(N, L),
         NEW H, NEW ls, Family(m, N, H, ls), NEW h \in H, ls[h] # <<>>,
         NEW k, k[h] = Tail(ls[h]), \A g \in H : g # h => k[g] = ls[g]
  PROVE  LET e == Head(ls[h])
             r == list_del(m, e)
         IN /\ e \in N /\ OnList(e, h, ls[h]) /\ e # h
            /\ r \in Memory(N, L) /\ Family(r, N, H, k)
            /\ \A x \in N : OnAny(x, H, k) <=> x # e /\ OnAny(x, H, ls)
            /\ \A x \in N : ~OnAny(x, H, ls) => r[x] = m[x]
            /\ r[e] = [next |-> LIST_POISON1, prev |-> LIST_POISON2]
<1> DEFINE s == ls[h]
           e == Head(s)
           t == Tail(s)
           r == list_del(m, e)
<1>1. Chain(N, h, s) /\ Holds(m, h, s) /\ s \in Seq(N) /\ s # <<>>
  BY DEF Family, Chain
<1>2. k[h] = t /\ \A g \in H : g # h => k[g] = ls[g]
  OBVIOUS
<1> HIDE DEF s
<1>3. /\ Len(s) \in Nat /\ 1 \in 1 .. Len(s) /\ e = s[1] /\ e \in N
      /\ t = Without(s, 1)
  BY <1>1, WithoutFirst
<1> HIDE DEF t, e
<1>4. /\ r \in Memory(N, L) /\ Chain(N, h, t) /\ Holds(r, h, t)
      /\ r[e] = [next |-> LIST_POISON1, prev |-> LIST_POISON2]
      /\ \A x \in N : ~OnList(x, h, s) => r[x] = m[x]
  BY <1>1, <1>3, DelAt
<1>5. ~OnList(e, h, t) /\ \A x : OnList(x, h, s) <=> x = e \/ OnList(x, h, t)
  BY <1>1, <1>3, WithoutNodes
<1> HIDE DEF r
<1>6. \A g \in H, x \in N : OnList(x, g, k[g]) <=> OnList(x, g, ls[g]) /\ ~(g = h /\ x = e)
  BY <1>2, <1>5 DEF s
<1>7. ASSUME NEW g \in H PROVE Chain(N, g, k[g]) /\ Holds(r, g, k[g])
  <2>1. CASE g = h
    BY <1>2, <1>4, <2>1
  <2>2. CASE g # h
    <3>1. k[g] = ls[g] /\ Chain(N, g, ls[g]) /\ Holds(m, g, ls[g])
      BY <1>2, <2>2 DEF Family
    <3>2. ASSUME NEW x \in N, OnList(x, g, ls[g]) PROVE r[x] = m[x]
      <4>1. ~OnList(x, h, s)
        BY <2>2, <3>2 DEF Family, s
      <4>2. QED
        BY <1>4, <4>1
    <3>3. Holds(r, g, ls[g])
      BY <3>1, <3>2, Elsewhere
    <3>4. QED
      BY <3>1, <3>3
  <2>3. QED
    BY <2>1, <2>2
<1>8. Family(r, N, H, k)
  <2>1. ASSUME NEW g \in H, NEW f \in H, NEW x \in N, OnList(x, g, k[g]), OnList(x, f, k[f])
        PROVE  g = f
    BY <1>6, <2>1 DEF Family
  <2>2. QED
    BY <1>7, <2>1 DEF Family
<1>9. \A x \in N : OnAny(x, H, k) <=> x # e /\ OnAny(x, H, ls)
  <2>1. OnList(e, h, s)
    BY <1>5
  <2>2. \A g \in H : OnList(e, g, ls[g]) => g = h
    BY <1>3, <2>1 DEF Family, s
  <2>3. QED
    BY <1>6, <2>2 DEF OnAny
<1>10. \A x \in N : ~OnAny(x, H, ls) => r[x] = m[x]
  BY <1>4 DEF OnAny, s
<1>11. e # h
  BY <1>1, <1>3 DEF Chain
<1>12. QED
  BY <1>3, <1>4, <1>5, <1>8, <1>9, <1>10, <1>11 DEF r, s, e

\* list_move_tail of the first node of one list to another.
LEMMA FamilyMove ==
  ASSUME NEW N, NEW L, N \subseteq L, NEW m \in Memory(N, L), NEW H, NEW ls, Family(m, N, H, ls),
         NEW from \in H, NEW to \in H, from # to, ls[from] # <<>>,
         NEW k, k[from] = Tail(ls[from]), k[to] = Append(ls[to], Head(ls[from])),
         \A g \in H : g # from /\ g # to => k[g] = ls[g]
  PROVE  LET e == Head(ls[from])
             r == list_move_tail(m, e, to)
         IN /\ e \in N /\ r \in Memory(N, L) /\ Family(r, N, H, k)
            /\ \A x \in N : OnAny(x, H, k) <=> OnAny(x, H, ls)
            /\ \A x \in N : ~OnAny(x, H, ls) => r[x] = m[x]
<1> DEFINE s == ls[from]
           e == Head(s)
           w == Tail(s)
           t == ls[to]
           v == Append(t, e)
           r == list_move_tail(m, e, to)
<1>1. /\ Chain(N, from, s) /\ Holds(m, from, s) /\ s \in Seq(N) /\ s # <<>>
      /\ Chain(N, to, t) /\ Holds(m, to, t) /\ t \in Seq(N)
  BY DEF Family, Chain
<1>2. /\ Len(s) \in Nat /\ 1 \in 1 .. Len(s) /\ e = s[1] /\ e \in N
      /\ w \in Seq(N) /\ w = Without(s, 1)
  BY <1>1, WithoutFirst
<1> HIDE DEF s, w, e, t
<1>3. k[from] = w /\ k[to] = v /\ \A g \in H : g # from /\ g # to => k[g] = ls[g]
  BY DEF s, w, e, t
<1>4. \A x \in N : ~(OnList(x, from, s) /\ OnList(x, to, t))
  BY DEF Family, s, t
<1>5. /\ r \in Memory(N, L)
      /\ Chain(N, from, w) /\ Holds(r, from, w)
      /\ Chain(N, to, v) /\ Holds(r, to, v)
      /\ \A x \in N : ~OnList(x, from, s) /\ ~OnList(x, to, t) => r[x] = m[x]
  BY <1>1, <1>2, <1>4, MoveTail
<1>6. ~OnList(e, from, w) /\ \A x : OnList(x, from, s) <=> x = e \/ OnList(x, from, w)
  BY <1>1, <1>2, WithoutNodes
<1>7. \A x : OnList(x, to, v) <=> x = e \/ OnList(x, to, t)
  <2>1. /\ Len(t) \in Nat /\ Len(v) = Len(t) + 1 /\ v[Len(t) + 1] = e
        /\ \A i \in 1 .. Len(t) : v[i] = t[i]
    BY <1>1, <1>2
  <2>2. \A i \in 1 .. Len(t) + 1 : i \in 1 .. Len(t) \/ i = Len(t) + 1
    BY <2>1
  <2>3. Len(t) + 1 \in 1 .. Len(t) + 1 /\ \A i \in 1 .. Len(t) : i \in 1 .. Len(t) + 1
    BY <2>1
  <2> HIDE DEF v
  <2>4. QED
    BY <2>1, <2>2, <2>3 DEF OnList
<1> HIDE DEF v, r
<1>8. \A g \in H, x \in N : OnList(x, g, k[g]) <=>
        IF x = e THEN g = to ELSE OnList(x, g, ls[g])
  <2>1. OnList(e, from, s)
    BY <1>6
  <2>2. \A g \in H : OnList(e, g, ls[g]) => g = from
    BY <1>2, <2>1 DEF Family, s
  <2>3. QED
    BY <1>3, <1>6, <1>7, <2>2 DEF s, t
<1>9. ASSUME NEW g \in H PROVE Chain(N, g, k[g]) /\ Holds(r, g, k[g])
  <2>1. CASE g = from
    BY <1>3, <1>5, <2>1
  <2>2. CASE g = to
    BY <1>3, <1>5, <2>2
  <2>3. CASE g # from /\ g # to
    <3>1. k[g] = ls[g] /\ Chain(N, g, ls[g]) /\ Holds(m, g, ls[g])
      BY <1>3, <2>3 DEF Family
    <3>2. ASSUME NEW x \in N, OnList(x, g, ls[g]) PROVE r[x] = m[x]
      <4>1. ~OnList(x, from, s) /\ ~OnList(x, to, t)
        BY <2>3, <3>2 DEF Family, s, t
      <4>2. QED
        BY <1>5, <4>1
    <3>3. Holds(r, g, ls[g])
      BY <3>1, <3>2, Elsewhere
    <3>4. QED
      BY <3>1, <3>3
  <2>4. QED
    BY <2>1, <2>2, <2>3
<1>10. Family(r, N, H, k)
  <2>1. ASSUME NEW g \in H, NEW f \in H, NEW x \in N, OnList(x, g, k[g]), OnList(x, f, k[f])
        PROVE  g = f
    BY <1>8, <2>1 DEF Family
  <2>2. QED
    BY <1>9, <2>1 DEF Family
<1>11. \A x \in N : OnAny(x, H, k) <=> OnAny(x, H, ls)
  <2>1. OnAny(e, H, ls) /\ OnList(e, to, k[to])
    BY <1>2, <1>6, <1>8 DEF OnAny, s
  <2>2. QED
    BY <1>8, <2>1 DEF OnAny
<1>12. \A x \in N : ~OnAny(x, H, ls) => r[x] = m[x]
  BY <1>5 DEF OnAny, s, t
<1>13. QED
  BY <1>2, <1>5, <1>10, <1>11, <1>12 DEF r, s, e

-----------------------------------------------------------------------------
(* Arithmetic on whole seconds and the rest; elsewhere Million is a number   *)
(* of which only this is known.                                              *)

LEMMA MillionNat == Million \in Nat
BY SMTT(30) DEF Million

LEMMA MillionTimes ==
  \A s \in Nat : Million * s \in Nat /\ Million * (s + 1) = Million * s + Million
BY SMTT(30) DEF Million

LEMMA MillionAdds ==
  \A s, r \in Nat : Million * (s + r) = Million * s + Million * r
BY SMTT(30) DEF Million

LEMMA MillionOrders ==
  ASSUME NEW s \in Int, NEW r \in Int, NEW u \in Int, NEW v \in Int,
         0 <= u, u < Million, 0 <= v, v < Million
  PROVE  Million * s + u <= Million * r + v <=> IF s = r THEN u <= v ELSE s <= r
<1>1. CASE s = r
  BY <1>1, SMTT(30) DEF Million
<1>2. CASE s < r
  BY <1>2, SMTT(30) DEF Million
<1>3. CASE s > r
  BY <1>3, SMTT(30) DEF Million
<1>4. QED
  BY <1>1, <1>2, <1>3, SMTT(30)

LEMMA MillionIsThousands ==
  ASSUME NEW q \in Int, NEW r \in Int, 0 <= r, r < 1000
  PROVE  /\ 0 <= r * 1000 /\ r * 1000 < Million
         /\ Million * q + r * 1000 = 1000 * (1000 * q + r)
BY SMTT(30) DEF Million

LEMMA Fields ==
  ASSUME NEW t \in Timeval
  PROVE  t.sec \in Nat /\ t.usec \in 0 .. Million - 1 /\ Micros(t) \in Nat
<1>1. t.sec \in Nat /\ t.usec \in 0 .. Million - 1
  BY SMTT(30) DEF Timeval
<1>2. QED
  BY <1>1, MillionNat, MillionTimes, SMTT(30) DEF Micros

-----------------------------------------------------------------------------
\* The struct of an interval is well formed and stands for the interval: no
\* millisecond gets lost between the division and the remainder, also for
\* intervals of a second and more, which the TODO at env-core.c:229 doubts.
LEMMA IntervalMicros ==
  ASSUME NEW ms \in Nat
  PROVE  Interval(ms) \in Timeval /\ Micros(Interval(ms)) = 1000 * ms
<1>1. PICK q \in Nat : q = ms \div 1000
  <2>1. ms \div 1000 \in Nat
    BY SMTT(30)
  <2>2. QED
    BY <2>1
<1>2. PICK r \in 0 .. 999 : r = ms % 1000
  <2>1. ms % 1000 \in 0 .. 999
    BY SMTT(30)
  <2>2. QED
    BY <2>1
<1>3. ms = 1000 * q + r
  <2>1. ms = 1000 * (ms \div 1000) + (ms % 1000)
    BY SMTT(30)
  <2>2. QED
    BY <1>1, <1>2, <2>1
<1>4. r * 1000 \in 0 .. Million - 1 /\ Million * q + r * 1000 = 1000 * ms
  BY <1>3, MillionIsThousands, MillionNat, SMTT(30)
<1>5. Interval(ms) = [sec |-> q, usec |-> r * 1000]
  BY <1>1, <1>2 DEF Interval
<1>6. QED
  BY <1>4, <1>5 DEF Timeval, Micros

\* The carry is right, and one carry is enough.
LEMMA SumMicros ==
  ASSUME NEW a \in Timeval, NEW b \in Timeval
  PROVE  timeradd(a, b) \in Timeval /\ Micros(timeradd(a, b)) = Micros(a) + Micros(b)
<1>1. /\ a.sec \in Nat /\ a.usec \in 0 .. Million - 1
      /\ b.sec \in Nat /\ b.usec \in 0 .. Million - 1
  BY Fields
<1>2. PICK s \in Nat : s = a.sec + b.sec /\ Million * s = Million * a.sec + Million * b.sec
  <2>1. a.sec + b.sec \in Nat
    BY <1>1, SMTT(30)
  <2>2. QED
    BY <1>1, <2>1, MillionAdds
<1>3. Million * a.sec \in Nat /\ Million * b.sec \in Nat /\ Million * (s + 1) = Million * s + Million
  BY <1>1, <1>2, MillionTimes, SMTT(30)
<1>4. CASE a.usec + b.usec >= Million
  <2>1. timeradd(a, b) = [sec |-> a.sec + b.sec + 1, usec |-> (a.usec + b.usec) - Million]
    BY <1>4 DEF timeradd
  <2>2. s + 1 \in Nat /\ (a.usec + b.usec) - Million \in 0 .. Million - 1
    BY <1>1, <1>2, <1>4, MillionNat, SMTT(30)
  <2>3. Million * (s + 1) + ((a.usec + b.usec) - Million)
          = (Million * a.sec + a.usec) + (Million * b.sec + b.usec)
    BY <1>1, <1>2, <1>3, MillionNat, SMTT(30)
  <2>4. QED
    BY <1>2, <2>1, <2>2, <2>3 DEF Timeval, Micros
<1>5. CASE ~(a.usec + b.usec >= Million)
  <2>1. timeradd(a, b) = [sec |-> s, usec |-> a.usec + b.usec]
    BY <1>2, <1>5 DEF timeradd
  <2>2. a.usec + b.usec \in 0 .. Million - 1
    BY <1>1, <1>5, MillionNat, SMTT(30)
  <2>3. Million * s + (a.usec + b.usec)
          = (Million * a.sec + a.usec) + (Million * b.sec + b.usec)
    BY <1>1, <1>2, <1>3, MillionNat, SMTT(30)
  <2>4. QED
    BY <1>2, <2>1, <2>2, <2>3 DEF Timeval, Micros
<1>6. QED
  BY <1>4, <1>5

LEMMA ComparesMicros ==
  ASSUME NEW a \in Timeval, NEW b \in Timeval
  PROVE  timercmpLE(a, b) <=> Micros(a) <= Micros(b)
<1>1. /\ a.sec \in Nat /\ a.usec \in 0 .. Million - 1
      /\ b.sec \in Nat /\ b.usec \in 0 .. Million - 1
  BY Fields
<1>2. Million * a.sec + a.usec <= Million * b.sec + b.usec
        <=> IF a.sec = b.sec THEN a.usec <= b.usec ELSE a.sec <= b.sec
  BY <1>1, MillionOrders, MillionNat, SMTT(30)
<1>3. QED
  BY <1>2 DEF timercmpLE, Micros

\* tt_timer_is_timeouted and the due test of the worker say yes exactly when
\* the clock has gone on by the interval, to the microsecond, whatever the
\* carries between seconds and microseconds.
THEOREM OverIsElapsed ==
  ASSUME NEW start \in Timeval, NEW ms \in Nat, NEW now \in Timeval
  PROVE  Over(start, ms, now) <=> Micros(now) - Micros(start) >= 1000 * ms
<1>1. Interval(ms) \in Timeval /\ Micros(Interval(ms)) = 1000 * ms
  BY IntervalMicros
<1>2. /\ timeradd(start, Interval(ms)) \in Timeval
      /\ Micros(timeradd(start, Interval(ms))) = Micros(start) + 1000 * ms
  BY <1>1, SumMicros
<1>3. Over(start, ms, now) <=> Micros(start) + 1000 * ms <= Micros(now)
  BY <1>2, ComparesMicros DEF Over
<1>4. Micros(start) \in Nat /\ Micros(now) \in Nat
  BY Fields
<1>5. QED
  BY <1>3, <1>4, SMTT(30)
===============================================================================
