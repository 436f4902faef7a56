--------------------------- MODULE ChecksumProofs ---------------------------
(* Proofs about Checksum and PackBreak, for packets of any length and      *)
(* contents.                                                               *)
EXTENDS Checksum, FiniteSetTheorems, WellFoundedInduction, TLAPS

-----------------------------------------------------------------------------
(* Shifts and ^ are linear. *)

LEMMA XorIn == \A a, b, e : e \in Xor(a, b) <=> ~(e \in a <=> e \in b)
BY DEF Xor

LEMMA XorSwap == \A a, b, c, d : Xor(Xor(a, b), Xor(c, d)) = Xor(Xor(a, c), Xor(b, d))
BY DEF Xor

LEMMA XorSelf == \A a : Xor(a, a) = {}
BY DEF Xor

LEMMA ShrXor == \A a, b, n : Shr(Xor(a, b), n) = Xor(Shr(a, n), Shr(b, n))
BY DEF Xor, Shr

LEMMA ShlXor == \A a, b, n : Shl(Xor(a, b), n) = Xor(Shl(a, n), Shl(b, n))
BY DEF Xor, Shl

LEMMA WordOps ==
  ASSUME NEW a, NEW b, NEW n, a \subseteq 0 .. 15, b \subseteq 0 .. 15
  PROVE  Xor(a, b) \subseteq 0 .. 15 /\ Shr(a, n) \subseteq 0 .. 15 /\ Shl(a, n) \subseteq 0 .. 15
BY DEF Xor, Shr, Shl

\* The loop of stk_crc16 is linear in its state and the byte together.
LEMMA StepLinear ==
  ASSUME NEW c, NEW d, NEW p, NEW q
  PROVE  Crc16Step(Xor(c, d), Xor(p, q)) = Xor(Crc16Step(c, p), Crc16Step(d, q))
<1> DEFINE y(s, byte) == Xor(Shr(s, 8), byte)
           x(s, byte) == Xor(y(s, byte), Shr(y(s, byte), 4))
           out(s, w) == Xor(Xor(Shl(s, 8), Shl(w, 12)), Xor(Shl(w, 5), w))
<1>1. y(Xor(c, d), Xor(p, q)) = Xor(y(c, p), y(d, q))
  BY ShrXor, XorSwap
<1>2. \A v, w : Xor(Xor(v, w), Shr(Xor(v, w), 4)) = Xor(Xor(v, Shr(v, 4)), Xor(w, Shr(w, 4)))
  BY ShrXor, XorSwap
<1>3. x(Xor(c, d), Xor(p, q)) = Xor(x(c, p), x(d, q))
  BY <1>1, <1>2
<1>4. \A v, w : out(Xor(c, d), Xor(v, w)) = Xor(out(c, v), out(d, w))
  BY ShlXor, XorSwap
<1>5. \A s, byte : Crc16Step(s, byte) = out(s, x(s, byte))
  BY DEF Crc16Step
<1>6. QED
  BY <1>3, <1>4, <1>5

-----------------------------------------------------------------------------
(* Parity: whether a set of bits has an even number of them. *)

Even4(a, n) == (n \in a <=> n + 1 \in a) <=> (n + 2 \in a <=> n + 3 \in a)
EvenByte(a) == Even4(a, 0) <=> Even4(a, 4)
EvenWord(a) == EvenByte(a) <=> (Even4(a, 8) <=> Even4(a, 12))

LEMMA Even4Xor == \A a, b, n : Even4(Xor(a, b), n) <=> (Even4(a, n) <=> Even4(b, n))
BY DEF Xor, Even4

LEMMA EvenWordXor == \A a, b : EvenWord(Xor(a, b)) <=> (EvenWord(a) <=> EvenWord(b))
BY Even4Xor DEF EvenWord, EvenByte

LEMMA Even4Shr4 ==
  ASSUME NEW a
  PROVE  (Even4(Shr(a, 4), 0) <=> Even4(a, 4)) /\ (a \subseteq 0 .. 7 => Even4(Shr(a, 4), 4))
BY DEF Even4, Shr

LEMMA Even4Shr8 ==
  ASSUME NEW a
  PROVE  (Even4(Shr(a, 8), 0) <=> Even4(a, 8)) /\ (Even4(Shr(a, 8), 4) <=> Even4(a, 12))
BY DEF Even4, Shr

LEMMA EvenShl8 ==
  ASSUME NEW a, a \subseteq 0 .. 15
  PROVE  EvenWord(Shl(a, 8)) <=> EvenByte(a)
<1> DEFINE b == Shl(a, 8)
<1>1. Even4(b, 0) /\ Even4(b, 4)
  BY DEF Even4, Shl
<1>2. Even4(b, 8) <=> Even4(a, 0)
  BY DEF Even4, Shl
<1>3. Even4(b, 12) <=> Even4(a, 4)
  BY DEF Even4, Shl
<1>4. QED
  BY <1>1, <1>2, <1>3 DEF EvenWord, EvenByte

LEMMA EvenShl12 ==
  ASSUME NEW a, a \subseteq 0 .. 15
  PROVE  EvenWord(Shl(a, 12)) <=> Even4(a, 0)
BY DEF EvenWord, EvenByte, Even4, Shl

LEMMA EvenShl5 == \A a : a \subseteq 0 .. 7 => (EvenWord(Shl(a, 5)) <=> EvenByte(a))
BY DEF EvenWord, EvenByte, Even4, Shl

LEMMA EvenOfByte == \A a : a \subseteq 0 .. 7 => (EvenWord(a) <=> EvenByte(a))
BY DEF EvenWord, EvenByte, Even4

\* A turn of the loop adds the parity of the byte to that of its state.
LEMMA StepParity ==
  ASSUME NEW c, NEW byte, c \subseteq 0 .. 15, byte \subseteq 0 .. 7
  PROVE  EvenWord(Crc16Step(c, byte)) <=> (EvenWord(c) <=> EvenByte(byte))
<1> DEFINE y == Xor(Shr(c, 8), byte)
           x == Xor(y, Shr(y, 4))
<1>0. Shr(c, 8) \subseteq 0 .. 7
  BY DEF Shr
<1>1. y \subseteq 0 .. 7
  BY <1>0 DEF Xor
<1>2. x \subseteq 0 .. 7
  BY <1>1 DEF Xor, Shr
<1>3. Even4(y, 0) <=> (Even4(c, 8) <=> Even4(byte, 0))
  BY Even4Xor, Even4Shr8
<1>4. Even4(y, 4) <=> (Even4(c, 12) <=> Even4(byte, 4))
  BY Even4Xor, Even4Shr8
<1>5. Even4(x, 0) <=> (Even4(y, 0) <=> Even4(y, 4))
  BY Even4Xor, Even4Shr4
<1>6. EvenWord(Crc16Step(c, byte)) <=>
        ((EvenWord(Shl(c, 8)) <=> EvenWord(Shl(x, 12))) <=> (EvenWord(Shl(x, 5)) <=> EvenWord(x)))
  BY EvenWordXor DEF Crc16Step
<1> HIDE DEF x, y
<1>7. EvenWord(Crc16Step(c, byte)) <=> (EvenByte(c) <=> Even4(x, 0))
  <2>1. EvenWord(Shl(c, 8)) <=> EvenByte(c)
    BY EvenShl8
  <2>2. EvenWord(Shl(x, 12)) <=> Even4(x, 0)
    <3>1. x \subseteq 0 .. 15
      BY <1>2
    <3>2. QED
      BY <3>1, EvenShl12
  <2>3. EvenWord(Shl(x, 5)) <=> EvenWord(x)
    BY <1>2, EvenShl5, EvenOfByte
  <2>4. QED
    BY <1>6, <2>1, <2>2, <2>3
<1>8. QED
  BY <1>3, <1>4, <1>5, <1>7 DEF EvenWord, EvenByte

-----------------------------------------------------------------------------
(* Counting flips by parity. *)

EvenBelow(m) == Cardinality(flipped \cap 0 .. m - 1) % 2 = 0

LEMMA OneMoreBit ==
  ASSUME NEW m \in Nat
  PROVE  EvenBelow(m + 1) <=> (EvenBelow(m) <=> m \notin flipped)
<1> DEFINE low == flipped \cap 0 .. m - 1
           more == flipped \cap 0 .. (m + 1) - 1
<1>1. IsFiniteSet(low) /\ Cardinality(low) \in Nat
  <2>1. IsFiniteSet(0 .. m - 1)
    BY FS_Interval
  <2>2. low \in SUBSET (0 .. m - 1)
    OBVIOUS
  <2>3. IsFiniteSet(low)
    BY <2>1, <2>2, FS_Subset
  <2>4. QED
    BY <2>3, FS_CardinalityType
<1>2. CASE m \in flipped
  <2>1. more = low \cup {m} /\ m \notin low
    BY <1>2
  <2>2. Cardinality(low \cup {m}) = Cardinality(low) + 1
    BY <1>1, <2>1, FS_AddElement
  <2> HIDE DEF low, more
  <2>3. Cardinality(more) % 2 = 0 <=> ~(Cardinality(low) % 2 = 0)
    BY <1>1, <2>1, <2>2
  <2>4. QED
    BY <1>2, <2>3 DEF EvenBelow, low, more
<1>3. CASE m \notin flipped
  <2>1. more = low
    BY <1>3
  <2>2. QED
    BY <1>3, <2>1 DEF EvenBelow
<1>4. QED
  BY <1>2, <1>3

LEMMA OneMoreByte ==
  ASSUME NEW n \in Nat
  PROVE  EvenBelow(8 * (n + 1)) <=> (EvenBelow(8 * n) <=> EvenByte(FlipsIn(n)))
<1> DEFINE m == 8 * n
           bit(b) == m + b \in flipped
<1>1. \A b \in 0 .. 7 : EvenBelow((m + b) + 1) <=> (EvenBelow(m + b) <=> ~bit(b))
  BY OneMoreBit
<1>2. \A b \in 0 .. 7 : (m + b) + 1 = m + (b + 1)
  OBVIOUS
<1> DEFINE even(b) == EvenBelow(m + b)
<1>3. \A b \in 0 .. 7 : even(b + 1) <=> (even(b) <=> ~bit(b))
  BY <1>1, <1>2
<1>4. /\ even(0) <=> EvenBelow(8 * n)
      /\ even(8) <=> EvenBelow(8 * (n + 1))
  <2>1. m + 0 = 8 * n /\ m + 8 = 8 * (n + 1)
    OBVIOUS
  <2>2. QED
    BY <2>1
<1>5. \A b \in 0 .. 7 : b \in FlipsIn(n) <=> bit(b)
  BY DEF FlipsIn
<1> HIDE DEF even, bit, m
<1>6. even(4) <=> (even(0) <=> Even4(FlipsIn(n), 0))
  <2>1. /\ even(1) <=> (even(0) <=> 0 \notin FlipsIn(n))
        /\ even(2) <=> (even(1) <=> 1 \notin FlipsIn(n))
        /\ even(3) <=> (even(2) <=> 2 \notin FlipsIn(n))
        /\ even(4) <=> (even(3) <=> 3 \notin FlipsIn(n))
    BY <1>3, <1>5
  <2>2. QED
    BY <2>1 DEF Even4
<1>7. even(8) <=> (even(4) <=> Even4(FlipsIn(n), 4))
  <2>1. /\ even(5) <=> (even(4) <=> 4 \notin FlipsIn(n))
        /\ even(6) <=> (even(5) <=> 5 \notin FlipsIn(n))
        /\ even(7) <=> (even(6) <=> 6 \notin FlipsIn(n))
        /\ even(8) <=> (even(7) <=> 7 \notin FlipsIn(n))
    BY <1>3, <1>5
  <2>2. QED
    BY <2>1 DEF Even4
<1>8. QED
  BY <1>4, <1>6, <1>7 DEF EvenByte

-----------------------------------------------------------------------------
(* The invariant: the two loops differ by a word that depends on the flips   *)
(* alone, and whose parity is that of the flips so far.                      *)

Difference == Xor(sent, received)

SumInv ==
  /\ message \in Messages
  /\ k \in 0 .. MessageLen
  /\ sent \subseteq 0 .. 15 /\ received \subseteq 0 .. 15
  /\ pc # "done" => k = 0
  /\ k = 0 => sent = received
  /\ EvenWord(Difference) <=> EvenBelow(8 * k)

LEMMA EvenNothing == EvenWord({}) /\ EvenBelow(8 * 0)
<1>1. EvenWord({})
  BY DEF EvenWord, EvenByte, Even4
<1>2. flipped \cap 0 .. 8 * 0 - 1 = {}
  OBVIOUS
<1>3. QED
  BY <1>1, <1>2, FS_EmptySet DEF EvenBelow

LEMMA DifferenceStep ==
  ASSUME SumInv, SumByte
  PROVE  Difference' = Crc16Step(Difference, FlipsIn(k))
<1>1. Difference' = Xor(Crc16Step(sent, message[k]), Crc16Step(received, Xor(message[k], FlipsIn(k))))
  BY DEF SumByte, Difference
<1>2. Xor(message[k], Xor(message[k], FlipsIn(k))) = FlipsIn(k)
  BY DEF Xor
<1>3. QED
  BY <1>1, <1>2, StepLinear DEF Difference

LEMMA StepType ==
  ASSUME NEW c, NEW byte, byte \subseteq 0 .. 7
  PROVE  Crc16Step(c, byte) \subseteq 0 .. 15
<1> DEFINE y == Xor(Shr(c, 8), byte)
           x == Xor(y, Shr(y, 4))
<1>1. Shr(c, 8) \subseteq 0 .. 15 /\ byte \subseteq 0 .. 15
  BY DEF Shr
<1>2. y \subseteq 0 .. 15
  BY <1>1 DEF Xor
<1>3. Crc16Step(c, byte) = Xor(Xor(Shl(c, 8), Shl(x, 12)), Xor(Shl(x, 5), x))
  BY DEF Crc16Step
<1>4. Shr(y, 4) \subseteq 0 .. 15
  BY DEF Shr
<1>5. x \subseteq 0 .. 15
  <2> HIDE DEF y
  <2>1. QED
    BY <1>2, <1>4 DEF Xor
<1> HIDE DEF x
<1>6. QED
  BY <1>3, <1>5 DEF Xor, Shl

LEMMA SumInvInit == SumInit => SumInv
<1> SUFFICES ASSUME SumInit PROVE SumInv
  OBVIOUS
<1>1. k = 0 /\ sent = received /\ sent = 0 .. 15 /\ message \in Messages /\ MessageLen \in Nat
  BY ChecksumAssumption DEF SumInit, MessageLen
<1>2. EvenWord(Difference) <=> EvenBelow(8 * k)
  BY <1>1, XorSelf, EvenNothing DEF Difference
<1>3. QED
  BY <1>1, <1>2 DEF SumInv

LEMMA SumInvStep == SumInv /\ [SumNext]_<<vars, sumVars>> => SumInv'
<1> SUFFICES ASSUME SumInv, [SumNext]_<<vars, sumVars>> PROVE SumInv'
  OBVIOUS
<1> USE ChecksumAssumption DEF MessageLen
<1>1. ASSUME k' = 0, sent' = received', message' \in Messages,
             sent' \subseteq 0 .. 15, received' \subseteq 0 .. 15
      PROVE  SumInv'
  <2>1. Difference' = {}
    BY <1>1, XorSelf DEF Difference
  <2>2. (flipped' \cap 0 .. 8 * 0 - 1) = {}
    OBVIOUS
  <2>3. EvenBelow(8 * k)'
    BY <1>1, <2>2, FS_EmptySet DEF EvenBelow
  <2>4. EvenWord(Difference)'
    BY <2>1, EvenNothing
  <2>5. QED
    BY <1>1, <2>3, <2>4 DEF SumInv
<1>2. CASE Break /\ UNCHANGED sumVars
  <2>1. k = 0
    BY <1>2 DEF Break, Spare, Stop, Again, First, Redraw, SumInv
  <2>2. QED
    BY <1>1, <1>2, <2>1 DEF sumVars, SumInv
<1>3. CASE SumByte
  <2>1. /\ k \in Nat /\ k' = k + 1 /\ k' \in 0 .. MessageLen /\ k' # 0
        /\ message' = message /\ pc' = "done" /\ flipped' = flipped
    BY <1>3 DEF SumByte, SumInv, vars
  <2>2. message[k] \subseteq 0 .. 7
    BY <1>3 DEF SumByte, SumInv, Byte
  <2>3. FlipsIn(k) \subseteq 0 .. 7
    BY DEF FlipsIn
  <2>4. Xor(message[k], FlipsIn(k)) \subseteq 0 .. 7
    BY <2>2, <2>3 DEF Xor
  <2>5. sent' \subseteq 0 .. 15 /\ received' \subseteq 0 .. 15
    BY <1>3, <2>2, <2>4, StepType DEF SumByte
  <2>6. Difference \subseteq 0 .. 15
    BY DEF SumInv, Difference, Xor
  <2>7. EvenWord(Difference') <=> (EvenWord(Difference) <=> EvenByte(FlipsIn(k)))
    BY <1>3, <2>3, <2>6, DifferenceStep, StepParity
  <2>8. EvenWord(Difference') <=> EvenBelow(8 * (k + 1))
    BY <2>1, <2>7, OneMoreByte DEF SumInv
  <2>9. (EvenWord(Difference) <=> EvenBelow(8 * k))'
    BY <2>1, <2>8 DEF EvenBelow
  <2>10. QED
    BY <2>1, <2>5, <2>9 DEF SumInv
<1>4. CASE Reload /\ Build
  BY <1>1, <1>4 DEF Build
<1>5. CASE UNCHANGED <<vars, sumVars>>
  BY <1>5 DEF SumInv, vars, sumVars, Difference, EvenBelow
<1>6. QED
  BY <1>2, <1>3, <1>4, <1>5 DEF SumNext

THEOREM SumInvariance == SumSpec => []SumInv
BY SumInvInit, SumInvStep, PTL DEF SumSpec

\* What the receiver's loop ends with differs from what the sender's ended with
\* by a word that grows from the flips alone, whatever the packet says: the
\* test of a packet is a test of its flips.
THEOREM ContentsDoNotMatter ==
  SumSpec => [][SumByte => Difference' = Crc16Step(Difference, FlipsIn(k))]_<<vars, sumVars>>
<1>1. SumInv /\ [SumNext]_<<vars, sumVars>>
        => [SumByte => Difference' = Crc16Step(Difference, FlipsIn(k))]_<<vars, sumVars>>
  BY DifferenceStep
<1>2. QED
  BY <1>1, SumInvariance, PTL DEF SumSpec

\* Passing the test means that the flips in the checksum's own bytes are that word.
LEMMA TestIsOfDifference ==
  TestPack <=> /\ FlipsIn(PackLen - 2) = Lo(Difference)
               /\ FlipsIn(PackLen - 1) = Hi(Difference)
BY DEF TestPack, Lo, Hi, Difference, Xor, Shr

LEMMA OddNotPassed == SumInv => OddNoticed
<1> SUFFICES ASSUME SumInv, Tested, TestPack PROVE ~(Cardinality(InPack) % 2 = 1)
  BY DEF OddNoticed
<1> DEFINE d == Difference
           n == PackLen - 2
<1>1. n \in Nat /\ k = n /\ Bits = 8 * ((n + 1) + 1) /\ n + 1 = PackLen - 1
  BY ChecksumAssumption DEF Tested, MessageLen
<1>2. d \subseteq 0 .. 15
  BY DEF SumInv, Difference, Xor
<1>3. FlipsIn(n) = Lo(d) /\ FlipsIn(n + 1) = Hi(d)
  BY <1>1, TestIsOfDifference
<1>4. EvenByte(Lo(d)) <=> (Even4(d, 8) <=> Even4(d, 12))
  BY Even4Shr8 DEF Lo, EvenByte
<1>5. EvenByte(Hi(d)) <=> EvenByte(d)
  BY DEF Hi, EvenByte, Even4
<1>6. EvenWord(d) <=> EvenBelow(8 * n)
  BY <1>1 DEF SumInv
<1>7. EvenBelow(8 * (n + 1)) <=> (EvenBelow(8 * n) <=> EvenByte(FlipsIn(n)))
  BY <1>1, OneMoreByte
<1>8. EvenBelow(8 * ((n + 1) + 1)) <=> (EvenBelow(8 * (n + 1)) <=> EvenByte(FlipsIn(n + 1)))
  BY <1>1, OneMoreByte
<1>9. EvenBelow(Bits)
  BY <1>1, <1>3, <1>4, <1>5, <1>6, <1>7, <1>8 DEF EvenWord
<1>10. QED
  BY <1>9 DEF EvenBelow, InPack

\* No packet with an odd number of flipped bits passes the test, however long
\* it is, whatever it says and wherever the flips are.
THEOREM OddFlipsNoticed == SumSpec => []OddNoticed
BY OddNotPassed, SumInvariance, PTL

-----------------------------------------------------------------------------
(* The byte-wise loop divides by the polynomial. *)

\* d is c shifted by one bit, with the polynomial added if t.
Divided(d, c, t) ==
  /\ (0 \in d <=> t) /\ (1 \in d <=> 0 \in c) /\ (2 \in d <=> 1 \in c) /\ (3 \in d <=> 2 \in c)
  /\ (4 \in d <=> 3 \in c) /\ (5 \in d <=> ~(4 \in c <=> t)) /\ (6 \in d <=> 5 \in c) /\ (7 \in d <=> 6 \in c)
  /\ (8 \in d <=> 7 \in c) /\ (9 \in d <=> 8 \in c) /\ (10 \in d <=> 9 \in c) /\ (11 \in d <=> 10 \in c)
  /\ (12 \in d <=> ~(11 \in c <=> t)) /\ (13 \in d <=> 12 \in c) /\ (14 \in d <=> 13 \in c) /\ (15 \in d <=> 14 \in c)

LEMMA BitStepDivides ==
  \A c, byte, n : c \subseteq 0 .. 15 =>
    /\ BitStep(c, n \in byte) \subseteq 0 .. 15
    /\ Divided(BitStep(c, n \in byte), c, ~(15 \in c <=> n \in byte))
<1> SUFFICES ASSUME NEW c, NEW byte, NEW n, c \subseteq 0 .. 15
             PROVE  /\ BitStep(c, n \in byte) \subseteq 0 .. 15
                    /\ Divided(BitStep(c, n \in byte), c, ~(15 \in c <=> n \in byte))
  OBVIOUS
<1> DEFINE p == IF (15 \in c) # (n \in byte) THEN {0, 5, 12} ELSE {}
           s == Shl(c, 1)
           d == BitStep(c, n \in byte)
<1>1. p \subseteq 0 .. 15 /\ s \subseteq 0 .. 15
  BY DEF Shl
<1>2. d = Xor(s, p)
  BY DEF BitStep
<1>3. /\ ~(0 \in s) /\ (1 \in s <=> 0 \in c) /\ (2 \in s <=> 1 \in c) /\ (3 \in s <=> 2 \in c)
      /\ (4 \in s <=> 3 \in c) /\ (5 \in s <=> 4 \in c) /\ (6 \in s <=> 5 \in c)
      /\ (7 \in s <=> 6 \in c) /\ (8 \in s <=> 7 \in c) /\ (9 \in s <=> 8 \in c)
      /\ (10 \in s <=> 9 \in c) /\ (11 \in s <=> 10 \in c) /\ (12 \in s <=> 11 \in c)
      /\ (13 \in s <=> 12 \in c) /\ (14 \in s <=> 13 \in c) /\ (15 \in s <=> 14 \in c)
  BY DEF Shl
<1>4. \A j \in 0 .. 15 : j \in p <=> j \in {0, 5, 12} /\ ~(15 \in c <=> n \in byte)
  OBVIOUS
<1>5. \A j : j \in d <=> ~(j \in s <=> j \in p)
  BY <1>2, XorIn
<1>6. d \subseteq 0 .. 15
  BY <1>1, <1>2 DEF Xor
<1> HIDE DEF p, s, d
<1>7. Divided(d, c, ~(15 \in c <=> n \in byte))
  BY <1>3, <1>4, <1>5 DEF Divided
<1>8. QED
  BY <1>6, <1>7 DEF d

LEMMA StepDivides ==
  ASSUME NEW c, c \subseteq 0 .. 15, NEW byte, byte \subseteq 0 .. 7
  PROVE  Crc16Step(c, byte) = Division(c, byte)
<1> DEFINE y == Xor(Shr(c, 8), byte)
           x == Xor(y, Shr(y, 4))
           d == Crc16Step(c, byte)
           c1 == BitStep(c, 7 \in byte)
           c2 == BitStep(c1, 6 \in byte)
           c3 == BitStep(c2, 5 \in byte)
           c4 == BitStep(c3, 4 \in byte)
           c5 == BitStep(c4, 3 \in byte)
           c6 == BitStep(c5, 2 \in byte)
           c7 == BitStep(c6, 1 \in byte)
           c8 == BitStep(c7, 0 \in byte)
<1>1. Shr(c, 8) \subseteq 0 .. 7 /\ \A j \in 0 .. 7 : j \in Shr(c, 8) <=> j + 8 \in c
  BY DEF Shr
<1>2. y \subseteq 0 .. 7
  BY <1>1 DEF Xor
<1>3. /\ (0 \in y <=> ~(8 \in c <=> 0 \in byte)) /\ (1 \in y <=> ~(9 \in c <=> 1 \in byte))
      /\ (2 \in y <=> ~(10 \in c <=> 2 \in byte)) /\ (3 \in y <=> ~(11 \in c <=> 3 \in byte))
      /\ (4 \in y <=> ~(12 \in c <=> 4 \in byte)) /\ (5 \in y <=> ~(13 \in c <=> 5 \in byte))
      /\ (6 \in y <=> ~(14 \in c <=> 6 \in byte)) /\ (7 \in y <=> ~(15 \in c <=> 7 \in byte))
  BY <1>1, XorIn
<1>4. Shr(y, 4) \subseteq 0 .. 3 /\ \A j \in 0 .. 3 : j \in Shr(y, 4) <=> j + 4 \in y
  <2> HIDE DEF y
  <2>1. QED
    BY <1>2 DEF Shr
<1>5. x \subseteq 0 .. 7
  <2> HIDE DEF y
  <2>1. Shr(y, 4) \subseteq 0 .. 7
    BY <1>4
  <2>2. QED
    BY <1>2, <2>1 DEF Xor
<1>6. /\ (0 \in x <=> ~(0 \in y <=> 4 \in y)) /\ (1 \in x <=> ~(1 \in y <=> 5 \in y))
      /\ (2 \in x <=> ~(2 \in y <=> 6 \in y)) /\ (3 \in x <=> ~(3 \in y <=> 7 \in y))
      /\ (4 \in x <=> 4 \in y) /\ (5 \in x <=> 5 \in y) /\ (6 \in x <=> 6 \in y)
      /\ (7 \in x <=> 7 \in y)
  <2> HIDE DEF y
  <2>1. QED
    BY <1>4, XorIn
<1>7. d = Xor(Xor(Shl(c, 8), Shl(x, 12)), Xor(Shl(x, 5), x))
  BY DEF Crc16Step
<1>8. d \subseteq 0 .. 15
  BY StepType
<1> HIDE DEF x, y
<1>9. \A j : j \in d <=> ~(~(j \in Shl(c, 8) <=> j \in Shl(x, 12)) <=> ~(j \in Shl(x, 5) <=> j \in x))
  BY <1>7, XorIn
<1>10. \A j \in 0 .. 15 : /\ j \in Shl(c, 8) <=> j - 8 \in c
                          /\ j \in Shl(x, 12) <=> j - 12 \in x
                          /\ j \in Shl(x, 5) <=> j - 5 \in x
  BY DEF Shl
<1> HIDE DEF d
<1>11. /\ (0 \in d <=> 0 \in x) /\ (1 \in d <=> 1 \in x) /\ (2 \in d <=> 2 \in x)
       /\ (3 \in d <=> 3 \in x) /\ (4 \in d <=> 4 \in x) /\ (5 \in d <=> ~(0 \in x <=> 5 \in x))
       /\ (6 \in d <=> ~(1 \in x <=> 6 \in x)) /\ (7 \in d <=> ~(2 \in x <=> 7 \in x))
       /\ (8 \in d <=> ~(0 \in c <=> 3 \in x)) /\ (9 \in d <=> ~(1 \in c <=> 4 \in x))
       /\ (10 \in d <=> ~(2 \in c <=> 5 \in x)) /\ (11 \in d <=> ~(3 \in c <=> 6 \in x))
       /\ (12 \in d <=> ~(~(4 \in c <=> 0 \in x) <=> 7 \in x))
       /\ (13 \in d <=> ~(5 \in c <=> 1 \in x)) /\ (14 \in d <=> ~(6 \in c <=> 2 \in x))
       /\ (15 \in d <=> ~(7 \in c <=> 3 \in x))
  BY <1>5, <1>9, <1>10
<1>12. c1 \subseteq 0 .. 15 /\ Divided(c1, c, ~(15 \in c <=> 7 \in byte))
  BY BitStepDivides
<1>13. c2 \subseteq 0 .. 15 /\ Divided(c2, c1, ~(15 \in c1 <=> 6 \in byte))
  <2> HIDE DEF c1
  <2>1. QED
    BY <1>12, BitStepDivides
<1>14. c3 \subseteq 0 .. 15 /\ Divided(c3, c2, ~(15 \in c2 <=> 5 \in byte))
  <2> HIDE DEF c2
  <2>1. QED
    BY <1>13, BitStepDivides
<1>15. c4 \subseteq 0 .. 15 /\ Divided(c4, c3, ~(15 \in c3 <=> 4 \in byte))
  <2> HIDE DEF c3
  <2>1. QED
    BY <1>14, BitStepDivides
<1>16. c5 \subseteq 0 .. 15 /\ Divided(c5, c4, ~(15 \in c4 <=> 3 \in byte))
  <2> HIDE DEF c4
  <2>1. QED
    BY <1>15, BitStepDivides
<1>17. c6 \subseteq 0 .. 15 /\ Divided(c6, c5, ~(15 \in c5 <=> 2 \in byte))
  <2> HIDE DEF c5
  <2>1. QED
    BY <1>16, BitStepDivides
<1>18. c7 \subseteq 0 .. 15 /\ Divided(c7, c6, ~(15 \in c6 <=> 1 \in byte))
  <2> HIDE DEF c6
  <2>1. QED
    BY <1>17, BitStepDivides
<1>19. c8 \subseteq 0 .. 15 /\ Divided(c8, c7, ~(15 \in c7 <=> 0 \in byte))
  <2> HIDE DEF c7
  <2>1. QED
    BY <1>18, BitStepDivides
<1>20. Division(c, byte) = c8
  BY DEF Division
<1> HIDE DEF c1, c2, c3, c4, c5, c6, c7, c8
<1>21. \A j \in 0 .. 15 : j \in d <=> j \in c8
  BY <1>3, <1>6, <1>11, <1>12, <1>13, <1>14, <1>15, <1>16, <1>17, <1>18, <1>19, SMTT(60) DEF Divided
<1>22. QED
  BY <1>8, <1>19, <1>20, <1>21 DEF d

\* stk_crc16 computes the remainder by x^16 + x^12 + x^5 + 1, whatever the state
\* it is in and whatever the byte: its shifts and masks lose nothing.
THEOREM LoopIsDivision == SumSpec => []LoopDivides
<1>1. SumInv => LoopDivides
  <2> SUFFICES ASSUME SumInv, pc = "done", k < MessageLen
               PROVE  Crc16Step(received, Xor(message[k], FlipsIn(k)))
                        = Division(received, Xor(message[k], FlipsIn(k)))
    BY DEF LoopDivides
  <2>1. message[k] \subseteq 0 .. 7
    BY ChecksumAssumption DEF SumInv, Byte, MessageLen
  <2>2. Xor(message[k], FlipsIn(k)) \subseteq 0 .. 7
    BY <2>1 DEF Xor, FlipsIn
  <2>3. received \subseteq 0 .. 15
    BY DEF SumInv
  <2>4. QED
    BY <2>2, <2>3, StepDivides
<1>2. QED
  BY <1>1, SumInvariance, PTL

-----------------------------------------------------------------------------
(* wl_pack_break itself, for packets of any length, any generator and any  *)
(* number of flips.                                                        *)

\* The first bit stays flipped, because every later draw avoids it.  When the
\* packet is done it is no longer known which one that was, only that it is there.
FirstStays ==
  /\ ret \in Nat
  /\ pc \in {"start", "loop", "draw", "done"}
  /\ pc = "start" => ret = 0
  /\ pc \in {"loop", "draw"} => ret > 0 /\ bit_to_break_prev \in flipped
  /\ ret = 0 <=> flipped = {}
  /\ ret = 1 => \E a : flipped = {a}
  /\ ret = 2 => \E a, b : a # b /\ flipped = {a, b}

LEMMA FirstStaysInductive == FirstStays /\ [Next]_vars => FirstStays'
<1> SUFFICES ASSUME FirstStays, [Next]_vars PROVE FirstStays'
  OBVIOUS
<1>1. ASSUME Spare \/ Stop \/ Again PROVE FirstStays'
  <2>1. flipped' = flipped /\ ret' = ret /\ pc' \in {"draw", "done"}
    BY <1>1 DEF Spare, Stop, Again
  <2>2. pc' = "draw" => ret > 0 /\ bit_to_break_prev' \in flipped
    BY <1>1 DEF Spare, Stop, Again, FirstStays
  <2>3. QED
    BY <2>1, <2>2 DEF FirstStays
<1>2. CASE Reload
  <2>1. flipped' = {} /\ ret' = 0 /\ pc' = "start"
    BY <1>2 DEF Reload
  <2>2. QED
    BY <2>1 DEF FirstStays
<1>3. ASSUME NEW r \in DrawsNow, First(r) PROVE FirstStays'
  <2>1. ret = 0 /\ flipped = {}
    BY <1>3 DEF First, FirstStays
  <2>2. flipped' = {bit_to_break_prev'} /\ ret' = 1 /\ pc' = "loop"
    BY <1>3, <2>1 DEF First, BitFlip
  <2>3. bit_to_break_prev' \in flipped' /\ \E a : flipped' = {a}
    BY <2>2
  <2>4. QED
    BY <2>2, <2>3 DEF FirstStays
<1>4. ASSUME NEW r \in DrawsNow, Redraw(r) PROVE FirstStays'
  <2> DEFINE b == RandPackBit(r)
  <2>1. ret > 0 /\ ret \in Nat /\ bit_to_break_prev \in flipped
    BY <1>4 DEF Redraw, FirstStays
  <2>2. /\ b # bit_to_break_prev /\ bit_to_break_prev' = bit_to_break_prev
        /\ ret' = ret + 1 /\ pc' = "loop"
        /\ flipped' = IF b \in flipped THEN flipped \ {b} ELSE flipped \cup {b}
    BY <1>4 DEF Redraw, BitFlip
  <2> HIDE DEF b
  <2>3. bit_to_break_prev' \in flipped'
    BY <2>1, <2>2
  <2>4. ASSUME ret' = 2 PROVE \E a, c : a # c /\ flipped' = {a, c}
    <3>1. flipped = {bit_to_break_prev}
      BY <2>1, <2>2, <2>4 DEF FirstStays
    <3>2. flipped' = {bit_to_break_prev, b}
      BY <2>2, <3>1
    <3>3. QED
      BY <2>2, <3>2
  <2>5. QED
    BY <2>1, <2>2, <2>3, <2>4 DEF FirstStays
<1>5. CASE UNCHANGED vars
  BY <1>5 DEF vars, FirstStays
<1>6. QED
  BY <1>1, <1>2, <1>3, <1>4, <1>5 DEF Next

THEOREM FirstFlipStays == Spec => []FirstStays
<1>1. Init => FirstStays
  BY DEF Init, FirstStays
<1>2. QED
  BY <1>1, FirstStaysInductive, PTL DEF Spec

\* Up to two reported errors are that many wrong bits, as the NOTE in
\* wl_pack_break says.
THEOREM TwoFlips == Spec => []TwoFlipsDiffer
<1>1. FirstStays => TwoFlipsDiffer
  <2> SUFFICES ASSUME FirstStays, ret <= 2 PROVE Cardinality(flipped) = ret
    BY DEF TwoFlipsDiffer
  <2>1. CASE ret = 0
    BY <2>1, FS_EmptySet DEF FirstStays
  <2>2. CASE ret = 1
    BY <2>2, FS_Singleton DEF FirstStays
  <2>3. CASE ret = 2
    <3>1. PICK a, b : a # b /\ flipped = {a, b}
      BY <2>3 DEF FirstStays
    <3>2. IsFiniteSet({b}) /\ Cardinality({b}) = 1
      BY FS_Singleton
    <3>3. flipped = {b} \cup {a} /\ a \notin {b}
      BY <3>1
    <3>4. QED
      BY <2>3, <3>2, <3>3, FS_AddElement
  <2>4. QED
    BY <2>1, <2>2, <2>3 DEF FirstStays
<1>2. QED
  BY <1>1, FirstFlipStays, PTL

\* A packet reported as broken has a wrong bit in its buffer and the other way
\* round, however many flips there were: the FIXME in wl_pack_break fears too much.
THEOREM ReportIsTrue == Spec => []FlipsNeverCancel
<1>1. FirstStays => FlipsNeverCancel
  BY DEF FirstStays, FlipsNeverCancel
<1>2. QED
  BY <1>1, FirstFlipStays, PTL

-----------------------------------------------------------------------------
(* The powers of x modulo the polynomial. *)

\* A word is a polynomial, its bits the powers of x that are in it.
TimesX(c) == Xor(Shl(c, 1), IF 15 \in c THEN {0, 5, 12} ELSE {})

Power[n \in Nat] == IF n = 0 THEN {0} ELSE TimesX(Power[n - 1])

\* Induction on numbers, said of sets.
LEMMA NatSet ==
  ASSUME NEW S, 0 \in S, \A n \in Nat : n \in S => n + 1 \in S
  PROVE  Nat \subseteq S
<1> SUFFICES ASSUME Nat \ S # {} PROVE FALSE
  OBVIOUS
<1>1. IsWellFoundedOn(OpToRel(<, Nat), Nat)
  BY NatLessThanWellFounded
<1>2. PICK n \in Nat \ S : \A j \in Nat \ S : <<j, n>> \notin OpToRel(<, Nat)
  BY <1>1, WFMin
<1>3. n # 0 /\ n - 1 \in Nat /\ (n - 1) + 1 = n /\ n - 1 < n
  OBVIOUS
<1>4. n - 1 \notin S
  BY <1>3
<1>5. <<n - 1, n>> \in OpToRel(<, Nat)
  BY <1>3 DEF OpToRel
<1>6. QED
  BY <1>2, <1>3, <1>4, <1>5

\* The recursion has a solution: one power after the other.
LEMMA PowerDef == Power[0] = {0} /\ \A n \in Nat : Power[n + 1] = TimesX(Power[n])
<1> DEFINE upto(n, g) == g[0] = {0} /\ \A j \in Nat : j < n => g[j + 1] = TimesX(g[j])
           S == {n \in Nat : \E g : upto(n, g)}
<1>1. \A n \in Nat : \E g : upto(n, g)
  <2>1. 0 \in S
    <3> DEFINE g == [j \in Nat |-> {0}]
    <3>1. g[0] = {0}
      OBVIOUS
    <3> HIDE DEF g
    <3>2. upto(0, g)
      BY <3>1
    <3>3. QED
      BY <3>2
  <2>2. ASSUME NEW n \in Nat, n \in S PROVE n + 1 \in S
    <3>1. PICK f : upto(n, f)
      BY <2>2
    <3> DEFINE g == [j \in Nat |-> IF j <= n THEN f[j] ELSE TimesX(f[n])]
    <3>2. g[0] = {0}
      BY <3>1
    <3>3. ASSUME NEW j \in Nat, j < n + 1 PROVE g[j + 1] = TimesX(g[j])
      <4>1. CASE j < n
        BY <3>1, <4>1
      <4>2. CASE j = n
        BY <4>2
      <4>3. QED
        BY <3>3, <4>1, <4>2
    <3> HIDE DEF g
    <3>4. upto(n + 1, g)
      BY <3>2, <3>3
    <3>5. QED
      BY <3>4
  <2>3. Nat \subseteq S
    BY <2>1, <2>2, NatSet
  <2>4. QED
    BY <2>3
<1>2. ASSUME NEW n \in Nat, NEW m \in Nat, n <= m, NEW f, NEW g, upto(n, f), upto(m, g)
      PROVE  f[n] = g[n]
  <2> DEFINE T == {j \in Nat : j <= n => f[j] = g[j]}
  <2>1. 0 \in T
    BY <1>2
  <2>2. ASSUME NEW j \in Nat, j \in T PROVE j + 1 \in T
    <3> SUFFICES ASSUME j + 1 <= n PROVE f[j + 1] = g[j + 1]
      OBVIOUS
    <3>1. j < n /\ j < m /\ f[j] = g[j]
      BY <1>2, <2>2
    <3>2. QED
      BY <1>2, <3>1
  <2>3. Nat \subseteq T
    BY <2>1, <2>2, NatSet
  <2>4. QED
    BY <2>3
<1> DEFINE h == [n \in Nat |-> (CHOOSE g : upto(n, g))[n]]
<1>3. ASSUME NEW n \in Nat PROVE h[n + 1] = TimesX(h[n])
  <2>1. PICK f : f = CHOOSE g : upto(n, g)
    OBVIOUS
  <2>2. PICK f1 : f1 = CHOOSE g : upto(n + 1, g)
    OBVIOUS
  <2>3. upto(n, f) /\ upto(n + 1, f1)
    <3>1. n + 1 \in Nat
      OBVIOUS
    <3>2. upto(n, f)
      BY <1>1, <2>1
    <3>3. upto(n + 1, f1)
      BY <1>1, <2>2, <3>1
    <3>4. QED
      BY <3>2, <3>3
  <2>4. h[n] = f[n] /\ h[n + 1] = f1[n + 1]
    BY <2>1, <2>2
  <2> HIDE DEF h
  <2>5. n + 1 \in Nat /\ n <= n + 1 /\ n < n + 1
    OBVIOUS
  <2>6. f[n] = f1[n]
    <3> HIDE DEF upto
    <3>1. QED
      BY <1>2, <2>3, <2>5
  <2>7. QED
    BY <2>3, <2>4, <2>5, <2>6
<1>4. h[0] = {0}
  <2>1. \E g : upto(0, g)
    BY <1>1
  <2>2. upto(0, CHOOSE g : upto(0, g))
    BY <2>1
  <2>3. QED
    BY <2>2
<1>5. h = [n \in Nat |-> h[n]]
  OBVIOUS
<1> HIDE DEF h
<1>6. \A n \in Nat : h[n] = IF n = 0 THEN {0} ELSE TimesX(h[n - 1])
  <2> SUFFICES ASSUME NEW n \in Nat, n # 0 PROVE h[n] = TimesX(h[n - 1])
    BY <1>4
  <2>1. n - 1 \in Nat /\ (n - 1) + 1 = n
    OBVIOUS
  <2>2. QED
    BY <1>3, <2>1
<1>7. h = [n \in Nat |-> IF n = 0 THEN {0} ELSE TimesX(h[n - 1])]
  BY <1>5, <1>6
<1>8. Power = [n \in Nat |-> IF n = 0 THEN {0} ELSE TimesX(Power[n - 1])]
  <2> HIDE DEF TimesX
  <2>1. Power = CHOOSE g : g = [n \in Nat |-> IF n = 0 THEN {0} ELSE TimesX(g[n - 1])]
    BY DEF Power
  <2>2. QED
    BY <1>7, <2>1
<1>9. QED
  <2> HIDE DEF TimesX
  <2>1. Power[0] = {0}
    BY <1>8
  <2>2. ASSUME NEW n \in Nat PROVE Power[n + 1] = TimesX(Power[n])
    <3>1. n + 1 \in Nat /\ n + 1 # 0 /\ (n + 1) - 1 = n
      OBVIOUS
    <3>2. QED
      BY <1>8, <3>1
  <2>3. QED
    BY <2>1, <2>2

-----------------------------------------------------------------------------
(* Multiplying by x and squaring, bit by bit. *)

\* Multiplying by x shifts, and adds the polynomial if a bit is shifted out.
LEMMA TimesXDivides ==
  ASSUME NEW c, c \subseteq 0 .. 15
  PROVE  TimesX(c) \subseteq 0 .. 15 /\ Divided(TimesX(c), c, 15 \in c)
<1>1. \A n : BitStep(c, n \in {}) = TimesX(c)
  BY DEF BitStep, TimesX
<1>2. /\ BitStep(c, 0 \in {}) \subseteq 0 .. 15
      /\ Divided(BitStep(c, 0 \in {}), c, ~(15 \in c <=> 0 \in {}))
  BY BitStepDivides
<1>3. (~(15 \in c <=> 0 \in {})) <=> 15 \in c
  OBVIOUS
<1>4. Divided(TimesX(c), c, ~(15 \in c <=> 0 \in {}))
  BY <1>1, <1>2
<1>5. QED
  BY <1>1, <1>2, <1>3, <1>4 DEF Divided

\* A word is known from its bits.
LEMMA WordEqual ==
  ASSUME NEW c, NEW d, c \subseteq 0 .. 15, d \subseteq 0 .. 15, \A j \in 0 .. 15 : j \in c <=> j \in d
  PROVE  c = d
OBVIOUS

\* d is the square of c: bit n of c adds x^(2n), which is taken modulo the
\* polynomial from n = 8 on.
Squared(d, c) ==
  /\ (0 \in d <=> (0 \in c <=> (8 \in c <=> (10 \in c <=> (12 \in c <=> 14 \in c))))) /\ (1 \in d <=> 14 \in c)
  /\ (2 \in d <=> (1 \in c <=> (9 \in c <=> (11 \in c <=> (13 \in c <=> 15 \in c))))) /\ (3 \in d <=> 15 \in c)
  /\ (4 \in d <=> ~(2 \in c <=> (10 \in c <=> (12 \in c <=> 14 \in c)))) /\ (5 \in d <=> ~(8 \in c <=> (10 \in c <=> (12 \in c <=> 14 \in c))))
  /\ (6 \in d <=> (3 \in c <=> (11 \in c <=> (13 \in c <=> (14 \in c <=> 15 \in c)))))
  /\ (7 \in d <=> ~(9 \in c <=> (11 \in c <=> (13 \in c <=> 15 \in c)))) /\ (8 \in d <=> ~(4 \in c <=> (12 \in c <=> (14 \in c <=> 15 \in c))))
  /\ (9 \in d <=> (10 \in c <=> (12 \in c <=> 14 \in c))) /\ (10 \in d <=> (5 \in c <=> (13 \in c <=> 15 \in c)))
  /\ (11 \in d <=> (11 \in c <=> (13 \in c <=> 15 \in c)))
  /\ (12 \in d <=> ~(6 \in c <=> (8 \in c <=> (10 \in c <=> 12 \in c)))) /\ (13 \in d <=> 12 \in c)
  /\ (14 \in d <=> ~(7 \in c <=> (9 \in c <=> (11 \in c <=> 13 \in c)))) /\ (15 \in d <=> 13 \in c)

\* (x * c)^2 = x^2 * c^2
LEMMA SquareTimesX ==
  ASSUME NEW c, c \subseteq 0 .. 15, NEW d, d \subseteq 0 .. 15, Squared(d, c)
  PROVE  Squared(TimesX(TimesX(d)), TimesX(c))
<1>1. TimesX(c) \subseteq 0 .. 15 /\ Divided(TimesX(c), c, 15 \in c)
  BY TimesXDivides
<1>2. TimesX(d) \subseteq 0 .. 15 /\ Divided(TimesX(d), d, 15 \in d)
  BY TimesXDivides
<1>3. Divided(TimesX(TimesX(d)), TimesX(d), 15 \in TimesX(d))
  BY <1>2, TimesXDivides
<1>4. QED
  BY <1>1, <1>2, <1>3, SMTT(60) DEF Divided, Squared

\* Every power is a word.
LEMMA PowerWord == \A n \in Nat : Power[n] \subseteq 0 .. 15
<1> DEFINE S == {n \in Nat : Power[n] \subseteq 0 .. 15}
<1>1. 0 \in S
  BY PowerDef
<1>2. ASSUME NEW n \in Nat, n \in S PROVE n + 1 \in S
  BY <1>2, PowerDef, TimesXDivides
<1>3. Nat \subseteq S
  BY <1>1, <1>2, NatSet
<1>4. QED
  BY <1>3

\* x^2n = (x^n)^2
LEMMA PowerSquared == \A n \in Nat : Squared(Power[2 * n], Power[n])
<1> DEFINE S == {n \in Nat : Squared(Power[2 * n], Power[n])}
<1>1. 0 \in S
  <2>1. Power[2 * 0] = {0} /\ Power[0] = {0}
    BY PowerDef
  <2>2. Squared({0}, {0})
    BY DEF Squared
  <2>3. QED
    BY <2>1, <2>2
<1>2. ASSUME NEW n \in Nat, n \in S PROVE n + 1 \in S
  <2>1. /\ 2 * n \in Nat /\ 2 * n + 1 \in Nat /\ n + 1 \in Nat
        /\ 2 * (n + 1) = (2 * n + 1) + 1
    OBVIOUS
  <2>2. Power[2 * (n + 1)] = TimesX(TimesX(Power[2 * n])) /\ Power[n + 1] = TimesX(Power[n])
    <3>1. Power[(2 * n + 1) + 1] = TimesX(Power[2 * n + 1]) /\ Power[2 * n + 1] = TimesX(Power[2 * n])
      BY <2>1, PowerDef
    <3>2. QED
      BY <2>1, <3>1, PowerDef
  <2>3. Squared(TimesX(TimesX(Power[2 * n])), TimesX(Power[n]))
    BY <1>2, <2>1, PowerWord, SquareTimesX
  <2>4. QED
    BY <2>1, <2>2, <2>3
<1>3. Nat \subseteq S
  BY <1>1, <1>2, NatSet
<1>4. QED
  BY <1>3

\* PowerSquared and PowerWord, for the table below.
LEMMA DoubledPower == \A n \in Nat : Squared(Power[2 * n], Power[n]) /\ Power[2 * n] \subseteq 0 .. 15
<1>1. \A n \in Nat : 2 * n \in Nat
  OBVIOUS
<1>2. QED
  BY <1>1, PowerSquared, PowerWord

\* The next power is x times this one.
LEMMA NextPower ==
  ASSUME NEW n \in Nat, NEW m, m = n + 1
  PROVE  Divided(Power[m], Power[n], 15 \in Power[n]) /\ Power[m] \subseteq 0 .. 15
<1>1. m \in Nat
  OBVIOUS
<1>2. QED
  BY <1>1, PowerDef, PowerWord, TimesXDivides

-----------------------------------------------------------------------------
(* The order of x: x^32767 = 1, and no smaller power is. *)

\* Up to x^15 no division takes place.
LEMMA LowPowers == \A n \in 0 .. 15 : Power[n] = {n}
<1> DEFINE S == {n \in Nat : n <= 15 => Power[n] = {n}}
<1>1. 0 \in S
  BY PowerDef
<1>2. ASSUME NEW n \in Nat, n \in S PROVE n + 1 \in S
  <2> SUFFICES ASSUME n + 1 <= 15 PROVE Power[n + 1] = {n + 1}
    OBVIOUS
  <2>1. Power[n] = {n} /\ n < 15
    BY <1>2
  <2>2. TimesX({n}) = {n + 1}
    BY <2>1 DEF TimesX, Xor, Shl
  <2>3. QED
    BY <2>1, <2>2, PowerDef
<1>3. Nat \subseteq S
  BY <1>1, <1>2, NatSet
<1>4. QED
  BY <1>3

\* By squaring, and multiplying by x where the exponent is odd.
LEMMA PowerTable ==
  /\ Power[217] # {0} /\ Power[1057] # {0} /\ Power[4681] # {0}
  /\ Power[32768] = {1}
<1>1. /\ Power[8] = {8} /\ Power[9] = {9} /\ Power[13] = {13}
  BY LowPowers
<1>2. Power[16] = {0, 5, 12}
  <2>1. PICK n \in Nat : n = 8
    OBVIOUS
  <2>2. Squared(Power[2 * n], Power[n]) /\ Power[2 * n] \subseteq 0 .. 15
    BY DoubledPower, Zenon
  <2>3. Squared(Power[16], Power[8]) /\ Power[16] \subseteq 0 .. 15
    BY <2>1, <2>2, 2 * 8 = 16
  <2>4. QED
    BY <1>1, <2>3 DEF Squared
<1>3. Power[18] = {2, 7, 14}
  <2>1. PICK n \in Nat : n = 9
    OBVIOUS
  <2>2. Squared(Power[2 * n], Power[n]) /\ Power[2 * n] \subseteq 0 .. 15
    BY DoubledPower, Zenon
  <2>3. Squared(Power[18], Power[9]) /\ Power[18] \subseteq 0 .. 15
    BY <2>1, <2>2, 2 * 9 = 18
  <2>4. QED
    BY <1>1, <2>3 DEF Squared
<1>4. Power[26] = {2, 6, 7, 10, 11, 14, 15}
  <2>1. PICK n \in Nat : n = 13
    OBVIOUS
  <2>2. Squared(Power[2 * n], Power[n]) /\ Power[2 * n] \subseteq 0 .. 15
    BY DoubledPower, Zenon
  <2>3. Squared(Power[26], Power[13]) /\ Power[26] \subseteq 0 .. 15
    BY <2>1, <2>2, 2 * 13 = 26
  <2>4. QED
    BY <1>1, <2>3 DEF Squared
<1>5. Power[27] = {0, 3, 5, 7, 8, 11, 15}
  <2>1. Divided(Power[27], Power[26], 15 \in Power[26]) /\ Power[27] \subseteq 0 .. 15
    BY 27 = 26 + 1, NextPower
  <2>2. QED
    BY <1>4, <2>1 DEF Divided
<1>6. Power[32] = {4, 5, 8, 9, 10, 12, 13}
  <2>1. PICK n \in Nat : n = 16
    OBVIOUS
  <2>2. Squared(Power[2 * n], Power[n]) /\ Power[2 * n] \subseteq 0 .. 15
    BY DoubledPower, Zenon
  <2>3. Squared(Power[32], Power[16]) /\ Power[32] \subseteq 0 .. 15
    BY <2>1, <2>2, 2 * 16 = 32
  <2>4. QED
    BY <1>2, <2>3 DEF Squared
<1>7. Power[33] = {5, 6, 9, 10, 11, 13, 14}
  <2>1. Divided(Power[33], Power[32], 15 \in Power[32]) /\ Power[33] \subseteq 0 .. 15
    BY 33 = 32 + 1, NextPower
  <2>2. QED
    BY <1>6, <2>1 DEF Divided
<1>8. Power[36] = {0, 1, 5, 6, 8, 9, 14}
  <2>1. PICK n \in Nat : n = 18
    OBVIOUS
  <2>2. Squared(Power[2 * n], Power[n]) /\ Power[2 * n] \subseteq 0 .. 15
    BY DoubledPower, Zenon
  <2>3. Squared(Power[36], Power[18]) /\ Power[36] \subseteq 0 .. 15
    BY <2>1, <2>2, 2 * 18 = 36
  <2>4. QED
    BY <1>3, <2>3 DEF Squared
<1>9. Power[54] = {3, 5, 6, 8, 12}
  <2>1. PICK n \in Nat : n = 27
    OBVIOUS
  <2>2. Squared(Power[2 * n], Power[n]) /\ Power[2 * n] \subseteq 0 .. 15
    BY DoubledPower, Zenon
  <2>3. Squared(Power[54], Power[27]) /\ Power[54] \subseteq 0 .. 15
    BY <2>1, <2>2, 2 * 27 = 54
  <2>4. QED
    BY <1>5, <2>3 DEF Squared
<1>10. Power[64] = {0, 5, 6, 11, 12, 13, 15}
  <2>1. PICK n \in Nat : n = 32
    OBVIOUS
  <2>2. Squared(Power[2 * n], Power[n]) /\ Power[2 * n] \subseteq 0 .. 15
    BY DoubledPower, Zenon
  <2>3. Squared(Power[64], Power[32]) /\ Power[64] \subseteq 0 .. 15
    BY <2>1, <2>2, 2 * 32 = 64
  <2>4. QED
    BY <1>6, <2>3 DEF Squared
<1>11. Power[66] = {1, 2, 6, 7, 8, 14, 15}
  <2>1. PICK n \in Nat : n = 33
    OBVIOUS
  <2>2. Squared(Power[2 * n], Power[n]) /\ Power[2 * n] \subseteq 0 .. 15
    BY DoubledPower, Zenon
  <2>3. Squared(Power[66], Power[33]) /\ Power[66] \subseteq 0 .. 15
    BY <2>1, <2>2, 2 * 33 = 66
  <2>4. QED
    BY <1>7, <2>3 DEF Squared
<1>12. Power[72] = {0, 1, 4, 6, 7, 8, 9, 10, 14}
  <2>1. PICK n \in Nat : n = 36
    OBVIOUS
  <2>2. Squared(Power[2 * n], Power[n]) /\ Power[2 * n] \subseteq 0 .. 15
    BY DoubledPower, Zenon
  <2>3. Squared(Power[72], Power[36]) /\ Power[72] \subseteq 0 .. 15
    BY <2>1, <2>2, 2 * 36 = 72
  <2>4. QED
    BY <1>8, <2>3 DEF Squared
<1>13. Power[73] = {1, 2, 5, 7, 8, 9, 10, 11, 15}
  <2>1. Divided(Power[73], Power[72], 15 \in Power[72]) /\ Power[73] \subseteq 0 .. 15
    BY 73 = 72 + 1, NextPower
  <2>2. QED
    BY <1>12, <2>1 DEF Divided
<1>14. Power[108] = {4, 6, 8, 9, 10, 12, 13}
  <2>1. PICK n \in Nat : n = 54
    OBVIOUS
  <2>2. Squared(Power[2 * n], Power[n]) /\ Power[2 * n] \subseteq 0 .. 15
    BY DoubledPower, Zenon
  <2>3. Squared(Power[108], Power[54]) /\ Power[108] \subseteq 0 .. 15
    BY <2>1, <2>2, 2 * 54 = 108
  <2>4. QED
    BY <1>9, <2>3 DEF Squared
<1>15. Power[128] = {2, 3, 4, 5, 6, 7, 9, 10, 11, 13, 15}
  <2>1. PICK n \in Nat : n = 64
    OBVIOUS
  <2>2. Squared(Power[2 * n], Power[n]) /\ Power[2 * n] \subseteq 0 .. 15
    BY DoubledPower, Zenon
  <2>3. Squared(Power[128], Power[64]) /\ Power[128] \subseteq 0 .. 15
    BY <2>1, <2>2, 2 * 64 = 128
  <2>4. QED
    BY <1>10, <2>3 DEF Squared
<1>16. Power[132] = {1, 3, 7, 9, 10, 11, 14}
  <2>1. PICK n \in Nat : n = 66
    OBVIOUS
  <2>2. Squared(Power[2 * n], Power[n]) /\ Power[2 * n] \subseteq 0 .. 15
    BY DoubledPower, Zenon
  <2>3. Squared(Power[132], Power[66]) /\ Power[132] \subseteq 0 .. 15
    BY <2>1, <2>2, 2 * 66 = 132
  <2>4. QED
    BY <1>11, <2>3 DEF Squared
<1>17. Power[146] = {3, 7, 8, 9, 14}
  <2>1. PICK n \in Nat : n = 73
    OBVIOUS
  <2>2. Squared(Power[2 * n], Power[n]) /\ Power[2 * n] \subseteq 0 .. 15
    BY DoubledPower, Zenon
  <2>3. Squared(Power[146], Power[73]) /\ Power[146] \subseteq 0 .. 15
    BY <2>1, <2>2, 2 * 73 = 146
  <2>4. QED
    BY <1>13, <2>3 DEF Squared
<1>18. Power[216] = {0, 5, 6, 10, 11, 13, 15}
  <2>1. PICK n \in Nat : n = 108
    OBVIOUS
  <2>2. Squared(Power[2 * n], Power[n]) /\ Power[2 * n] \subseteq 0 .. 15
    BY DoubledPower, Zenon
  <2>3. Squared(Power[216], Power[108]) /\ Power[216] \subseteq 0 .. 15
    BY <2>1, <2>2, 2 * 108 = 216
  <2>4. QED
    BY <1>14, <2>3 DEF Squared
<1>19. Power[217] = {0, 1, 5, 6, 7, 11, 14}
  <2>1. Divided(Power[217], Power[216], 15 \in Power[216]) /\ Power[217] \subseteq 0 .. 15
    BY 217 = 216 + 1, NextPower
  <2>2. QED
    BY <1>18, <2>1 DEF Divided
<1>20. Power[256] = {0, 3, 5, 9, 10, 11, 15}
  <2>1. PICK n \in Nat : n = 128
    OBVIOUS
  <2>2. Squared(Power[2 * n], Power[n]) /\ Power[2 * n] \subseteq 0 .. 15
    BY DoubledPower, Zenon
  <2>3. Squared(Power[256], Power[128]) /\ Power[256] \subseteq 0 .. 15
    BY <2>1, <2>2, 2 * 128 = 256
  <2>4. QED
    BY <1>15, <2>3 DEF Squared
<1>21. Power[264] = {1, 2, 6, 8, 11, 12, 14}
  <2>1. PICK n \in Nat : n = 132
    OBVIOUS
  <2>2. Squared(Power[2 * n], Power[n]) /\ Power[2 * n] \subseteq 0 .. 15
    BY DoubledPower, Zenon
  <2>3. Squared(Power[264], Power[132]) /\ Power[264] \subseteq 0 .. 15
    BY <2>1, <2>2, 2 * 132 = 264
  <2>4. QED
    BY <1>16, <2>3 DEF Squared
<1>22. Power[292] = {1, 2, 4, 7, 8, 9, 12}
  <2>1. PICK n \in Nat : n = 146
    OBVIOUS
  <2>2. Squared(Power[2 * n], Power[n]) /\ Power[2 * n] \subseteq 0 .. 15
    BY DoubledPower, Zenon
  <2>3. Squared(Power[292], Power[146]) /\ Power[292] \subseteq 0 .. 15
    BY <2>1, <2>2, 2 * 146 = 292
  <2>4. QED
    BY <1>17, <2>3 DEF Squared
<1>23. Power[512] = {2, 3, 4, 5, 6, 7, 8, 9, 12}
  <2>1. PICK n \in Nat : n = 256
    OBVIOUS
  <2>2. Squared(Power[2 * n], Power[n]) /\ Power[2 * n] \subseteq 0 .. 15
    BY DoubledPower, Zenon
  <2>3. Squared(Power[512], Power[256]) /\ Power[512] \subseteq 0 .. 15
    BY <2>1, <2>2, 2 * 256 = 512
  <2>4. QED
    BY <1>20, <2>3 DEF Squared
<1>24. Power[528] = {0, 1, 4, 5, 7, 11, 12, 13, 14}
  <2>1. PICK n \in Nat : n = 264
    OBVIOUS
  <2>2. Squared(Power[2 * n], Power[n]) /\ Power[2 * n] \subseteq 0 .. 15
    BY DoubledPower, Zenon
  <2>3. Squared(Power[528], Power[264]) /\ Power[528] \subseteq 0 .. 15
    BY <2>1, <2>2, 2 * 264 = 528
  <2>4. QED
    BY <1>21, <2>3 DEF Squared
<1>25. Power[584] = {7, 9, 13}
  <2>1. PICK n \in Nat : n = 292
    OBVIOUS
  <2>2. Squared(Power[2 * n], Power[n]) /\ Power[2 * n] \subseteq 0 .. 15
    BY DoubledPower, Zenon
  <2>3. Squared(Power[584], Power[292]) /\ Power[584] \subseteq 0 .. 15
    BY <2>1, <2>2, 2 * 292 = 584
  <2>4. QED
    BY <1>22, <2>3 DEF Squared
<1>26. Power[585] = {8, 10, 14}
  <2>1. Divided(Power[585], Power[584], 15 \in Power[584]) /\ Power[585] \subseteq 0 .. 15
    BY 585 = 584 + 1, NextPower
  <2>2. QED
    BY <1>25, <2>1 DEF Divided
<1>27. Power[1024] = {2, 6, 7, 9, 10, 12, 13}
  <2>1. PICK n \in Nat : n = 512
    OBVIOUS
  <2>2. Squared(Power[2 * n], Power[n]) /\ Power[2 * n] \subseteq 0 .. 15
    BY DoubledPower, Zenon
  <2>3. Squared(Power[1024], Power[512]) /\ Power[1024] \subseteq 0 .. 15
    BY <2>1, <2>2, 2 * 512 = 1024
  <2>4. QED
    BY <1>23, <2>3 DEF Squared
<1>28. Power[1056] = {0, 1, 2, 6, 8, 12, 13, 14, 15}
  <2>1. PICK n \in Nat : n = 528
    OBVIOUS
  <2>2. Squared(Power[2 * n], Power[n]) /\ Power[2 * n] \subseteq 0 .. 15
    BY DoubledPower, Zenon
  <2>3. Squared(Power[1056], Power[528]) /\ Power[1056] \subseteq 0 .. 15
    BY <2>1, <2>2, 2 * 528 = 1056
  <2>4. QED
    BY <1>24, <2>3 DEF Squared
<1>29. Power[1057] = {0, 1, 2, 3, 5, 7, 9, 12, 13, 14, 15}
  <2>1. Divided(Power[1057], Power[1056], 15 \in Power[1056]) /\ Power[1057] \subseteq 0 .. 15
    BY 1057 = 1056 + 1, NextPower
  <2>2. QED
    BY <1>28, <2>1 DEF Divided
<1>30. Power[1170] = {0, 1, 5, 6, 8}
  <2>1. PICK n \in Nat : n = 585
    OBVIOUS
  <2>2. Squared(Power[2 * n], Power[n]) /\ Power[2 * n] \subseteq 0 .. 15
    BY DoubledPower, Zenon
  <2>3. Squared(Power[1170], Power[585]) /\ Power[1170] \subseteq 0 .. 15
    BY <2>1, <2>2, 2 * 585 = 1170
  <2>4. QED
    BY <1>26, <2>3 DEF Squared
<1>31. Power[2048] = {4, 6, 8, 10, 11, 12, 13, 14, 15}
  <2>1. PICK n \in Nat : n = 1024
    OBVIOUS
  <2>2. Squared(Power[2 * n], Power[n]) /\ Power[2 * n] \subseteq 0 .. 15
    BY DoubledPower, Zenon
  <2>3. Squared(Power[2048], Power[1024]) /\ Power[2048] \subseteq 0 .. 15
    BY <2>1, <2>2, 2 * 1024 = 2048
  <2>4. QED
    BY <1>27, <2>3 DEF Squared
<1>32. Power[2340] = {2, 5, 10}
  <2>1. PICK n \in Nat : n = 1170
    OBVIOUS
  <2>2. Squared(Power[2 * n], Power[n]) /\ Power[2 * n] \subseteq 0 .. 15
    BY DoubledPower, Zenon
  <2>3. Squared(Power[2340], Power[1170]) /\ Power[2340] \subseteq 0 .. 15
    BY <2>1, <2>2, 2 * 1170 = 2340
  <2>4. QED
    BY <1>30, <2>3 DEF Squared
<1>33. Power[4096] = {1, 2, 3, 4, 7, 9, 11, 13, 15}
  <2>1. PICK n \in Nat : n = 2048
    OBVIOUS
  <2>2. Squared(Power[2 * n], Power[n]) /\ Power[2 * n] \subseteq 0 .. 15
    BY DoubledPower, Zenon
  <2>3. Squared(Power[4096], Power[2048]) /\ Power[4096] \subseteq 0 .. 15
    BY <2>1, <2>2, 2 * 2048 = 4096
  <2>4. QED
    BY <1>31, <2>3 DEF Squared
<1>34. Power[4680] = {0, 5, 9, 10, 12}
  <2>1. PICK n \in Nat : n = 2340
    OBVIOUS
  <2>2. Squared(Power[2 * n], Power[n]) /\ Power[2 * n] \subseteq 0 .. 15
    BY DoubledPower, Zenon
  <2>3. Squared(Power[4680], Power[2340]) /\ Power[4680] \subseteq 0 .. 15
    BY <2>1, <2>2, 2 * 2340 = 4680
  <2>4. QED
    BY <1>32, <2>3 DEF Squared
<1>35. Power[4681] = {1, 6, 10, 11, 13}
  <2>1. Divided(Power[4681], Power[4680], 15 \in Power[4680]) /\ Power[4681] \subseteq 0 .. 15
    BY 4681 = 4680 + 1, NextPower
  <2>2. QED
    BY <1>34, <2>1 DEF Divided
<1>36. Power[8192] = {2, 3, 4, 11, 15}
  <2>1. PICK n \in Nat : n = 4096
    OBVIOUS
  <2>2. Squared(Power[2 * n], Power[n]) /\ Power[2 * n] \subseteq 0 .. 15
    BY DoubledPower, Zenon
  <2>3. Squared(Power[8192], Power[4096]) /\ Power[8192] \subseteq 0 .. 15
    BY <2>1, <2>2, 2 * 4096 = 8192
  <2>4. QED
    BY <1>33, <2>3 DEF Squared
<1>37. Power[16384] = {3, 4, 6, 10, 14}
  <2>1. PICK n \in Nat : n = 8192
    OBVIOUS
  <2>2. Squared(Power[2 * n], Power[n]) /\ Power[2 * n] \subseteq 0 .. 15
    BY DoubledPower, Zenon
  <2>3. Squared(Power[16384], Power[8192]) /\ Power[16384] \subseteq 0 .. 15
    BY <2>1, <2>2, 2 * 8192 = 16384
  <2>4. QED
    BY <1>36, <2>3 DEF Squared
<1>38. Power[32768] = {1}
  <2>1. PICK n \in Nat : n = 16384
    OBVIOUS
  <2>2. Squared(Power[2 * n], Power[n]) /\ Power[2 * n] \subseteq 0 .. 15
    BY DoubledPower, Zenon
  <2>3. Squared(Power[32768], Power[16384]) /\ Power[32768] \subseteq 0 .. 15
    BY <2>1, <2>2, 2 * 16384 = 32768
  <2>4. QED
    BY <1>37, <2>3 DEF Squared
<1>39. QED
  BY <1>19, <1>29, <1>35, <1>38

\* Multiplying by x loses nothing.
LEMMA TimesXInjective ==
  ASSUME NEW c, NEW d, c \subseteq 0 .. 15, d \subseteq 0 .. 15, TimesX(c) = TimesX(d)
  PROVE  c = d
<1>1. Divided(TimesX(c), c, 15 \in c) /\ Divided(TimesX(c), d, 15 \in d)
  BY TimesXDivides
<1>2. \A j \in 0 .. 15 : j \in c <=> j \in d
  BY <1>1 DEF Divided
<1>3. QED
  BY <1>2, WordEqual

\* x^(m + n) = x^n if and only if x^m = 1.
LEMMA Cancel ==
  ASSUME NEW m \in Nat
  PROVE  \A n \in Nat : Power[m + n] = Power[n] <=> Power[m] = {0}
<1> DEFINE S == {n \in Nat : Power[m + n] = Power[n] <=> Power[m] = {0}}
<1>1. 0 \in S
  <2>1. m + 0 = m
    OBVIOUS
  <2>2. QED
    BY <2>1, PowerDef
<1>2. ASSUME NEW n \in Nat, n \in S PROVE n + 1 \in S
  <2>1. m + n \in Nat /\ m + (n + 1) = (m + n) + 1
    OBVIOUS
  <2>2. Power[m + (n + 1)] = TimesX(Power[m + n]) /\ Power[n + 1] = TimesX(Power[n])
    BY <2>1, PowerDef
  <2>3. Power[m + (n + 1)] = Power[n + 1] <=> Power[m + n] = Power[n]
    BY <2>1, <2>2, PowerWord, TimesXInjective
  <2>4. QED
    BY <1>2, <2>3
<1>3. Nat \subseteq S
  BY <1>1, <1>2, NatSet
<1>4. QED
  BY <1>3

\* If x^g = 1, so are its powers.
LEMMA Multiples ==
  ASSUME NEW g \in Nat, Power[g] = {0}
  PROVE  \A n \in Nat : Power[n * g] = {0}
<1> DEFINE S == {n \in Nat : Power[n * g] = {0}}
<1>1. 0 \in S
  <2>1. 0 * g = 0
    OBVIOUS
  <2>2. QED
    BY <2>1, PowerDef
<1>2. ASSUME NEW n \in Nat, n \in S PROVE n + 1 \in S
  <2>1. n * g \in Nat /\ (n + 1) * g = g + n * g
    OBVIOUS
  <2>2. Power[g + n * g] = Power[n * g]
    BY <2>1, Cancel
  <2>3. QED
    BY <1>2, <2>1, <2>2
<1>3. Nat \subseteq S
  BY <1>1, <1>2, NatSet
<1>4. QED
  BY <1>3

\* Division with a remainder.
LEMMA DivMod ==
  ASSUME NEW g \in Nat, g > 0
  PROVE  \A n \in Nat : \E q, r \in Nat : n = g * q + r /\ r < g
<1> DEFINE split(n) == \E q, r \in Nat : n = g * q + r /\ r < g
           S == {n \in Nat : split(n)}
<1>1. 0 \in S
  <2>1. 0 = g * 0 + 0
    OBVIOUS
  <2>2. QED
    BY <2>1
<1>2. ASSUME NEW n \in Nat, n \in S PROVE n + 1 \in S
  <2>1. PICK q \in Nat, r \in Nat : n = g * q + r /\ r < g
    BY <1>2
  <2>2. g * (q + 1) = g * q + g /\ g * q \in Nat /\ q + 1 \in Nat
    OBVIOUS
  <2>3. CASE r + 1 < g
    <3>1. n + 1 = g * q + (r + 1) /\ r + 1 \in Nat
      BY <2>1, <2>2
    <3>2. QED
      BY <2>3, <3>1
  <2>4. CASE r + 1 = g
    <3>1. n + 1 = g * (q + 1) + 0 /\ 0 < g /\ 0 \in Nat
      BY <2>1, <2>2, <2>4
    <3>2. split(n + 1)
      BY <2>2, <3>1, Zenon
    <3> HIDE DEF split
    <3>3. QED
      BY <3>2
  <2>5. QED
    BY <2>1, <2>3, <2>4
<1>3. Nat \subseteq S
  BY <1>1, <1>2, NatSet
<1>4. QED
  BY <1>3

\* 2^15 - 1: the polynomial is x + 1 times a primitive one of degree 15.
Order == 32767

\* The divisors of 32767 below its root.
LEMMA SmallDivisor == \A g, q \in Nat : g * q = Order /\ g <= 181 => g \in {1, 7, 31, 151}
BY SMTT(60) DEF Order

\* One of two factors is below the root.
LEMMA OneIsSmall ==
  ASSUME NEW g \in Nat, NEW q \in Nat, g * q = Order, g > 181, q > 181
  PROVE  FALSE
BY SMTT(60) DEF Order

\* A number that divides 32767 = 7 * 31 * 151 without being it divides one of
\* 217 = 7 * 31, 1057 = 7 * 151 and 4681 = 31 * 151.
\* A multiple of g is one of the exponents whose power the table gives.
Reached(g) == \E n \in Nat : n * g \in {217, 1057, 4681}

LEMMA Divisors ==
  \A g, q \in Nat : g * q = Order /\ g # Order => Reached(g)
<1> SUFFICES ASSUME NEW g \in Nat, NEW q \in Nat, g * q = Order, g # Order
             PROVE  Reached(g)
  BY Zenon
<1>1. g \in {1, 7, 31, 151, 217, 1057, 4681}
  <2>1. CASE g <= 181
    <3>1. g \in {1, 7, 31, 151}
      BY <2>1, SmallDivisor, Zenon
    <3>2. QED
      BY <3>1
  <2>2. CASE g > 181
    <3>1. q <= 181
      BY <2>2, OneIsSmall
    <3>2. q * g = Order
      OBVIOUS
    <3>3. q \in {1, 7, 31, 151}
      BY <3>1, <3>2, SmallDivisor, Zenon
    <3>4. CASE q = 1
      BY <3>4 DEF Order
    <3>5. CASE q = 7
      BY <3>5 DEF Order
    <3>6. CASE q = 31
      BY <3>6 DEF Order
    <3>7. CASE q = 151
      BY <3>7 DEF Order
    <3>8. QED
      BY <3>3, <3>4, <3>5, <3>6, <3>7
  <2>3. QED
    BY <2>1, <2>2
<1>2. 217 * 1 = 217 /\ 31 * 7 = 217 /\ 7 * 31 = 217 /\ 7 * 151 = 1057 /\ 1 * 217 = 217 /\ 1 * 1057 = 1057 /\ 1 * 4681 = 4681
  OBVIOUS
<1>3. QED
  BY <1>1, <1>2 DEF Reached

\* The order of x is 32767: multiplying a word by x comes round after exactly
\* that many steps, so stk_crc16 tells two bits of a packet apart until then.
THEOREM OrderOfX == Power[Order] = {0} /\ \A n \in Nat : 0 < n /\ n < Order => Power[n] # {0}
<1>1. Power[Order] = {0}
  <2>1. Power[32767 + 1] = Power[1]
    <3>1. Power[32767 + 1] = {1} /\ Power[1] = {1}
      BY PowerTable, LowPowers, 32767 + 1 = 32768
    <3>2. QED
      BY <3>1
  <2>2. QED
    BY <2>1, Cancel DEF Order
<1>2. ASSUME NEW m \in Nat, 0 < m, m < Order, Power[m] = {0} PROVE FALSE
  <2> DEFINE T == {n \in Nat : n > 0 /\ Power[n] = {0}}
  <2>1. IsWellFoundedOn(OpToRel(<, Nat), Nat)
    BY NatLessThanWellFounded
  <2>2. m \in T /\ T \subseteq Nat
    BY <1>2
  <2>3. PICK g \in T : \A n \in T : <<n, g>> \notin OpToRel(<, Nat)
    <3> HIDE DEF T
    <3>1. QED
      BY <2>1, <2>2, WFMin
  <2>4. \A n \in T : ~(n < g)
    <3> SUFFICES ASSUME NEW n \in T, n < g PROVE FALSE
      OBVIOUS
    <3>1. n \in Nat /\ g \in Nat
      OBVIOUS
    <3>2. <<n, g>> \in OpToRel(<, Nat)
      BY <3>1 DEF OpToRel
    <3>3. QED
      BY <2>3, <3>2
  <2>5. g \in Nat /\ g > 0 /\ g <= m /\ Power[g] = {0}
    <3>1. ~(m < g) /\ g \in T
      BY <2>2, <2>3, <2>4
    <3>2. QED
      BY <3>1
  <2>6. PICK q \in Nat, r \in Nat : Order = g * q + r /\ r < g
    <3>1. Order \in Nat
      BY DEF Order
    <3>2. \A n \in Nat : \E q, r \in Nat : n = g * q + r /\ r < g
      BY <2>5, DivMod
    <3>3. QED
      BY <3>1, <3>2, Zenon
  <2>7. PICK p \in Nat : p = q * g
    BY <2>5
  <2>8. Power[p] = {0}
    BY <2>5, <2>7, Multiples
  <2>9. r + p = Order /\ g * q = p
    BY <2>5, <2>6, <2>7 DEF Order
  <2>10. Power[r] = {0}
    <3>1. Power[r + p] = Power[p]
      BY <1>1, <2>8, <2>9
    <3>2. \A n \in Nat : Power[r + n] = Power[n] <=> Power[r] = {0}
      BY Cancel
    <3>3. QED
      BY <3>1, <3>2, Zenon
  <2>11. r = 0
    BY <2>4, <2>6, <2>10
  <2>12. g * q = Order /\ g # Order
    BY <1>2, <2>5, <2>9, <2>11 DEF Order
  <2>13. PICK n \in Nat : n * g \in {217, 1057, 4681}
    <3>1. Reached(g)
      BY <2>5, <2>12, Divisors, Zenon
    <3>2. QED
      BY <3>1 DEF Reached
  <2>14. Power[n * g] = {0}
    BY <2>5, Multiples
  <2>15. QED
    BY <2>13, <2>14, PowerTable
<1>3. QED
  BY <1>1, <1>2

-----------------------------------------------------------------------------
(* Two flips.  A flipped bit b of byte B adds a power of x to the difference  *)
(* of the two loops when they go over it, which grows by x^8 with every byte  *)
(* after it.                                                                  *)

\* A turn of the loop over an unflipped byte multiplies by x^8.
LEMMA PowerStep == \A m \in Nat : Crc16Step(Power[m], {}) = Power[m + 8]
<1> SUFFICES ASSUME NEW m \in Nat PROVE Crc16Step(Power[m], {}) = Power[m + 8]
  OBVIOUS
<1> DEFINE c == Power[m]
<1>1. \A d, n : BitStep(d, n \in {}) = TimesX(d)
  BY DEF BitStep, TimesX
<1>2. Crc16Step(c, {}) = Division(c, {})
  BY PowerWord, StepDivides
<1>3. Division(c, {}) = TimesX(TimesX(TimesX(TimesX(TimesX(TimesX(TimesX(TimesX(c))))))))
  BY <1>1 DEF Division
<1>4. /\ m + 1 \in Nat /\ m + 2 \in Nat /\ m + 3 \in Nat /\ m + 4 \in Nat
      /\ m + 5 \in Nat /\ m + 6 \in Nat /\ m + 7 \in Nat
      /\ (m + 1) + 1 = m + 2 /\ (m + 2) + 1 = m + 3 /\ (m + 3) + 1 = m + 4
      /\ (m + 4) + 1 = m + 5 /\ (m + 5) + 1 = m + 6 /\ (m + 6) + 1 = m + 7 /\ (m + 7) + 1 = m + 8
  OBVIOUS
<1>5. \A n \in Nat : Power[n + 1] = TimesX(Power[n])
  BY PowerDef
<1>6. /\ Power[m + 1] = TimesX(Power[m]) /\ Power[m + 2] = TimesX(Power[m + 1])
      /\ Power[m + 3] = TimesX(Power[m + 2]) /\ Power[m + 4] = TimesX(Power[m + 3])
      /\ Power[m + 5] = TimesX(Power[m + 4]) /\ Power[m + 6] = TimesX(Power[m + 5])
      /\ Power[m + 7] = TimesX(Power[m + 6]) /\ Power[m + 8] = TimesX(Power[m + 7])
  BY <1>4, <1>5
<1>7. QED
  BY <1>2, <1>3, <1>6

\* Without a flip the difference stays nothing.
LEMMA NothingStep == Crc16Step({}, {}) = {}
BY DEF Crc16Step, Xor, Shr, Shl

\* A turn of the loop over a byte with one flipped bit.
LEMMA FlipStep == \A b \in 0 .. 7 : Crc16Step({}, {b}) = Power[b + 16]
<1> SUFFICES ASSUME NEW b \in 0 .. 7 PROVE Crc16Step({}, {b}) = Power[b + 16]
  OBVIOUS
<1>1. Xor(Shr({}, 8), {b}) = {b} /\ Xor(Shr({b + 8}, 8), {}) = {b}
  BY DEF Xor, Shr
<1>2. Shl({}, 8) = {} /\ Shl({b + 8}, 8) = {}
  BY DEF Shl
<1>3. Crc16Step({}, {b}) = Crc16Step({b + 8}, {})
  BY <1>1, <1>2 DEF Crc16Step
<1>4. Power[b + 8] = {b + 8}
  BY LowPowers
<1>5. b + 8 \in Nat /\ (b + 8) + 8 = b + 16
  OBVIOUS
<1>6. QED
  BY <1>3, <1>4, <1>5, PowerStep

\* What the flip of bit b of byte B has added to the difference when the loops
\* have gone over n bytes, and what it adds going over byte n.
Part(B, b, n) == IF B < n THEN Power[8 * (n - B) + (b + 8)] ELSE {}
Own(B, b, n) == IF B = n THEN {b} ELSE {}

\* A turn of the loop over byte n, for one wrong bit.
LEMMA PartStep ==
  \A B, n \in Nat, b \in 0 .. 7 : Crc16Step(Part(B, b, n), Own(B, b, n)) = Part(B, b, n + 1)
<1> SUFFICES ASSUME NEW B \in Nat, NEW n \in Nat, NEW b \in 0 .. 7
             PROVE  Crc16Step(Part(B, b, n), Own(B, b, n)) = Part(B, b, n + 1)
  OBVIOUS
<1>1. CASE B < n
  <2>1. PICK m \in Nat : m = 8 * (n - B) + (b + 8)
    BY <1>1
  <2>2. m + 8 = 8 * ((n + 1) - B) + (b + 8) /\ B < n + 1 /\ B # n
    BY <1>1, <2>1
  <2>3. Part(B, b, n) = Power[m] /\ Own(B, b, n) = {} /\ Part(B, b, n + 1) = Power[m + 8]
    BY <1>1, <2>1, <2>2 DEF Part, Own
  <2>4. QED
    BY <2>3, PowerStep
<1>2. CASE B = n
  <2>1. Part(B, b, n) = {} /\ Own(B, b, n) = {b}
    BY <1>2 DEF Part, Own
  <2>2. b + 16 = 8 * ((n + 1) - B) + (b + 8) /\ B < n + 1
    BY <1>2
  <2>3. Part(B, b, n + 1) = Power[b + 16]
    BY <2>2 DEF Part
  <2>4. QED
    BY <2>1, <2>3, FlipStep
<1>3. CASE B > n
  <2>1. Part(B, b, n) = {} /\ Own(B, b, n) = {} /\ Part(B, b, n + 1) = {}
    BY <1>3 DEF Part, Own
  <2>2. QED
    BY <2>1, NothingStep
<1>4. QED
  BY <1>1, <1>2, <1>3

\* The two bits the pack has wrong.
Wrong(B, b, C, c) == 8 * B + b # 8 * C + c /\ InPack = {8 * B + b, 8 * C + c}

\* The difference of the two loops is what the two wrong bits have added.
TwoInv ==
  /\ InPack = {} => Difference = {}
  /\ \A B, C \in Nat, b, c \in 0 .. 7 :
       Wrong(B, b, C, c) => Difference = Xor(Part(B, b, k), Part(C, c, k))

LEMMA TwoInvStart ==
  ASSUME sent = received, k = 0
  PROVE  TwoInv
<1>1. Difference = {}
  BY XorSelf DEF Difference
<1>2. \A B \in Nat, b \in 0 .. 7 : Part(B, b, k) = {}
  BY DEF Part
<1>3. Xor({}, {}) = {}
  BY XorSelf
<1>4. QED
  BY <1>1, <1>2, <1>3 DEF TwoInv

\* What the two wrong bits are in a byte.
LEMMA FlipsInByte ==
  ASSUME NEW B \in Nat, NEW C \in Nat, NEW b \in 0 .. 7, NEW c \in 0 .. 7, Wrong(B, b, C, c),
         NEW n \in Nat, n < PackLen
  PROVE  FlipsIn(n) = Xor(Own(B, b, n), Own(C, c, n))
<1>1. \A j \in 0 .. 7 : 8 * n + j \in 0 .. Bits - 1
  BY ChecksumAssumption
<1>2. \A j \in 0 .. 7 : 8 * n + j \in flipped <=> 8 * n + j \in InPack
  BY <1>1 DEF InPack
<1>3. \A j \in 0 .. 7 : j \in FlipsIn(n) <=> (n = B /\ j = b) \/ (n = C /\ j = c)
  BY <1>2 DEF Wrong, FlipsIn
<1>4. ~(B = C /\ b = c)
  BY DEF Wrong
<1>5. \A j \in 0 .. 7 : j \in FlipsIn(n) <=> j \in Xor(Own(B, b, n), Own(C, c, n))
  BY <1>3, <1>4 DEF Own, Xor
<1>6. FlipsIn(n) \subseteq 0 .. 7 /\ Xor(Own(B, b, n), Own(C, c, n)) \subseteq 0 .. 7
  BY DEF FlipsIn, Own, Xor
<1>7. QED
  BY <1>5, <1>6

LEMMA NoFlipsInByte ==
  ASSUME InPack = {}, NEW n \in Nat, n < PackLen
  PROVE  FlipsIn(n) = {}
<1>1. \A j \in 0 .. 7 : 8 * n + j \in 0 .. Bits - 1
  BY ChecksumAssumption
<1>2. QED
  BY <1>1 DEF InPack, FlipsIn

LEMMA TwoInvByte ==
  ASSUME SumInv, TwoInv, SumByte
  PROVE  TwoInv'
<1>1. k \in Nat /\ k < PackLen /\ k' = k + 1 /\ flipped' = flipped /\ InPack' = InPack
  BY ChecksumAssumption DEF SumByte, SumInv, MessageLen, vars, InPack
<1>2. Difference' = Crc16Step(Difference, FlipsIn(k))
  BY DifferenceStep
<1>3. ASSUME InPack = {} PROVE Difference' = {}
  <2>1. FlipsIn(k) = {}
    BY <1>1, <1>3, NoFlipsInByte
  <2>2. QED
    BY <1>2, <1>3, <2>1, NothingStep DEF TwoInv
<1>4. ASSUME NEW B \in Nat, NEW C \in Nat, NEW b \in 0 .. 7, NEW c \in 0 .. 7, Wrong(B, b, C, c)
      PROVE  Difference' = Xor(Part(B, b, k + 1), Part(C, c, k + 1))
  <2>1. FlipsIn(k) = Xor(Own(B, b, k), Own(C, c, k))
    BY <1>1, <1>4, FlipsInByte
  <2>2. Difference = Xor(Part(B, b, k), Part(C, c, k))
    BY <1>4 DEF TwoInv
  <2>3. Difference' = Xor(Crc16Step(Part(B, b, k), Own(B, b, k)), Crc16Step(Part(C, c, k), Own(C, c, k)))
    BY <1>2, <2>1, <2>2, StepLinear
  <2>4. QED
    BY <1>1, <2>3, PartStep
<1>5. QED
  BY <1>1, <1>3, <1>4 DEF TwoInv, Wrong

LEMMA TwoInvStep == SumInv /\ TwoInv /\ [SumNext]_<<vars, sumVars>> => TwoInv'
<1> SUFFICES ASSUME SumInv, TwoInv, [SumNext]_<<vars, sumVars>> PROVE TwoInv'
  OBVIOUS
<1>1. ASSUME k' = 0, sent' = received' PROVE TwoInv'
  <2>1. Difference' = {}
    BY <1>1, XorSelf DEF Difference
  <2>2. \A B \in Nat, b \in 0 .. 7 : Part(B, b, k') = {}
    BY <1>1 DEF Part
  <2>3. Xor({}, {}) = {}
    BY XorSelf
  <2>4. QED
    BY <2>1, <2>2, <2>3 DEF TwoInv
<1>2. CASE Break /\ UNCHANGED sumVars
  <2>1. k = 0
    BY <1>2 DEF Break, Spare, Stop, Again, First, Redraw, SumInv
  <2>2. QED
    BY <1>1, <1>2, <2>1 DEF sumVars, SumInv
<1>3. CASE SumByte
  BY <1>3, TwoInvByte
<1>4. CASE Reload /\ Build
  BY <1>1, <1>4 DEF Build
<1>5. CASE UNCHANGED <<vars, sumVars>>
  BY <1>5 DEF TwoInv, vars, sumVars, Difference, InPack, Wrong
<1>6. QED
  BY <1>2, <1>3, <1>4, <1>5 DEF SumNext

\* With two wrong bits the loops of the sender and of the receiver differ by the
\* sum of what each of the two adds, wherever they are.
THEOREM TwoFlipsAdd == SumSpec => []TwoInv
<1>1. SumInit => TwoInv
  BY TwoInvStart DEF SumInit
<1>2. QED
  BY <1>1, SumInvariance, TwoInvStep, PTL DEF SumSpec

\* What a wrong bit does to the checksum's own bytes, which end the packet.
Trailer(B, b) == IF B = PackLen - 2 THEN {b + 8} ELSE IF B = PackLen - 1 THEN {b} ELSE {}

\* How far bit b of byte B is from the end of the packet.
Weight(B, b) == 8 * ((PackLen - 1) - B) + b

\* Either way a wrong bit adds the power of x that its distance from the end says.
LEMMA WholeBit ==
  ASSUME NEW B \in Nat, B < PackLen, NEW b \in 0 .. 7
  PROVE  Weight(B, b) \in Nat /\ Xor(Part(B, b, PackLen - 2), Trailer(B, b)) = Power[Weight(B, b)]
<1>1. PackLen \in Nat /\ Weight(B, b) \in Nat
  BY ChecksumAssumption DEF Weight
<1>2. \A a : Xor(a, {}) = a /\ Xor({}, a) = a
  BY DEF Xor
<1>3. CASE B < PackLen - 2
  <2>1. Trailer(B, b) = {}
    BY <1>1, <1>3 DEF Trailer
  <2>2. 8 * ((PackLen - 2) - B) + (b + 8) = Weight(B, b)
    BY <1>1, <1>3 DEF Weight
  <2>3. Part(B, b, PackLen - 2) = Power[Weight(B, b)]
    BY <1>3, <2>2 DEF Part
  <2>4. QED
    BY <1>1, <1>2, <2>1, <2>3
<1>4. CASE B = PackLen - 2
  <2>1. Part(B, b, PackLen - 2) = {} /\ Trailer(B, b) = {b + 8} /\ Weight(B, b) = b + 8
    BY <1>1, <1>4 DEF Part, Trailer, Weight
  <2>2. Power[b + 8] = {b + 8}
    BY LowPowers
  <2>3. QED
    BY <1>1, <1>2, <2>1, <2>2
<1>5. CASE B = PackLen - 1
  <2>1. Part(B, b, PackLen - 2) = {} /\ Trailer(B, b) = {b} /\ Weight(B, b) = b
    BY <1>1, <1>5 DEF Part, Trailer, Weight
  <2>2. Power[b] = {b}
    BY LowPowers
  <2>3. QED
    BY <1>1, <1>2, <2>1, <2>2
<1>6. QED
  BY <1>1, <1>3, <1>4, <1>5

\* The test compares the difference with the flips in the checksum's own bytes.
LEMMA TestOfTwo ==
  ASSUME NEW B \in Nat, NEW C \in Nat, NEW b \in 0 .. 7, NEW c \in 0 .. 7, Wrong(B, b, C, c),
         TestPack, SumInv
  PROVE  Difference = Xor(Trailer(B, b), Trailer(C, c))
<1>0. Difference \subseteq 0 .. 15
  BY DEF SumInv, Difference, Xor
<1>1. PackLen - 2 \in Nat /\ PackLen - 2 < PackLen /\ PackLen - 1 \in Nat /\ PackLen - 1 < PackLen
  BY ChecksumAssumption
<1>2. FlipsIn(PackLen - 2) = Xor(Own(B, b, PackLen - 2), Own(C, c, PackLen - 2))
  BY <1>1, FlipsInByte
<1>3. FlipsIn(PackLen - 1) = Xor(Own(B, b, PackLen - 1), Own(C, c, PackLen - 1))
  BY <1>1, FlipsInByte
<1>4. Lo(Difference) = FlipsIn(PackLen - 2) /\ Hi(Difference) = FlipsIn(PackLen - 1)
  BY TestIsOfDifference
<1> DEFINE t == Xor(Trailer(B, b), Trailer(C, c))
<1>5. \A j \in 0 .. 15 : j \in Difference <=> IF j < 8 THEN j \in FlipsIn(PackLen - 1)
                                                       ELSE j - 8 \in FlipsIn(PackLen - 2)
  <2> SUFFICES ASSUME NEW j \in 0 .. 15
               PROVE  j \in Difference <=> IF j < 8 THEN j \in FlipsIn(PackLen - 1)
                                                    ELSE j - 8 \in FlipsIn(PackLen - 2)
    OBVIOUS
  <2>1. CASE j < 8
    BY <1>0, <1>4, <2>1 DEF Hi
  <2>2. CASE j >= 8
    <3>1. j - 8 \in 0 .. 15 /\ (j - 8) + 8 = j
      BY <2>2
    <3>2. j - 8 \in Lo(Difference) <=> j \in Difference
      BY <3>1 DEF Lo, Shr
    <3>3. QED
      BY <1>4, <2>2, <3>2
  <2>3. QED
    BY <2>1, <2>2
<1>6. \A j \in 0 .. 15 : j \in t <=> IF j < 8 THEN j \in FlipsIn(PackLen - 1)
                                              ELSE j - 8 \in FlipsIn(PackLen - 2)
  <2>1. PackLen - 2 # PackLen - 1
    BY ChecksumAssumption
  <2>2. ASSUME NEW D, NEW d \in 0 .. 7, NEW j \in 0 .. 15
        PROVE  j \in Trailer(D, d) <=> IF j < 8 THEN j \in Own(D, d, PackLen - 1)
                                             ELSE j - 8 \in Own(D, d, PackLen - 2)
    BY <2>1 DEF Trailer, Own
  <2>3. QED
    BY <1>2, <1>3, <2>2, XorIn
<1>7. t \subseteq 0 .. 15
  BY DEF Trailer, Xor
<1> HIDE DEF t
<1>8. Difference = t
  BY <1>0, <1>5, <1>6, <1>7
<1>9. QED
  BY <1>8 DEF t

LEMMA XorCross == \A p, q, s, t : Xor(p, q) = Xor(s, t) => Xor(p, s) = Xor(q, t)
<1> SUFFICES ASSUME NEW p, NEW q, NEW s, NEW t, Xor(p, q) = Xor(s, t) PROVE Xor(p, s) = Xor(q, t)
  OBVIOUS
<1>1. \A e : e \in Xor(p, q) <=> e \in Xor(s, t)
  OBVIOUS
<1>2. \A e : e \in Xor(p, s) <=> e \in Xor(q, t)
  BY <1>1, XorIn
<1>3. QED
  BY <1>2

\* Two wrong bits that are less than the order of x apart do not pass.
LEMMA TwoNotPassed ==
  ASSUME PackLen <= 4095, SumInv, TwoInv, Tested,
         NEW B \in Nat, NEW C \in Nat, NEW b \in 0 .. 7, NEW c \in 0 .. 7, Wrong(B, b, C, c)
  PROVE  ~TestPack
<1> SUFFICES ASSUME TestPack PROVE FALSE
  OBVIOUS
<1> DEFINE v == Weight(B, b)
           w == Weight(C, c)
<1>1. B < PackLen /\ C < PackLen /\ k = PackLen - 2
  <2>1. 8 * B + b \in 0 .. Bits - 1 /\ 8 * C + c \in 0 .. Bits - 1
    BY DEF Wrong, InPack
  <2>2. QED
    BY <2>1, ChecksumAssumption DEF Tested, MessageLen
<1>2. v \in Nat /\ Xor(Part(B, b, k), Trailer(B, b)) = Power[v]
  BY <1>1, WholeBit
<1>3. w \in Nat /\ Xor(Part(C, c, k), Trailer(C, c)) = Power[w]
  BY <1>1, WholeBit
<1>4. Difference = Xor(Part(B, b, k), Part(C, c, k))
  BY DEF TwoInv
<1>5. Difference = Xor(Trailer(B, b), Trailer(C, c))
  BY TestOfTwo
<1>6. Xor(Part(B, b, k), Part(C, c, k)) = Xor(Trailer(B, b), Trailer(C, c))
  BY <1>4, <1>5
<1>7. Xor(Part(B, b, k), Trailer(B, b)) = Xor(Part(C, c, k), Trailer(C, c))
  BY <1>6, XorCross
<1>8. Power[v] = Power[w]
  BY <1>2, <1>3, <1>7
<1>9. v # w /\ v < Order /\ w < Order
  BY <1>1, ChecksumAssumption DEF Weight, Wrong, Order
<1> HIDE DEF v, w
<1>10. ASSUME NEW m \in Nat, NEW n \in Nat, m < n, n < Order, Power[m] = Power[n] PROVE FALSE
  <2>1. n - m \in Nat /\ 0 < n - m /\ n - m < Order /\ (n - m) + m = n
    BY <1>10 DEF Order
  <2>2. Power[n - m] = {0}
    BY <1>10, <2>1, Cancel
  <2>3. QED
    BY <2>1, <2>2, OrderOfX
<1>11. QED
  BY <1>2, <1>3, <1>8, <1>9, <1>10 DEF Order

LEMMA InPackFinite == IsFiniteSet(InPack) /\ Cardinality(InPack) \in Nat
<1>1. IsFiniteSet(0 .. Bits - 1)
  BY ChecksumAssumption, FS_Interval
<1>2. InPack \in SUBSET (0 .. Bits - 1)
  BY DEF InPack
<1>3. QED
  BY <1>1, <1>2, FS_Subset, FS_CardinalityType

LEMMA PairOfBits ==
  ASSUME Cardinality(InPack) = 2
  PROVE  \E B, C \in Nat, b, c \in 0 .. 7 : Wrong(B, b, C, c)
<1>1. InPack # {}
  BY FS_EmptySet
<1>2. PICK i : i \in InPack
  BY <1>1
<1> DEFINE rest == InPack \ {i}
<1>3. IsFiniteSet(rest) /\ Cardinality(rest) = 1
  BY <1>2, InPackFinite, FS_RemoveElement
<1>4. PICK j : rest = {j}
  BY <1>3, FS_Singleton
<1>5. InPack = {i, j} /\ i # j
  BY <1>2, <1>4
<1>6. i \in Nat /\ j \in Nat
  BY <1>5 DEF InPack
<1>7. \A n \in Nat : \E q, r \in Nat : n = 8 * q + r /\ r < 8
  <2>1. PICK g : g = 8
    OBVIOUS
  <2>2. g \in Nat /\ g > 0
    BY <2>1
  <2>3. \A n \in Nat : \E q, r \in Nat : n = g * q + r /\ r < g
    BY <2>2, DivMod
  <2>4. QED
    BY <2>1, <2>3, Zenon
<1>8. PICK B \in Nat, b \in Nat : i = 8 * B + b /\ b < 8
  BY <1>6, <1>7
<1>9. PICK C \in Nat, c \in Nat : j = 8 * C + c /\ c < 8
  BY <1>6, <1>7
<1>10. b \in 0 .. 7 /\ c \in 0 .. 7 /\ Wrong(B, b, C, c)
  BY <1>5, <1>8, <1>9 DEF Wrong
<1>11. QED
  BY <1>8, <1>9, <1>10

\* A packet of up to 4095 bytes passes the test exactly if it arrived as it was
\* built, for up to two flips anywhere in it.  Two flips 32767 bits apart, which
\* need one byte more, would pass: that is the order of x.
THEOREM TwoFlipsNoticed == PackLen <= 4095 /\ SumSpec => []FlipsNoticed
<1> SUFFICES ASSUME PackLen <= 4095 PROVE SumSpec => []FlipsNoticed
  OBVIOUS
<1>1. SumInv /\ TwoInv => FlipsNoticed
  <2> SUFFICES ASSUME SumInv, TwoInv, Tested, Cardinality(InPack) <= 2
               PROVE  TestPack <=> InPack = {}
    BY DEF FlipsNoticed
  <2>1. Cardinality(InPack) \in {0, 1, 2}
    BY InPackFinite
  <2>2. CASE InPack = {}
    <3>1. PackLen - 2 \in Nat /\ PackLen - 2 < PackLen /\ PackLen - 1 \in Nat /\ PackLen - 1 < PackLen
      BY ChecksumAssumption
    <3>2. FlipsIn(PackLen - 2) = {} /\ FlipsIn(PackLen - 1) = {}
      BY <2>2, <3>1, NoFlipsInByte
    <3>3. Difference = {}
      BY <2>2 DEF TwoInv
    <3>4. Lo({}) = {} /\ Hi({}) = {}
      BY DEF Lo, Hi, Shr
    <3>5. QED
      BY <2>2, <3>2, <3>3, <3>4, TestIsOfDifference
  <2>3. CASE InPack # {} /\ Cardinality(InPack) = 1
    <3>1. Cardinality(InPack) % 2 = 1
      BY <2>3
    <3>2. QED
      BY <2>3, <3>1, OddNotPassed DEF OddNoticed
  <2>4. CASE InPack # {} /\ Cardinality(InPack) = 2
    <3>1. PICK B \in Nat, C \in Nat, b \in 0 .. 7, c \in 0 .. 7 : Wrong(B, b, C, c)
      BY <2>4, PairOfBits
    <3>2. ~TestPack
      BY <3>1, TwoNotPassed
    <3>3. QED
      BY <2>4, <3>2
  <2>5. Cardinality(InPack) = 0 => InPack = {}
    BY InPackFinite, FS_EmptySet
  <2>6. QED
    BY <2>1, <2>2, <2>3, <2>4, <2>5
<1>2. QED
  BY <1>1, SumInvariance, TwoFlipsAdd, PTL
=============================================================================
