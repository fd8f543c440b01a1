-------------------------- MODULE RtpStreamProofs --------------------------
(***************************************************************************)
(* The reorder buffer keeps the stream in order and itself within its      *)
(* window: for every size of the sequence space, window, body, FEC group   *)
(* and starting number, and however the network repeats and reorders.      *)
(***************************************************************************)
EXTENDS RtpStream, SequenceTheorems, FiniteSetTheorems, WellFoundedInduction, TLAPS

-----------------------------------------------------------------------------
(* Arithmetic of the sequence space.                                       *)

\* Half really is half the (even) sequence space.
LEMMA HalfFact == Half \in Nat /\ 2 * Half = SeqSpace /\ SeqSpace \in Nat
BY SeqSpaceAssumption DEF Half

\* Dist undoes SeqAdd.
LEMMA DistAdd ==
  ASSUME NEW e \in Seqs, NEW d \in 0 .. (SeqSpace - 1)
  PROVE  SeqAdd(e, d) \in Seqs /\ Dist(SeqAdd(e, d), e) = d
BY SeqSpaceAssumption DEF Seqs, SeqAdd, Dist

\* Two multiples less than two apart are equal or next to each other.
LEMMA NearMultiple ==
  ASSUME NEW n \in Nat, n > 0, NEW q \in Int, NEW p \in Int, -n < n*q - n*p, n*q - n*p < 2*n
  PROVE  q = p \/ q = p + 1
<1>1. n*q - n*p = n * (q - p)
  OBVIOUS
<1>2. CASE q - p <= -1
  <2>1. n * (q - p) <= -n
     BY <1>2
  <2> QED BY <1>1, <2>1
<1>3. CASE q - p >= 2
  <2>1. n * (q - p) >= 2*n
     BY <1>3
  <2> QED BY <1>1, <2>1
<1> QED BY <1>2, <1>3

\* Quotient and remainder.
LEMMA DivMod ==
  ASSUME NEW x \in Nat, NEW n \in Nat, n > 0
  PROVE  /\ x \div n \in Int
         /\ x % n \in 0 .. (n - 1)
         /\ x = n * (x \div n) + (x % n)
OBVIOUS

\* A remainder advances by one subtraction at most.
LEMMA ModAdd ==
  ASSUME NEW x \in Nat, NEW n \in Nat, n > 0, NEW d \in Nat, d < n
  PROVE  (x + d) % n = IF (x % n) + d < n THEN (x % n) + d ELSE (x % n) + d - n
<1> DEFINE y == x + d
           q == x \div n
           p == y \div n
           r == x % n
           t == y % n
<1>1. q \in Int /\ r \in 0 .. (n - 1) /\ x = n * q + r
  BY DivMod
<1>2. p \in Int /\ t \in 0 .. (n - 1) /\ y = n * p + t
  <2>1. y \in Nat
    OBVIOUS
  <2> QED BY <2>1, DivMod
<1> HIDE DEF q, p, r, t
<1>3. n * p - n * q = r + d - t
  BY <1>1, <1>2
<1>4. p = q \/ p = q + 1
  BY <1>1, <1>2, <1>3, NearMultiple
<1>5. CASE p = q
  BY <1>1, <1>2, <1>3, <1>5 DEF r, t
<1>6. CASE p = q + 1
  <2>1. n * p = n * q + n
    BY <1>1, <1>2, <1>6
  <2> QED BY <1>1, <1>2, <1>3, <2>1 DEF r, t
<1> QED BY <1>4, <1>5, <1>6

\* The sequence number d packets on, across the wrap.
LEMMA SeqNoAdd ==
  ASSUME NEW a \in Nat, NEW d \in Nat, d < SeqSpace
  PROVE  /\ SeqNo(a) \in Seqs
         /\ SeqNo(a + d) = SeqAdd(SeqNo(a), d)
<1>1. FirstSeq + a \in Nat /\ SeqSpace \in Nat /\ SeqSpace > 0 /\ FirstSeq \in Nat
  BY SeqSpaceAssumption, StreamAssumption DEF Seqs
<1>2. (FirstSeq + a) % SeqSpace \in 0 .. (SeqSpace - 1)
  BY <1>1, DivMod
<1>3. ((FirstSeq + a) + d) % SeqSpace = IF ((FirstSeq + a) % SeqSpace) + d < SeqSpace
         THEN ((FirstSeq + a) % SeqSpace) + d ELSE ((FirstSeq + a) % SeqSpace) + d - SeqSpace
  BY <1>1, ModAdd
<1>4. FirstSeq + (a + d) = (FirstSeq + a) + d
  BY <1>1
<1> QED BY <1>2, <1>3, <1>4 DEF SeqNo, SeqAdd, Seqs

\* Packets have sequence numbers.
LEMMA SeqNoInSpace ==
  ASSUME NEW a \in Nat PROVE SeqNo(a) \in Seqs
<1>1. 0 \in Nat /\ 0 < SeqSpace
  BY SeqSpaceAssumption
<1> QED BY <1>1, SeqNoAdd

\* SeqAdd undoes Dist.
LEMMA AddDist ==
  ASSUME NEW s \in Seqs, NEW e \in Seqs
  PROVE  Dist(s, e) \in 0 .. (SeqSpace - 1) /\ SeqAdd(e, Dist(s, e)) = s
BY SeqSpaceAssumption DEF Seqs, SeqAdd, Dist

\* Two advances make one.
LEMMA AddAdd ==
  ASSUME NEW e \in Seqs, NEW j \in Nat, NEW i \in Nat, j + i < SeqSpace
  PROVE  SeqAdd(SeqAdd(e, j), i) = SeqAdd(e, j + i)
BY SeqSpaceAssumption DEF Seqs, SeqAdd

\* Distances shrink as the origin advances.
LEMMA DistShift ==
  ASSUME NEW s \in Seqs, NEW e \in Seqs, NEW j \in 0 .. Dist(s, e)
  PROVE  Dist(s, SeqAdd(e, j)) = Dist(s, e) - j
BY SeqSpaceAssumption DEF Seqs, SeqAdd, Dist

\* A packet less than half the space ahead of n is that far ahead in the sequence
\* space; one less than half behind is seen as at least half ahead.
LEMMA SeqNoDist ==
  ASSUME NEW n \in Nat, NEW i \in Nat, i - n < Half, n - i < Half
  PROVE  /\ i >= n => Dist(SeqNo(i), SeqNo(n)) = i - n
         /\ i < n  => Dist(SeqNo(i), SeqNo(n)) > Half
<1>1. CASE i >= n
  <2>1. i - n \in Nat /\ i - n < SeqSpace /\ n + (i - n) = i
    BY <1>1, HalfFact
  <2>2. SeqNo(n) \in Seqs /\ SeqNo(i) = SeqAdd(SeqNo(n), i - n)
    BY <2>1, SeqNoAdd
  <2> QED BY <1>1, <2>1, <2>2, DistAdd, HalfFact
<1>2. CASE i < n
  <2>1. n - i \in Nat /\ n - i < SeqSpace /\ i + (n - i) = n /\ n - i > 0
    BY <1>2, HalfFact
  <2>2. SeqNo(i) \in Seqs /\ SeqNo(n) = SeqAdd(SeqNo(i), n - i)
    BY <2>1, SeqNoAdd
  <2> QED BY <1>2, <2>1, <2>2, HalfFact DEF SeqAdd, Dist, Seqs
<1> QED BY <1>1, <1>2

\* A set of natural numbers that is not empty has a least element.
LEMMA LeastNat ==
  ASSUME NEW T, T \subseteq Nat, T # {}
  PROVE  \E x \in T : \A y \in T : x <= y
<1> DEFINE less == {ss \in Nat \X Nat : ss[1] < ss[2]}
<1>1. IsWellFoundedOn(less, Nat)
  BY NatLessThanWellFounded DEF OpToRel
<1> HIDE DEF less
<1>2. PICK x \in T : \A y \in T : ~(<<y, x>> \in less)
  BY <1>1, WFMin
<1>3. \A y \in T : ~(<<y, x>> \in less) => x <= y
  BY DEF less
<1> QED BY <1>2, <1>3

-----------------------------------------------------------------------------
(* The reorder buffer.                                                     *)

WidestReorder   == IF RescueWindow > ReorderWindow THEN RescueWindow ELSE ReorderWindow
WidestTolerance == IF RescueTolerance > LossTolerance THEN RescueTolerance ELSE LossTolerance

Buffers ==
  [expected : Seqs, started : BOOLEAN, pending : UNION {[D -> Nat] : D \in SUBSET Seqs},
   reorderWindow : 0 .. WidestReorder, lossTolerance : 0 .. WidestTolerance]

\* What b holds lies j to totalWindow ahead of the expected packet n, each packet
\* in its own place.
Holds(b, n, j) ==
  /\ b.expected = SeqNo(n)
  /\ \A s \in DOMAIN b.pending :
       LET d == Dist(s, b.expected) IN d \in j .. totalWindow(b) /\ b.pending[s] = n + d

\* The windows are far smaller than half the sequence space.
LEMMA WindowFact ==
  /\ MaxWindow \in Nat /\ MaxWindow = WidestReorder + WidestTolerance
  /\ WidestReorder \in Nat /\ WidestTolerance \in Nat
  /\ Span \in Nat /\ Span + 2 * (MaxWindow + 1) < Half
  /\ Half \in Nat /\ 2 * Half = SeqSpace /\ SeqSpace \in Nat
BY StreamAssumption, HalfFact DEF MaxWindow, WidestReorder, WidestTolerance

\* The fields of a buffer.
LEMMA BufferFields ==
  ASSUME NEW b \in Buffers
  PROVE  /\ b.expected \in Seqs /\ b.started \in BOOLEAN
         /\ DOMAIN b.pending \subseteq Seqs
         /\ \A s \in DOMAIN b.pending : b.pending[s] \in Nat
         /\ b.reorderWindow \in 0 .. WidestReorder /\ b.lossTolerance \in 0 .. WidestTolerance
         /\ totalWindow(b) \in 0 .. MaxWindow
<1>1. /\ b.expected \in Seqs /\ b.started \in BOOLEAN
      /\ b.pending \in UNION {[D -> Nat] : D \in SUBSET Seqs}
      /\ b.reorderWindow \in 0 .. WidestReorder /\ b.lossTolerance \in 0 .. WidestTolerance
  BY DEF Buffers
<1>2. PICK D \in SUBSET Seqs : b.pending \in [D -> Nat]
  BY <1>1
<1> QED BY <1>1, <1>2, WindowFact DEF totalWindow

\* RunLength from j ahead of expected: it stops within the window.
LEMMA RunStops ==
  ASSUME NEW b \in Buffers, NEW n \in Nat, NEW j \in 0 .. (MaxWindow + 1), Holds(b, n, j)
  PROVE  LET from == SeqAdd(b.expected, j)
             m    == RunLength(b.pending, from)
         IN  /\ m \in 0 .. (MaxWindow + 1 - j)
             /\ \A i \in 0 .. (m - 1) : SeqAdd(from, i) \in DOMAIN b.pending
             /\ SeqAdd(from, m) \notin DOMAIN b.pending
<1> DEFINE from == SeqAdd(b.expected, j)
           k == MaxWindow + 1 - j
           T == {i \in 0 .. k : SeqAdd(from, i) \notin DOMAIN b.pending}
           P(x) == /\ \A i \in 0 .. (x - 1) : SeqAdd(from, i) \in DOMAIN b.pending
                   /\ x = SeqSpace \/ SeqAdd(from, x) \notin DOMAIN b.pending
           m == RunLength(b.pending, from)
<1>1. k \in Nat /\ j + k = MaxWindow + 1 /\ j + k < SeqSpace /\ k < SeqSpace /\ j \in Nat
  BY WindowFact
<1>2. SeqAdd(from, k) \notin DOMAIN b.pending
  <2>1. SeqAdd(from, k) = SeqAdd(b.expected, MaxWindow + 1)
    BY <1>1, AddAdd, BufferFields
  <2>2. Dist(SeqAdd(from, k), b.expected) = MaxWindow + 1
    BY <2>1, DistAdd, BufferFields, WindowFact
  <2> QED BY <2>2, BufferFields, WindowFact DEF Holds
<1>3. PICK x \in T : \A y \in T : x <= y
  <2>1. T \subseteq Nat /\ k \in T
    BY <1>1, <1>2
  <2> QED BY <2>1, LeastNat
<1>4. x \in 0 .. k /\ x \in 0 .. SeqSpace /\ P(x)
  <2>1. x \in 0 .. k /\ x \in 0 .. SeqSpace /\ SeqAdd(from, x) \notin DOMAIN b.pending
    BY <1>1, <1>3, WindowFact
  <2>2. ASSUME NEW i \in 0 .. (x - 1) PROVE SeqAdd(from, i) \in DOMAIN b.pending
    <3>1. i \in 0 .. k /\ ~(x <= i)
      BY <2>1, <1>1
    <3> QED BY <3>1, <1>3
  <2> QED BY <2>1, <2>2
<1>5. m \in 0 .. SeqSpace /\ P(m)
  <2>1. m = CHOOSE y \in 0 .. SeqSpace : P(y)
    BY DEF RunLength
  <2> HIDE DEF m, P, T
  <2> QED BY <1>4, <2>1
<1>6. m <= x
  <2>1. ~(x < m)
    BY <1>3, <1>4, <1>5, <1>1
  <2> QED BY <1>4, <1>5, <2>1
<1> HIDE DEF m
<1>7. m # SeqSpace
  BY <1>1, <1>4, <1>5, <1>6
<1> QED BY <1>1, <1>4, <1>5, <1>6, <1>7 DEF m

\* flushReady: the packets n + j, n + j + 1, ... in order, and a buffer that waits
\* for the one after them.
LEMMA FlushReady ==
  ASSUME NEW b \in Buffers, NEW n \in Nat, NEW j \in 0 .. (MaxWindow + 1), Holds(b, n, j)
  PROVE  LET f == flushReady(b, SeqAdd(b.expected, j))
             m == RunLength(b.pending, SeqAdd(b.expected, j))
         IN  /\ m \in 0 .. (MaxWindow + 1 - j)
             /\ f.ready \in Seq(Nat) /\ Len(f.ready) = m
             /\ \A i \in 1 .. m : f.ready[i] = n + j + i - 1
             /\ f.buf \in Buffers /\ f.buf.started = b.started
             /\ Holds(f.buf, n + j + m, 1)
             /\ SeqAdd(b.expected, j) \in DOMAIN b.pending => m >= 1
<1> DEFINE from == SeqAdd(b.expected, j)
           m == RunLength(b.pending, from)
           f == flushReady(b, from)
           kept == {s \in DOMAIN b.pending : Dist(s, from) >= m}
           e == SeqAdd(from, m)
<1>1. /\ m \in 0 .. (MaxWindow + 1 - j)
      /\ \A i \in 0 .. (m - 1) : SeqAdd(from, i) \in DOMAIN b.pending
      /\ SeqAdd(from, m) \notin DOMAIN b.pending
  BY RunStops
<1>2. /\ f.ready = [i \in 1 .. m |-> b.pending[SeqAdd(from, i - 1)]]
      /\ f.buf = [b EXCEPT !.expected = e, !.pending = [s \in kept |-> b.pending[s]]]
  BY DEF flushReady
<1> HIDE DEF m, f
<1>3. j \in Nat /\ m \in Nat /\ j + m <= MaxWindow + 1 /\ j + m < SeqSpace /\ j < SeqSpace
  BY <1>1, WindowFact
<1>4. \A i \in 0 .. m : /\ SeqAdd(from, i) = SeqAdd(b.expected, j + i)
                         /\ Dist(SeqAdd(from, i), b.expected) = j + i
                         /\ SeqAdd(from, i) \in Seqs
  <2> TAKE i \in 0 .. m
  <2>1. i \in Nat /\ j + i < SeqSpace /\ j + i \in 0 .. (SeqSpace - 1)
    BY <1>3, WindowFact
  <2>2. SeqAdd(from, i) = SeqAdd(b.expected, j + i)
    BY <1>3, <2>1, AddAdd, BufferFields
  <2> QED BY <2>1, <2>2, DistAdd, BufferFields
<1>5. \A i \in 1 .. m : b.pending[SeqAdd(from, i - 1)] = n + j + i - 1
  <2> TAKE i \in 1 .. m
  <2>1. i - 1 \in 0 .. (m - 1) /\ i - 1 \in 0 .. m
    BY <1>3
  <2>2. SeqAdd(from, i - 1) \in DOMAIN b.pending /\ Dist(SeqAdd(from, i - 1), b.expected) = j + (i - 1)
    BY <1>1, <1>4, <2>1
  <2>3. b.pending[SeqAdd(from, i - 1)] = n + (j + (i - 1))
    BY <2>2 DEF Holds
  <2> QED BY <2>3, <1>3
<1>6. /\ f.ready \in Seq(Nat) /\ Len(f.ready) = m
      /\ \A i \in 1 .. m : f.ready[i] = n + j + i - 1
  <2>1. f.ready = [i \in 1 .. m |-> n + j + i - 1]
    BY <1>2, <1>5
  <2>2. \A i \in 1 .. m : n + j + i - 1 \in Nat
    BY <1>3
  <2> HIDE DEF f
  <2>3. f.ready \in [1 .. m -> Nat]
    BY <2>1, <2>2
  <2> QED BY <1>3, <2>1, <2>3
<1>7. e \in Seqs /\ e = SeqNo(n + j + m)
  <2>1. e = SeqAdd(SeqNo(n), j + m) /\ e \in Seqs
    BY <1>3, <1>4 DEF Holds
  <2>2. SeqNo(n + (j + m)) = SeqAdd(SeqNo(n), j + m) /\ n + (j + m) = n + j + m
    BY <1>3, SeqNoAdd
  <2> QED BY <2>1, <2>2
<1>8. f.buf \in Buffers /\ f.buf.started = b.started
  <2>1. [s \in kept |-> b.pending[s]] \in [kept -> Nat] /\ kept \in SUBSET Seqs
    BY BufferFields
  <2>2. [s \in kept |-> b.pending[s]] \in UNION {[D -> Nat] : D \in SUBSET Seqs}
    BY <2>1
  <2> HIDE DEF kept, e
  <2> QED BY <1>2, <1>7, <2>2 DEF Buffers
<1>9. ASSUME NEW s \in kept
      PROVE  Dist(s, e) \in 1 .. totalWindow(b) /\ b.pending[s] = n + j + m + Dist(s, e)
  <2>1. /\ s \in DOMAIN b.pending /\ s \in Seqs /\ b.expected \in Seqs
        /\ Dist(s, b.expected) \in j .. totalWindow(b)
        /\ b.pending[s] = n + Dist(s, b.expected)
    BY BufferFields DEF Holds
  <2>2. Dist(s, from) = Dist(s, b.expected) - j
    BY <2>1, <1>3, DistShift, BufferFields
  <2>3. j + m <= Dist(s, b.expected)
    BY <2>1, <2>2, <1>3, BufferFields
  <2>4. Dist(s, e) = Dist(s, b.expected) - (j + m)
    <3>1. e = SeqAdd(b.expected, j + m)
      BY <1>4, <1>3
    <3>2. j + m \in 0 .. Dist(s, b.expected)
      BY <1>3, <2>3, <2>1, BufferFields
    <3> HIDE DEF e
    <3> QED BY <3>1, <3>2, <2>1, DistShift
  <2>5. Dist(s, e) # 0
    <3>1. SUFFICES ASSUME Dist(s, e) = 0 PROVE FALSE
      OBVIOUS
    <3>2. s = e
      BY <2>1, <1>7, <3>1, SeqSpaceAssumption DEF Dist, Seqs
    <3> QED BY <3>2, <1>1, <2>1
  <2> HIDE DEF e
  <2> QED BY <2>1, <2>3, <2>4, <2>5, <1>3, BufferFields
<1>10. Holds(f.buf, n + j + m, 1)
  <2>1. /\ f.buf.expected = e /\ f.buf.pending = [s \in kept |-> b.pending[s]]
        /\ f.buf.reorderWindow = b.reorderWindow /\ f.buf.lossTolerance = b.lossTolerance
    BY <1>2 DEF Buffers
  <2>2. DOMAIN f.buf.pending = kept /\ \A s \in kept : f.buf.pending[s] = b.pending[s]
    BY <2>1
  <2> HIDE DEF kept, e
  <2> QED BY <1>7, <1>9, <2>1, <2>2 DEF Holds, totalWindow
<1>11. from \in DOMAIN b.pending => m >= 1
  <2>1. SeqAdd(from, 0) = from
    BY <1>3, BufferFields, SeqSpaceAssumption DEF SeqAdd, Seqs
  <2> QED BY <2>1, <1>1, <1>3
<1> QED BY <1>1, <1>6, <1>8, <1>10, <1>11 DEF m, f

-----------------------------------------------------------------------------
(* The buffer and the packets it has released.                             *)

After(dec) == dec[Len(dec)] + 1

Ordered(dec) == \A i, j \in 1 .. Len(dec) : i < j => dec[i] < dec[j]

BufInv(b, dec) ==
  /\ b \in Buffers /\ dec \in Seq(Nat) /\ Ordered(dec)
  /\ dec = <<>> <=> ~b.started
  /\ ~b.started => DOMAIN b.pending = {}
  /\ b.started => Holds(b, After(dec), 1)

\* The last packet released is the latest.
LEMMA AfterFact ==
  ASSUME NEW dec \in Seq(Nat), Ordered(dec), dec # <<>>
  PROVE  After(dec) \in Nat /\ \A i \in 1 .. Len(dec) : dec[i] < After(dec)
<1>1. Len(dec) \in 1 .. Len(dec) /\ Len(dec) \in Nat
  OBVIOUS
<1>2. dec[Len(dec)] \in Nat /\ \A i \in 1 .. Len(dec) : dec[i] \in Nat
  BY <1>1
<1>3. \A i \in 1 .. Len(dec) : i = Len(dec) \/ i < Len(dec)
  BY <1>1
<1> QED BY <1>1, <1>2, <1>3 DEF Ordered, After

\* The packets a, a + 1, ...
Run(s, a) == s \in Seq(Nat) /\ s # <<>> /\ \A i \in 1 .. Len(s) : s[i] = a + i - 1

\* A run of packets a, a + 1, ... that lies after everything released extends it.
LEMMA AppendRun ==
  ASSUME NEW dec \in Seq(Nat), Ordered(dec), NEW run \in Seq(Nat), run # <<>>,
         NEW a \in Nat, dec # <<>> => After(dec) <= a,
         \A i \in 1 .. Len(run) : run[i] = a + i - 1
  PROVE  /\ dec \o run \in Seq(Nat) /\ dec \o run # <<>> /\ Ordered(dec \o run)
         /\ After(dec \o run) = a + Len(run)
<1> DEFINE all == dec \o run
           p == Len(dec)
           q == Len(run)
<1>1. p \in Nat /\ q \in Nat /\ q >= 1
  OBVIOUS
<1>2. /\ all \in Seq(Nat) /\ Len(all) = p + q
      /\ \A i \in 1 .. (p + q) : all[i] = IF i <= p THEN dec[i] ELSE run[i - p]
  BY ConcatProperties
<1>3. \A i \in (p + 1) .. (p + q) : all[i] = a + (i - p) - 1
  BY <1>1, <1>2, SMTT(60)
<1>4. \A i \in 1 .. p : all[i] \in Nat /\ all[i] < a /\ all[i] = dec[i]
  <2> TAKE i \in 1 .. p
  <2>1. dec # <<>> /\ i \in 1 .. (p + q) /\ i <= p
    BY <1>1
  <2>2. dec[i] < After(dec) /\ After(dec) \in Nat /\ dec[i] \in Nat
    BY <2>1, AfterFact
  <2> QED BY <1>2, <2>1, <2>2
<1> HIDE DEF all, p, q
<1>5. Ordered(all)
  <2> SUFFICES ASSUME NEW i \in 1 .. (p + q), NEW j \in 1 .. (p + q), i < j
               PROVE  all[i] < all[j]
    BY <1>2 DEF Ordered
  <2>1. CASE j <= p
    <3>1. i \in 1 .. p /\ j \in 1 .. p
      BY <1>1, <2>1
    <3>2. dec[i] < dec[j]
      BY <3>1 DEF Ordered, p
    <3> QED BY <3>1, <3>2, <1>4
  <2>2. CASE i <= p /\ j > p
    <3>1. i \in 1 .. p /\ j \in (p + 1) .. (p + q)
      BY <1>1, <2>2
    <3> QED BY <3>1, <1>1, <1>3, <1>4
  <2>3. CASE i > p
    <3>1. i \in (p + 1) .. (p + q) /\ j \in (p + 1) .. (p + q)
      BY <1>1, <2>3
    <3> QED BY <3>1, <1>1, <1>3
  <2> QED BY <1>1, <2>1, <2>2, <2>3
<1>6. After(all) = a + q
  <2> DEFINE t == p + q
  <2>1. t \in (p + 1) .. (p + q) /\ t - p = q
    BY <1>1
  <2> HIDE DEF t
  <2>2. all[t] = a + (t - p) - 1
    BY <2>1, <1>3
  <2> QED BY <2>1, <2>2, <1>1, <1>2 DEF After, t
<1>7. all # <<>>
  BY <1>1, <1>2
<1> QED BY <1>2, <1>5, <1>6, <1>7 DEF all, q

\* The outcome of Push follows from the distance.
LEMMA PushStates ==
  ASSUME NEW b, NEW s \in Seqs, Started(b, s) \in Buffers
  PROVE  LET c == Started(b, s)
             d == Dist(s, c.expected)
         IN  /\ d \in 0 .. (SeqSpace - 1)
             /\ PushState(b, s) = "in_order" <=> d = 0
             /\ PushState(b, s) \in {"buffered", "gap_tolerated"} => d \in 1 .. totalWindow(c)
             /\ PushState(b, s) \in {"in_order", "buffered", "gap_tolerated", "duplicate",
                                     "gap_overflow", "late"}
<1> DEFINE c == Started(b, s)
           d == Dist(s, c.expected)
           w == totalWindow(c)
<1>1. d \in 0 .. (SeqSpace - 1) /\ w \in Nat
  BY AddDist, BufferFields
<1>2. PushState(b, s) =
        IF d = 0 THEN "in_order"
        ELSE IF d >= Half THEN "late"
        ELSE IF d > w THEN "gap_overflow"
        ELSE IF s \in DOMAIN c.pending THEN "duplicate"
        ELSE IF d > c.reorderWindow THEN "gap_tolerated" ELSE "buffered"
  <2>1. PushState(b, s) =
          CASE d = 0                                    -> "in_order"
            [] d > 0 /\ d < Half /\ d > w  -> "gap_overflow"
            [] d > 0 /\ d < Half /\ d <= w ->
                 IF s \in DOMAIN c.pending THEN "duplicate"
                 ELSE IF d > c.reorderWindow THEN "gap_tolerated" ELSE "buffered"
            [] d >= Half                                -> "late"
    BY DEF PushState
  <2> HIDE DEF c, d, w
  <2>2. Half \in Nat /\ 2 * Half = SeqSpace /\ SeqSpace >= 4
    BY HalfFact, SeqSpaceAssumption
  <2> QED BY <1>1, <2>1, <2>2
<1> HIDE DEF c, d, w
<1> QED BY <1>1, <1>2, HalfFact DEF c, d, w

\* Push in order: the packet, and what was waiting behind it.
LEMMA PushInOrderKeeps ==
  ASSUME NEW b, NEW dec, NEW id \in Nat, BufInv(b, dec),
         dec # <<>> => id - After(dec) < Half /\ After(dec) - id < Half,
         PushState(b, SeqNo(id)) = "in_order"
  PROVE  LET r == Push(b, SeqNo(id), id)
         IN  /\ BufInv(r.buf, dec \o r.ready) /\ dec \o r.ready # <<>>
             /\ dec = <<>> => After(dec \o r.ready) = id + 1
             /\ dec # <<>> => After(dec \o r.ready) \in After(dec) .. (After(dec) + MaxWindow + 1)
             /\ Run(r.ready, id) /\ (dec # <<>> => id = After(dec))
<1> DEFINE c == Started(b, SeqNo(id))
           from == SeqAdd(SeqNo(id), 1)
           f == flushReady(c, from)
           m == RunLength(c.pending, from)
           r == Push(b, SeqNo(id), id)
<1>1. SeqNo(id) \in Seqs
  BY SeqNoInSpace
<1>2. b \in Buffers /\ dec \in Seq(Nat) /\ Ordered(dec)
  BY DEF BufInv
<1>3. c \in Buffers /\ c.started = TRUE /\ c.pending = b.pending
      /\ (b.started => c = b) /\ (~b.started => c.expected = SeqNo(id))
  BY <1>1, <1>2 DEF Started, Buffers
<1>4. c.expected = SeqNo(id)
  <2>1. Dist(SeqNo(id), c.expected) = 0
    BY <1>1, <1>3, PushStates
  <2>2. c.expected \in Seqs
    BY <1>3, BufferFields
  <2> QED BY <1>1, <2>1, <2>2, SeqSpaceAssumption DEF Dist, Seqs
<1>5. dec # <<>> => id = After(dec)
  <2>1. SUFFICES ASSUME dec # <<>> PROVE id = After(dec)
    OBVIOUS
  <2>2. After(dec) \in Nat
    BY <1>2, <2>1, AfterFact
  <2>3. SeqNo(id) = SeqNo(After(dec))
    BY <1>3, <1>4, <2>1 DEF BufInv, Holds
  <2>4. Dist(SeqNo(id), SeqNo(After(dec))) = 0
    BY <2>3, <1>1, SeqSpaceAssumption DEF Dist, Seqs
  <2> QED BY <2>2, <2>4, <2>1, SeqNoDist, HalfFact
<1>6. Holds(c, id, 1)
  <2>1. CASE dec = <<>>
    BY <2>1, <1>3, <1>4 DEF BufInv, Holds
  <2>2. CASE dec # <<>>
    BY <2>2, <1>3, <1>5 DEF BufInv
  <2> QED BY <2>1, <2>2
<1>7. r = [ready |-> <<id>> \o f.ready, buf |-> f.buf]
  BY DEF Push
<1> HIDE DEF c, r
<1>8. /\ m \in 0 .. MaxWindow
      /\ f.ready \in Seq(Nat) /\ Len(f.ready) = m
      /\ \A i \in 1 .. m : f.ready[i] = id + 1 + i - 1
      /\ f.buf \in Buffers /\ f.buf.started = TRUE
      /\ Holds(f.buf, id + 1 + m, 1)
  <2>1. 1 \in 0 .. (MaxWindow + 1) /\ MaxWindow + 1 - 1 = MaxWindow
    BY WindowFact
  <2> QED BY <2>1, <1>3, <1>4, <1>6, FlushReady, SMTT(60)
<1> HIDE DEF f, m
<1> DEFINE run == <<id>> \o f.ready
<1>9. /\ run \in Seq(Nat) /\ run # <<>> /\ Len(run) = m + 1
      /\ \A i \in 1 .. Len(run) : run[i] = id + i - 1
  <2>1. <<id>> \in Seq(Nat) /\ Len(<<id>>) = 1 /\ <<id>>[1] = id
    OBVIOUS
  <2>2. /\ run \in Seq(Nat) /\ Len(run) = 1 + m
        /\ \A i \in 1 .. (1 + m) : run[i] = IF i <= 1 THEN <<id>>[i] ELSE f.ready[i - 1]
    BY <1>8, <2>1, ConcatProperties
  <2>3. \A i \in 1 .. (1 + m) : run[i] = id + i - 1
    <3> TAKE i \in 1 .. (1 + m)
    <3>1. CASE i = 1
      BY <3>1, <2>1, <2>2, <1>8
    <3>2. CASE i # 1
      <4>1. i - 1 \in 1 .. m /\ ~(i <= 1)
        BY <3>2, <1>8
      <4>2. f.ready[i - 1] = id + 1 + (i - 1) - 1
        BY <4>1, <1>8
      <4> QED BY <4>1, <4>2, <2>2
    <3> QED BY <3>1, <3>2
  <2> HIDE DEF run
  <2> QED BY <1>8, <2>2, <2>3
<1> HIDE DEF run
<1>10. /\ dec \o run \in Seq(Nat) /\ dec \o run # <<>> /\ Ordered(dec \o run)
       /\ After(dec \o run) = id + Len(run)
  BY <1>2, <1>5, <1>9, AppendRun
<1>11. r.ready = run /\ r.buf = f.buf
  BY <1>7 DEF run
<1>12. id + 1 + m = id + Len(run) /\ m \in Nat
  BY <1>8, <1>9
<1>13. BufInv(r.buf, dec \o r.ready)
  BY <1>8, <1>10, <1>11, <1>12 DEF BufInv
<1>14. dec = <<>> => After(dec \o r.ready) = id + 1
  <2>1. SUFFICES ASSUME dec = <<>> PROVE m = 0
    BY <1>10, <1>11, <1>12
  <2>2. DOMAIN c.pending = {}
    BY <2>1, <1>3 DEF BufInv
  <2>3. SeqAdd(c.expected, 1) = from /\ 1 \in 0 .. (MaxWindow + 1)
    BY <1>4, WindowFact
  <2>4. \A i \in 0 .. (m - 1) : SeqAdd(from, i) \in DOMAIN c.pending
    BY <2>3, <1>3, <1>6, RunStops DEF m
  <2> QED BY <2>2, <2>4, <1>8
<1>15. dec # <<>> => After(dec \o r.ready) \in After(dec) .. (After(dec) + MaxWindow + 1)
  BY <1>5, <1>8, <1>10, <1>11, <1>12, WindowFact, SMTT(60)
<1>16. Run(r.ready, id)
  BY <1>9, <1>11 DEF Run
<1> QED BY <1>5, <1>10, <1>11, <1>13, <1>14, <1>15, <1>16 DEF r

\* Push ahead of a gap: the packet is held in its place.
LEMMA PushHeldKeeps ==
  ASSUME NEW b, NEW dec, NEW id \in Nat, BufInv(b, dec),
         dec # <<>> => id - After(dec) < Half /\ After(dec) - id < Half,
         PushState(b, SeqNo(id)) \in {"buffered", "gap_tolerated"}
  PROVE  dec # <<>> /\ BufInv(Push(b, SeqNo(id), id).buf, dec)
<1> DEFINE s == SeqNo(id)
           c == Started(b, s)
           n == After(dec)
           D == DOMAIN b.pending \cup {s}
           map == [x \in D |-> IF x = s THEN id ELSE b.pending[x]]
           r == Push(b, s, id).buf
<1>1. s \in Seqs
  BY SeqNoInSpace
<1>2. b \in Buffers /\ dec \in Seq(Nat) /\ Ordered(dec)
  BY DEF BufInv
<1>3. c \in Buffers /\ (b.started => c = b) /\ (~b.started => c.expected = s)
  BY <1>1, <1>2 DEF Started, Buffers
<1>4. Dist(s, c.expected) \in 1 .. totalWindow(c)
  BY <1>1, <1>3, PushStates
<1>5. b.started /\ dec # <<>> /\ c = b
  <2>1. Dist(s, s) = 0
    BY <1>1, SeqSpaceAssumption DEF Dist, Seqs
  <2>2. b.started
    BY <1>2, <1>3, <1>4, <2>1, BufferFields
  <2> QED BY <2>2, <1>3 DEF BufInv
<1>6. n \in Nat /\ Holds(b, n, 1) /\ b.expected = SeqNo(n)
  BY <1>2, <1>5, AfterFact DEF BufInv, Holds
<1>7. Dist(s, b.expected) = id - n
  <2>1. Dist(s, SeqNo(n)) <= MaxWindow /\ Dist(s, SeqNo(n)) \in Nat
    BY <1>2, <1>4, <1>5, <1>6, BufferFields, WindowFact
  <2>2. ~(Dist(s, SeqNo(n)) > Half)
    BY <2>1, WindowFact
  <2>3. id >= n
    BY <2>2, <1>5, <1>6, SeqNoDist
  <2> QED BY <2>3, <1>5, <1>6, SeqNoDist
<1>8. r = [b EXCEPT !.pending = map]
  BY <1>5 DEF Push
<1>9. map \in [D -> Nat] /\ D \in SUBSET Seqs
  BY <1>1, <1>2, BufferFields
<1>10. r \in Buffers /\ r.started = b.started /\ r.expected = b.expected /\ r.pending = map
       /\ totalWindow(r) = totalWindow(b)
  <2>1. map \in UNION {[E -> Nat] : E \in SUBSET Seqs}
    BY <1>9
  <2> HIDE DEF map, r
  <2> QED BY <1>2, <1>8, <2>1 DEF Buffers, totalWindow
<1> HIDE DEF r
<1>11. Holds(r, n, 1)
  <2>1. DOMAIN r.pending = D
    BY <1>10
  <2> SUFFICES ASSUME NEW x \in D
               PROVE  Dist(x, b.expected) \in 1 .. totalWindow(b) /\ map[x] = n + Dist(x, b.expected)
    BY <1>6, <1>10, <2>1 DEF Holds
  <2>2. CASE x = s
    BY <2>2, <1>4, <1>5, <1>6, <1>7
  <2>3. CASE x # s
    BY <2>3, <1>6 DEF Holds
  <2> QED BY <2>2, <2>3
<1> QED BY <1>2, <1>5, <1>10, <1>11 DEF BufInv, r

\* A wider window holds what the narrower one held.
LEMMA ExpandKeeps ==
  ASSUME NEW b, NEW dec, BufInv(b, dec)
  PROVE  BufInv(ExpandTolerance(b, RescueWindow, RescueTolerance), dec)
<1> DEFINE r == ExpandTolerance(b, RescueWindow, RescueTolerance)
<1>1. b \in Buffers
  BY DEF BufInv
<1>2. /\ RescueWindow \in 0 .. WidestReorder /\ RescueTolerance \in 0 .. WidestTolerance
      /\ b.reorderWindow \in 0 .. WidestReorder /\ b.lossTolerance \in 0 .. WidestTolerance
      /\ WidestReorder \in Nat /\ WidestTolerance \in Nat
  BY <1>1, BufferFields, WindowFact, StreamAssumption DEF WidestReorder, WidestTolerance
<1>3. /\ r \in Buffers /\ r.expected = b.expected /\ r.pending = b.pending /\ r.started = b.started
      /\ r.reorderWindow \in b.reorderWindow .. WidestReorder
      /\ r.lossTolerance \in b.lossTolerance .. WidestTolerance
  <2> DEFINE w == IF RescueWindow > b.reorderWindow THEN RescueWindow ELSE b.reorderWindow
             t == IF RescueTolerance > b.lossTolerance THEN RescueTolerance ELSE b.lossTolerance
  <2>1. w \in b.reorderWindow .. WidestReorder /\ t \in b.lossTolerance .. WidestTolerance
        /\ w \in 0 .. WidestReorder /\ t \in 0 .. WidestTolerance
    BY <1>2
  <2>2. r = [b EXCEPT !.reorderWindow = w, !.lossTolerance = t]
    BY DEF ExpandTolerance
  <2> HIDE DEF w, t, r
  <2> QED BY <1>1, <2>1, <2>2 DEF Buffers
<1> HIDE DEF r
<1>4. totalWindow(b) \in Nat /\ totalWindow(r) \in Nat /\ totalWindow(b) <= totalWindow(r)
  BY <1>2, <1>3 DEF totalWindow
<1>5. \A n, s : Dist(s, b.expected) \in 1 .. totalWindow(b) => Dist(s, b.expected) \in 1 .. totalWindow(r)
  BY <1>4
<1>6. b.started => Holds(r, After(dec), 1)
  BY <1>3, <1>5 DEF BufInv, Holds
<1> QED BY <1>3, <1>6 DEF BufInv, r

\* FastForwardToNextPending: the run at the nearest packet within reach.
LEMMA FastForwardKeeps ==
  ASSUME NEW b, NEW dec, BufInv(b, dec), NEW maxSkip \in Nat, CanFastForward(b, maxSkip)
  PROVE  LET r == FastForwardToNextPending(b, maxSkip)
         IN  /\ dec # <<>> /\ BufInv(r.buf, dec \o r.ready) /\ dec \o r.ready # <<>>
             /\ After(dec \o r.ready) \in After(dec) .. (After(dec) + MaxWindow + 1)
             /\ \E j \in 1 .. maxSkip : Run(r.ready, After(dec) + j)
<1> DEFINE n == After(dec)
           T == {d \in Ahead(b) : d <= maxSkip}
           j == Nearest(T)
           f == flushReady(b, SeqAdd(b.expected, j))
           m == RunLength(b.pending, SeqAdd(b.expected, j))
<1>1. b \in Buffers /\ dec \in Seq(Nat) /\ Ordered(dec)
  BY DEF BufInv
<1>2. T # {} /\ T \subseteq Nat /\ DOMAIN b.pending # {}
  BY DEF CanFastForward, Ahead
<1>3. b.started /\ dec # <<>> /\ n \in Nat /\ Holds(b, n, 1)
  BY <1>1, <1>2, AfterFact DEF BufInv
<1>4. j \in T /\ \A d \in T : j <= d
  <2>1. PICK x \in T : \A y \in T : x <= y
    BY <1>2, LeastNat
  <2> HIDE DEF T
  <2> QED BY <2>1 DEF Nearest
<1> HIDE DEF j
<1>5. j \in 1 .. (Half - 1) /\ j <= maxSkip /\ SeqAdd(b.expected, j) \in DOMAIN b.pending
  BY <1>4 DEF Ahead
<1>6. j \in 1 .. MaxWindow
  <2>1. Dist(SeqAdd(b.expected, j), b.expected) = j
    BY <1>1, <1>5, BufferFields, DistAdd, HalfFact
  <2>2. j <= totalWindow(b)
    BY <1>3, <1>5, <2>1 DEF Holds
  <2> QED BY <1>1, <1>5, <2>2, BufferFields, WindowFact
<1>7. Holds(b, n, j)
  <2> SUFFICES ASSUME NEW s \in DOMAIN b.pending PROVE j <= Dist(s, b.expected)
    BY <1>3, <1>6, <1>1, BufferFields DEF Holds
  <2>1. Dist(s, b.expected) \in 1 .. totalWindow(b) /\ s \in Seqs /\ b.expected \in Seqs
    BY <1>1, <1>3, BufferFields DEF Holds
  <2>2. Dist(s, b.expected) \in 1 .. (Half - 1)
    BY <1>1, <2>1, BufferFields, WindowFact
  <2>3. SeqAdd(b.expected, Dist(s, b.expected)) = s
    BY <2>1, AddDist
  <2>4. Dist(s, b.expected) \in Ahead(b)
    BY <2>2, <2>3 DEF Ahead
  <2>5. CASE Dist(s, b.expected) <= maxSkip
    BY <2>4, <2>5, <1>4
  <2>6. CASE ~(Dist(s, b.expected) <= maxSkip)
    BY <2>2, <2>6, <1>5, HalfFact
  <2> QED BY <2>5, <2>6
<1>8. /\ m \in 0 .. (MaxWindow + 1 - j)
      /\ f.ready \in Seq(Nat) /\ Len(f.ready) = m
      /\ \A i \in 1 .. m : f.ready[i] = n + j + i - 1
      /\ f.buf \in Buffers /\ f.buf.started = b.started
      /\ Holds(f.buf, n + j + m, 1)
      /\ m >= 1
  <2>1. j \in 0 .. (MaxWindow + 1)
    BY <1>6, WindowFact
  <2> HIDE DEF n, T
  <2> QED BY <2>1, <1>1, <1>3, <1>5, <1>7, FlushReady
<1> HIDE DEF f, m
<1>9. /\ n + j \in Nat /\ n <= n + j /\ f.ready # <<>>
  BY <1>3, <1>6, <1>8
<1>10. /\ dec \o f.ready \in Seq(Nat) /\ dec \o f.ready # <<>> /\ Ordered(dec \o f.ready)
       /\ After(dec \o f.ready) = n + j + m
  <2>1. \A i \in 1 .. Len(f.ready) : f.ready[i] = (n + j) + i - 1
    BY <1>8
  <2> QED BY <2>1, <1>1, <1>8, <1>9, AppendRun
<1>11. BufInv(f.buf, dec \o f.ready)
  BY <1>3, <1>8, <1>10 DEF BufInv
<1>12. n + j + m \in n .. (n + MaxWindow + 1)
  BY <1>3, <1>6, <1>8, WindowFact
<1>13. FastForwardToNextPending(b, maxSkip) = f
  BY DEF FastForwardToNextPending, f, j
<1>14. j \in 1 .. maxSkip /\ Run(f.ready, n + j)
  <2>1. \A i \in 1 .. Len(f.ready) : f.ready[i] = (n + j) + i - 1
    BY <1>8
  <2> QED BY <2>1, <1>5, <1>8, <1>9 DEF Run
<1> QED BY <1>3, <1>10, <1>11, <1>12, <1>13, <1>14

-----------------------------------------------------------------------------
(* The inductive invariant. While packets of an iteration still have to be *)
(* pushed, the buffer may have moved past them, by two deliveries at most. *)

Slack ==
  IF pc = "proactive" \/ (pc = "work" /\ Len(work) = 2) THEN 0
  ELSE IF pc = "check" THEN MaxWindow + 1
  ELSE 2 * (MaxWindow + 1)

WorkInv ==
  pc \in {"work", "proactive", "check", "recheck"} =>
    /\ work \in Seq(Nat) /\ Len(work) <= 2
    /\ IF pc = "work" THEN work # <<>> ELSE Len(work) <= 1 /\ decoded # <<>>
    /\ IF decoded = <<>>
       THEN \A i, j \in 1 .. Len(work) : work[i] - work[j] <= Span
       ELSE \A i \in 1 .. Len(work) :
              work[i] - After(decoded) < Half /\ After(decoded) - work[i] <= Span + Slack

GroupsInv == groups \subseteq [ids : ParityGroups, data : SUBSET Nat]

IInv == BufInv(buf, decoded) /\ WorkInv /\ GroupsInv

Busy == {"work", "proactive", "check", "recheck"}

\* Steps that leave the packets alone.
LEMMA FrameKeeps ==
  ASSUME IInv, UNCHANGED <<buf, decoded, groups>>,
         UNCHANGED <<pc, work>> \/ pc' \notin Busy
  PROVE  IInv'
<1>1. BufInv(buf, decoded)' /\ GroupsInv'
  BY DEF IInv, BufInv, Holds, After, Ordered, GroupsInv
<1>2. CASE pc' \notin Busy
  BY <1>1, <1>2 DEF IInv, WorkInv, Busy
<1>3. CASE UNCHANGED <<pc, work>>
  BY <1>1, <1>3 DEF IInv, WorkInv, Slack, After
<1> QED BY <1>2, <1>3

\* What the invariant says while there is a packet to push.
LEMMA WorkFacts ==
  ASSUME IInv, pc \in Busy
  PROVE  /\ work \in Seq(Nat) /\ Len(work) \in Nat /\ Len(work) <= 2
         /\ \A i \in 1 .. Len(work) : work[i] \in Nat
         /\ decoded # <<>> => /\ After(decoded) \in Nat
                               /\ \A i \in 1 .. Len(work) :
                                    /\ work[i] - After(decoded) < Half
                                    /\ After(decoded) - work[i] < Half
                                    /\ After(decoded) - work[i] <= Span + Slack
         /\ decoded = <<>> => \A i, j \in 1 .. Len(work) : work[i] - work[j] <= Span
         /\ Slack \in 0 .. (2 * (MaxWindow + 1))
<1>1. Slack \in 0 .. (2 * (MaxWindow + 1))
  BY WindowFact DEF Slack
<1>2. /\ work \in Seq(Nat) /\ Len(work) <= 2
      /\ IF decoded = <<>>
         THEN \A i, j \in 1 .. Len(work) : work[i] - work[j] <= Span
         ELSE \A i \in 1 .. Len(work) :
                work[i] - After(decoded) < Half /\ After(decoded) - work[i] <= Span + Slack
  BY DEF IInv, WorkInv, Busy
<1>3. Len(work) \in Nat /\ \A i \in 1 .. Len(work) : work[i] \in Nat
  <2>1. Len(work) \in Nat /\ Len(work) <= 2
    BY <1>2, LenProperties
  <2> QED BY <1>2, <2>1, ElementOfSeq
<1>4. decoded # <<>> => After(decoded) \in Nat
  BY AfterFact DEF IInv, BufInv
<1> QED BY <1>1, <1>2, <1>3, <1>4, WindowFact

\* The second of two packets becomes the first.
LEMMA TailFact ==
  ASSUME NEW w \in Seq(Nat), Len(w) >= 1, Len(w) <= 2
  PROVE  /\ Head(w) = w[1] /\ Head(w) \in Nat
         /\ Tail(w) \in Seq(Nat) /\ Len(Tail(w)) = Len(w) - 1
         /\ \A i \in 1 .. Len(Tail(w)) : Len(w) = 2 /\ Tail(w)[i] = w[2]
<1>1. w # <<>>
  <2>1. Len(w) # 0
    OBVIOUS
  <2> QED BY <2>1, EmptySeq
<1>2. /\ Head(w) = w[1] /\ Tail(w) \in Seq(Nat) /\ Len(Tail(w)) = Len(w) - 1
      /\ \A i \in 1 .. Len(Tail(w)) : Tail(w)[i] = w[i + 1]
  BY <1>1, HeadTailProperties
<1>3. \A i \in 1 .. Len(Tail(w)) : i = 1 /\ Len(w) = 2
  BY <1>2
<1> QED BY <1>2, <1>3

-----------------------------------------------------------------------------
(* The invariant is inductive: one lemma per group of actions.             *)

\* Initially nothing is buffered, released or to be pushed.
LEMMA InitInv == Init => IInv
<1> SUFFICES ASSUME Init PROVE IInv
  OBVIOUS
<1>1. buf \in Buffers /\ ~buf.started /\ DOMAIN buf.pending = {}
  <2>1. EmptyMap \in [{} -> Nat] /\ DOMAIN EmptyMap = {}
    BY DEF EmptyMap
  <2>2. EmptyMap \in UNION {[D -> Nat] : D \in SUBSET Seqs}
    BY <2>1
  <2>3. ReorderWindow \in 0 .. WidestReorder /\ LossTolerance \in 0 .. WidestTolerance /\ 0 \in Seqs
    BY StreamAssumption, SeqSpaceAssumption DEF WidestReorder, WidestTolerance, Seqs
  <2> QED BY <2>1, <2>2, <2>3 DEF Init, newRTPSequenceReorderBuffer, Buffers
<1>2. decoded = <<>> /\ decoded \in Seq(Nat) /\ Ordered(decoded)
  BY DEF Init, Ordered
<1> QED BY <1>1, <1>2 DEF Init, IInv, BufInv, WorkInv, GroupsInv

\* Deliver hands on the released packets and goes to its label or ends.
LEMMA DeliverFacts ==
  ASSUME NEW result, NEW label, NEW eof, Deliver(result, label, eof)
  PROVE  buf' = result.buf /\ decoded' = decoded \o result.ready /\ pc' \in {label, "done"}
BY DEF Deliver, WriteAll, DecodeError, Finish, Goto

\* The packet at hand is near the expected one.
LEMMA HeadNear ==
  ASSUME IInv, pc = "work"
  PROVE  /\ Len(work) >= 1 /\ Head(work) = work[1] /\ Head(work) \in Nat
         /\ decoded # <<>> => /\ Head(work) - After(decoded) < Half
                               /\ After(decoded) - Head(work) < Half
         /\ Tail(work) \in Seq(Nat) /\ Len(Tail(work)) = Len(work) - 1
         /\ \A i \in 1 .. Len(Tail(work)) : Len(work) = 2 /\ Tail(work)[i] = work[2]
<1>1. pc \in Busy
  BY DEF Busy
<1>2. work # <<>>
  BY DEF IInv, WorkInv
<1>3. work \in Seq(Nat) /\ Len(work) \in Nat /\ Len(work) <= 2
  BY <1>1, WorkFacts
<1>4. Len(work) >= 1
  BY <1>2, <1>3
<1>5. 1 \in 1 .. Len(work)
  BY <1>3, <1>4
<1> QED BY <1>1, <1>3, <1>4, <1>5, TailFact, WorkFacts

\* PushInOrder.
LEMMA PushInOrderInv == ASSUME IInv, PushInOrder PROVE IInv'
<1> DEFINE h == Head(work)
           r == Push(buf, SeqNo(h), h)
<1>1. /\ pc = "work" /\ PushState(buf, SeqNo(h)) = "in_order"
      /\ Deliver(r, "check", <<"success">>)
      /\ work' = Tail(work) /\ UNCHANGED groups
  BY DEF PushInOrder, Pushing, Pushed, fecVars
<1>2. /\ buf' = r.buf /\ decoded' = decoded \o r.ready /\ pc' \in {"check", "done"}
  BY <1>1, DeliverFacts
<1>3. /\ BufInv(r.buf, decoded \o r.ready) /\ decoded \o r.ready # <<>>
      /\ decoded = <<>> => After(decoded \o r.ready) = h + 1
      /\ decoded # <<>> => After(decoded \o r.ready) \in After(decoded) .. (After(decoded) + MaxWindow + 1)
  <2>1. BufInv(buf, decoded) /\ h \in Nat
    BY <1>1, HeadNear DEF IInv
  <2> QED BY <1>1, <2>1, HeadNear, PushInOrderKeeps
<1> HIDE DEF r
<1>4. BufInv(buf, decoded)' /\ decoded' # <<>> /\ After(decoded)' = After(decoded \o r.ready)
  BY <1>2, <1>3 DEF BufInv, Holds, After, Ordered
<1>5. WorkInv'
  <2> SUFFICES ASSUME pc' = "check"
               PROVE  /\ work' \in Seq(Nat) /\ Len(work') <= 1
                      /\ \A i \in 1 .. Len(work') :
                           /\ work'[i] - After(decoded)' < Half
                           /\ After(decoded)' - work'[i] <= Span + (MaxWindow + 1)
    BY <1>2, <1>4 DEF WorkInv, Slack
  <2>1. work' \in Seq(Nat) /\ Len(work') <= 1
    BY <1>1, HeadNear, WorkFacts DEF Busy
  <2>2. ASSUME NEW i \in 1 .. Len(work')
        PROVE  /\ work'[i] - After(decoded)' < Half
               /\ After(decoded)' - work'[i] <= Span + (MaxWindow + 1)
    <3>1. Len(work) = 2 /\ work'[i] = work[2] /\ h = work[1]
      BY <1>1, HeadNear
    <3>2. 2 \in 1 .. Len(work) /\ 1 \in 1 .. Len(work) /\ pc \in Busy /\ Slack = 0
      BY <1>1, <3>1 DEF Busy, Slack
    <3>3. CASE decoded = <<>>
      <4>1. /\ work[2] - work[1] <= Span /\ work[1] - work[2] <= Span
            /\ work[1] \in Nat /\ work[2] \in Nat
        BY <3>2, <3>3, WorkFacts
      <4> QED BY <4>1, <3>1, <3>3, <1>3, <1>4, WindowFact
    <3>4. CASE decoded # <<>>
      <4>1. /\ work[2] - After(decoded) < Half /\ After(decoded) - work[2] <= Span
            /\ work[2] \in Nat /\ After(decoded) \in Nat
        BY <3>2, <3>4, WorkFacts, WindowFact
      <4> QED BY <4>1, <3>1, <3>4, <1>3, <1>4, WindowFact, SMTT(60)
    <3> QED BY <3>3, <3>4
  <2> QED BY <2>1, <2>2
<1> QED BY <1>1, <1>4, <1>5 DEF IInv, GroupsInv

\* The packets still to push stay near when none is released.
LEMMA TailWorkInv ==
  ASSUME IInv, pc = "work", decoded # <<>>, UNCHANGED decoded, work' = Tail(work),
         pc' \in {"check", "proactive"}
  PROVE  WorkInv'
<1>1. pc \in Busy /\ pc' # "work" /\ Slack' \in Nat
  BY WindowFact DEF Busy, Slack
<1>2. /\ work' \in Seq(Nat) /\ Len(work') <= 1
  BY <1>1, HeadNear, WorkFacts
<1>3. ASSUME NEW i \in 1 .. Len(work')
      PROVE  /\ work'[i] - After(decoded) < Half
             /\ After(decoded) - work'[i] <= Span + Slack'
  <2>1. Len(work) = 2 /\ work'[i] = work[2]
    BY HeadNear
  <2>2. 2 \in 1 .. Len(work) /\ Slack = 0
    BY <2>1 DEF Slack
  <2>3. work[2] - After(decoded) < Half /\ After(decoded) - work[2] <= Span
        /\ work[2] \in Nat /\ After(decoded) \in Nat
    BY <1>1, <2>2, WorkFacts, WindowFact
  <2> QED BY <1>1, <2>1, <2>3, WindowFact
<1>4. Len(work') <= 2
  BY <1>2, LenProperties
<1>5. decoded' # <<>> /\ After(decoded)' = After(decoded)
  BY DEF After
<1> HIDE DEF Slack
<1> QED BY <1>1, <1>2, <1>3, <1>4, <1>5 DEF WorkInv

\* PushBuffered and PushTolerated.
LEMMA PushHeldInv == ASSUME IInv, PushBuffered \/ PushTolerated PROVE IInv'
<1> DEFINE h == Head(work)
           r == Push(buf, SeqNo(h), h).buf
<1>1. /\ pc = "work" /\ PushState(buf, SeqNo(h)) \in {"buffered", "gap_tolerated"}
      /\ buf' = r \/ buf' = ExpandTolerance(r, RescueWindow, RescueTolerance)
      /\ work' = Tail(work) /\ UNCHANGED <<decoded, groups>>
      /\ pc' \in {"check", "proactive"}
  BY DEF PushBuffered, PushTolerated, Pushing, Pushed, fecVars, Goto
<1>2. decoded # <<>> /\ BufInv(r, decoded)
  <2>1. BufInv(buf, decoded) /\ h \in Nat
    BY <1>1, HeadNear DEF IInv
  <2> QED BY <1>1, <2>1, HeadNear, PushHeldKeeps
<1> HIDE DEF r
<1>3. BufInv(ExpandTolerance(r, RescueWindow, RescueTolerance), decoded)
  BY <1>2, ExpandKeeps
<1>4. BufInv(buf', decoded)
  BY <1>1, <1>2, <1>3
<1>5. BufInv(buf, decoded)'
  BY <1>1, <1>4 DEF BufInv, Holds, After, Ordered
<1>6. WorkInv'
  BY <1>1, <1>2, TailWorkInv
<1> QED BY <1>1, <1>5, <1>6 DEF IInv, GroupsInv

\* PushIgnored: only a stream that has begun has late packets and duplicates.
LEMMA PushIgnoredInv == ASSUME IInv, PushIgnored PROVE IInv'
<1> DEFINE h == Head(work)
<1>1. /\ pc = "work" /\ PushState(buf, SeqNo(h)) \in {"late", "duplicate"}
      /\ work' = Tail(work) /\ UNCHANGED <<buf, decoded, groups>> /\ pc' = "check"
  BY DEF PushIgnored, Pushing, bufVars, fecVars, Goto
<1>2. decoded # <<>>
  <2>1. SUFFICES ASSUME ~buf.started PROVE FALSE
    BY DEF IInv, BufInv
  <2>2. buf \in Buffers /\ h \in Nat /\ SeqNo(h) \in Seqs
    BY <1>1, HeadNear, SeqNoInSpace DEF IInv, BufInv
  <2>3. Started(buf, SeqNo(h)) \in Buffers /\ Started(buf, SeqNo(h)).expected = SeqNo(h)
    BY <2>1, <2>2 DEF Started, Buffers
  <2>4. Dist(SeqNo(h), SeqNo(h)) = 0
    BY <2>2, SeqSpaceAssumption DEF Dist, Seqs
  <2>5. PushState(buf, SeqNo(h)) = "in_order"
    BY <2>2, <2>3, <2>4, PushStates
  <2> QED BY <1>1, <2>5
<1>3. WorkInv'
  BY <1>1, <1>2, TailWorkInv
<1>4. BufInv(buf, decoded)' /\ GroupsInv'
  BY <1>1 DEF IInv, BufInv, Holds, After, Ordered, GroupsInv
<1> QED BY <1>3, <1>4 DEF IInv

\* A skip to the next buffered packet, from any label to one that allows for it.
LEMMA SkipInv ==
  ASSUME IInv, NEW label, NEW eof, CanSkip, tryFastForwardGap(label, eof),
         \/ label \notin Busy
         \/ pc = "proactive" /\ label = "check"
         \/ pc = "check" /\ label = "recheck"
  PROVE  IInv'
<1> DEFINE r == FastForwardToNextPending(buf, MaxSkip)
<1>1. /\ buf' = r.buf /\ decoded' = decoded \o r.ready /\ pc' \in {label, "done"}
      /\ UNCHANGED <<work, groups>>
  <2>1. Deliver(r, label, eof) /\ UNCHANGED <<work, groups>>
    BY DEF tryFastForwardGap, fecVars
  <2> QED BY <2>1, DeliverFacts
<1>2. /\ decoded # <<>> /\ BufInv(r.buf, decoded \o r.ready) /\ decoded \o r.ready # <<>>
      /\ After(decoded \o r.ready) \in After(decoded) .. (After(decoded) + MaxWindow + 1)
  <2>1. BufInv(buf, decoded) /\ CanFastForward(buf, MaxSkip)
    BY DEF IInv, CanSkip
  <2>2. MaxSkip \in Nat
    BY <2>1, BufferFields, WindowFact DEF MaxSkip, BufInv
  <2> QED BY <2>1, <2>2, FastForwardKeeps
<1> HIDE DEF r
<1>3. BufInv(buf, decoded)' /\ decoded' # <<>> /\ After(decoded)' = After(decoded \o r.ready)
  BY <1>1, <1>2 DEF BufInv, Holds, After, Ordered
<1>4. WorkInv'
  <2>1. CASE pc' \notin Busy
    BY <2>1 DEF WorkInv, Busy
  <2>2. CASE pc' \in Busy
    <3>1. /\ pc' = label /\ pc' \in {"check", "recheck"} /\ pc \in {"proactive", "check"}
          /\ pc \in Busy /\ pc' # "work"
          /\ Slack' = Slack + (MaxWindow + 1) /\ Slack \in Nat /\ MaxWindow \in Nat
      BY <2>2, <1>1, WindowFact DEF Busy, Slack
    <3>2. work \in Seq(Nat) /\ Len(work) <= 2 /\ Len(work) <= 1
      BY <3>1 DEF IInv, WorkInv, Busy
    <3>3. ASSUME NEW i \in 1 .. Len(work)
          PROVE  /\ work[i] - After(decoded)' < Half
                 /\ After(decoded)' - work[i] <= Span + Slack'
      <4>1. /\ work[i] \in Nat /\ After(decoded) \in Nat
            /\ work[i] - After(decoded) < Half /\ After(decoded) - work[i] <= Span + Slack
        BY <1>2, <3>1, WorkFacts
      <4> HIDE DEF Slack
      <4> QED BY <4>1, <3>1, <1>2, <1>3, WindowFact, SMTT(60)
    <3> QED BY <1>1, <1>3, <3>1, <3>2, <3>3 DEF WorkInv
  <2> QED BY <2>1, <2>2
<1> QED BY <1>1, <1>3, <1>4 DEF IInv, GroupsInv

\* Moving on to the next label of an iteration.
LEMMA StayInv ==
  ASSUME IInv, NEW label, Stay(label),
         \/ label \notin Busy
         \/ pc = "proactive" /\ label = "check"
         \/ pc \in {"check", "recheck"} /\ label = AfterGapCheck
  PROVE  IInv'
<1>1. pc' = label /\ UNCHANGED <<work, buf, decoded, groups>>
  BY DEF Stay, Goto, bufVars, fecVars
<1>2. CASE label \notin Busy
  BY <1>1, <1>2, FrameKeeps
<1>3. CASE label \in Busy
  <2>1. /\ pc \in Busy /\ pc' \in {"check", "work"} /\ pc # "work"
        /\ pc' = "work" => pc \in {"check", "recheck"} /\ work # <<>>
        /\ pc' = "check" => pc = "proactive"
    BY <1>1, <1>3 DEF Busy, AfterGapCheck
  <2>2. /\ work \in Seq(Nat) /\ Len(work) <= 2 /\ Len(work) <= 1 /\ Len(work) # 2 /\ decoded # <<>>
    BY <2>1 DEF IInv, WorkInv, Busy
  <2>3. Slack <= Slack' /\ Slack \in Nat /\ Slack' \in Nat
    BY <1>1, <2>1, <2>2, WindowFact DEF Slack
  <2>4. \A i \in 1 .. Len(work) :
          /\ work[i] - After(decoded) < Half
          /\ After(decoded) - work[i] <= Span + Slack'
    <3> TAKE i \in 1 .. Len(work)
    <3>1. /\ work[i] \in Nat /\ After(decoded) \in Nat
          /\ work[i] - After(decoded) < Half /\ After(decoded) - work[i] <= Span + Slack
      BY <2>1, <2>2, WorkFacts
    <3> HIDE DEF Slack
    <3> QED BY <3>1, <2>3, WindowFact
  <2>5. After(decoded)' = After(decoded)
    BY <1>1 DEF After
  <2>6. WorkInv'
    BY <1>1, <2>1, <2>2, <2>4, <2>5 DEF WorkInv
  <2>7. BufInv(buf, decoded)' /\ GroupsInv'
    BY <1>1 DEF IInv, BufInv, Holds, After, Ordered, GroupsInv
  <2> QED BY <2>6, <2>7 DEF IInv
<1> QED BY <1>2, <1>3

\* Ending the stream.
LEMMA FailInv == ASSUME IInv, NEW why, Fail(why) PROVE IInv'
<1>1. pc' = "done" /\ UNCHANGED <<buf, decoded, groups>>
  BY DEF Fail, Finish, bufVars, fecVars
<1> QED BY <1>1, FrameKeeps DEF Busy

\* The gap checks and the timed-out read.
LEMMA GapInv ==
  ASSUME IInv,
         \/ maybeProactiveFastForward \/ checkActiveGapTimeout \/ GapRecheck
         \/ ReadTimeout \/ TimeoutGap \/ TimeoutBye \/ ByeEnd
  PROVE  IInv'
<1>1. CASE maybeProactiveFastForward
  BY <1>1, SkipInv, StayInv DEF maybeProactiveFastForward
<1>2. CASE checkActiveGapTimeout
  BY <1>2, SkipInv, StayInv, FailInv DEF checkActiveGapTimeout
<1>3. CASE GapRecheck
  BY <1>3, StayInv, FailInv DEF GapRecheck
<1>4. CASE ReadTimeout
  BY <1>4, StayInv DEF ReadTimeout, Busy
<1>5. CASE TimeoutGap
  <2>1. "bye" \notin Busy
    BY DEF Busy
  <2> QED BY <1>5, <2>1, SkipInv, StayInv, FailInv DEF TimeoutGap
<1>6. CASE TimeoutBye
  <2>1. "byeEnd" \notin Busy /\ "top" \notin Busy
    BY DEF Busy
  <2> QED BY <1>6, <2>1, SkipInv, StayInv DEF TimeoutBye
<1>7. CASE ByeEnd
  <2>1. pc' = "done" /\ UNCHANGED <<buf, decoded, groups>>
    BY <1>7 DEF ByeEnd, Fail, Finish, bufVars, fecVars
  <2> QED BY <2>1, FrameKeeps DEF Busy
<1> QED BY <1>1, <1>2, <1>3, <1>4, <1>5, <1>6, <1>7

-----------------------------------------------------------------------------
(* Arrivals and forward error correction.                                  *)

\* The packets of a parity group lie in one fragment, so within Span.
LEMMA GroupSpan ==
  ASSUME NEW g \in ParityGroups
  PROVE  g \subseteq Ids /\ \A i, j \in g : i - j <= Span
<1>1. PICK k \in Ids : g = GroupOf(k)
  BY DEF ParityGroups
<1>2. g \subseteq Ids /\ \A i \in g : i \div FragPackets = k \div FragPackets
  BY <1>1 DEF GroupOf
<1>3. ASSUME NEW i \in g, NEW j \in g PROVE i - j <= Span
  <2> DEFINE n == FragPackets
             q == i \div n
  <2>1. i \in Nat /\ j \in Nat /\ n \in Nat /\ n > 0 /\ Span \in Nat /\ n <= Span
    BY <1>2, StreamAssumption DEF Ids
  <2>2. q \in Int /\ i % n \in 0 .. (n - 1) /\ i = n * q + (i % n)
    BY <2>1, DivMod
  <2>3. j % n \in 0 .. (n - 1) /\ j = n * (j \div n) + (j % n)
    BY <2>1, DivMod
  <2>4. j \div n = q
    BY <1>2
  <2> HIDE DEF q, n
  <2>5. n * q \in Int
    BY <2>1, <2>2
  <2> QED BY <2>1, <2>2, <2>3, <2>4, <2>5
<1> QED BY <1>2, <1>3

\* What a group lets recover is one of its packets.
LEMMA MissingFact ==
  ASSUME NEW g, Recoverable(g) PROVE Missing(g) \in g.ids
<1>1. g.ids \ g.data # {}
  <2>1. Cardinality({}) = 0
    BY FS_EmptySet
  <2>2. SUFFICES ASSUME g.ids \ g.data = {} PROVE FALSE
    OBVIOUS
  <2>3. Cardinality(g.ids \ g.data) = 0
    BY <2>1, <2>2
  <2> QED BY <2>3 DEF Recoverable
<1>2. \E i \in g.ids : i \notin g.data
  BY <1>1
<1> QED BY <1>2 DEF Missing

\* New work from packets that are near the expected one and near each other.
LEMMA ReadWorkInv ==
  ASSUME IInv, UNCHANGED <<buf, decoded>>, pc' = "work", GroupsInv',
         NEW ids, ids \subseteq Ids, InSpan(ids),
         \A i, j \in ids : i - j <= Span,
         NEW x \in ids, NEW y \in ids, work' = <<x>> \/ work' = <<x, y>>
  PROVE  IInv'
<1>1. x \in Nat /\ y \in Nat
  BY DEF Ids
<1>2. BufInv(buf, decoded)' /\ decoded' = decoded /\ After(decoded)' = After(decoded)
  BY DEF IInv, BufInv, Holds, After, Ordered
<1>3. decoded # <<>> => /\ After(decoded) \in Nat
                        /\ \A i \in ids : i - After(decoded) < Half /\ After(decoded) - i <= Span
  <2>1. decoded # <<>> => After(decoded) \in Nat /\ NextId = After(decoded)
    BY AfterFact DEF IInv, BufInv, NextId, After
  <2> QED BY <2>1 DEF InSpan
<1>4. CASE work' = <<x>>
  <2>1. work' \in Seq(Nat) /\ Len(work') = 1 /\ work'[1] = x /\ work' # <<>>
    BY <1>1, <1>4
  <2>2. \A i \in 1 .. Len(work') : work'[i] = x
    BY <2>1
  <2>3. Slack' \in Nat
    BY WindowFact DEF Slack
  <2>4. x - x <= Span /\ Span \in Nat
    BY WindowFact
  <2>5. decoded # <<>> => x - After(decoded) < Half /\ After(decoded) - x <= Span + Slack'
    <3> HIDE DEF Slack
    <3> QED BY <1>1, <1>3, <2>3, <2>4
  <2>6. Len(work') <= 2
    BY <2>1
  <2>7. WorkInv'
    BY <1>2, <2>1, <2>2, <2>4, <2>5, <2>6 DEF WorkInv
  <2> QED BY <1>2, <2>7 DEF IInv
<1>5. CASE work' = <<x, y>>
  <2>1. /\ work' \in Seq(Nat) /\ Len(work') = 2 /\ work' # <<>>
        /\ work'[1] = x /\ work'[2] = y
    BY <1>1, <1>5
  <2>2. \A i \in 1 .. Len(work') : work'[i] \in ids
    BY <2>1
  <2>3. Slack' = 0 /\ Len(work') <= 2 /\ Span + 0 = Span
    BY <2>1, WindowFact DEF Slack
  <2>4. decoded # <<>> => \A i \in 1 .. Len(work') :
            work'[i] - After(decoded) < Half /\ After(decoded) - work'[i] <= Span + Slack'
    <3> HIDE DEF Slack
    <3> QED BY <1>3, <2>2, <2>3
  <2>5. \A i, j \in 1 .. Len(work') : work'[i] - work'[j] <= Span
    BY <2>2
  <2>6. WorkInv'
    BY <1>2, <2>1, <2>3, <2>4, <2>5 DEF WorkInv
  <2> QED BY <1>2, <2>6 DEF IInv
<1> QED BY <1>4, <1>5

\* A data packet, with what it lets FEC recover.
LEMMA ReadPacketInv ==
  ASSUME IInv, NEW id \in Ids, ReadPacket(id) PROVE IInv'
<1>1. pc' = "work" /\ UNCHANGED <<buf, decoded>>
      /\ InSpan({id} \cup UNION {g \in ParityGroups : id \in g})
  BY DEF ReadPacket, Goto, bufVars
<1>2. CASE ~(FecGroup > 1)
  <2>1. work' = <<id>> /\ GroupsInv'
    BY <1>2 DEF ReadPacket, fecVars, IInv, GroupsInv
  <2>2. InSpan({id}) /\ {id} \subseteq Ids /\ id - id <= Span /\ id \in {id}
    BY <1>1, WindowFact DEF InSpan, Ids
  <2>3. \A i, j \in {id} : i - j <= Span
    BY <2>2
  <2> QED BY <1>1, <2>1, <2>2, <2>3, ReadWorkInv
<1>3. CASE FecGroup > 1
  <2> DEFINE note(g) == IF id \in g.ids THEN [g EXCEPT !.data = @ \cup {id}] ELSE g
             noted == {note(g) : g \in groups}
             hit   == {g \in noted : id \in g.ids /\ Recoverable(g)}
             found == Missing(CHOOSE g \in hit : TRUE)
  <2>1. /\ groups' = TrimGroups(noted \ hit)
        /\ work' = IF hit = {} THEN <<id>> ELSE <<found, id>>
    BY <1>3 DEF ReadPacket, ObserveData
  <2>2. noted \subseteq [ids : ParityGroups, data : SUBSET Nat]
    <3> SUFFICES ASSUME NEW g \in groups
                 PROVE  note(g) \in [ids : ParityGroups, data : SUBSET Nat]
      OBVIOUS
    <3>1. g \in [ids : ParityGroups, data : SUBSET Nat] /\ id \in Nat
      BY DEF IInv, GroupsInv, Ids
    <3> QED BY <3>1
  <2>3. GroupsInv'
    <3>1. groups' \subseteq noted
      BY <2>1 DEF TrimGroups
    <3> QED BY <3>1, <2>2 DEF GroupsInv
  <2>4. CASE hit = {}
    <3>1. InSpan({id}) /\ {id} \subseteq Ids /\ id - id <= Span /\ id \in {id} /\ work' = <<id>>
      BY <1>1, <2>1, <2>4, WindowFact, SMTT(60) DEF InSpan, Ids
    <3>2. \A i, j \in {id} : i - j <= Span
      BY <3>1
    <3> QED BY <1>1, <2>3, <3>1, <3>2, ReadWorkInv
  <2>5. CASE hit # {}
    <3> DEFINE g == CHOOSE h \in hit : TRUE
    <3>1. g \in hit
      BY <2>5
    <3> HIDE DEF g
    <3>2. g.ids \in ParityGroups /\ id \in g.ids /\ Recoverable(g)
      BY <3>1, <2>2
    <3>3. found \in g.ids /\ work' = <<found, id>>
      BY <3>2, <2>1, <2>5, MissingFact DEF g
    <3>4. InSpan(g.ids)
      BY <1>1, <3>2 DEF InSpan
    <3> HIDE DEF found
    <3> QED BY <1>1, <2>3, <3>2, <3>3, <3>4, GroupSpan, ReadWorkInv
  <2> QED BY <2>4, <2>5
<1> QED BY <1>2, <1>3

\* A parity packet.
LEMMA ReadParityInv ==
  ASSUME IInv, NEW g \in ParityGroups, ReadParity(g) PROVE IInv'
<1> DEFINE group == [ids |-> g, data |-> g \cap recent]
           other == {h \in groups : h.ids # g}
<1>1. g \subseteq Ids /\ g \subseteq Nat /\ InSpan(g) /\ UNCHANGED <<buf, decoded>>
  BY GroupSpan DEF ReadParity, bufVars, Ids
<1>2. group \in [ids : ParityGroups, data : SUBSET Nat]
  BY <1>1
<1>3. CASE Recoverable(group)
  <2>1. groups' = TrimGroups(groups) /\ work' = <<Missing(group)>> /\ pc' = "work"
    BY <1>3 DEF ReadParity, Goto
  <2>2. GroupsInv'
    BY <2>1 DEF TrimGroups, GroupsInv, IInv
  <2>3. Missing(group) \in g
    BY <1>3, MissingFact
  <2> HIDE DEF group
  <2> QED BY <1>1, <2>1, <2>2, <2>3, GroupSpan, ReadWorkInv
<1>4. CASE ~Recoverable(group)
  <2>1. groups' = TrimGroups(other \cup {group}) /\ pc' = "top"
    BY <1>4 DEF ReadParity, Goto
  <2>2. GroupsInv'
    <3>1. groups' \subseteq groups \cup {group}
      BY <2>1 DEF TrimGroups
    <3> HIDE DEF group
    <3> QED BY <3>1, <1>2 DEF GroupsInv, IInv
  <2>3. BufInv(buf, decoded)' /\ WorkInv'
    BY <1>1, <2>1 DEF IInv, BufInv, Holds, After, Ordered, WorkInv
  <2> QED BY <2>2, <2>3 DEF IInv
<1> QED BY <1>3, <1>4

-----------------------------------------------------------------------------
\* Every step keeps the invariant.
LEMMA NextInv == IInv /\ [Next]_vars => IInv'
<1> SUFFICES ASSUME IInv, [Next]_vars PROVE IInv'
  OBVIOUS
<1>1. CASE UNCHANGED vars
  BY <1>1, FrameKeeps DEF vars, loopVars, bufVars, fecVars
<1>2. CASE Answerer \/ Beside \/ BodyTimeout \/ Tick
  <2>1. UNCHANGED <<buf, decoded, groups, pc, work>>
    BY <1>2 DEF Answerer, SendPacket, SendResponseEnd, SendBye, Beside, RecvResponseEnd, RecvBye,
       HelperTakesEnd, HelperTakesBye, HelperGivesUp, ReaderClose, BodyTimeout, Tick,
       loopVars, bufVars, fecVars
  <2> QED BY <2>1, FrameKeeps
<1>3. CASE StreamStart
  <2>1. UNCHANGED <<buf, decoded, groups>> /\ pc' \notin Busy
    BY <1>3 DEF StreamStart, bufVars, fecVars, Busy
  <2> QED BY <2>1, FrameKeeps
<1>4. CASE Arrival
  <2>1. CASE ReadStray
    <3>1. UNCHANGED <<buf, decoded, groups>> /\ pc' \notin Busy
      BY <2>1 DEF ReadStray, Finish, bufVars, fecVars, Busy
    <3> QED BY <3>1, FrameKeeps
  <2> QED BY <1>4, <2>1, ReadPacketInv, ReadParityInv DEF Arrival
<1>5. CASE Loop
  <2>1. CASE LoopTopComplete \/ LoopTopCancelled \/ LoopTopArm \/ PushOverflow \/ ReadError
    <3>1. UNCHANGED <<buf, decoded, groups>> /\ pc' \notin Busy
      BY <2>1 DEF LoopTopComplete, LoopTopCancelled, LoopTopArm, PushOverflow, ReadError,
         Finish, Goto, bufVars, fecVars, Busy
    <3> QED BY <3>1, FrameKeeps
  <2> QED BY <1>5, <2>1, PushInOrderInv, PushHeldInv, PushIgnoredInv, GapInv DEF Loop
<1> QED BY <1>1, <1>2, <1>3, <1>4, <1>5 DEF Next

\* No packet is decoded twice or behind a later one, in any execution: the order in
\* which rtpSequenceReorderBuffer releases packets, whatever the network repeats,
\* delays or reorders, across the wrap of the sequence number and with FEC.
THEOREM InOrder == Spec => []DecodedInOrder
<1>1. IInv => DecodedInOrder
  <2> SUFFICES ASSUME IInv PROVE DecodedInOrder
    OBVIOUS
  <2>1. decoded \in Seq(Nat) /\ Ordered(decoded)
    BY DEF IInv, BufInv
  <2>2. DOMAIN decoded = 1 .. Len(decoded)
    BY <2>1
  <2> QED BY <2>1, <2>2 DEF DecodedInOrder, Ordered
<1> QED BY <1>1, InitInv, NextInv, PTL DEF Spec

\* The buffer holds packets of its current window only, each under the sequence
\* number that is its place in the stream: it is bounded, and Push and
\* FastForwardToNextPending never release a packet of an earlier lap.
THEOREM WithinWindow == Spec => []PendingInWindow
<1>1. IInv => PendingInWindow
  <2> SUFFICES ASSUME IInv, NEW s \in DOMAIN buf.pending
               PROVE  /\ Dist(s, buf.expected) \in 1 .. totalWindow(buf)
                      /\ buf.pending[s] = NextId + Dist(s, buf.expected)
    BY DEF PendingInWindow
  <2>1. buf.started /\ decoded # <<>> /\ Holds(buf, After(decoded), 1)
    BY DEF IInv, BufInv
  <2>2. NextId = After(decoded)
    BY <2>1 DEF NextId, After
  <2> QED BY <2>1, <2>2 DEF Holds
<1> QED BY <1>1, InitInv, NextInv, PTL DEF Spec
=============================================================================
