---------------------------- MODULE RtpBodyProofs ----------------------------
(***************************************************************************)
(* What comes out of the reorder buffer reaches the HTTP body: losses are  *)
(* skipped within bounds, a stream that may not skip writes an unbroken    *)
(* run of the body, the declared length ends it when the whole body was    *)
(* written, and it ends with one verdict.                                  *)
(***************************************************************************)
EXTENDS RtpStreamProofs

-----------------------------------------------------------------------------
(* Induction up to a bound, over a set.                                    *)

\* A set with 0 that is closed under successor below k contains 0 .. k.
LEMMA Upto ==
  ASSUME NEW k \in Nat, NEW S, 0 \in S, \A n \in 1 .. k : n - 1 \in S => n \in S
  PROVE  \A n \in 0 .. k : n \in S
<1> DEFINE T == {n \in 0 .. k : n \notin S}
<1> SUFFICES ASSUME T # {} PROVE FALSE
  OBVIOUS
<1>1. PICK x \in T : \A y \in T : x <= y
  <2>1. T \subseteq Nat
    OBVIOUS
  <2> QED BY <2>1, LeastNat
<1>2. x \in 1 .. k /\ x \notin S
  BY <1>1
<1>3. x - 1 \in 0 .. k /\ ~(x <= x - 1)
  BY <1>2
<1>4. x - 1 \in S
  BY <1>1, <1>3
<1> QED BY <1>2, <1>4

-----------------------------------------------------------------------------
(* What a step does to the packets.                                        *)

\* A step leaves the packets alone, holds one, or hands a run on.
Holding ==
  /\ UNCHANGED <<stream, decoded, pes, body, reports, finish, portHeld>>
  /\ pc = "work" /\ pc' \in {"check", "proactive"}
  /\ PushState(buf, SeqNo(Head(work))) \in {"buffered", "gap_tolerated"}
  /\ \/ buf' = Pushed.buf
     \/ buf' = ExpandTolerance(Pushed.buf, RescueWindow, RescueTolerance)

Skipping ==
  \E label \in {"check", "recheck", "bye", "byeEnd"} :
    \E eof \in {<<"success">>, <<"success", "error">>} :
      CanSkip /\ pc # "done" /\ tryFastForwardGap(label, eof)

\* Every step is one of these.
LEMMA StepKinds ==
  ASSUME [Next]_vars
  PROVE  \/ UNCHANGED <<stream, buf, decoded, pes, body>>
         \/ Holding
         \/ PushInOrder
         \/ Skipping
<1>1. CASE UNCHANGED vars
  BY <1>1 DEF vars, netVars, bufVars, outVars
<1>2. CASE Answerer \/ Beside \/ BodyTimeout \/ Tick \/ StreamStart
  BY <1>2 DEF Answerer, SendPacket, SendResponseEnd, SendBye, Beside, RecvResponseEnd, RecvBye,
     HelperTakesEnd, HelperTakesBye, HelperGivesUp, ReaderClose, BodyTimeout, Tick, StreamStart,
     netVars, bufVars, outVars
<1>3. CASE Arrival
  BY <1>3 DEF Arrival, ReadPacket, ReadParity, ReadStray, netVars, bufVars, outVars
<1>4. CASE LoopTopComplete \/ LoopTopCancelled \/ LoopTopArm \/ PushOverflow \/ ReadError
           \/ PushIgnored \/ GapRecheck \/ ReadTimeout \/ ByeEnd
  BY <1>4 DEF LoopTopComplete, LoopTopCancelled, LoopTopArm, PushOverflow, ReadError,
     PushIgnored, GapRecheck, ReadTimeout, ByeEnd, Stay, Fail, netVars, bufVars, outVars
<1>5. CASE PushBuffered \/ PushTolerated
  <2>1. UNCHANGED <<stream, decoded, pes, body, reports, finish, portHeld>>
    BY <1>5 DEF PushBuffered, PushTolerated, Goto, netVars, outVars, endVars
  <2> QED BY <1>5, <2>1 DEF PushBuffered, PushTolerated, Pushing, Goto, Holding
<1>6. CASE maybeProactiveFastForward
  BY <1>6 DEF maybeProactiveFastForward, Skipping, Stay, netVars, bufVars, outVars
<1>7. CASE checkActiveGapTimeout
  BY <1>7 DEF checkActiveGapTimeout, Skipping, Stay, Fail, netVars, bufVars, outVars
<1>8. CASE TimeoutGap
  BY <1>8 DEF TimeoutGap, Skipping, Stay, Fail, netVars, bufVars, outVars
<1>9. CASE TimeoutBye
  BY <1>9 DEF TimeoutBye, Skipping, Stay, netVars, bufVars, outVars
<1> QED BY <1>1, <1>2, <1>3, <1>4, <1>5, <1>6, <1>7, <1>8, <1>9 DEF Next, Loop

\* The next run released: contiguous, just after what was released before, or at most
\* MaxSkip beyond it where losses may be skipped.
Releases(result, skipped) ==
  \E a \in Nat :
    /\ Run(result.ready, a)
    /\ decoded # <<>> => a \in After(decoded) .. (After(decoded) + skipped)

\* The window's tolerance never shrinks when a packet is pushed.
LEMMA PushTolerance ==
  ASSUME NEW b \in Buffers, NEW s, NEW p,
         PushState(b, s) \in {"in_order", "buffered", "gap_tolerated"}
  PROVE  Push(b, s, p).buf.lossTolerance = b.lossTolerance
<1> DEFINE c == Started(b, s)
<1>1. c.lossTolerance = b.lossTolerance
  BY DEF Started, Buffers
<1>2. CASE PushState(b, s) = "in_order"
  <2>1. Push(b, s, p).buf = flushReady(c, SeqAdd(s, 1)).buf
    BY <1>2 DEF Push
  <2> QED BY <1>1, <2>1 DEF flushReady, Started, Buffers
<1>3. CASE PushState(b, s) \in {"buffered", "gap_tolerated"}
  BY <1>3 DEF Push, Started, Buffers
<1> QED BY <1>2, <1>3

\* Push in order and a skip both release a run.
LEMMA Released ==
  ASSUME IInv
  PROVE  /\ PushInOrder =>
              /\ Releases(Pushed, 0) /\ Head(work) \in Nat
              /\ Deliver(Pushed, "check", <<"success">>)
              /\ Pushed.buf.lossTolerance = buf.lossTolerance
              /\ UNCHANGED stream
         /\ Skipping =>
              LET r == FastForwardToNextPending(buf, MaxSkip)
              IN  /\ stream.skip
                  /\ Releases(r, MaxSkip)
                  /\ \E label \in {"check", "recheck", "bye", "byeEnd"} :
                       \E eof \in {<<"success">>, <<"success", "error">>} : Deliver(r, label, eof)
                  /\ r.buf.lossTolerance = buf.lossTolerance
                  /\ UNCHANGED stream
         /\ MaxSkip \in Nat /\ BufInv(buf, decoded) /\ buf \in Buffers
<1>1. BufInv(buf, decoded) /\ buf \in Buffers /\ decoded \in Seq(Nat) /\ Ordered(decoded)
  BY DEF IInv, BufInv
<1>2. MaxSkip \in Nat /\ (decoded # <<>> => After(decoded) \in Nat)
  BY <1>1, BufferFields, WindowFact, AfterFact DEF MaxSkip
<1>3. ASSUME PushInOrder
      PROVE  /\ Releases(Pushed, 0) /\ Head(work) \in Nat
             /\ Deliver(Pushed, "check", <<"success">>)
             /\ Pushed.buf.lossTolerance = buf.lossTolerance
             /\ UNCHANGED stream
  <2>1. /\ pc = "work" /\ PushState(buf, SeqNo(Head(work))) = "in_order"
        /\ Deliver(Pushed, "check", <<"success">>) /\ UNCHANGED stream
    BY <1>3 DEF PushInOrder, Pushing, netVars
  <2>2. /\ Head(work) \in Nat
        /\ decoded # <<>> => Head(work) - After(decoded) < Half /\ After(decoded) - Head(work) < Half
    BY <2>1, HeadNear
  <2>3. Run(Pushed.ready, Head(work)) /\ (decoded # <<>> => Head(work) = After(decoded))
    BY <1>1, <2>1, <2>2, PushInOrderKeeps DEF Pushed
  <2>4. Releases(Pushed, 0)
    BY <1>2, <2>2, <2>3 DEF Releases
  <2>5. Pushed.buf.lossTolerance = buf.lossTolerance
    BY <1>1, <2>1, PushTolerance DEF Pushed
  <2> QED BY <2>1, <2>2, <2>4, <2>5
<1>4. ASSUME Skipping
      PROVE  LET r == FastForwardToNextPending(buf, MaxSkip)
             IN  /\ stream.skip
                 /\ Releases(r, MaxSkip)
                 /\ \E label \in {"check", "recheck", "bye", "byeEnd"} :
                      \E eof \in {<<"success">>, <<"success", "error">>} : Deliver(r, label, eof)
                 /\ r.buf.lossTolerance = buf.lossTolerance
                 /\ UNCHANGED stream
  <2> DEFINE r == FastForwardToNextPending(buf, MaxSkip)
  <2>1. /\ stream.skip /\ CanFastForward(buf, MaxSkip) /\ UNCHANGED stream
        /\ \E label \in {"check", "recheck", "bye", "byeEnd"} :
             \E eof \in {<<"success">>, <<"success", "error">>} : Deliver(r, label, eof)
    BY <1>4 DEF Skipping, CanSkip, tryFastForwardGap, netVars
  <2>2. decoded # <<>> /\ \E j \in 1 .. MaxSkip : Run(r.ready, After(decoded) + j)
    BY <1>1, <1>2, <2>1, FastForwardKeeps
  <2>3. Releases(r, MaxSkip)
    <3>1. PICK j \in 1 .. MaxSkip : Run(r.ready, After(decoded) + j)
      BY <2>2
    <3> HIDE DEF r
    <3> QED BY <3>1, <2>2, <1>2 DEF Releases
  <2>4. r.buf.lossTolerance = buf.lossTolerance
    BY <1>1 DEF FastForwardToNextPending, flushReady, Buffers
  <2> QED BY <2>1, <2>3, <2>4
<1> QED BY <1>1, <1>2, <1>3, <1>4

-----------------------------------------------------------------------------
(* Losses.                                                                 *)

GapsWithin(dec, k) == \A i \in 1 .. (Len(dec) - 1) : dec[i + 1] - dec[i] <= 1 + k

MayLose == IF stream.skip THEN MaxSkip ELSE 0

\* A run released at most k beyond the last packet leaves no wider gap.
LEMMA GapAppend ==
  ASSUME NEW dec \in Seq(Nat), NEW k \in Nat, GapsWithin(dec, k), NEW run, NEW a \in Nat,
         Run(run, a), dec # <<>> => a <= After(dec) + k
  PROVE  GapsWithin(dec \o run, k)
<1> DEFINE all == dec \o run
           p == Len(dec)
           q == Len(run)
<1>1. p \in Nat /\ q \in Nat /\ run \in Seq(Nat) /\ Len(dec) = p /\ all = dec \o run
  BY DEF Run
<1>2. /\ Len(all) = p + q
      /\ \A i \in 1 .. (p + q) : all[i] = IF i <= p THEN dec[i] ELSE run[i - p]
  BY <1>1, ConcatProperties
<1>3. Len(all) = p + q
  BY <1>2
<1>4. \A i \in 1 .. q : run[i] = a + i - 1
  BY DEF Run
<1>5. \A i \in 1 .. p : dec[i] \in Nat
  OBVIOUS
<1>6. dec # <<>> => a <= dec[p] + 1 + k
  BY DEF After
<1>7. p > 0 => dec # <<>>
  OBVIOUS
<1>8. \A i \in 1 .. (p - 1) : dec[i + 1] - dec[i] <= 1 + k
  BY DEF GapsWithin
<1> HIDE DEF all, p, q
<1>9. ASSUME NEW i \in 1 .. p PROVE all[i] = dec[i]
  <2>1. i \in 1 .. (p + q) /\ i <= p
    BY <1>1
  <2> QED BY <1>2, <2>1
<1>10. ASSUME NEW i \in (p + 1) .. (p + q) PROVE all[i] = a + (i - p) - 1
  <2>1. i \in 1 .. (p + q) /\ ~(i <= p) /\ i - p \in 1 .. q
    BY <1>1
  <2>2. all[i] = run[i - p]
    BY <1>2, <2>1
  <2> QED BY <1>4, <2>1, <2>2
<1>11. ASSUME NEW i \in 1 .. (p + q - 1) PROVE all[i + 1] - all[i] <= 1 + k
  <2>1. CASE i < p
    <3>1. i \in 1 .. p /\ i + 1 \in 1 .. p /\ i \in 1 .. (p - 1)
      BY <1>1, <2>1
    <3>2. all[i] = dec[i] /\ all[i + 1] = dec[i + 1]
      BY <1>9, <3>1
    <3> QED BY <1>8, <3>1, <3>2
  <2>2. CASE i = p
    <3>1. p \in 1 .. p /\ p + 1 \in (p + 1) .. (p + q) /\ p > 0
      BY <1>1, <2>2
    <3>2. all[p] = dec[p] /\ dec[p] \in Nat
      BY <1>5, <1>9, <3>1
    <3>3. PICK n \in (p + 1) .. (p + q) : n = p + 1
      BY <3>1
    <3>4. all[n] = a + (n - p) - 1
      BY <1>10
    <3>5. a <= dec[p] + 1 + k
      BY <1>6, <1>7, <3>1
    <3>6. n - p = 1 /\ n = i + 1
      BY <1>1, <2>2, <3>3
    <3>7. all[i + 1] = a /\ all[i] = dec[p]
      <4>1. a + 1 - 1 = a
        OBVIOUS
      <4>2. all[n] = a
        BY <3>4, <3>6, <4>1
      <4> QED BY <2>2, <3>2, <3>6, <4>2
    <3>8. a - dec[p] <= 1 + k
      <4> DEFINE x == dec[p]
      <4>1. x \in Nat /\ a <= x + 1 + k
        BY <3>2, <3>5
      <4> HIDE DEF x
      <4>2. a - x <= 1 + k
        BY <4>1
      <4> QED BY <4>2 DEF x
    <3> QED BY <3>7, <3>8, Zenon
  <2>3. CASE i > p
    <3>1. i \in (p + 1) .. (p + q) /\ i + 1 \in (p + 1) .. (p + q)
      BY <1>1, <2>3
    <3>2. PICK n \in (p + 1) .. (p + q) : n = i + 1
      BY <3>1
    <3>3. all[i] = a + (i - p) - 1 /\ all[n] = a + (n - p) - 1
      BY <1>10, <3>1
    <3> QED BY <1>1, <3>1, <3>2, <3>3
  <2>4. i < p \/ i = p \/ i > p
    BY <1>1
  <2> QED BY <2>1, <2>2, <2>3, <2>4
<1>12. \A i \in 1 .. (Len(all) - 1) : all[i + 1] - all[i] <= 1 + k
  <2> SUFFICES ASSUME NEW i \in 1 .. (Len(all) - 1) PROVE all[i + 1] - all[i] <= 1 + k
    OBVIOUS
  <2>1. i \in 1 .. ((p + q) - 1)
    BY <1>3, Zenon
  <2>2. i \in 1 .. (p + q - 1)
    BY <1>1, <2>1
  <2> QED BY <1>11, <2>2
<1>13. GapsWithin(all, k)
  BY <1>12, Zenon DEF GapsWithin
<1> QED BY <1>1, <1>13

\* Every step keeps the losses within bounds, as the tolerance only grows.
LEMMA LossStep == IInv /\ LossBounded /\ [Next]_vars => LossBounded'
<1> SUFFICES ASSUME IInv, GapsWithin(decoded, MayLose), [Next]_vars
             PROVE  GapsWithin(decoded, MayLose)'
  BY DEF LossBounded, GapsWithin, MayLose
<1>1. /\ MaxSkip \in Nat /\ buf \in Buffers /\ decoded \in Seq(Nat) /\ Ordered(decoded)
      /\ MayLose \in Nat /\ buf.lossTolerance \in Nat
  BY Released, BufferFields, WindowFact DEF BufInv, MayLose
<1>2. ASSUME NEW dec, dec \in Seq(Nat), GapsWithin(dec, MayLose), decoded' = dec, UNCHANGED stream,
             buf'.lossTolerance \in Nat, buf'.lossTolerance >= buf.lossTolerance
      PROVE  GapsWithin(decoded, MayLose)'
  <2>1. MayLose' \in Nat /\ MayLose <= MayLose'
    BY <1>1, <1>2 DEF MayLose, MaxSkip
  <2>2. \A i \in 1 .. (Len(dec) - 1) : dec[i + 1] - dec[i] \in Int
    <3> TAKE i \in 1 .. (Len(dec) - 1)
    <3>1. i \in 1 .. Len(dec) /\ i + 1 \in 1 .. Len(dec)
      BY <1>2
    <3> QED BY <3>1, <1>2
  <2> HIDE DEF MayLose
  <2>3. \A i \in 1 .. (Len(dec) - 1) : dec[i + 1] - dec[i] <= 1 + MayLose'
    BY <2>1, <2>2, <1>1, <1>2 DEF GapsWithin
  <2> QED BY <2>3, <1>2 DEF GapsWithin
<1>3. ASSUME NEW r, NEW k \in Nat, k <= MayLose, Releases(r, k), r.buf.lossTolerance = buf.lossTolerance,
             buf' = r.buf, decoded' = decoded \o r.ready, UNCHANGED stream
      PROVE  GapsWithin(decoded, MayLose)'
  <2>1. PICK a \in Nat : Run(r.ready, a) /\ (decoded # <<>> => a <= After(decoded) + k)
    BY <1>3 DEF Releases
  <2>2. decoded # <<>> => a <= After(decoded) + MayLose
    BY <2>1, <1>1, <1>3, AfterFact
  <2>3. GapsWithin(decoded \o r.ready, MayLose)
    BY <1>1, <2>1, <2>2, GapAppend
  <2>4. decoded \o r.ready \in Seq(Nat)
    BY <1>1, <2>1, ConcatProperties DEF Run
  <2>5. buf'.lossTolerance \in Nat /\ buf'.lossTolerance >= buf.lossTolerance
    BY <1>1, <1>3
  <2> DEFINE dec == decoded \o r.ready
  <2>6. dec \in Seq(Nat) /\ GapsWithin(dec, MayLose) /\ decoded' = dec /\ UNCHANGED stream
    BY <1>3, <2>3, <2>4
  <2> HIDE DEF dec
  <2> QED BY <1>2, <2>5, <2>6
<1>4. CASE UNCHANGED <<stream, buf, decoded, pes, body>>
  BY <1>1, <1>2, <1>4
<1>5. CASE Holding
  <2> DEFINE r == Pushed.buf
  <2>1. r.lossTolerance = buf.lossTolerance
    BY <1>1, <1>5, PushTolerance DEF Holding, Pushed
  <2>2. BufInv(r, decoded)
    BY <1>5, HeadNear, PushHeldKeeps DEF Holding, IInv, Pushed
  <2>3. r \in Buffers /\ r.lossTolerance \in Nat
    BY <2>1, <2>2, <1>1 DEF BufInv
  <2>4. buf'.lossTolerance \in Nat /\ buf'.lossTolerance >= buf.lossTolerance
    <3>1. CASE buf' = r
      BY <3>1, <2>1, <2>3
    <3>2. CASE buf' = ExpandTolerance(r, RescueWindow, RescueTolerance)
      <4>1. buf'.lossTolerance = IF RescueTolerance > r.lossTolerance THEN RescueTolerance ELSE r.lossTolerance
        BY <3>2, <2>3 DEF ExpandTolerance, Buffers
      <4> HIDE DEF r
      <4> QED BY <4>1, <2>1, <2>3, StreamAssumption
    <3> QED BY <1>5, <3>1, <3>2 DEF Holding
  <2> QED BY <1>1, <1>2, <1>5, <2>4 DEF Holding
<1>6. CASE PushInOrder
  <2>1. /\ Releases(Pushed, 0) /\ Pushed.buf.lossTolerance = buf.lossTolerance
        /\ buf' = Pushed.buf /\ decoded' = decoded \o Pushed.ready /\ UNCHANGED stream
    BY <1>6, Released, DeliverFacts
  <2>2. 0 <= MayLose
    BY <1>1
  <2> QED BY <2>1, <2>2, <1>3
<1>7. CASE Skipping
  <2> DEFINE r == FastForwardToNextPending(buf, MaxSkip)
  <2>1. /\ stream.skip /\ Releases(r, MaxSkip) /\ r.buf.lossTolerance = buf.lossTolerance
        /\ buf' = r.buf /\ decoded' = decoded \o r.ready /\ UNCHANGED stream
    BY <1>7, Released, DeliverFacts
  <2>2. MaxSkip <= MayLose
    BY <2>1, <1>1 DEF MayLose
  <2> HIDE DEF r
  <2> QED BY <2>1, <2>2, <1>1, <1>3
<1> QED BY <1>4, <1>5, <1>6, <1>7, StepKinds

\* Packets the decoder sees in a row are next to each other where losses may not be
\* skipped, and at most the loss tolerance apart where they may: whatever path leads to
\* FastForwardToNextPending, a skip never grows with the backlog or across the wrap.
THEOREM SkipsAreBounded == Spec => []LossBounded
<1>1. Init => LossBounded
  <2> SUFFICES ASSUME Init, NEW i \in 1 .. (Len(decoded) - 1) PROVE FALSE
    BY DEF LossBounded
  <2>1. Len(decoded) = 0
    BY DEF Init
  <2> QED BY <2>1
<1> QED BY <1>1, InitInv, NextInv, LossStep, PTL DEF Spec

-----------------------------------------------------------------------------
(* Only packets of the stream are buffered and released.                   *)

Known(b) == \A s \in DOMAIN b.pending : b.pending[s] \in Ids

\* What the loop of flushReady goes over is buffered.
LEMMA RunFound ==
  ASSUME NEW pending, NEW from
  PROVE  LET m == RunLength(pending, from)
         IN  m \in 0 .. SeqSpace /\ \A i \in 0 .. (m - 1) : SeqAdd(from, i) \in DOMAIN pending
<1> DEFINE T == {i \in 0 .. SeqSpace : i = SeqSpace \/ SeqAdd(from, i) \notin DOMAIN pending}
           P(x) == /\ \A i \in 0 .. (x - 1) : SeqAdd(from, i) \in DOMAIN pending
                   /\ x = SeqSpace \/ SeqAdd(from, x) \notin DOMAIN pending
           m == RunLength(pending, from)
<1>1. PICK x \in T : \A y \in T : x <= y
  <2>1. T \subseteq Nat /\ SeqSpace \in T
    BY SeqSpaceAssumption
  <2> QED BY <2>1, LeastNat
<1>2. x \in 0 .. SeqSpace /\ (x = SeqSpace \/ SeqAdd(from, x) \notin DOMAIN pending)
  BY <1>1
<1>3. ASSUME NEW i \in 0 .. (x - 1) PROVE SeqAdd(from, i) \in DOMAIN pending
  <2>1. i \in 0 .. SeqSpace /\ ~(x <= i)
    BY <1>2, SeqSpaceAssumption
  <2> QED BY <2>1, <1>1
<1>4. P(x)
  BY <1>2, <1>3
<1>5. m = CHOOSE y \in 0 .. SeqSpace : P(y)
  BY DEF RunLength
<1> HIDE DEF m, P, T
<1>6. m \in 0 .. SeqSpace /\ P(m)
  BY <1>2, <1>4, <1>5
<1> QED BY <1>6 DEF P, m

\* flushReady releases and keeps what was buffered.
LEMMA FlushKnown ==
  ASSUME NEW b \in Buffers, NEW from, Known(b)
  PROVE  LET f == flushReady(b, from) IN f.ready \in Packets /\ Known(f.buf)
<1> DEFINE m == RunLength(b.pending, from)
           f == flushReady(b, from)
           kept == {s \in DOMAIN b.pending : Dist(s, from) >= m}
<1>1. m \in Nat /\ \A i \in 0 .. (m - 1) : SeqAdd(from, i) \in DOMAIN b.pending
  BY RunFound, SeqSpaceAssumption
<1>2. /\ f.ready = [i \in 1 .. m |-> b.pending[SeqAdd(from, i - 1)]]
      /\ f.buf.pending = [s \in kept |-> b.pending[s]]
  BY DEF flushReady, Buffers
<1> HIDE DEF m
<1>3. \A i \in 1 .. m : b.pending[SeqAdd(from, i - 1)] \in Ids
  <2> TAKE i \in 1 .. m
  <2>1. i - 1 \in 0 .. (m - 1)
    BY <1>1
  <2> QED BY <2>1, <1>1 DEF Known
<1>4. f.ready \in [1 .. m -> Ids]
  BY <1>2, <1>3
<1>5. f.ready \in Packets
  BY <1>1, <1>4 DEF Packets
<1>6. DOMAIN f.buf.pending = kept /\ \A s \in kept : f.buf.pending[s] = b.pending[s]
  BY <1>2
<1>7. Known(f.buf)
  BY <1>6 DEF Known
<1> QED BY <1>5, <1>7

\* So does Push.
LEMMA PushKnown ==
  ASSUME NEW b \in Buffers, Known(b), NEW id \in Ids,
         PushState(b, SeqNo(id)) \in {"in_order", "buffered", "gap_tolerated"}
  PROVE  LET r == Push(b, SeqNo(id), id) IN r.ready \in Packets /\ Known(r.buf)
<1> DEFINE s == SeqNo(id)
           c == Started(b, s)
           r == Push(b, s, id)
<1>1. s \in Seqs
  BY SeqNoInSpace DEF Ids
<1>2. c \in Buffers /\ c.pending = b.pending
  BY <1>1 DEF Started, Buffers
<1>3. Known(c)
  BY <1>2 DEF Known
<1>4. CASE PushState(b, s) = "in_order"
  <2> DEFINE f == flushReady(c, SeqAdd(s, 1))
  <2>1. r = [ready |-> <<id>> \o f.ready, buf |-> f.buf]
    BY <1>4 DEF Push
  <2>2. f.ready \in Packets /\ Known(f.buf)
    BY <1>2, <1>3, FlushKnown
  <2> HIDE DEF f
  <2>3. <<id>> \in Seq(Ids)
    OBVIOUS
  <2> QED BY <2>1, <2>2, <2>3, ConcatProperties DEF Packets
<1>5. CASE PushState(b, s) \in {"buffered", "gap_tolerated"}
  <2> DEFINE D == DOMAIN c.pending \cup {s}
             map == [x \in D |-> IF x = s THEN id ELSE c.pending[x]]
  <2>1. r = [ready |-> <<>>, buf |-> [c EXCEPT !.pending = map]]
    BY <1>5 DEF Push
  <2>2. r.ready = <<>> /\ r.buf.pending = map
    BY <2>1, <1>2 DEF Buffers
  <2>3. DOMAIN r.buf.pending = D /\ \A x \in D : r.buf.pending[x] \in Ids
    BY <2>2, <1>3 DEF Known
  <2>4. <<>> \in Seq(Ids)
    OBVIOUS
  <2> QED BY <2>2, <2>3, <2>4 DEF Known, Packets
<1> QED BY <1>4, <1>5

KnownInv ==
  /\ Known(buf)
  /\ work \in Packets /\ decoded \in Packets /\ recent \subseteq Ids
  /\ \A g \in groups : g.data \subseteq g.ids

\* What FEC notes, recovers and pushes are packets of the stream.
LEMMA ArrivalKnown ==
  ASSUME IInv, KnownInv, Arrival
  PROVE  work' \in Packets /\ recent' \subseteq Ids /\ \A g \in groups' : g.data \subseteq g.ids
<1>1. CASE ReadStray
  BY <1>1 DEF ReadStray, fecVars, KnownInv
<1>2. ASSUME NEW id \in Ids, ReadPacket(id)
      PROVE  work' \in Packets /\ recent' \subseteq Ids /\ \A g \in groups' : g.data \subseteq g.ids
  <2>1. CASE ~(FecGroup > 1)
    <3>1. work' = <<id>> /\ UNCHANGED <<groups, recent>>
      BY <1>2, <2>1 DEF ReadPacket, fecVars
    <3>2. <<id>> \in Seq(Ids)
      OBVIOUS
    <3> QED BY <3>1, <3>2 DEF KnownInv, Packets
  <2>2. CASE FecGroup > 1
    <3> DEFINE note(g) == IF id \in g.ids THEN [g EXCEPT !.data = @ \cup {id}] ELSE g
               noted == {note(g) : g \in groups}
               hit   == {g \in noted : id \in g.ids /\ Recoverable(g)}
               found == Missing(CHOOSE g \in hit : TRUE)
    <3>1. /\ groups' = TrimGroups(noted \ hit)
          /\ recent' = TrimRecent(recent \cup {id} \cup (IF hit = {} THEN {} ELSE {found}))
          /\ work' = IF hit = {} THEN <<id>> ELSE <<found, id>>
      BY <1>2, <2>2 DEF ReadPacket, ObserveData
    <3>2. \A g \in noted : g.data \subseteq g.ids /\ g.ids \subseteq Ids
      <4> SUFFICES ASSUME NEW g \in groups
                   PROVE  note(g).data \subseteq note(g).ids /\ note(g).ids \subseteq Ids
        OBVIOUS
      <4>1. g \in [ids : ParityGroups, data : SUBSET Nat] /\ g.data \subseteq g.ids
        BY DEF IInv, GroupsInv, KnownInv
      <4>2. g.ids \subseteq Ids
        BY <4>1, GroupSpan
      <4>3. note(g).ids = g.ids /\ note(g).data \subseteq g.data \cup {id}
            /\ (id \notin g.ids => note(g).data = g.data)
        BY <4>1
      <4> HIDE DEF note
      <4> QED BY <4>1, <4>2, <4>3
    <3>3. \A g \in groups' : g.data \subseteq g.ids
      BY <3>1, <3>2 DEF TrimGroups
    <3>4. hit # {} => found \in Ids
      <4>1. SUFFICES ASSUME hit # {} PROVE found \in Ids
        OBVIOUS
      <4> DEFINE g == CHOOSE h \in hit : TRUE
      <4>2. g \in hit
        BY <4>1
      <4> HIDE DEF g
      <4>3. g \in noted /\ Recoverable(g)
        BY <4>2
      <4>4. Missing(g) \in g.ids
        BY <4>3, MissingFact
      <4> QED BY <4>3, <4>4, <3>2 DEF g
    <3> HIDE DEF hit, found, noted
    <3>5. recent' \subseteq Ids
      BY <3>1, <3>4 DEF TrimRecent, KnownInv
    <3>6. work' \in Packets
      <4>1. <<id>> \in Seq(Ids) /\ (found \in Ids => <<found, id>> \in Seq(Ids))
        OBVIOUS
      <4> QED BY <3>1, <3>4, <4>1 DEF Packets
    <3> QED BY <3>3, <3>5, <3>6
  <2> QED BY <2>1, <2>2
<1>3. ASSUME NEW g \in ParityGroups, ReadParity(g)
      PROVE  work' \in Packets /\ recent' \subseteq Ids /\ \A h \in groups' : h.data \subseteq h.ids
  <2> DEFINE group == [ids |-> g, data |-> g \cap recent]
             other == {h \in groups : h.ids # g}
  <2>1. g \subseteq Ids
    BY GroupSpan
  <2>2. CASE Recoverable(group)
    <3>1. /\ groups' = TrimGroups(groups) /\ work' = <<Missing(group)>>
          /\ recent' = TrimRecent(recent \cup {Missing(group)})
      BY <1>3, <2>2 DEF ReadParity
    <3>2. Missing(group) \in Ids
      BY <2>1, <2>2, MissingFact
    <3> HIDE DEF group
    <3>3. <<Missing(group)>> \in Seq(Ids)
      BY <3>2
    <3> QED BY <3>1, <3>2, <3>3 DEF TrimGroups, TrimRecent, KnownInv, Packets
  <2>3. CASE ~Recoverable(group)
    <3>1. /\ groups' = TrimGroups(other \cup {group}) /\ recent' = TrimRecent(recent) /\ UNCHANGED work
      BY <1>3, <2>3 DEF ReadParity
    <3>2. group.data \subseteq group.ids
      OBVIOUS
    <3> HIDE DEF group
    <3>3. \A h \in other \cup {group} : h.data \subseteq h.ids
      BY <3>2 DEF KnownInv
    <3> HIDE DEF other
    <3> QED BY <3>1, <3>3 DEF TrimGroups, TrimRecent, KnownInv
  <2> QED BY <2>2, <2>3
<1> QED BY <1>1, <1>2, <1>3 DEF Arrival

\* Every step keeps it.
LEMMA KnownStep == IInv /\ KnownInv /\ [Next]_vars => KnownInv'
<1> SUFFICES ASSUME IInv, KnownInv, [Next]_vars PROVE KnownInv'
  OBVIOUS
<1>1. buf \in Buffers /\ work \in Seq(Ids) /\ decoded \in Seq(Ids)
  BY DEF IInv, BufInv, KnownInv, Packets
<1>2. work' \in Packets /\ recent' \subseteq Ids /\ \A g \in groups' : g.data \subseteq g.ids
  <2>1. CASE Arrival
    BY <2>1, ArrivalKnown
  <2>2. CASE UNCHANGED <<work, recent, groups>>
    BY <2>2 DEF KnownInv
  <2>3. CASE work # <<>> /\ work' = Tail(work) /\ UNCHANGED <<recent, groups>>
    BY <2>3, <1>1, HeadTailProperties DEF KnownInv, Packets
  <2>4. ASSUME NEW states, Pushing(states), work' = Tail(work), UNCHANGED fecVars
        PROVE  work # <<>> /\ work' = Tail(work) /\ UNCHANGED <<recent, groups>>
    BY <2>4 DEF IInv, WorkInv, Pushing, fecVars
  <2>5. CASE PushInOrder \/ PushBuffered \/ PushTolerated \/ PushIgnored
    BY <2>3, <2>4, <2>5 DEF PushInOrder, PushBuffered, PushTolerated, PushIgnored
  <2>6. CASE UNCHANGED vars
    BY <2>2, <2>6 DEF vars, loopVars, fecVars
  <2>7. CASE Answerer \/ Beside \/ BodyTimeout \/ Tick \/ StreamStart
    BY <2>2, <2>7 DEF Answerer, SendPacket, SendResponseEnd, SendBye, Beside, RecvResponseEnd, RecvBye,
       HelperTakesEnd, HelperTakesBye, HelperGivesUp, ReaderClose, BodyTimeout, Tick, StreamStart,
       loopVars, fecVars
  <2>8. CASE LoopTopComplete \/ LoopTopCancelled \/ LoopTopArm \/ PushOverflow \/ ReadError
             \/ GapRecheck \/ ReadTimeout \/ ByeEnd \/ maybeProactiveFastForward
             \/ checkActiveGapTimeout \/ TimeoutGap \/ TimeoutBye
    BY <2>2, <2>8 DEF LoopTopComplete, LoopTopCancelled, LoopTopArm, PushOverflow, ReadError,
       GapRecheck, ReadTimeout, ByeEnd, maybeProactiveFastForward, checkActiveGapTimeout, TimeoutGap,
       TimeoutBye, Stay, Fail, tryFastForwardGap, fecVars
  <2> QED BY <2>1, <2>5, <2>6, <2>7, <2>8 DEF Next, Loop
<1>3. pc = "work" => Head(work) \in Ids
  <2>1. SUFFICES ASSUME pc = "work" PROVE Head(work) \in Ids
    OBVIOUS
  <2>2. work # <<>>
    BY <2>1 DEF IInv, WorkInv
  <2> QED BY <2>2, <1>1, HeadTailProperties
<1>4. Known(buf') /\ decoded' \in Packets
  <2>1. CASE UNCHANGED <<stream, buf, decoded, pes, body>>
    BY <2>1 DEF KnownInv
  <2>2. CASE Holding
    <3>1. Known(Pushed.buf)
      BY <1>1, <1>3, <2>2, PushKnown DEF Holding, Pushed, KnownInv
    <3>2. BufInv(Pushed.buf, decoded)
      BY <2>2, HeadNear, PushHeldKeeps DEF Holding, IInv, Pushed
    <3>3. ExpandTolerance(Pushed.buf, RescueWindow, RescueTolerance).pending = Pushed.buf.pending
      BY <3>2 DEF ExpandTolerance, Buffers, BufInv
    <3> QED BY <3>1, <3>3, <2>2 DEF Holding, Known, KnownInv
  <2>3. CASE PushInOrder
    <3>1. pc = "work" /\ PushState(buf, SeqNo(Head(work))) = "in_order"
      BY <2>3 DEF PushInOrder, Pushing
    <3>2. Pushed.ready \in Packets /\ Known(Pushed.buf)
      BY <1>1, <1>3, <3>1, PushKnown DEF Pushed, KnownInv
    <3>3. buf' = Pushed.buf /\ decoded' = decoded \o Pushed.ready
      BY <2>3, Released, DeliverFacts
    <3> QED BY <3>2, <3>3, <1>1, ConcatProperties DEF Packets
  <2>4. CASE Skipping
    <3> DEFINE r == FastForwardToNextPending(buf, MaxSkip)
    <3>1. r.ready \in Packets /\ Known(r.buf)
      BY <1>1, FlushKnown DEF FastForwardToNextPending, KnownInv
    <3>2. buf' = r.buf /\ decoded' = decoded \o r.ready
      BY <2>4, Released, DeliverFacts
    <3> QED BY <3>1, <3>2, <1>1, ConcatProperties DEF Packets
  <2> QED BY <2>1, <2>2, <2>3, <2>4, StepKinds
<1> QED BY <1>2, <1>4 DEF KnownInv, Known

-----------------------------------------------------------------------------
(* The decoder and the pipe, packet by packet.                             *)

Start == [pes |-> pes, body |-> body, eof |-> FALSE]

\* w[n] is the decoder after n packets of ready.
WritesTo(w, ready) ==
  /\ w[0] = Start
  /\ \A n \in 1 .. Len(ready) : w[n] = WritePacket(w[n - 1], ready[n])
  /\ decoderAfter(ready) = w

\* decoderAfter is well defined.
LEMMA Written ==
  ASSUME NEW ready, Len(ready) \in Nat
  PROVE  \E w : WritesTo(w, ready)
<1> DEFINE L == Len(ready)
           Step(g, n) == IF n = 0 THEN Start ELSE WritePacket(g[n - 1], ready[n])
           S == {k \in 0 .. L : \E g : g = [n \in 0 .. k |-> Step(g, n)]}
<1>1. 0 \in S
  <2> DEFINE g == [n \in 0 .. 0 |-> Start]
  <2>1. g = [n \in 0 .. 0 |-> Step(g, n)]
    OBVIOUS
  <2> HIDE DEF g
  <2>2. \E x : x = [n \in 0 .. 0 |-> Step(x, n)]
    BY <2>1
  <2> QED BY <2>2
<1>2. ASSUME NEW k \in 1 .. L, k - 1 \in S PROVE k \in S
  <2>1. PICK g : g = [n \in 0 .. (k - 1) |-> Step(g, n)]
    BY <1>2
  <2> DEFINE h == [n \in 0 .. k |-> IF n = k THEN WritePacket(g[k - 1], ready[k]) ELSE g[n]]
  <2>2. ASSUME NEW n \in 0 .. k PROVE h[n] = Step(h, n)
    <3>1. CASE n = k
      <4>1. k - 1 \in 0 .. k /\ k - 1 # k /\ k # 0
        BY <1>2
      <4>2. h[k - 1] = g[k - 1] /\ h[k] = WritePacket(g[k - 1], ready[k])
        BY <4>1
      <4> QED BY <3>1, <4>1, <4>2
    <3>2. CASE n # k
      <4>1. n \in 0 .. (k - 1) /\ (n # 0 => n - 1 \in 0 .. (k - 1) /\ n - 1 # k /\ n - 1 \in 0 .. k)
        BY <1>2, <3>2
      <4>2. h[n] = g[n] /\ (n # 0 => h[n - 1] = g[n - 1])
        BY <4>1, <3>2
      <4>3. g[n] = Step(g, n)
        BY <2>1, <4>1
      <4> QED BY <4>2, <4>3
    <3> QED BY <3>1, <3>2
  <2>3. h = [n \in 0 .. k |-> Step(h, n)]
    <3>1. h = [n \in 0 .. k |-> h[n]]
      OBVIOUS
    <3> HIDE DEF h
    <3>2. [n \in 0 .. k |-> h[n]] = [n \in 0 .. k |-> Step(h, n)]
      BY <2>2
    <3> QED BY <3>1, <3>2
  <2> HIDE DEF h
  <2>4. \E x : x = [n \in 0 .. k |-> Step(x, n)]
    BY <2>3
  <2> QED BY <2>4
<1>3. L \in S
  <2> HIDE DEF S
  <2>1. \A n \in 0 .. L : n \in S
    BY <1>1, <1>2, Upto
  <2> QED BY <2>1
<1> DEFINE w == CHOOSE g : g = [n \in 0 .. L |-> Step(g, n)]
<1>4. w = [n \in 0 .. L |-> Step(w, n)]
  BY <1>3
<1>5. decoderAfter(ready) = w
  BY DEF decoderAfter, Start
<1> HIDE DEF w
<1>6. w[0] = Start /\ \A n \in 1 .. L : w[n] = WritePacket(w[n - 1], ready[n])
  BY <1>4
<1> QED BY <1>5, <1>6 DEF WritesTo

Decoders == [pes : Packets, body : Packets, eof : BOOLEAN]

\* The unit a packet completes or extends.
Unit(acc, id) == IF acc.pes = <<>> /\ id % FragPackets # 0 THEN <<>> ELSE Append(acc.pes, id)

\* What a packet does to the decoder, case by case.
LEMMA WriteCases ==
  ASSUME NEW acc \in Decoders, NEW id \in Ids, expectedBytes \in Int
  PROVE  LET u    == Unit(acc, id)
             out  == WritePacket(acc, id)
             room == expectedBytes - Len(acc.body)
             cut  == expectedBytes >= 0 /\ Len(u) > room
             part == IF cut THEN SubSeq(u, 1, room) ELSE u
         IN  /\ out \in Decoders /\ u \in Packets /\ Len(u) \in Nat /\ Len(u) <= Len(acc.pes) + 1
             /\ Len(acc.body) \in Nat /\ Len(acc.pes) \in Nat /\ room \in Int
             /\ acc.eof => out = acc
             /\ ~acc.eof /\ Len(u) < FragPackets => out = [acc EXCEPT !.pes = u]
             /\ ~acc.eof /\ Len(u) >= FragPackets =>
                  IF expectedBytes >= 0 /\ room <= 0 THEN out = [acc EXCEPT !.eof = TRUE]
                  ELSE /\ out = [pes |-> <<>>, eof |-> FALSE, body |-> acc.body \o part]
                       /\ part \in Packets /\ Len(part) = IF cut THEN room ELSE Len(u)
                       /\ \A i \in 1 .. Len(part) : part[i] = u[i]
                       /\ Len(part) <= Len(u)
<1> DEFINE u    == Unit(acc, id)
           out  == WritePacket(acc, id)
           room == expectedBytes - Len(acc.body)
           cut  == expectedBytes >= 0 /\ Len(u) > room
           part == IF cut THEN SubSeq(u, 1, room) ELSE u
<1>1. acc.pes \in Seq(Ids) /\ acc.body \in Seq(Ids) /\ acc.eof \in BOOLEAN
  BY DEF Decoders, Packets
<1>2. Len(acc.body) \in Nat /\ Len(acc.pes) \in Nat /\ room \in Int /\ FragPackets \in Nat
  BY <1>1, StreamAssumption, LenProperties
<1>3. u \in Seq(Ids) /\ Len(u) \in Nat /\ Len(u) <= Len(acc.pes) + 1
  <2>1. <<>> \in Seq(Ids) /\ Len(<<>>) = 0
    OBVIOUS
  <2>2. Append(acc.pes, id) \in Seq(Ids) /\ Len(Append(acc.pes, id)) = Len(acc.pes) + 1
    BY <1>1, AppendProperties
  <2> QED BY <2>1, <2>2, <1>2 DEF Unit
<1>4. out = IF acc.eof THEN acc
            ELSE IF Len(u) < FragPackets THEN [acc EXCEPT !.pes = u]
            ELSE IF expectedBytes >= 0 /\ room <= 0 THEN [acc EXCEPT !.eof = TRUE]
            ELSE [pes |-> <<>>, eof |-> FALSE, body |-> acc.body \o part]
  BY DEF WritePacket, Unit
<1> HIDE DEF u, out
<1>5. ASSUME Len(u) >= FragPackets, ~(expectedBytes >= 0 /\ room <= 0)
      PROVE  /\ part \in Seq(Ids) /\ Len(part) = IF cut THEN room ELSE Len(u)
             /\ \A i \in 1 .. Len(part) : part[i] = u[i]
             /\ Len(part) <= Len(u)
  <2>1. CASE cut
    <3>1. 1 \in 1 .. Len(u) + 1 /\ room \in 0 .. Len(u) /\ room \in 1 .. Len(u) /\ 1 \in 1 .. Len(u)
      BY <1>2, <1>3, <1>5, <2>1
    <3>2. SubSeq(u, 1, room) \in Seq(Ids) /\ Len(SubSeq(u, 1, room)) = room
          /\ \A i \in 1 .. room : SubSeq(u, 1, room)[i] = u[i]
      <4> HIDE DEF room
      <4> QED BY <1>3, <3>1
    <3>3. part = SubSeq(u, 1, room) /\ room <= Len(u)
      BY <2>1, <3>1, <1>3
    <3> HIDE DEF room, part
    <3> QED BY <2>1, <3>2, <3>3
  <2>2. CASE ~cut
    <3>1. part = u /\ Len(u) <= Len(u)
      BY <2>2, <1>3
    <3> HIDE DEF part
    <3> QED BY <2>2, <3>1, <1>3
  <2> QED BY <2>1, <2>2
<1>6. out \in Decoders
  <2>1. CASE acc.eof
    BY <2>1, <1>4
  <2>2. CASE ~acc.eof /\ Len(u) < FragPackets
    BY <2>2, <1>3, <1>4 DEF Decoders, Packets
  <2>3. CASE ~acc.eof /\ ~(Len(u) < FragPackets) /\ expectedBytes >= 0 /\ room <= 0
    BY <2>3, <1>4 DEF Decoders
  <2>4. CASE ~acc.eof /\ ~(Len(u) < FragPackets) /\ ~(expectedBytes >= 0 /\ room <= 0)
    <3>1. out = [pes |-> <<>>, eof |-> FALSE, body |-> acc.body \o part]
      BY <2>4, <1>4
    <3>2. Len(u) >= FragPackets
      BY <2>4, <1>2, <1>3
    <3>3. acc.body \o part \in Seq(Ids) /\ <<>> \in Seq(Ids)
      <4> HIDE DEF part
      <4> QED BY <3>2, <2>4, <1>1, <1>5, ConcatProperties
    <3> HIDE DEF part
    <3> QED BY <3>1, <3>3 DEF Decoders, Packets
  <2> QED BY <2>1, <2>2, <2>3, <2>4
<1> HIDE DEF part, room, cut
<1>7. u \in Packets /\ (part \in Seq(Ids) => part \in Packets)
  BY <1>3 DEF Packets
<1>8. Len(u) >= FragPackets <=> ~(Len(u) < FragPackets)
  BY <1>2, <1>3
<1> QED BY <1>2, <1>3, <1>4, <1>5, <1>6, <1>7, <1>8 DEF u, out, part, room, cut

\* acc comes k packets after the present state. A packet adds at most itself to what
\* the decoder and the pipe hold, and a unit that is refused because the body is complete
\* lies beyond it.
Weighs(acc, k) ==
  /\ acc \in Decoders /\ Len(body) <= Len(acc.body)
  /\ Len(acc.body) + Len(acc.pes) <= Len(body) + Len(pes) + k
  /\ acc.eof => /\ expectedBytes >= 0 /\ Len(acc.body) >= expectedBytes
                /\ Len(acc.body) + 1 <= Len(body) + Len(pes) + k

\* The sums it comes to.
LEMMA WeightSums ==
  ASSUME NEW b \in Nat, NEW p \in Nat, NEW u \in Nat, NEW h \in Nat, NEW k \in Nat,
         u <= p + 1, b + p <= h + k
  PROVE  b + p <= h + (k + 1) /\ b + 1 <= h + (k + 1) /\ b + u <= h + (k + 1)
OBVIOUS

\* One packet.
LEMMA WriteWeight ==
  ASSUME pes \in Packets, body \in Packets, expectedBytes \in Int,
         NEW acc, NEW id \in Ids, NEW k \in Nat, Weighs(acc, k)
  PROVE  Weighs(WritePacket(acc, id), k + 1)
<1> DEFINE held == Len(body) + Len(pes)
           u == Unit(acc, id)
           out == WritePacket(acc, id)
           room == expectedBytes - Len(acc.body)
           cut  == expectedBytes >= 0 /\ Len(u) > room
           part == IF cut THEN SubSeq(u, 1, room) ELSE u
<1>1. /\ Len(body) \in Nat /\ Len(pes) \in Nat /\ held \in Nat
      /\ FragPackets \in Nat /\ FragPackets >= 1
  BY StreamAssumption, LenProperties DEF Packets
<1>2. /\ acc \in Decoders /\ Len(acc.body) + Len(acc.pes) <= held + k /\ Len(body) <= Len(acc.body)
      /\ acc.eof => /\ expectedBytes >= 0 /\ Len(acc.body) >= expectedBytes
                    /\ Len(acc.body) + 1 <= held + k
  BY DEF Weighs
<1>3. /\ out \in Decoders /\ u \in Packets /\ Len(u) \in Nat /\ Len(u) <= Len(acc.pes) + 1
      /\ Len(acc.body) \in Nat /\ Len(acc.pes) \in Nat /\ room \in Int
      /\ acc.eof => out = acc
      /\ ~acc.eof /\ Len(u) < FragPackets => out = [acc EXCEPT !.pes = u]
      /\ ~acc.eof /\ Len(u) >= FragPackets =>
           IF expectedBytes >= 0 /\ room <= 0 THEN out = [acc EXCEPT !.eof = TRUE]
           ELSE /\ out = [pes |-> <<>>, eof |-> FALSE, body |-> acc.body \o part]
                /\ part \in Packets
                /\ Len(part) <= Len(u)
  BY <1>2, WriteCases
<1> HIDE DEF u, part, cut, out
<1> SUFFICES /\ Len(out.body) + Len(out.pes) <= held + (k + 1) /\ Len(body) <= Len(out.body)
             /\ out.eof => /\ expectedBytes >= 0 /\ Len(out.body) >= expectedBytes
                           /\ Len(out.body) + 1 <= held + (k + 1)
  BY <1>3 DEF Weighs, out
<1> HIDE DEF held
<1>9. /\ Len(u) \in Nat /\ Len(u) <= Len(acc.pes) + 1 /\ Len(acc.body) \in Nat /\ Len(acc.pes) \in Nat
      /\ Len(acc.body) + Len(acc.pes) <= held + k /\ held \in Nat
  BY <1>1, <1>2, <1>3
<1>10. /\ Len(acc.body) + Len(acc.pes) <= held + (k + 1) /\ Len(acc.body) + 1 <= held + (k + 1)
       /\ Len(acc.body) + Len(u) <= held + (k + 1)
  BY <1>9, WeightSums
<1>4. CASE acc.eof
  <2>1. out = acc
    BY <1>3, <1>4
  <2> QED BY <2>1, <1>2, <1>10, <1>4
<1>5. CASE ~acc.eof /\ Len(u) < FragPackets
  <2>1. out.body = acc.body /\ out.pes = u /\ ~out.eof
    BY <1>2, <1>3, <1>5 DEF Decoders
  <2> QED BY <2>1, <1>2, <1>10
<1>6. CASE ~acc.eof /\ Len(u) >= FragPackets /\ expectedBytes >= 0 /\ room <= 0
  <2>1. out.body = acc.body /\ out.pes = acc.pes
    BY <1>2, <1>3, <1>6 DEF Decoders
  <2>2. Len(acc.body) >= expectedBytes
    BY <1>3, <1>6
  <2> QED BY <2>1, <2>2, <1>2, <1>6, <1>10
<1>7. CASE ~acc.eof /\ Len(u) >= FragPackets /\ ~(expectedBytes >= 0 /\ room <= 0)
  <2>1. /\ out.body = acc.body \o part /\ out.pes = <<>> /\ ~out.eof
        /\ part \in Seq(Ids) /\ Len(part) <= Len(u)
    BY <1>3, <1>7, SMTT(60) DEF Packets
  <2>2. acc.body \in Seq(Ids)
    BY <1>2 DEF Decoders, Packets
  <2>3. Len(out.body) = Len(acc.body) + Len(part) /\ Len(out.pes) = 0 /\ Len(part) \in Nat
    BY <2>1, <2>2, ConcatProperties, LenProperties
  <2>4. Len(acc.body) + Len(part) + 0 <= held + (k + 1)
    BY <2>1, <2>3, <1>9, <1>10
  <2>5. Len(body) <= Len(acc.body) + Len(part)
    BY <2>3, <1>1, <1>2, <1>9
  <2> QED BY <2>1, <2>3, <2>4, <2>5
<1>8. Len(u) < FragPackets \/ Len(u) >= FragPackets
  BY <1>3, <1>1
<1> QED BY <1>4, <1>5, <1>6, <1>7, <1>8

\* All of them.
LEMMA WrittenWeight ==
  ASSUME NEW ready \in Packets, pes \in Packets, body \in Packets, expectedBytes \in Int,
         NEW w, WritesTo(w, ready)
  PROVE  \A n \in 0 .. Len(ready) : Weighs(w[n], n)
<1> DEFINE S == {k \in 0 .. Len(ready) : Weighs(w[k], k)}
<1>1. Len(ready) \in Nat /\ Len(body) \in Nat /\ Len(pes) \in Nat
  BY LenProperties DEF Packets
<1>2. 0 \in S
  <2>1. w[0] \in Decoders /\ w[0].body = body /\ w[0].pes = pes /\ ~w[0].eof
    BY DEF WritesTo, Start, Decoders
  <2>2. Len(body) + Len(pes) <= Len(body) + Len(pes) + 0 /\ Len(body) <= Len(body)
    BY <1>1
  <2>3. Weighs(w[0], 0)
    BY <2>1, <2>2 DEF Weighs
  <2> QED BY <2>3, <1>1
<1>3. ASSUME NEW k \in 1 .. Len(ready), k - 1 \in S PROVE k \in S
  <2>1. w[k] = WritePacket(w[k - 1], ready[k]) /\ ready[k] \in Ids /\ k - 1 \in Nat /\ (k - 1) + 1 = k
    BY <1>1, ElementOfSeq DEF WritesTo, Packets
  <2>2. Weighs(WritePacket(w[k - 1], ready[k]), (k - 1) + 1)
    BY <1>3, <2>1, WriteWeight
  <2> QED BY <2>1, <2>2
<1> HIDE DEF S
<1>4. \A k \in 0 .. Len(ready) : k \in S
  BY <1>1, <1>2, <1>3, Upto
<1> QED BY <1>4 DEF S

\* The same of the whole run.
LEMMA OutWeight ==
  ASSUME NEW ready \in Packets, pes \in Packets, body \in Packets, expectedBytes \in Int
  PROVE  LET out == processOrderedPackets(ready)
         IN  /\ out \in Decoders /\ Len(body) <= Len(out.body)
             /\ Len(out.body) + Len(out.pes) <= Len(body) + Len(pes) + Len(ready)
             /\ out.eof => /\ expectedBytes >= 0
                           /\ expectedBytes < Len(body) + Len(pes) + Len(ready)
<1>1. Len(ready) \in Nat /\ Len(body) \in Nat /\ Len(pes) \in Nat
  BY LenProperties DEF Packets
<1>2. PICK w : WritesTo(w, ready)
  BY <1>1, Written
<1> DEFINE out == processOrderedPackets(ready)
<1>3. out = w[Len(ready)] /\ Len(ready) \in 0 .. Len(ready)
  BY <1>1, <1>2 DEF WritesTo, processOrderedPackets
<1>4. /\ out \in Decoders /\ Len(body) <= Len(out.body)
      /\ Len(out.body) + Len(out.pes) <= Len(body) + Len(pes) + Len(ready)
      /\ out.eof => /\ expectedBytes >= 0 /\ Len(out.body) >= expectedBytes
                    /\ Len(out.body) + 1 <= Len(body) + Len(pes) + Len(ready)
  BY <1>2, <1>3, WrittenWeight DEF Weighs
<1> HIDE DEF out
<1> DEFINE held == Len(body) + Len(pes) + Len(ready)
<1>5. Len(out.body) \in Nat /\ held \in Nat
  BY <1>1, <1>4, LenProperties DEF Decoders, Packets
<1>6. \A b, h \in Nat : b >= expectedBytes /\ b + 1 <= h => expectedBytes < h
  OBVIOUS
<1>7. out.eof => expectedBytes >= 0 /\ expectedBytes < held
  BY <1>4, <1>5, <1>6
<1> QED BY <1>4, <1>7 DEF out

\* And of a run cut short.
LEMMA PartWeight ==
  ASSUME NEW ready \in Packets, pes \in Packets, body \in Packets, expectedBytes \in Int,
         NEW n \in 1 .. Len(ready)
  PROVE  LET out == decoderAfter(ready)[n - 1]
         IN  /\ out \in Decoders
             /\ Len(out.body) + Len(out.pes) <= Len(body) + Len(pes) + Len(ready)
<1>1. Len(ready) \in Nat /\ Len(body) \in Nat /\ Len(pes) \in Nat
  BY LenProperties DEF Packets
<1>2. PICK w : WritesTo(w, ready)
  BY <1>1, Written
<1>3. decoderAfter(ready) = w /\ n - 1 \in 0 .. Len(ready) /\ n - 1 <= Len(ready)
  BY <1>1, <1>2 DEF WritesTo
<1>4. w[n - 1] \in Decoders /\ Len(w[n - 1].body) + Len(w[n - 1].pes) <= Len(body) + Len(pes) + (n - 1)
  BY <1>2, <1>3, WrittenWeight DEF Weighs
<1>5. Len(w[n - 1].body) \in Nat /\ Len(w[n - 1].pes) \in Nat
  BY <1>4, LenProperties DEF Decoders, Packets
<1> DEFINE ob == Len(w[n - 1].body)
           op == Len(w[n - 1].pes)
           held == Len(body) + Len(pes)
           L == Len(ready)
<1>6. /\ ob \in Nat /\ op \in Nat /\ held \in Nat /\ L \in Nat /\ n \in 1 .. L
      /\ ob + op <= held + (n - 1)
  <2>1. held \in Nat /\ L \in Nat /\ n \in 1 .. L
    BY <1>1
  <2>2. ob \in Nat /\ op \in Nat
    BY <1>5
  <2>3. ob + op <= held + (n - 1)
    BY <1>4
  <2> QED BY <2>1, <2>2, <2>3
<1> HIDE DEF ob, op, held, L
<1>7. ob + op <= held + L
  BY <1>6
<1> QED BY <1>3, <1>4, <1>7 DEF ob, op, held, L

\* Packets of the body in order are no more than the body has.
LEMMA OrderedLen ==
  ASSUME NEW dec \in Packets, Ordered(dec)
  PROVE  Len(dec) <= NumPackets
<1> DEFINE S == {n \in 0 .. Len(dec) : n = 0 \/ dec[n] >= n - 1}
<1>1. Len(dec) \in Nat /\ \A i \in 1 .. Len(dec) : dec[i] \in Ids
  BY LenProperties, ElementOfSeq DEF Packets
<1>2. NumPackets \in Nat /\ \A x \in Ids : x \in Nat /\ x <= NumPackets - 1
  BY StreamAssumption DEF Ids
<1>3. ASSUME NEW n \in 1 .. Len(dec), n - 1 \in S PROVE n \in S
  <2>1. CASE n = 1
    BY <2>1, <1>1, <1>2
  <2>2. CASE n # 1
    <3>1. n - 1 \in 1 .. Len(dec) /\ n - 1 < n /\ n - 1 # 0
      BY <2>2, <1>1
    <3>2. dec[n - 1] < dec[n] /\ dec[n - 1] >= (n - 1) - 1
      BY <3>1, <1>3 DEF Ordered
    <3> QED BY <3>1, <3>2, <1>1, <1>2
  <2> QED BY <2>1, <2>2
<1>4. 0 \in S
  BY <1>1
<1>5. Len(dec) \in S
  <2> HIDE DEF S
  <2>1. \A k \in 0 .. Len(dec) : k \in S
    BY <1>1, <1>3, <1>4, Upto
  <2> QED BY <2>1, <1>1
<1>6. CASE Len(dec) = 0
  BY <1>2, <1>6
<1>7. CASE Len(dec) # 0
  <2>1. Len(dec) \in 1 .. Len(dec)
    BY <1>1, <1>7
  <2> QED BY <2>1, <1>1, <1>2, <1>5
<1> QED BY <1>6, <1>7

-----------------------------------------------------------------------------
(* Types.                                                                  *)

PlainInv ==
  /\ stream \in StreamKinds /\ sent \in 0 .. NumPackets
  /\ pc \in {"idle", "top", "read", "work", "proactive", "check", "recheck",
             "timeout", "bye", "byeEnd", "done"}
  /\ gapAge \in -1 .. 2
  /\ expectedBytes \in Int /\ localExpected \in Int

FlagsInv ==
  /\ endSent \in BOOLEAN /\ byeSent \in BOOLEAN /\ rescued \in BOOLEAN
  /\ endCh \in BOOLEAN /\ byeCh \in BOOLEAN /\ byeSeen \in BOOLEAN /\ helper \in BOOLEAN
  /\ ctxDone \in BOOLEAN /\ closed \in BOOLEAN /\ portHeld \in BOOLEAN

OutInv ==
  /\ pes \in Packets /\ body \in Packets /\ Len(body) + Len(pes) <= Len(decoded)

ReportsInv == reports \in Seq({"success", "error"})

\* What arrives beside the loop and the sending side keep to their types.
LEMMA PlainStep == PlainInv /\ [Next]_vars => PlainInv'
<1> SUFFICES ASSUME PlainInv, [Next]_vars PROVE PlainInv'
  OBVIOUS
<1> USE DEF PlainInv
<1>1. CASE UNCHANGED vars
  BY <1>1 DEF vars, netVars, loopVars, bufVars, sipVars
<1>2. CASE Answerer
  BY <1>2, StreamAssumption DEF Answerer, SendPacket, SendResponseEnd, SendBye, loopVars, bufVars, sipVars
<1>3. CASE Beside \/ BodyTimeout
  BY <1>3, StreamAssumption DEF Beside, RecvResponseEnd, RecvBye, HelperTakesEnd, HelperTakesBye, HelperGivesUp,
     ReaderClose, BodyTimeout, LowerExpected, netVars, loopVars, bufVars
<1>4. CASE StreamStart
  BY <1>4, StreamAssumption DEF StreamStart, LowerExpected, netVars, bufVars
<1>5. CASE Tick
  BY <1>5 DEF Tick, netVars, loopVars, sipVars
<1>6. CASE Arrival
  BY <1>6 DEF Arrival, ReadPacket, ReadParity, ReadStray, Finish, Goto, netVars, bufVars, sipVars
<1>7. CASE LoopTopComplete \/ LoopTopCancelled \/ LoopTopArm \/ PushOverflow \/ ReadError
           \/ PushIgnored \/ GapRecheck \/ ReadTimeout \/ ByeEnd
  BY <1>7 DEF LoopTopComplete, LoopTopCancelled, LoopTopArm, PushOverflow, ReadError, PushIgnored,
     GapRecheck, ReadTimeout, ByeEnd, Stay, Fail, Finish, Goto, AfterGapCheck, netVars, bufVars, sipVars
<1>8. CASE PushInOrder \/ PushBuffered \/ PushTolerated
  BY <1>8 DEF PushInOrder, PushBuffered, PushTolerated, Deliver, WriteAll, DecodeError, Finish, Goto,
     netVars, sipVars
<1>9. CASE maybeProactiveFastForward \/ checkActiveGapTimeout \/ TimeoutGap \/ TimeoutBye
  BY <1>9 DEF maybeProactiveFastForward, checkActiveGapTimeout, TimeoutGap, TimeoutBye,
     tryFastForwardGap, Deliver, WriteAll, DecodeError, Stay, Fail, Finish, Goto, AfterGapCheck, netVars, bufVars, sipVars
<1> QED BY <1>1, <1>2, <1>3, <1>4, <1>5, <1>6, <1>7, <1>8, <1>9 DEF Next, Loop

\* So do the flags.
LEMMA FlagsStep == FlagsInv /\ [Next]_vars => FlagsInv'
<1> SUFFICES ASSUME FlagsInv, [Next]_vars PROVE FlagsInv'
  OBVIOUS
<1> USE DEF FlagsInv
<1>1. CASE UNCHANGED vars
  BY <1>1 DEF vars, netVars, loopVars, bufVars, sipVars, endVars
<1>2. CASE Answerer
  BY <1>2, ZenonT(60) DEF Answerer, SendPacket, SendResponseEnd, SendBye, loopVars, bufVars, sipVars, endVars
<1>3. CASE Beside \/ BodyTimeout
  BY <1>3, ZenonT(60) DEF Beside, RecvResponseEnd, RecvBye, HelperTakesEnd, HelperTakesBye, HelperGivesUp,
     ReaderClose, BodyTimeout, netVars, loopVars, bufVars, endVars
<1>4. CASE StreamStart \/ Tick
  BY <1>4, ZenonT(60) DEF StreamStart, Tick, netVars, bufVars, endVars, sipVars, loopVars
<1>5. ASSUME UNCHANGED <<endSent, byeSent, rescued, endCh, byeCh, byeSeen, helper, ctxDone, closed>>,
             portHeld' = portHeld \/ portHeld' = FALSE
      PROVE  FlagsInv'
  BY <1>5
<1>6. CASE Arrival
  <2>1. UNCHANGED <<endSent, byeSent, rescued, endCh, byeCh, byeSeen, helper, ctxDone, closed>>
    BY <1>6 DEF Arrival, ReadPacket, ReadParity, ReadStray, netVars, bufVars, sipVars
  <2>2. portHeld' = portHeld \/ portHeld' = FALSE
    BY <1>6 DEF Arrival, ReadPacket, ReadParity, ReadStray, Finish, Goto, endVars
  <2> QED BY <1>5, <2>1, <2>2
<1>7. CASE LoopTopComplete \/ LoopTopCancelled \/ PushOverflow \/ ReadError
           \/ PushIgnored \/ GapRecheck \/ ReadTimeout \/ ByeEnd
  <2>1. UNCHANGED <<endSent, byeSent, rescued, endCh, byeCh, byeSeen, helper, ctxDone, closed>>
    BY <1>7 DEF LoopTopComplete, LoopTopCancelled, PushOverflow, ReadError, PushIgnored,
       GapRecheck, ReadTimeout, ByeEnd, Stay, Fail, netVars, bufVars, sipVars
  <2>2. portHeld' = portHeld \/ portHeld' = FALSE
    BY <1>7 DEF LoopTopComplete, LoopTopCancelled, PushOverflow, ReadError, PushIgnored,
       GapRecheck, ReadTimeout, ByeEnd, Stay, Fail, Finish, Goto, endVars
  <2> QED BY <1>5, <2>1, <2>2
<1>8. CASE LoopTopArm \/ PushBuffered \/ PushTolerated
  BY <1>8, ZenonT(60) DEF LoopTopArm, PushBuffered, PushTolerated, Goto, netVars, bufVars, sipVars, endVars
<1>9. CASE PushInOrder \/ maybeProactiveFastForward \/ checkActiveGapTimeout \/ TimeoutGap \/ TimeoutBye
  <2>1. UNCHANGED <<endSent, byeSent, rescued, endCh, byeCh, byeSeen, helper, ctxDone, closed>>
    BY <1>9 DEF PushInOrder, maybeProactiveFastForward, checkActiveGapTimeout, TimeoutGap, TimeoutBye,
       tryFastForwardGap, Stay, Fail, netVars, bufVars, sipVars
  <2>2. portHeld' = portHeld \/ portHeld' = FALSE
    BY <1>9 DEF PushInOrder, maybeProactiveFastForward, checkActiveGapTimeout, TimeoutGap, TimeoutBye,
       tryFastForwardGap, Deliver, WriteAll, DecodeError, Stay, Fail, Finish, Goto, endVars
  <2> QED BY <1>5, <2>1, <2>2
<1> QED BY <1>1, <1>2, <1>3, <1>4, <1>6, <1>7, <1>8, <1>9 DEF Next, Loop

\* The packets released are packets of the stream.
LEMMA ReadyKnown ==
  ASSUME IInv, KnownInv
  PROVE  /\ PushInOrder => Pushed.ready \in Packets
         /\ FastForwardToNextPending(buf, MaxSkip).ready \in Packets
<1>1. buf \in Buffers /\ work \in Seq(Ids) /\ Known(buf)
  BY DEF IInv, BufInv, KnownInv, Packets
<1>2. ASSUME PushInOrder PROVE Pushed.ready \in Packets
  <2>1. pc = "work" /\ PushState(buf, SeqNo(Head(work))) = "in_order" /\ work # <<>>
    BY <1>2 DEF PushInOrder, Pushing, IInv, WorkInv
  <2>2. Head(work) \in Ids
    BY <1>1, <2>1, HeadTailProperties
  <2> QED BY <1>1, <2>1, <2>2, PushKnown DEF Pushed
<1>3. FastForwardToNextPending(buf, MaxSkip).ready \in Packets
  BY <1>1, FlushKnown DEF FastForwardToNextPending
<1> QED BY <1>2, <1>3

\* The decoder and the pipe hold packets of the stream, no more than were released.
LEMMA OutStep ==
  IInv /\ KnownInv /\ PlainInv /\ OutInv /\ [Next]_vars => OutInv'
<1> SUFFICES ASSUME IInv, KnownInv, PlainInv, OutInv, [Next]_vars PROVE OutInv'
  OBVIOUS
<1>1. expectedBytes \in Int /\ KnownInv' /\ decoded \in Packets /\ decoded' \in Packets
  BY KnownStep DEF PlainInv, KnownInv
<1>2. ASSUME NEW r, NEW label, NEW eof, WriteAll(r.ready, label, eof), r.ready \in Packets,
             decoded' = decoded \o r.ready
      PROVE  OutInv'
  <2> DEFINE out == processOrderedPackets(r.ready)
  <2>1. /\ out \in Decoders
        /\ Len(out.body) + Len(out.pes) <= Len(body) + Len(pes) + Len(r.ready)
    BY <1>1, <1>2, OutWeight DEF OutInv
  <2>2. /\ decoded' = decoded \o r.ready /\ pes' = out.pes
        /\ body' = IF closed THEN body ELSE out.body
    BY <1>2 DEF WriteAll
  <2> HIDE DEF out
  <2>3. out.pes \in Packets /\ out.body \in Packets
    BY <2>1 DEF Decoders
  <2>5. /\ Len(decoded') = Len(decoded) + Len(r.ready) /\ Len(decoded) \in Nat /\ Len(r.ready) \in Nat
        /\ Len(body) \in Nat /\ Len(pes) \in Nat /\ Len(out.body) \in Nat /\ Len(out.pes) \in Nat
    BY <1>1, <1>2, <2>2, <2>3, ConcatProperties, LenProperties DEF Packets, OutInv
  <2>6. Len(body) + Len(pes) <= Len(decoded) /\ body \in Packets
    BY DEF OutInv
  <2>7. /\ Len(out.body) + Len(out.pes) <= Len(decoded')
        /\ Len(body) <= Len(out.body) => Len(body) + Len(out.pes) <= Len(decoded')
    <3> DEFINE b == Len(body)
               p == Len(pes)
               ob == Len(out.body)
               op == Len(out.pes)
               d == Len(decoded)
               n == Len(r.ready)
    <3>1. /\ b \in Nat /\ p \in Nat /\ ob \in Nat /\ op \in Nat /\ d \in Nat /\ n \in Nat
          /\ Len(decoded') = d + n /\ ob + op <= b + p + n /\ b + p <= d
      BY <2>1, <2>5, <2>6
    <3> HIDE DEF b, p, ob, op, d, n
    <3>2. ob + op <= d + n /\ (b <= ob => b + op <= d + n)
      BY <3>1
    <3> QED BY <3>1, <3>2 DEF b, ob, op
  <2>8. CASE ~closed
    BY <2>2, <2>3, <2>7, <2>8 DEF OutInv
  <2>9. CASE closed
    <3>1. Len(body) <= Len(out.body)
      BY <1>1, <1>2, OutWeight DEF OutInv, out
    <3>2. Len(body) + Len(out.pes) <= Len(decoded')
      BY <3>1, <2>7
    <3> QED BY <3>2, <2>2, <2>3, <2>6, <2>9 DEF OutInv
  <2> QED BY <2>8, <2>9
<1>3. CASE UNCHANGED <<stream, buf, decoded, pes, body>>
  BY <1>3 DEF OutInv
<1>4. CASE Holding
  BY <1>4 DEF OutInv, Holding
<1>5. ASSUME NEW r, DecodeError(r.ready), r.ready \in Packets, decoded' = decoded \o r.ready
      PROVE  OutInv'
  <2>1. PICK n \in 1 .. Len(r.ready) : /\ pes' = decoderAfter(r.ready)[n - 1].pes
                                       /\ body' = decoderAfter(r.ready)[n - 1].body
    BY <1>5 DEF DecodeError
  <2> DEFINE out == decoderAfter(r.ready)[n - 1]
  <2>2. /\ out \in Decoders
        /\ Len(out.body) + Len(out.pes) <= Len(body) + Len(pes) + Len(r.ready)
    BY <1>1, <1>5, PartWeight DEF OutInv
  <2>3. /\ out.pes \in Packets /\ out.body \in Packets /\ pes' = out.pes /\ body' = out.body
    BY <2>1, <2>2 DEF Decoders
  <2> HIDE DEF out
  <2>4. /\ Len(decoded') = Len(decoded) + Len(r.ready) /\ Len(decoded) \in Nat /\ Len(r.ready) \in Nat
        /\ Len(body) \in Nat /\ Len(pes) \in Nat /\ Len(out.body) \in Nat /\ Len(out.pes) \in Nat
    BY <1>1, <1>5, <2>3, ConcatProperties, LenProperties DEF Packets, OutInv
  <2>5. Len(body) + Len(pes) <= Len(decoded)
    BY DEF OutInv
  <2> DEFINE b == Len(body)
             p == Len(pes)
             ob == Len(out.body)
             op == Len(out.pes)
             d == Len(decoded)
             l == Len(r.ready)
  <2>6. /\ b \in Nat /\ p \in Nat /\ ob \in Nat /\ op \in Nat /\ d \in Nat /\ l \in Nat
        /\ Len(decoded') = d + l /\ ob + op <= b + p + l /\ b + p <= d
    BY <2>2, <2>4, <2>5
  <2> HIDE DEF b, p, ob, op, d, l
  <2>7. ob + op <= Len(decoded')
    BY <2>6
  <2> QED BY <2>3, <2>7 DEF OutInv, ob, op
<1>6. ASSUME NEW r, NEW label, NEW eof, Deliver(r, label, eof), r.ready \in Packets PROVE OutInv'
  BY <1>2, <1>5, <1>6 DEF Deliver
<1>7. CASE PushInOrder
  <2>1. Pushed.ready \in Packets
    BY <1>7, ReadyKnown
  <2>2. Deliver(Pushed, "check", <<"success">>)
    BY <1>7 DEF PushInOrder
  <2> QED BY <1>6, <2>1, <2>2
<1>8. CASE Skipping
  <2> DEFINE r == FastForwardToNextPending(buf, MaxSkip)
  <2>1. r.ready \in Packets
    BY ReadyKnown
  <2>2. \E label, eof : Deliver(r, label, eof)
    BY <1>8, Released
  <2> QED BY <1>6, <2>1, <2>2
<1> QED BY <1>3, <1>4, <1>7, <1>8, StepKinds

-----------------------------------------------------------------------------
(* The end of the stream.                                                  *)

\* How a step ends the stream, or does not.
Ends(callbacks) == \E why : Finish(callbacks, why)

\* A step that has nothing to do with the end, one that goes on in the loop, one that
\* ends it with one report, or a delivery.
LEMMA EndKinds ==
  ASSUME [Next]_vars
  PROVE  \/ UNCHANGED <<pc, reports, finish>> /\ (portHeld' = portHeld \/ portHeld' = FALSE)
         \/ pc = "idle" /\ pc' = "top" /\ UNCHANGED <<reports, finish, portHeld>>
         \/ pc # "done" /\ pc' # "done" /\ UNCHANGED <<reports, finish, portHeld>>
         \/ pc # "done" /\ (Ends(<<"success">>) \/ Ends(<<"error">>))
         \/ PushInOrder \/ Skipping
<1>1. CASE UNCHANGED vars
  BY <1>1 DEF vars, loopVars, endVars
<1>2. CASE Answerer \/ Beside \/ BodyTimeout \/ Tick \/ StreamStart
  BY <1>2 DEF Answerer, SendPacket, SendResponseEnd, SendBye, Beside, RecvResponseEnd, RecvBye,
     HelperTakesEnd, HelperTakesBye, HelperGivesUp, ReaderClose, BodyTimeout, Tick, StreamStart,
     loopVars, endVars
<1>3. CASE Arrival
  BY <1>3 DEF Arrival, ReadPacket, ReadParity, ReadStray, Goto, Ends, endVars
<1>4. CASE LoopTopComplete \/ LoopTopCancelled \/ LoopTopArm \/ PushOverflow \/ ReadError
           \/ PushIgnored \/ PushBuffered \/ PushTolerated
  BY <1>4 DEF LoopTopComplete, LoopTopCancelled, LoopTopArm, PushOverflow, ReadError,
     PushIgnored, PushBuffered, PushTolerated, Pushing, Goto, Ends, endVars
<1>5. CASE GapRecheck \/ ReadTimeout \/ ByeEnd
  BY <1>5 DEF GapRecheck, ReadTimeout, ByeEnd, AfterGapCheck, Stay, Fail, Goto, Ends, endVars
<1>6. CASE maybeProactiveFastForward
  BY <1>6 DEF maybeProactiveFastForward, Skipping, Stay, Goto, endVars
<1>7. CASE checkActiveGapTimeout
  BY <1>7 DEF checkActiveGapTimeout, Skipping, AfterGapCheck, Stay, Fail, Goto, Ends, endVars
<1>8. CASE TimeoutGap
  BY <1>8 DEF TimeoutGap, Skipping, Stay, Fail, Goto, Ends, endVars
<1>9. CASE TimeoutBye
  BY <1>9 DEF TimeoutBye, Skipping, Stay, Goto, endVars
<1> QED BY <1>1, <1>2, <1>3, <1>4, <1>5, <1>6, <1>7, <1>8, <1>9 DEF Next, Loop

\* A delivery goes on or ends.
LEMMA DeliverEnds ==
  ASSUME NEW result, NEW label, label # "done", NEW eof, Deliver(result, label, eof)
  PROVE  LET out == processOrderedPackets(result.ready)
         IN  \/ pc' = label /\ UNCHANGED <<reports, finish, portHeld>> /\ ~out.eof
             \/ Ends(<<"error">>) /\ finish' \in {"write", "decode"}
             \/ out.eof /\ Finish(eof, "content_length")
BY DEF Deliver, WriteAll, DecodeError, Goto, Ends, Finish, endVars

\* Reports are verdicts.
LEMMA ReportsStep == IInv /\ ReportsInv /\ [Next]_vars => ReportsInv'
<1> SUFFICES ASSUME IInv, reports \in Seq({"success", "error"}), [Next]_vars
             PROVE  reports' \in Seq({"success", "error"})
  BY DEF ReportsInv
<1> DEFINE V == {"success", "error"}
<1>1. /\ <<"success">> \in Seq(V) /\ <<"error">> \in Seq(V) /\ <<"success", "error">> \in Seq(V)
  <2>1. "success" \in V /\ "error" \in V
    OBVIOUS
  <2> HIDE DEF V
  <2> QED BY <2>1
<1> HIDE DEF V
<1>2. ASSUME NEW c \in Seq(V), reports' = reports \o c PROVE reports' \in Seq(V)
  BY <1>2, ConcatProperties DEF V
<1>3. ASSUME NEW c \in Seq(V), Ends(c) PROVE reports' \in Seq(V)
  BY <1>2, <1>3 DEF Ends, Finish
<1>4. ASSUME NEW r, NEW label, label # "done", NEW eof \in Seq(V), Deliver(r, label, eof)
      PROVE  reports' \in Seq(V)
  BY <1>1, <1>2, <1>3, <1>4, DeliverEnds DEF Finish, V
<1>5. CASE PushInOrder
  <2>1. Deliver(Pushed, "check", <<"success">>) /\ "check" # "done"
    BY <1>5 DEF PushInOrder
  <2>2. reports' \in Seq(V)
    BY <2>1, <1>1, <1>4
  <2> QED BY <2>2 DEF V
<1>6. CASE Skipping
  <2> DEFINE r == FastForwardToNextPending(buf, MaxSkip)
  <2>1. PICK label \in {"check", "recheck", "bye", "byeEnd"},
             eof \in {<<"success">>, <<"success", "error">>} : Deliver(r, label, eof)
    BY <1>6, Released
  <2>2. label # "done" /\ eof \in Seq(V)
    BY <1>1
  <2> HIDE DEF r
  <2>3. reports' \in Seq(V)
    BY <2>1, <2>2, <1>4
  <2> QED BY <2>3 DEF V
<1> QED BY <1>1, <1>3, <1>5, <1>6, EndKinds DEF V

TypeInv == PlainInv /\ FlagsInv /\ KnownInv /\ OutInv /\ ReportsInv

\* The types hold initially.
LEMMA InitTypes == Init => TypeInv
<1> SUFFICES ASSUME Init PROVE TypeInv
  OBVIOUS
<1>1. <<>> \in Seq(Ids) /\ <<>> \in Seq({"success", "error"}) /\ Len(<<>>) = 0
  OBVIOUS
<1>2. PlainInv
  BY StreamAssumption DEF Init, PlainInv
<1>3. FlagsInv
  BY DEF Init, FlagsInv
<1>4. DOMAIN buf.pending = {}
  BY DEF Init, newRTPSequenceReorderBuffer, EmptyMap
<1>5. KnownInv
  BY <1>1, <1>4 DEF Init, KnownInv, Known, Packets
<1>6. Len(body) + Len(pes) <= Len(decoded)
  BY <1>1 DEF Init
<1>7. OutInv /\ ReportsInv
  BY <1>1, <1>6 DEF Init, OutInv, ReportsInv, Packets
<1> QED BY <1>2, <1>3, <1>5, <1>7 DEF TypeInv

\* And for ever.
LEMMA TypesStep == IInv /\ TypeInv /\ [Next]_vars => TypeInv'
BY PlainStep, FlagsStep, KnownStep, OutStep, ReportsStep DEF TypeInv

\* Every variable of streamLoop, the decoder, the pipe and the channels keeps its type:
\* in particular whatever FEC recovers, the buffer holds and the pipe gets is a packet
\* of this stream.
THEOREM StreamTypes == Spec => []TypeOK
<1>1. IInv /\ TypeInv => TypeOK
  <2> SUFFICES ASSUME IInv, TypeInv PROVE TypeOK
    OBVIOUS
  <2>1. /\ buf.expected \in Seqs /\ buf.started \in BOOLEAN /\ DOMAIN buf.pending \subseteq Seqs
    BY BufferFields DEF IInv, BufInv
  <2>2. {endCh, byeCh, byeSeen, helper, ctxDone, closed, portHeld} \subseteq BOOLEAN
        /\ endSent \in BOOLEAN /\ byeSent \in BOOLEAN /\ rescued \in BOOLEAN
    BY DEF TypeInv, FlagsInv
  <2> QED BY <2>1, <2>2 DEF TypeOK, TypeInv, PlainInv, KnownInv, Known, OutInv, ReportsInv
<1> QED BY <1>1, InitInv, NextInv, InitTypes, TypesStep, PTL DEF Spec

-----------------------------------------------------------------------------
(* One verdict.                                                            *)

\* The Content-Length announced for a stream is not less than its body: the answering
\* node's HTTP client reads no more of a response than its Content-Length.
HonestLength == \A k \in StreamKinds : k.length < 0 \/ k.length >= NumPackets

LengthInv == expectedBytes < 0 \/ expectedBytes >= NumPackets

VerdictInv == OneVerdict /\ (pc # "done" => reports = <<>>)

\* The length known is only ever lowered to a length that covers the body.
LEMMA LengthStep ==
  ASSUME HonestLength
  PROVE  PlainInv /\ LengthInv /\ [Next]_vars => LengthInv'
<1> SUFFICES ASSUME PlainInv, LengthInv, [Next]_vars PROVE LengthInv'
  OBVIOUS
<1>1. NumPackets \in Nat /\ expectedBytes \in Int
  BY StreamAssumption DEF PlainInv
<1>2. CASE UNCHANGED expectedBytes
  BY <1>2 DEF LengthInv
<1>3. CASE LowerExpected(NumPackets)
  BY <1>1, <1>3 DEF LengthInv, LowerExpected
<1>4. CASE StreamStart
  <2>1. stream.length < 0 \/ stream.length >= NumPackets
    BY DEF HonestLength, PlainInv
  <2> QED BY <1>1, <1>4, <2>1 DEF StreamStart, LengthInv, LowerExpected
<1>5. CASE UNCHANGED vars \/ Answerer \/ Beside \/ BodyTimeout \/ Tick \/ Arrival
  <2>1. UNCHANGED expectedBytes \/ LowerExpected(NumPackets)
    BY <1>5 DEF vars, Answerer, SendPacket, SendResponseEnd, SendBye, Beside, RecvResponseEnd, RecvBye,
       HelperTakesEnd, HelperTakesBye, HelperGivesUp, ReaderClose, BodyTimeout, Tick,
       Arrival, ReadPacket, ReadParity, ReadStray, sipVars
  <2> QED BY <1>2, <1>3, <2>1
<1>6. CASE Loop
  <2>1. UNCHANGED expectedBytes
    BY <1>6 DEF Loop, LoopTopComplete, LoopTopCancelled, LoopTopArm, PushOverflow, ReadError,
       PushIgnored, PushInOrder, PushBuffered, PushTolerated, GapRecheck, ReadTimeout, ByeEnd,
       maybeProactiveFastForward, checkActiveGapTimeout, TimeoutGap, TimeoutBye,
       Stay, Fail, tryFastForwardGap, sipVars
  <2> QED BY <1>2, <2>1
<1> QED BY <1>4, <1>5, <1>6 DEF Next

\* No unit comes when the body is complete.
LEMMA NoEof ==
  ASSUME IInv, TypeInv, LengthInv, [Next]_vars, NEW result, decoded' = decoded \o result.ready,
         result.ready \in Packets
  PROVE  ~processOrderedPackets(result.ready).eof
<1> DEFINE out == processOrderedPackets(result.ready)
<1>1. /\ pes \in Packets /\ body \in Packets /\ expectedBytes \in Int /\ decoded \in Packets
      /\ Len(body) + Len(pes) <= Len(decoded)
  BY DEF TypeInv, PlainInv, KnownInv, OutInv
<1>2. Len(decoded') <= NumPackets
  <2>1. IInv' /\ KnownInv'
    BY NextInv, KnownStep DEF TypeInv
  <2>2. decoded' \in Packets /\ Ordered(decoded')
    BY <2>1 DEF IInv, BufInv, KnownInv, Ordered
  <2> QED BY <2>2, OrderedLen
<1>3. Len(decoded') = Len(decoded) + Len(result.ready)
  BY <1>1, ConcatProperties DEF Packets
<1>4. out.eof => expectedBytes >= 0 /\ expectedBytes < Len(body) + Len(pes) + Len(result.ready)
  BY <1>1, OutWeight
<1> HIDE DEF out
<1> DEFINE b == Len(body)
           p == Len(pes)
           d == Len(decoded)
           n == Len(result.ready)
<1>5. /\ b \in Nat /\ p \in Nat /\ d \in Nat /\ n \in Nat /\ b + p <= d /\ d + n <= NumPackets
      /\ NumPackets \in Nat /\ (out.eof => expectedBytes >= 0 /\ expectedBytes < b + p + n)
  BY <1>1, <1>2, <1>3, <1>4, StreamAssumption, LenProperties DEF Packets
<1> HIDE DEF b, p, d, n
<1>6. ~out.eof
  BY <1>1, <1>5 DEF LengthInv
<1> QED BY <1>6 DEF out

\* Every step keeps the verdict.
LEMMA VerdictStep == IInv /\ TypeInv /\ LengthInv /\ VerdictInv /\ [Next]_vars => VerdictInv'
<1> SUFFICES ASSUME IInv, TypeInv, LengthInv, VerdictInv, [Next]_vars PROVE VerdictInv'
  OBVIOUS
<1>1. ASSUME pc # "done", Ends(<<"success">>) \/ Ends(<<"error">>) PROVE VerdictInv'
  <2>1. reports = <<>> /\ pc' = "done" /\ portHeld' = FALSE
        /\ (reports' = reports \o <<"success">> \/ reports' = reports \o <<"error">>)
    BY <1>1 DEF VerdictInv, OneVerdict, Ends, Finish
  <2>2. Len(reports') = 1
    BY <2>1
  <2> QED BY <2>1, <2>2 DEF VerdictInv, OneVerdict
<1>2. ASSUME pc # "done", NEW r, NEW label, label # "done", NEW eof, Deliver(r, label, eof),
             r.ready \in Packets
      PROVE  VerdictInv'
  <2>1. ~processOrderedPackets(r.ready).eof
    BY <1>2, NoEof, DeliverFacts
  <2>2. \/ pc' = label /\ UNCHANGED <<reports, finish, portHeld>>
        \/ Ends(<<"error">>)
    BY <1>2, <2>1, DeliverEnds
  <2> QED BY <1>1, <1>2, <2>2 DEF VerdictInv, OneVerdict
<1>3. KnownInv
  BY DEF TypeInv
<1>4. CASE PushInOrder
  <2>1. pc # "done" /\ Pushed.ready \in Packets /\ Deliver(Pushed, "check", <<"success">>)
    BY <1>3, <1>4, ReadyKnown DEF PushInOrder, Pushing
  <2> QED BY <1>2, <2>1
<1>5. CASE Skipping
  <2> DEFINE r == FastForwardToNextPending(buf, MaxSkip)
  <2>1. pc # "done" /\ r.ready \in Packets
    BY <1>3, <1>5, ReadyKnown DEF Skipping
  <2>2. PICK label \in {"check", "recheck", "bye", "byeEnd"},
             eof \in {<<"success">>, <<"success", "error">>} : Deliver(r, label, eof)
    BY <1>5, Released
  <2> HIDE DEF r
  <2> QED BY <1>2, <2>1, <2>2
<1>6. CASE UNCHANGED <<pc, reports, finish>> /\ (portHeld' = portHeld \/ portHeld' = FALSE)
  <2>1. CASE portHeld' = portHeld
    BY <1>6, <2>1 DEF VerdictInv, OneVerdict
  <2>2. CASE portHeld' = FALSE
    BY <1>6, <2>2 DEF VerdictInv, OneVerdict
  <2> QED BY <1>6, <2>1, <2>2
<1>7. CASE pc # "done" /\ pc' # "done" /\ UNCHANGED <<reports, finish, portHeld>>
  BY <1>7 DEF VerdictInv, OneVerdict
<1> QED BY <1>1, <1>4, <1>5, <1>6, <1>7, EndKinds DEF VerdictInv, OneVerdict

\* A stream whose announced length covers its body ends with exactly one terminal
\* callback and with its port released, whichever of timeout, BYE, gap, foreign packet,
\* closed reader and complete body ends it.
THEOREM VerdictIsOne ==
  ASSUME HonestLength
  PROVE  Spec => []OneVerdict
<1>1. Init => VerdictInv /\ LengthInv
  <2> SUFFICES ASSUME Init PROVE VerdictInv /\ LengthInv
    OBVIOUS
  <2>1. pc = "idle" /\ reports = <<>> /\ expectedBytes = -1
    BY DEF Init
  <2>2. VerdictInv
    BY <2>1 DEF VerdictInv, OneVerdict
  <2> QED BY <2>1, <2>2 DEF LengthInv
<1>2. VerdictInv => OneVerdict
  BY DEF VerdictInv
<1>3. TypeInv /\ LengthInv /\ [Next]_vars => LengthInv'
  BY LengthStep DEF TypeInv
<1> QED BY <1>1, <1>2, <1>3, InitInv, NextInv, InitTypes, TypesStep, VerdictStep, PTL DEF Spec

-----------------------------------------------------------------------------
(* Units of the program stream.                                            *)

\* Where the first unit begins at or after packet x.
Boundary(x) == IF x % FragPackets = 0 THEN x ELSE x + (FragPackets - (x % FragPackets))

\* There is one within a unit's length.
LEMMA BoundaryFact ==
  ASSUME NEW x \in Nat
  PROVE  /\ Boundary(x) \in Nat /\ Boundary(x) - x \in 0 .. (FragPackets - 1)
         /\ Boundary(x) % FragPackets = 0
<1> DEFINE f == FragPackets
           r == x % f
<1>1. f \in Nat /\ f > 0 /\ r \in 0 .. (f - 1)
  BY StreamAssumption, DivMod
<1>2. CASE r = 0
  BY <1>1, <1>2 DEF Boundary
<1>3. CASE r # 0
  <2>1. f - r \in Nat /\ f - r < f
    BY <1>1, <1>3
  <2>2. (x + (f - r)) % f = IF r + (f - r) < f THEN r + (f - r) ELSE r + (f - r) - f
    BY <1>1, <2>1, ModAdd
  <2>3. Boundary(x) = x + (f - r)
    BY <1>3 DEF Boundary
  <2> HIDE DEF f, r
  <2>4. (x + (f - r)) % f = 0
    <3> DEFINE e == f - r
    <3>1. e \in Nat /\ f \in Nat /\ f > 0 /\ r \in Nat /\ r + e = f
      BY <1>1, <2>1
    <3>2. (x + e) % f = IF r + e < f THEN r + e ELSE r + e - f
      BY <2>2
    <3> HIDE DEF e
    <3>3. (x + e) % f = 0
      BY <3>1, <3>2
    <3> QED BY <3>3 DEF e
  <2>5. x + (f - r) \in Nat /\ (x + (f - r)) - x \in 0 .. (f - 1)
    BY <1>1, <2>1
  <2> QED BY <2>3, <2>4, <2>5 DEF f
<1> QED BY <1>2, <1>3

\* Before it no unit begins.
LEMMA BeforeBoundary ==
  ASSUME NEW x \in Nat, NEW n \in Nat, x <= n, n < Boundary(x)
  PROVE  n % FragPackets # 0
<1> DEFINE f == FragPackets
           r == x % f
           d == n - x
<1>1. f \in Nat /\ f > 0 /\ r \in 0 .. (f - 1)
  BY StreamAssumption, DivMod
<1>2. r # 0 /\ Boundary(x) = x + (f - r)
  <2>1. r = 0 => Boundary(x) = x
    BY DEF Boundary
  <2>2. r # 0
    <3> HIDE DEF r
    <3> QED BY <2>1
  <2> QED BY <2>2 DEF Boundary
<1>3. d \in Nat /\ d < f /\ x + d = n /\ r + d < f
  <2> HIDE DEF f, r
  <2> QED BY <1>1, <1>2
<1>4. (x + d) % f = IF r + d < f THEN r + d ELSE r + d - f
  <2> HIDE DEF d
  <2> QED BY <1>1, <1>3, ModAdd
<1>5. n % f = r + d
  BY <1>3, <1>4
<1> HIDE DEF f, r, d
<1> QED BY <1>1, <1>2, <1>3, <1>5 DEF f

\* The next unit begins a unit's length later.
LEMMA NextUnit ==
  ASSUME NEW x \in Nat, x % FragPackets = 0
  PROVE  (x + FragPackets) % FragPackets = 0
<1> DEFINE f == FragPackets
           y == x + (f - 1)
<1>1. f \in Nat /\ f > 0
  BY StreamAssumption
<1>2. CASE f = 1
  <2>1. x + f \in Nat
    BY <1>1
  <2>2. (x + f) % f \in 0 .. (f - 1)
    BY <2>1, <1>1, DivMod
  <2> QED BY <2>2, <1>2
<1>3. CASE f # 1
  <2>1. f - 1 \in Nat /\ f - 1 < f /\ 1 < f /\ y \in Nat /\ y + 1 = x + f
    BY <1>1, <1>3
  <2>2. y % f = IF 0 + (f - 1) < f THEN 0 + (f - 1) ELSE 0 + (f - 1) - f
    BY <1>1, <2>1, ModAdd
  <2>3. y % f = f - 1
    BY <1>1, <2>2
  <2> HIDE DEF y
  <2>4. (y + 1) % f = IF (y % f) + 1 < f THEN (y % f) + 1 ELSE (y % f) + 1 - f
    BY <1>1, <2>1, ModAdd, ZenonT(60)
  <2> QED BY <1>1, <2>1, <2>3, <2>4
<1> QED BY <1>2, <1>3

\* The packets from b on.
From(s, b) == \A i \in 1 .. Len(s) : s[i] = b + i - 1

Full(b) == expectedBytes >= 0 /\ Len(b) >= expectedBytes

\* The decoder p and the pipe b after the packets first, first + 1, ..., n - 1: nothing
\* before the first unit boundary; after it the units that are complete, up to the
\* declared length, and the packets of the one that is not.
Synced(p, b, first, n) ==
  LET start == Boundary(first)
  IN  IF n <= start THEN p = <<>> /\ b = <<>>
      ELSE /\ Len(p) < FragPackets /\ Len(b) + Len(p) <= n - start
           /\ (n - Len(p)) % FragPackets = 0
           /\ From(p, n - Len(p)) /\ From(b, start)
           /\ Len(b) + Len(p) = n - start \/ Full(b)

\* What it takes to be synced past the boundary.
LEMMA SyncedIntro ==
  ASSUME NEW p, NEW b, NEW first, NEW n, ~(n <= Boundary(first)),
         Len(p) < FragPackets, Len(b) + Len(p) <= n - Boundary(first),
         (n - Len(p)) % FragPackets = 0, From(p, n - Len(p)), From(b, Boundary(first)),
         Len(b) + Len(p) = n - Boundary(first) \/ Full(b)
  PROVE  Synced(p, b, first, n)
BY DEF Synced

\* Before the unit boundary packets are passed over.
LEMMA WriteEarly ==
  ASSUME NEW acc \in Decoders, NEW id \in Ids, expectedBytes \in Int, ~acc.eof,
         NEW first \in Nat, first <= id, id < Boundary(first), Synced(acc.pes, acc.body, first, id)
  PROVE  LET out == WritePacket(acc, id)
         IN  Synced(out.pes, out.body, first, id + 1) /\ out.body = <<>>
<1> DEFINE out == WritePacket(acc, id)
           start == Boundary(first)
<1>1. id \in Nat /\ start \in Nat /\ FragPackets \in Nat /\ FragPackets > 0
  BY StreamAssumption, BoundaryFact DEF Ids
<1>2. acc.pes = <<>> /\ acc.body = <<>>
  <2>1. id <= start
    BY <1>1
  <2> QED BY <2>1 DEF Synced
<1>3. id % FragPackets # 0
  BY <1>1, BeforeBoundary
<1>4. Unit(acc, id) = <<>> /\ Len(<<>>) = 0
  BY <1>2, <1>3 DEF Unit
<1>5. out = [acc EXCEPT !.pes = <<>>]
  BY <1>1, <1>4, WriteCases
<1>6. out.pes = <<>> /\ out.body = <<>>
  BY <1>2, <1>5 DEF Decoders
<1> HIDE DEF out
<1>7. id + 1 <= start
  BY <1>1
<1> QED BY <1>6, <1>7 DEF Synced, out

\* The unit at hand, from the boundary on.
LEMMA UnitRun ==
  ASSUME NEW acc \in Decoders, NEW id \in Ids, expectedBytes \in Int, ~acc.eof,
         NEW first \in Nat, Boundary(first) <= id, Synced(acc.pes, acc.body, first, id)
  PROVE  LET u == Unit(acc, id)
             p == Len(acc.pes)
             b == Len(acc.body)
             start == Boundary(first)
         IN  /\ p \in Nat /\ b \in Nat /\ start \in Nat /\ p < FragPackets
             /\ u \in Seq(Ids) /\ Len(u) = p + 1 /\ From(u, id - p)
             /\ (id - p) % FragPackets = 0 /\ id - p \in Nat
             /\ From(acc.body, start) /\ b + p <= id - start
             /\ b + p = id - start \/ Full(acc.body)
<1> DEFINE u == Unit(acc, id)
           p == Len(acc.pes)
           b == Len(acc.body)
           start == Boundary(first)
<1>1. /\ id \in Nat /\ start \in Nat /\ start % FragPackets = 0 /\ FragPackets \in Nat /\ FragPackets > 0
      /\ acc.pes \in Seq(Ids) /\ acc.body \in Seq(Ids) /\ p \in Nat /\ b \in Nat
  BY StreamAssumption, BoundaryFact, LenProperties DEF Ids, Decoders, Packets
<1>2. /\ p < FragPackets /\ b + p <= id - start /\ (id - p) % FragPackets = 0
      /\ From(acc.pes, id - p) /\ From(acc.body, start)
      /\ b + p = id - start \/ Full(acc.body)
  <2>1. CASE id <= start
    <3>1. acc.pes = <<>> /\ acc.body = <<>> /\ id = start /\ p = 0 /\ b = 0
      BY <1>1, <2>1 DEF Synced
    <3>2. From(acc.pes, id - p) /\ From(acc.body, start)
      BY <3>1 DEF From
    <3>3. b + p = id - start /\ b + p <= id - start /\ id - p = start /\ p < FragPackets
      <4> HIDE DEF b, p, start
      <4> QED BY <1>1, <3>1
    <3> QED BY <1>1, <3>2, <3>3
  <2>2. CASE ~(id <= start)
    BY <2>2 DEF Synced
  <2> QED BY <2>1, <2>2
<1>3. u = Append(acc.pes, id)
  <2>1. acc.pes = <<>> => id % FragPackets = 0
    <3>1. SUFFICES ASSUME acc.pes = <<>> PROVE id % FragPackets = 0
      OBVIOUS
    <3>2. id - p = id
      BY <1>1, <3>1
    <3> QED BY <3>2, <1>2
  <2> QED BY <2>1 DEF Unit
<1>4. /\ u \in Seq(Ids) /\ Len(u) = p + 1
      /\ \A i \in 1 .. p : u[i] = acc.pes[i]
      /\ u[p + 1] = id
  BY <1>1, <1>3, AppendProperties
<1> HIDE DEF u, b, start
<1>5. id - p \in Nat
  BY <1>1, <1>2
<1>6. From(u, id - p)
  <2> SUFFICES ASSUME NEW i \in 1 .. (p + 1) PROVE u[i] = (id - p) + i - 1
    BY <1>4 DEF From
  <2>1. CASE i = p + 1
    BY <2>1, <1>1, <1>4
  <2>2. CASE i # p + 1
    <3>1. i \in 1 .. p
      BY <2>2, <1>1
    <3> QED BY <3>1, <1>2, <1>4 DEF From
  <2> QED BY <2>1, <2>2
<1> QED BY <1>1, <1>2, <1>4, <1>5, <1>6 DEF u, b, start

\* From the boundary on: the unit grows, is written, or is refused.
LEMMA WriteLate ==
  ASSUME NEW acc \in Decoders, NEW id \in Ids, expectedBytes \in Int, ~acc.eof,
         NEW first \in Nat, Boundary(first) <= id, Synced(acc.pes, acc.body, first, id)
  PROVE  LET out == WritePacket(acc, id)
         IN  /\ From(out.body, Boundary(first))
             /\ ~out.eof => Synced(out.pes, out.body, first, id + 1)
<1> DEFINE out == WritePacket(acc, id)
           start == Boundary(first)
           u == Unit(acc, id)
           p == Len(acc.pes)
           b == Len(acc.body)
           room == expectedBytes - b
           cut  == expectedBytes >= 0 /\ Len(u) > room
           part == IF cut THEN SubSeq(u, 1, room) ELSE u
           f == FragPackets
<1>1. /\ p \in Nat /\ b \in Nat /\ start \in Nat /\ p < f
      /\ u \in Seq(Ids) /\ Len(u) = p + 1 /\ From(u, id - p)
      /\ (id - p) % f = 0 /\ id - p \in Nat
      /\ From(acc.body, start) /\ b + p <= id - start
      /\ b + p = id - start \/ Full(acc.body)
  BY UnitRun
<1>2. /\ Len(u) < f => out = [acc EXCEPT !.pes = u]
      /\ Len(u) >= f =>
           IF expectedBytes >= 0 /\ room <= 0 THEN out = [acc EXCEPT !.eof = TRUE]
           ELSE /\ out = [pes |-> <<>>, eof |-> FALSE, body |-> acc.body \o part]
                /\ part \in Packets /\ Len(part) = IF cut THEN room ELSE Len(u)
                /\ \A i \in 1 .. Len(part) : part[i] = u[i]
                /\ Len(part) <= Len(u)
  BY WriteCases
<1>3. /\ id \in Nat /\ f \in Nat /\ f > 0 /\ acc.pes \in Seq(Ids) /\ acc.body \in Seq(Ids)
      /\ ~(id + 1 <= start)
  BY <1>1, StreamAssumption DEF Ids, Decoders, Packets
<1> HIDE DEF out, u, p, b, part, start
<1>4. CASE Len(u) < f
  <2>1. out.pes = u /\ out.body = acc.body
    BY <1>2, <1>4 DEF Decoders
  <2> DEFINE n == id + 1
  <2>2. n - Len(u) = id - p /\ b + Len(u) <= n - start /\ ~(n <= start)
        /\ (b + p = id - start => b + Len(u) = n - start)
    BY <1>1, <1>3
  <2> HIDE DEF n
  <2>3. Synced(u, acc.body, first, n)
    <3>1. (n - Len(u)) % f = 0 /\ From(u, n - Len(u))
      BY <1>1, <2>2
    <3>2. Len(acc.body) + Len(u) <= n - start /\ (Len(acc.body) + Len(u) = n - start \/ Full(acc.body))
      BY <1>1, <2>2 DEF b
    <3>3. Len(u) < f /\ From(acc.body, start) /\ ~(n <= start)
      BY <1>1, <1>4, <2>2
    <3> QED BY <3>1, <3>2, <3>3, SyncedIntro DEF start
  <2> QED BY <1>1, <2>1, <2>3 DEF out, start, n
<1>5. CASE Len(u) >= f /\ expectedBytes >= 0 /\ room <= 0
  <2>1. out.eof /\ out.body = acc.body
    BY <1>2, <1>5 DEF Decoders
  <2> QED BY <1>1, <2>1 DEF out, start
<1>6. CASE Len(u) >= f /\ ~(expectedBytes >= 0 /\ room <= 0)
  <2>1. /\ out.pes = <<>> /\ out.body = acc.body \o part
        /\ part \in Seq(Ids) /\ Len(part) = (IF cut THEN room ELSE Len(u))
        /\ \A i \in 1 .. Len(part) : part[i] = u[i]
        /\ Len(part) <= Len(u)
    BY <1>2, <1>6 DEF Packets
  <2>2. Len(u) = f /\ p = f - 1 /\ room \in Int
    BY <1>1, <1>3, <1>6
  <2>3. ~Full(acc.body) /\ b + p = id - start
    <3>1. Full(acc.body) => expectedBytes >= 0 /\ room <= 0
      BY <1>1 DEF Full, b
    <3> QED BY <3>1, <1>1, <1>6
  <2> DEFINE q == Len(part)
             all == acc.body \o part
  <2>4. /\ q \in Nat /\ all \in Seq(Ids) /\ Len(all) = b + q
        /\ \A i \in 1 .. (b + q) : all[i] = IF i <= b THEN acc.body[i] ELSE part[i - b]
    <3>3. acc.body \in Seq(Ids) /\ part \in Seq(Ids)
      BY <2>1, <1>3
    <3>1. /\ acc.body \o part \in Seq(Ids) /\ Len(acc.body \o part) = Len(acc.body) + Len(part)
          /\ \A i \in 1 .. (Len(acc.body) + Len(part)) :
               (acc.body \o part)[i] = IF i <= Len(acc.body) THEN acc.body[i] ELSE part[i - Len(acc.body)]
      BY <3>3, ConcatProperties
    <3>2. Len(part) \in Nat
      BY <2>1, LenProperties
    <3> QED BY <3>1, <3>2 DEF b
  <2> HIDE DEF all, q
  <2>10. b \in Nat /\ p \in Nat /\ id \in Nat /\ start \in Nat /\ q \in Nat /\ b + p = id - start
    BY <1>1, <1>3, <2>3, <2>4
  <2>5. From(all, start)
    <3> SUFFICES ASSUME NEW i \in 1 .. (b + q) PROVE all[i] = start + i - 1
      BY <2>4 DEF From
    <3>1. CASE i <= b
      <4>1. i \in 1 .. b
        BY <3>1, <1>1, <2>4
      <4> QED BY <4>1, <3>1, <2>4, <1>1 DEF From, b
    <3>2. CASE ~(i <= b)
      <4> DEFINE j == i - b
      <4>1. j \in 1 .. q /\ j \in 1 .. Len(u)
        BY <3>2, <1>1, <2>1, <2>4 DEF q
      <4>2. all[i] = u[j]
        BY <3>2, <4>1, <2>1, <2>4 DEF q
      <4>3. u[j] = (id - p) + j - 1
        BY <4>1, <1>1 DEF From
      <4>4. (id - p) + j - 1 = start + i - 1
        BY <2>10
      <4> QED BY <4>2, <4>3, <4>4
    <3> QED BY <3>1, <3>2
  <2>6. (id + 1) % f = 0
    <3>1. id + 1 = (id - p) + f
      BY <2>2, <1>1, <1>3
    <3> QED BY <3>1, <1>1, NextUnit
  <2>7. b + q <= id + 1 - start /\ (~cut => b + q = id + 1 - start) /\ (cut => b + q = expectedBytes)
    <3>1. q <= p + 1 /\ q = IF cut THEN room ELSE p + 1
      BY <2>1, <1>1 DEF q
    <3> HIDE DEF cut
    <3> QED BY <3>1, <2>2, <2>3, <2>4, <1>1, <1>3
  <2>8. b + q = id + 1 - start \/ Full(all)
    <3>1. cut => expectedBytes >= 0 /\ b + q >= expectedBytes
      BY <2>7, <2>4, <1>1
    <3> HIDE DEF cut
    <3> QED BY <3>1, <2>4, <2>7 DEF Full
  <2>9. Synced(<<>>, all, first, id + 1)
    <3>1. Len(<<>>) = 0 /\ id + 1 - 0 = id + 1 /\ b + q + 0 = b + q
      BY <1>1, <1>3, <2>4
    <3>2. From(<<>>, id + 1)
      BY DEF From
    <3> DEFINE n == id + 1
               e == <<>>
    <3>3. Len(e) = 0 /\ n - Len(e) = n /\ Len(all) + Len(e) = b + q /\ Len(e) < f /\ ~(n <= start)
      BY <3>1, <1>3, <2>4
    <3>4. n % f = 0 /\ From(e, n) /\ b + q <= n - start /\ (b + q = n - start \/ Full(all))
      <4>1. n % f = 0
        BY <2>6
      <4>2. From(e, n)
        BY <3>2
      <4>3. b + q <= n - start
        <5> HIDE DEF cut
        <5> QED BY <2>7, <2>10
      <4>4. b + q = n - start \/ Full(all)
        BY <2>8, <2>10
      <4> QED BY <4>1, <4>2, <4>3, <4>4
    <3> HIDE DEF n, e
    <3>5. /\ (n - Len(e)) % f = 0 /\ From(e, n - Len(e)) /\ Len(all) + Len(e) <= n - start
          /\ Len(all) + Len(e) = n - start \/ Full(all)
      BY <3>3, <3>4
    <3>6. Synced(e, all, first, n)
      BY <3>3, <3>5, <2>5, SyncedIntro DEF start
    <3> QED BY <3>6 DEF n, e
  <2> QED BY <2>1, <2>5, <2>9 DEF out, start, all
<1>7. Len(u) < f \/ Len(u) >= f
  BY <1>1, <1>3
<1> QED BY <1>4, <1>5, <1>6, <1>7

\* The decoder after n packets of a run that begins at packet a.
Follows(acc, first, a, n) ==
  /\ acc \in Decoders /\ From(acc.body, Boundary(first))
  /\ ~acc.eof => Synced(acc.pes, acc.body, first, a + n)

\* A run of packets, written one by one.
LEMMA WrittenSynced ==
  ASSUME NEW ready \in Packets, pes \in Packets, body \in Packets, expectedBytes \in Int,
         NEW a \in Nat, Run(ready, a), NEW first \in Nat, first <= a,
         Synced(pes, body, first, a), From(body, Boundary(first))
  PROVE  /\ Follows(processOrderedPackets(ready), first, a, Len(ready))
         /\ \A k \in 0 .. Len(ready) : Follows(decoderAfter(ready)[k], first, a, k)
<1>1. Len(ready) \in Nat /\ Boundary(first) \in Nat
  BY LenProperties, BoundaryFact DEF Packets
<1>2. PICK w : WritesTo(w, ready)
  BY <1>1, Written
<1> DEFINE S == {k \in 0 .. Len(ready) : Follows(w[k], first, a, k)}
<1>3. 0 \in S
  <2>1. w[0] \in Decoders /\ w[0].body = body /\ w[0].pes = pes /\ a + 0 = a
    BY <1>2 DEF WritesTo, Start, Decoders
  <2>2. Follows(w[0], first, a, 0)
    BY <2>1 DEF Follows
  <2> QED BY <2>2, <1>1
<1>4. ASSUME NEW k \in 1 .. Len(ready), k - 1 \in S PROVE k \in S
  <2> DEFINE acc == w[k - 1]
             id == ready[k]
             out == WritePacket(acc, id)
  <2>1. w[k] = out /\ id \in Ids /\ id = a + (k - 1) /\ id \in Nat /\ first <= id /\ id + 1 = a + k
    <3>1. w[k] = out /\ id \in Ids /\ id = a + k - 1
      BY <1>1, <1>2, ElementOfSeq DEF WritesTo, Packets, Run
    <3> HIDE DEF out, id
    <3> QED BY <3>1, <1>1
  <2>2. Follows(acc, first, a, k - 1)
    BY <1>4
  <2> HIDE DEF acc, id, S
  <2>3. out \in Decoders /\ (acc.eof => out = acc)
    BY <1>1, <2>1, <2>2, WriteCases DEF Follows
  <2>4. From(out.body, Boundary(first)) /\ (~out.eof => Synced(out.pes, out.body, first, id + 1))
    <3>1. CASE acc.eof
      BY <3>1, <2>2, <2>3 DEF Follows
    <3>2. CASE ~acc.eof /\ id < Boundary(first)
      <4>1. Synced(out.pes, out.body, first, id + 1) /\ out.body = <<>>
        BY <3>2, <2>1, <2>2, WriteEarly DEF Follows
      <4> HIDE DEF out
      <4> QED BY <4>1 DEF From
    <3>3. CASE ~acc.eof /\ Boundary(first) <= id
      BY <3>3, <2>1, <2>2, WriteLate DEF Follows
    <3> QED BY <3>1, <3>2, <3>3, <1>1, <2>1
  <2>5. Follows(w[k], first, a, k)
    <3> HIDE DEF out
    <3> QED BY <2>1, <2>3, <2>4 DEF Follows
  <2> QED BY <2>5 DEF S
<1> HIDE DEF S
<1>5. \A k \in 0 .. Len(ready) : k \in S
  BY <1>1, <1>3, <1>4, Upto
<1>6. Len(ready) \in 0 .. Len(ready) /\ processOrderedPackets(ready) = w[Len(ready)]
  BY <1>1, <1>2 DEF WritesTo, processOrderedPackets
<1>7. decoderAfter(ready) = w
  BY <1>2 DEF WritesTo
<1> QED BY <1>5, <1>6, <1>7 DEF S

-----------------------------------------------------------------------------
(* The body of a stream that may not skip.                                 *)

SyncInv ==
  ~stream.skip =>
    /\ decoded = <<>> => body = <<>>
    /\ decoded # <<>> => From(body, Boundary(decoded[1]))
    /\ pc # "done" => IF decoded = <<>> THEN pes = <<>>
                      ELSE Synced(pes, body, decoded[1], After(decoded))

\* The loop does not come back from its end.
LEMMA DoneStays == ASSUME [Next]_vars, pc = "done" PROVE pc' = "done"
<1>1. ~PushInOrder /\ ~Skipping
  BY DEF PushInOrder, Pushing, Skipping
<1> QED BY <1>1, EndKinds

\* A length once known is only lowered.
LEMMA LengthLowers ==
  ASSUME PlainInv, [Next]_vars, expectedBytes >= 0
  PROVE  expectedBytes' \in Int /\ expectedBytes' >= 0 /\ expectedBytes' <= expectedBytes
<1>1. NumPackets \in Nat /\ expectedBytes \in Int /\ stream.length \in Int
  BY StreamAssumption DEF PlainInv
<1>2. CASE UNCHANGED expectedBytes
  BY <1>1, <1>2
<1>3. CASE LowerExpected(NumPackets) \/ LowerExpected(stream.length)
  BY <1>1, <1>3 DEF LowerExpected
<1>4. CASE UNCHANGED vars \/ Answerer \/ Beside \/ StreamStart \/ BodyTimeout \/ Tick \/ Arrival
  <2>1. UNCHANGED expectedBytes \/ LowerExpected(NumPackets) \/ LowerExpected(stream.length)
    BY <1>4 DEF vars, Answerer, SendPacket, SendResponseEnd, SendBye, Beside, RecvResponseEnd, RecvBye,
       HelperTakesEnd, HelperTakesBye, HelperGivesUp, ReaderClose, StreamStart, BodyTimeout, Tick,
       Arrival, ReadPacket, ReadParity, ReadStray, sipVars
  <2> QED BY <1>2, <1>3, <2>1
<1>5. CASE Loop
  <2>1. UNCHANGED expectedBytes
    BY <1>5 DEF Loop, LoopTopComplete, LoopTopCancelled, LoopTopArm, PushOverflow, ReadError,
       PushIgnored, PushInOrder, PushBuffered, PushTolerated, GapRecheck, ReadTimeout, ByeEnd,
       maybeProactiveFastForward, checkActiveGapTimeout, TimeoutGap, TimeoutBye,
       Stay, Fail, tryFastForwardGap, sipVars
  <2> QED BY <1>2, <2>1
<1> QED BY <1>4, <1>5 DEF Next

\* Steps that leave the packets alone.
LEMMA SyncFrame ==
  ASSUME PlainInv, OutInv, SyncInv, [Next]_vars, UNCHANGED <<stream, decoded, pes, body>>
  PROVE  SyncInv'
<1> SUFFICES ASSUME ~stream.skip PROVE SyncInv'
  BY DEF SyncInv
<1>1. /\ decoded' = <<>> => body' = <<>>
      /\ decoded' # <<>> => From(body', Boundary(decoded'[1]))
  BY DEF SyncInv
<1>2. ASSUME pc' # "done"
      PROVE  IF decoded = <<>> THEN pes = <<>>
             ELSE Synced(pes, body, decoded[1], After(decoded))'
  <2>1. pc # "done"
    BY <1>2, DoneStays
  <2>2. decoded # <<>> => Synced(pes, body, decoded[1], After(decoded))
    BY <2>1 DEF SyncInv
  <2>3. Full(body) => Full(body)'
    <3>1. Len(body) \in Nat /\ expectedBytes \in Int
      BY LenProperties DEF OutInv, Packets, PlainInv
    <3>2. SUFFICES ASSUME Full(body) PROVE Full(body)'
      OBVIOUS
    <3>3. expectedBytes' \in Int /\ expectedBytes' >= 0 /\ expectedBytes' <= expectedBytes
      BY <3>2, LengthLowers DEF Full
    <3>4. Len(body) >= expectedBytes'
      BY <3>1, <3>2, <3>3 DEF Full
    <3> QED BY <3>3, <3>4 DEF Full
  <2>4. decoded # <<>> => Synced(pes, body, decoded[1], After(decoded))'
    <3>1. pes' = pes /\ body' = body /\ decoded' = decoded
      OBVIOUS
    <3> QED BY <3>1, <2>2, <2>3 DEF Synced, After
  <2> QED BY <2>1, <2>4 DEF SyncInv
<1> QED BY <1>1, <1>2 DEF SyncInv

\* A run handed on.
LEMMA SyncDeliver ==
  ASSUME IInv, TypeInv, SyncInv, ~stream.skip, UNCHANGED <<stream, expectedBytes>>, pc # "done",
         NEW r, NEW label, NEW eof, Deliver(r, label, eof), r.ready \in Packets, Releases(r, 0)
  PROVE  SyncInv'
<1> DEFINE out == processOrderedPackets(r.ready)
<1>1. /\ pes \in Packets /\ body \in Packets /\ expectedBytes \in Int
      /\ decoded \in Seq(Nat) /\ Ordered(decoded) /\ r.ready \in Seq(Nat)
  BY DEF TypeInv, OutInv, PlainInv, IInv, BufInv, Releases, Run
<1>2. PICK a \in Nat : Run(r.ready, a) /\ (decoded # <<>> => a \in After(decoded) .. (After(decoded) + 0))
  BY DEF Releases
<1>3. decoded # <<>> => a = After(decoded)
  BY <1>1, <1>2, AfterFact
<1> DEFINE first == IF decoded = <<>> THEN a ELSE decoded[1]
<1>4. first \in Nat /\ first <= a
  <2>1. CASE decoded = <<>>
    BY <2>1
  <2>2. CASE decoded # <<>>
    <3>1. 1 \in 1 .. Len(decoded)
      BY <1>1, <2>2
    <3>2. decoded[1] \in Nat /\ decoded[1] < After(decoded) /\ After(decoded) \in Nat
      BY <1>1, <2>2, <3>1, AfterFact
    <3> QED BY <3>2, <1>3, <2>2
  <2> QED BY <2>1, <2>2
<1>5. Synced(pes, body, first, a) /\ From(body, Boundary(first))
  <2>1. CASE decoded = <<>>
    <3>1. pes = <<>> /\ body = <<>> /\ first = a
      BY <2>1 DEF SyncInv
    <3>2. a <= Boundary(a)
      BY BoundaryFact
    <3>3. From(body, Boundary(first))
      BY <3>1 DEF From
    <3> QED BY <3>1, <3>2, <3>3 DEF Synced
  <2>2. CASE decoded # <<>>
    BY <2>2, <1>3 DEF SyncInv
  <2> QED BY <2>1, <2>2
<1>6. Follows(out, first, a, Len(r.ready))
  <2> HIDE DEF first
  <2> QED BY <1>1, <1>2, <1>4, <1>5, WrittenSynced
<1>7. /\ decoded' = decoded \o r.ready /\ decoded' # <<>>
      /\ After(decoded') = a + Len(r.ready) /\ decoded'[1] = first
  <2>1. decoded' = decoded \o r.ready
    BY DEF Deliver
  <2>2. /\ decoded \o r.ready # <<>> /\ After(decoded \o r.ready) = a + Len(r.ready)
    <3>1. decoded # <<>> => After(decoded) <= a
      BY <1>2, <1>3
    <3> QED BY <1>1, <1>2, <3>1, AppendRun DEF Run
  <2>3. (decoded \o r.ready)[1] = first
    <3>1. /\ Len(r.ready) \in Nat /\ Len(r.ready) >= 1 /\ Len(decoded) \in Nat
          /\ 1 \in 1 .. Len(r.ready) /\ r.ready[1] = a + 1 - 1
      BY <1>1, <1>2 DEF Run
    <3>2. (decoded \o r.ready)[1] = IF 1 <= Len(decoded) THEN decoded[1] ELSE r.ready[1 - Len(decoded)]
      <4>1. 1 \in 1 .. (Len(decoded) + Len(r.ready))
        BY <3>1
      <4> QED BY <1>1, <4>1, ConcatProperties
    <3>3. CASE decoded = <<>>
      <4>1. Len(decoded) = 0
        BY <3>3
      <4> QED BY <3>1, <3>2, <3>3, <4>1
    <3>4. CASE decoded # <<>>
      <4>1. 1 <= Len(decoded)
        BY <1>1, <3>4
      <4> QED BY <3>2, <3>4, <4>1
    <3> QED BY <3>3, <3>4
  <2> QED BY <2>1, <2>2, <2>3
<1>8. \/ /\ pes' = out.pes /\ body' = (IF closed THEN body ELSE out.body)
         /\ pc' # "done" => ~out.eof /\ body' = out.body
      \/ DecodeError(r.ready)
  BY DEF Deliver, WriteAll, Finish
<1>9. ASSUME DecodeError(r.ready) PROVE From(body', Boundary(first)) /\ pc' = "done"
  <2>1. PICK n \in 1 .. Len(r.ready) : body' = decoderAfter(r.ready)[n - 1].body
    BY <1>9 DEF DecodeError
  <2>2. n - 1 \in 0 .. Len(r.ready)
    BY <1>1, LenProperties
  <2> HIDE DEF first
  <2>3. Follows(decoderAfter(r.ready)[n - 1], first, a, n - 1)
    BY <2>2, <1>1, <1>2, <1>4, <1>5, WrittenSynced
  <2> QED BY <2>1, <2>3, <1>9 DEF Follows, DecodeError, Finish
<1> HIDE DEF out, first
<1>10. From(body', Boundary(first))
  BY <1>5, <1>6, <1>8, <1>9 DEF Follows
<1>11. pc' # "done" => Synced(pes', body', first, a + Len(r.ready))
  BY <1>6, <1>8, <1>9 DEF Follows
<1>12. Synced(pes', body', first, a + Len(r.ready)) => Synced(pes, body, decoded[1], After(decoded))'
  BY <1>7 DEF Synced, Full, After
<1>13. From(body, Boundary(decoded[1]))'
  BY <1>7, <1>10 DEF From
<1> QED BY <1>7, <1>11, <1>12, <1>13 DEF SyncInv

\* Every step keeps it.
LEMMA SyncStep == IInv /\ TypeInv /\ SyncInv /\ [Next]_vars => SyncInv'
<1> SUFFICES ASSUME IInv, TypeInv, SyncInv, [Next]_vars PROVE SyncInv'
  OBVIOUS
<1>1. PlainInv /\ OutInv /\ KnownInv
  BY DEF TypeInv
<1>2. CASE UNCHANGED <<stream, buf, decoded, pes, body>>
  BY <1>1, <1>2, SyncFrame
<1>3. CASE Holding
  BY <1>1, <1>3, SyncFrame DEF Holding
<1>4. CASE Skipping
  BY <1>4, Released DEF SyncInv
<1>5. CASE PushInOrder
  <2>1. /\ Releases(Pushed, 0) /\ Deliver(Pushed, "check", <<"success">>) /\ UNCHANGED stream
        /\ UNCHANGED expectedBytes /\ pc # "done" /\ Pushed.ready \in Packets
    BY <1>1, <1>5, Released, ReadyKnown DEF PushInOrder, Pushing, sipVars
  <2>2. CASE stream.skip
    BY <2>1, <2>2 DEF SyncInv
  <2>3. CASE ~stream.skip
    BY <2>1, <2>3, SyncDeliver
  <2> QED BY <2>2, <2>3
<1> QED BY <1>2, <1>3, <1>4, <1>5, StepKinds

\* A stream that may not skip losses writes an unbroken run of whole units from the
\* first unit boundary on, cut at the declared length: whatever is lost, repeated or
\* recovered on the way, decoder.Write and the pipe never glue the two sides of a gap.
THEOREM BodyUnbroken == Spec => []BodyContiguous
<1>1. Init => SyncInv
  BY DEF Init, SyncInv
<1>2. IInv /\ TypeInv /\ SyncInv => BodyContiguous
  <2> SUFFICES ASSUME IInv, TypeInv, SyncInv, ~stream.skip, body # <<>>
               PROVE  /\ body[1] - decoded[1] \in 0 .. (FragPackets - 1) /\ body[1] % FragPackets = 0
                      /\ \A i \in 1 .. (Len(body) - 1) : body[i + 1] = body[i] + 1
    BY DEF BodyContiguous
  <2> DEFINE start == Boundary(decoded[1])
  <2>1. decoded # <<>> /\ From(body, start)
    BY DEF SyncInv
  <2>2. body \in Seq(Ids) /\ decoded \in Seq(Nat)
    BY DEF TypeInv, OutInv, Packets, IInv, BufInv
  <2>3. 1 \in 1 .. Len(body) /\ 1 \in 1 .. Len(decoded) /\ decoded[1] \in Nat /\ Len(body) \in Nat
    BY <2>1, <2>2
  <2>4. start \in Nat /\ start - decoded[1] \in 0 .. (FragPackets - 1) /\ start % FragPackets = 0
    BY <2>3, BoundaryFact
  <2> HIDE DEF start
  <2>5. body[1] = start
    BY <2>1, <2>3, <2>4 DEF From
  <2>6. ASSUME NEW i \in 1 .. (Len(body) - 1) PROVE body[i + 1] = body[i] + 1
    <3>1. i \in 1 .. Len(body) /\ i + 1 \in 1 .. Len(body)
      BY <2>3
    <3>2. body[i] = start + i - 1 /\ body[i + 1] = start + (i + 1) - 1
      BY <3>1, <2>1 DEF From
    <3> QED BY <3>2, <3>1, <2>4
  <2> QED BY <2>4, <2>5, <2>6
<1> QED BY <1>1, <1>2, InitInv, NextInv, InitTypes, TypesStep, SyncStep, PTL DEF Spec

-----------------------------------------------------------------------------
(* A stream ended by its length.                                           *)

WholeInv == LengthMeansWhole /\ (finish = "content_length" => pc = "done")

\* The declared length ends a stream at the loop's top or in a delivery.
LEMMA LengthEnds ==
  ASSUME [Next]_vars, finish # "content_length", finish' = "content_length"
  PROVE  LoopTopComplete \/ PushInOrder \/ Skipping
<1>1. CASE UNCHANGED finish
  BY <1>1
<1>2. CASE UNCHANGED vars \/ Answerer \/ Beside \/ BodyTimeout \/ Tick \/ StreamStart
  BY <1>1, <1>2 DEF vars, Answerer, SendPacket, SendResponseEnd, SendBye, Beside, RecvResponseEnd,
     RecvBye, HelperTakesEnd, HelperTakesBye, HelperGivesUp, ReaderClose, BodyTimeout, Tick,
     StreamStart, endVars
<1>3. CASE Arrival
  BY <1>1, <1>3 DEF Arrival, ReadPacket, ReadParity, ReadStray, Goto, Finish, endVars
<1>4. CASE LoopTopCancelled \/ LoopTopArm \/ PushOverflow \/ ReadError \/ PushIgnored
           \/ PushBuffered \/ PushTolerated
  BY <1>1, <1>4 DEF LoopTopCancelled, LoopTopArm, PushOverflow, ReadError, PushIgnored,
     PushBuffered, PushTolerated, Goto, Finish, endVars
<1>5. CASE GapRecheck \/ ReadTimeout \/ ByeEnd
  BY <1>1, <1>5 DEF GapRecheck, ReadTimeout, ByeEnd, Stay, Fail, Goto, Finish, endVars
<1>6. CASE maybeProactiveFastForward
  BY <1>1, <1>6 DEF maybeProactiveFastForward, Skipping, Stay, Goto, endVars
<1>7. CASE checkActiveGapTimeout \/ TimeoutGap
  BY <1>1, <1>7 DEF checkActiveGapTimeout, TimeoutGap, Skipping, Stay, Fail, Goto, Finish, endVars
<1>8. CASE TimeoutBye
  BY <1>1, <1>8 DEF TimeoutBye, Skipping, Stay, Goto, endVars
<1> QED BY <1>2, <1>3, <1>4, <1>5, <1>6, <1>7, <1>8 DEF Next, Loop

\* A body as long as the whole, unbroken, is the whole.
LEMMA FullIsWhole ==
  ASSUME IInv, TypeInv, LengthInv, SyncInv, ~stream.skip, Complete
  PROVE  body = [i \in 1 .. NumPackets |-> i - 1]
<1>1. /\ body \in Seq(Ids) /\ decoded \in Packets /\ Ordered(decoded) /\ expectedBytes \in Int
      /\ pes \in Packets /\ Len(body) + Len(pes) <= Len(decoded)
  BY DEF TypeInv, OutInv, KnownInv, PlainInv, Packets, IInv, BufInv
<1>2. NumPackets \in Nat \ {0} /\ Ids = 0 .. (NumPackets - 1)
  BY StreamAssumption DEF Ids
<1>3. Len(decoded) <= NumPackets
  BY <1>1, OrderedLen
<1>4. Len(body) \in Nat /\ Len(pes) \in Nat /\ Len(decoded) \in Nat
  BY <1>1, LenProperties DEF Packets
<1>5. Len(body) = NumPackets
  <2> DEFINE b == Len(body)
             p == Len(pes)
             d == Len(decoded)
  <2>1. /\ b \in Nat /\ p \in Nat /\ d \in Nat /\ b + p <= d /\ d <= NumPackets
        /\ expectedBytes >= 0 /\ b >= expectedBytes /\ expectedBytes >= NumPackets
    BY <1>1, <1>3, <1>4 DEF Complete, LengthInv
  <2> HIDE DEF b, p, d
  <2>2. b = NumPackets
    BY <1>1, <1>2, <2>1
  <2> QED BY <2>2 DEF b
<1>6. body # <<>> /\ decoded # <<>>
  <2>1. body # <<>>
    BY <1>2, <1>5
  <2> QED BY <2>1 DEF SyncInv
<1> DEFINE start == Boundary(decoded[1])
<1>7. From(body, start)
  BY <1>6 DEF SyncInv
<1>8. start \in Nat
  <2>1. decoded[1] \in Nat
    <3>1. 1 \in 1 .. Len(decoded)
      BY <1>4, <1>6, <1>1 DEF Packets
    <3>2. decoded[1] \in Ids
      BY <1>1, <3>1, ElementOfSeq DEF Packets
    <3> QED BY <3>2, <1>2
  <2> QED BY <2>1, BoundaryFact
<1> HIDE DEF start
<1>9. start = 0
  <2>1. NumPackets \in 1 .. Len(body)
    BY <1>2, <1>5
  <2>2. body[NumPackets] \in Ids /\ body[NumPackets] = start + NumPackets - 1
    BY <1>1, <1>7, <2>1, ElementOfSeq DEF From
  <2> QED BY <1>2, <1>8, <2>2
<1>10. \A i \in 1 .. NumPackets : body[i] = i - 1
  BY <1>5, <1>7, <1>9, <1>2 DEF From
<1>11. body = [i \in 1 .. Len(body) |-> body[i]]
  BY <1>1
<1> QED BY <1>5, <1>10, <1>11

\* Every step keeps it: only the loop's top can say the body is complete.
LEMMA WholeStep ==
  IInv /\ TypeInv /\ LengthInv /\ SyncInv /\ WholeInv /\ [Next]_vars => WholeInv'
<1> SUFFICES ASSUME IInv, TypeInv, LengthInv, SyncInv, WholeInv, [Next]_vars PROVE WholeInv'
  OBVIOUS
<1>1. CASE pc = "done"
  <2>1. ~PushInOrder /\ ~Skipping /\ ~Holding
    BY <1>1 DEF PushInOrder, Pushing, Skipping, Holding
  <2>2. UNCHANGED <<stream, body>> /\ UNCHANGED finish /\ pc' = "done"
    BY <1>1, <2>1, StepKinds, EndKinds, DoneStays
  <2> QED BY <1>1, <2>2 DEF WholeInv, LengthMeansWhole
<1>2. CASE pc # "done"
  <2>1. finish # "content_length"
    BY <1>2 DEF WholeInv
  <2>2. ASSUME NEW r, NEW label, label # "done", NEW eof, Deliver(r, label, eof), r.ready \in Packets
        PROVE  finish' # "content_length"
    <3>1. ~processOrderedPackets(r.ready).eof
      BY <2>2, NoEof, DeliverFacts
    <3> QED BY <2>1, <2>2, <3>1, DeliverEnds
  <2>3. KnownInv
    BY DEF TypeInv
  <2>4. CASE PushInOrder
    <3>1. Pushed.ready \in Packets /\ Deliver(Pushed, "check", <<"success">>)
      BY <2>3, <2>4, ReadyKnown DEF PushInOrder, Pushing
    <3>2. finish' # "content_length"
      BY <2>2, <3>1
    <3> QED BY <3>2 DEF WholeInv, LengthMeansWhole
  <2>5. CASE Skipping
    <3> DEFINE r == FastForwardToNextPending(buf, MaxSkip)
    <3>1. r.ready \in Packets
      BY <2>3, <2>5, ReadyKnown DEF Skipping
    <3>2. PICK label \in {"check", "recheck", "bye", "byeEnd"},
               eof \in {<<"success">>, <<"success", "error">>} : Deliver(r, label, eof)
      BY <2>5, Released
    <3> HIDE DEF r
    <3>3. finish' # "content_length"
      BY <2>2, <3>1, <3>2
    <3> QED BY <3>3 DEF WholeInv, LengthMeansWhole
  <2>6. CASE LoopTopComplete
    <3>1. Complete /\ pc' = "done" /\ UNCHANGED <<stream, body>>
      BY <2>6 DEF LoopTopComplete, Finish, netVars, outVars
    <3>2. ~stream.skip => body = [i \in 1 .. NumPackets |-> i - 1]
      BY <3>1, FullIsWhole
    <3> QED BY <3>1, <3>2 DEF WholeInv, LengthMeansWhole
  <2>7. CASE finish' # "content_length"
    BY <2>7 DEF WholeInv, LengthMeansWhole
  <2> QED BY <2>1, <2>4, <2>5, <2>6, <2>7, LengthEnds
<1> QED BY <1>1, <1>2

\* Of a stream whose announced length covers its body, and that may not skip losses, the
\* declared length ends the loop only with every packet of the body written, in order:
\* a lower length from ResponseEnd, a lost first packet or a late parity packet cannot
\* make streamLoop report a truncated body as complete.
THEOREM LengthIsWhole ==
  ASSUME HonestLength
  PROVE  Spec => []LengthMeansWhole
<1>1. Init => WholeInv /\ LengthInv /\ SyncInv
  BY DEF Init, WholeInv, LengthMeansWhole, LengthInv, SyncInv
<1>2. WholeInv => LengthMeansWhole
  BY DEF WholeInv
<1>3. TypeInv /\ LengthInv /\ [Next]_vars => LengthInv'
  BY LengthStep DEF TypeInv
<1> QED BY <1>1, <1>2, <1>3, InitInv, NextInv, InitTypes, TypesStep, SyncStep, WholeStep, PTL DEF Spec
=============================================================================
