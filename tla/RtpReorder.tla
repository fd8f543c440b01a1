----------------------------- MODULE RtpReorder -----------------------------
(***************************************************************************)
(* The sequence reorder buffer of the RTP receiver (rtp_reorder.go): what  *)
(* rtpSequenceReorderBuffer computes, as operators on the buffer's value.  *)
(* Sequence numbers are uint16 in the code; here they are 0..SeqSpace-1, so   *)
(* that TLC can wrap a small space and a proof covers 2^16.                *)
(*                                                                         *)
(* A buffer is a record                                                    *)
(*   expected, started            as in the code                           *)
(*   pending                      map from sequence number to payload      *)
(*   reorderWindow, lossTolerance the current window                       *)
(***************************************************************************)
EXTENDS Integers, Sequences

CONSTANT SeqSpace    \* size of the sequence space: 2^16 in the code

ASSUME SeqSpaceAssumption == SeqSpace \in Nat /\ SeqSpace >= 4 /\ SeqSpace % 2 = 0

Seqs == 0 .. (SeqSpace - 1)
Half == SeqSpace \div 2      \* 0x8000: where "ahead" turns into "behind"

SeqAddUnwrapped(s, n) == s + n      \* mutant of SeqAdd

\* uint16 addition and subtraction, for 0 <= n <= SeqSpace.
SeqAdd(s, n) == IF s + n < SeqSpace THEN s + n ELSE s + n - SeqSpace
Dist(a, b)   == IF a >= b THEN a - b ELSE a - b + SeqSpace

EmptyMap == [s \in {} |-> 0]

newRTPSequenceReorderBuffer(window, tolerance) ==
  [expected |-> 0, started |-> FALSE, pending |-> EmptyMap,
   reorderWindow |-> window, lossTolerance |-> tolerance]

totalWindow(b) == b.reorderWindow + b.lossTolerance

-----------------------------------------------------------------------------
\* The number of consecutive sequence numbers from `from' on that are buffered:
\* how often the loop of flushReady goes round.
RunLength(pending, from) ==
  CHOOSE n \in 0 .. SeqSpace :
    /\ \A i \in 0 .. (n - 1) : SeqAdd(from, i) \in DOMAIN pending
    /\ n = SeqSpace \/ SeqAdd(from, n) \notin DOMAIN pending

\* Mutant of flushReady: what was delivered stays buffered.
flushReadyKeeping(b, from) ==
  LET n == RunLength(b.pending, from)
  IN  [ready |-> [i \in 1 .. n |-> b.pending[SeqAdd(from, i - 1)]],
       buf   |-> [b EXCEPT !.expected = SeqAdd(from, n)]]

\* Delivers the run that starts at `from', and leaves expected just after it.
flushReady(b, from) ==
  LET n    == RunLength(b.pending, from)
      kept == {s \in DOMAIN b.pending : Dist(s, from) >= n}
  IN  [ready |-> [i \in 1 .. n |-> b.pending[SeqAdd(from, i - 1)]],
       buf   |-> [b EXCEPT !.expected = SeqAdd(from, n),
                           !.pending  = [s \in kept |-> b.pending[s]]]]

\* The buffer after the first packet has fixed where the stream starts.
Started(b, seq) ==
  IF b.started THEN b ELSE [b EXCEPT !.started = TRUE, !.expected = seq]

\* Mutant of PushState: a packet behind the expected one is delivered.
PushStateLateInOrder(b0, seq) ==
  LET b == Started(b0, seq)
      d == Dist(seq, b.expected)
  IN  CASE d = 0 \/ d >= Half                       -> "in_order"
        [] d > 0 /\ d < Half /\ d > totalWindow(b)  -> "gap_overflow"
        [] d > 0 /\ d < Half /\ d <= totalWindow(b) ->
             IF seq \in DOMAIN b.pending THEN "duplicate"
             ELSE IF d > b.reorderWindow THEN "gap_tolerated" ELSE "buffered"

\* Which of its outcomes Push has for a packet numbered seq.
PushState(b0, seq) ==
  LET b == Started(b0, seq)
      d == Dist(seq, b.expected)
  IN  CASE d = 0                                    -> "in_order"
        [] d > 0 /\ d < Half /\ d > totalWindow(b)  -> "gap_overflow"
        [] d > 0 /\ d < Half /\ d <= totalWindow(b) ->
             IF seq \in DOMAIN b.pending THEN "duplicate"
             ELSE IF d > b.reorderWindow THEN "gap_tolerated" ELSE "buffered"
        [] d >= Half                                -> "late"

\* Push: the buffer afterwards, and the payloads handed on.
Push(b0, seq, payload) ==
  LET b     == Started(b0, seq)
      state == PushState(b0, seq)
  IN  CASE state = "in_order" ->
             LET f == flushReady(b, SeqAdd(seq, 1))
             IN  [ready |-> <<payload>> \o f.ready, buf |-> f.buf]
        [] state \in {"buffered", "gap_tolerated"} ->
             [ready |-> <<>>,
              buf   |-> [b EXCEPT !.pending =
                           [s \in DOMAIN b.pending \cup {seq} |->
                              IF s = seq THEN payload ELSE b.pending[s]]]]
        [] state \in {"gap_overflow", "duplicate", "late"} ->
             [ready |-> <<>>, buf |-> b]

-----------------------------------------------------------------------------
HasPending(b) == DOMAIN b.pending # {}

\* How far ahead of expected the buffered packets are.
Ahead(b) == {d \in 1 .. (Half - 1) : SeqAdd(b.expected, d) \in DOMAIN b.pending}

Nearest(ds) == CHOOSE d \in ds : \A e \in ds : d <= e

\* PendingGapPackets counts the missing packets and the one found after them.
PendingGapPackets(b) == IF Ahead(b) = {} THEN 0 ELSE Nearest(Ahead(b)) + 1

\* FastForwardToNextPending skips a gap of at most maxSkip to the nearest buffered
\* packet; it is not possible when there is none so near.
CanFastForward(b, maxSkip) == \E d \in Ahead(b) : d <= maxSkip

\* Mutant of FastForwardToNextPending: the packet it skips to is skipped too.
FastForwardPastPending(b, maxSkip) ==
  flushReady(b, SeqAdd(b.expected, Nearest({d \in Ahead(b) : d <= maxSkip}) + 1))

FastForwardToNextPending(b, maxSkip) ==
  flushReady(b, SeqAdd(b.expected, Nearest({d \in Ahead(b) : d <= maxSkip})))

ExpandTolerance(b, window, tolerance) ==
  [b EXCEPT !.reorderWindow = IF window > @ THEN window ELSE @,
            !.lossTolerance = IF tolerance > @ THEN tolerance ELSE @]
=============================================================================
