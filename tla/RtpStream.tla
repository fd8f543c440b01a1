------------------------------ MODULE RtpStream ------------------------------
(***************************************************************************)
(* One RTP response body, from the sender of the answering node to the     *)
(* HTTP response of the asking node: rtpBodySender (gb28181_media_sender)  *)
(* sends the body as numbered packets with XOR parity over small groups;   *)
(* the network loses, repeats, delays and reorders them; streamLoop        *)
(* (gb28181_media_receiver) reorders, recovers, decodes and decides when   *)
(* the body is over. ResponseEnd and BYE reach the loop from the side: the *)
(* SIP handlers store them, and a helper goroutine of ExecuteForward reads *)
(* the same channels.                                                      *)
(*                                                                         *)
(* Abstractions. A packet is its number in the stream, 0, 1, 2, ...; its   *)
(* RTP sequence number is that number in the wrapped sequence space. Bytes *)
(* are counted in packets. A program-stream (PES) unit is FragPackets      *)
(* packets. Nothing is removed from the network: what was sent may arrive  *)
(* once, again, late or never. Time is a gap's age: 0 just noticed, 1 old   *)
(* enough for a proactive skip, 2 past policy.GapTimeout.                  *)
(***************************************************************************)
EXTENDS RtpReorder, FiniteSets

CONSTANTS
  NumPackets,        \* packets of the whole body
  FragPackets,       \* packets of one PES unit
  FecGroup,          \* data packets per parity packet; 0: no FEC
  FirstSeq,          \* sequence number of packet 0 (a clock reading in the code)
  StreamKinds,       \* the streams to consider: [skip, range, download, length]
  ReorderWindow, LossTolerance,     \* the policy's window
  RescueWindow, RescueTolerance,    \* the window after a range-playback rescue
  RescueSlower,      \* whether the rescue also lengthens GapTimeout
  ProactiveGap, ProactiveBacklog,   \* thresholds of maybeProactiveFastForward
  MaxRecent,         \* packets the FEC tracker remembers
  Span               \* how far a packet may fall behind before the network drops it

\* The widest the window can grow.
MaxWindow == (IF RescueWindow > ReorderWindow THEN RescueWindow ELSE ReorderWindow)
             + (IF RescueTolerance > LossTolerance THEN RescueTolerance ELSE LossTolerance)

ASSUME StreamAssumption ==
  /\ NumPackets \in Nat \ {0} /\ FragPackets \in Nat \ {0}
  /\ NumPackets % FragPackets = 0
  /\ FecGroup \in Nat /\ FirstSeq \in Seqs /\ MaxRecent \in Nat
  /\ StreamKinds \subseteq [skip : BOOLEAN, range : BOOLEAN, download : BOOLEAN, length : Int]
  /\ ReorderWindow \in Nat \ {0} /\ LossTolerance \in Nat
  /\ RescueWindow \in Nat /\ RescueTolerance \in Nat /\ RescueSlower \in BOOLEAN
  /\ ProactiveGap \in Nat /\ ProactiveBacklog \in Nat
  /\ Span \in Nat /\ FragPackets <= Span
  /\ Span + 2 * (MaxWindow + 1) < Half

VARIABLES
  stream,          \* kind of the stream: loss skipping allowed, profile, Content-Length
  sent,            \* packets sent so far
  endSent, byeSent,   \* ResponseEnd, BYE sent
  pc,              \* where streamLoop is
  work,            \* packets this iteration still has to push
  buf,             \* the reorder buffer
  decoded,         \* packets handed to the decoder, in order (history)
  gapAge,          \* age of gapSince: -1 zero time
  rescued,         \* rescueEscalated
  groups, recent,  \* FEC tracker: open parity groups, remembered packets
  pes,             \* decoder: packets of the PES unit being collected
  body,            \* what was written to the pipe
  expectedBytes,   \* rtpBodyReceiver.expectedBytes
  localExpected,   \* the value read at the loop's top
  endCh, byeCh,    \* tokens in the channels of capacity 1
  byeSeen,
  helper,          \* helper goroutine of ExecuteForward: waiting
  ctxDone,         \* bodyCtx expired or cancelled
  closed,          \* the reader closed the response body
  reports,         \* terminal callbacks made, in order
  finish,          \* why the loop ended
  portHeld         \* the RTP port is still allocated

netVars  == <<stream, sent, endSent, byeSent>>
bufVars  == <<buf, decoded, gapAge, rescued>>
fecVars  == <<groups, recent>>
outVars  == <<pes, body>>
sipVars  == <<expectedBytes, endCh, byeCh, helper, ctxDone, closed>>
loopVars == <<pc, work, localExpected, byeSeen>>
endVars  == <<reports, finish, portHeld>>
vars == <<netVars, bufVars, fecVars, outVars, sipVars, loopVars, endVars>>

-----------------------------------------------------------------------------
Ids       == 0 .. (NumPackets - 1)
SeqNo(id) == (FirstSeq + id) % SeqSpace

\* The packet the reorder buffer waits for.
NextId == IF decoded = <<>> THEN 0 ELSE decoded[Len(decoded)] + 1

\* sendProgramStreamFragment closes a parity group after FecGroup packets and at
\* the end of a fragment, and sends parity only for groups of two or more.
GroupOf(id) ==
  {i \in Ids : /\ i \div FragPackets = id \div FragPackets
               /\ (i % FragPackets) \div FecGroup = (id % FragPackets) \div FecGroup}
ParityGroups ==
  IF FecGroup <= 1 THEN {}
  ELSE {g \in {GroupOf(i) : i \in Ids} : Cardinality(g) >= 2}

\* Mutant of WritePacket: a unit begins with whatever packet comes first.
WritePacketUnsynced(acc, id) ==
  LET unit == Append(acc.pes, id)
  IN  IF acc.eof THEN acc
      ELSE IF Len(unit) < FragPackets THEN [acc EXCEPT !.pes = unit]
      ELSE IF expectedBytes >= 0 /\ Len(acc.body) >= expectedBytes THEN [acc EXCEPT !.eof = TRUE]
      ELSE [pes |-> <<>>, eof |-> FALSE, body |-> acc.body \o unit]

\* Mutant of WritePacket: the unit that completes the body is dropped.
WritePacketEarlyEof(acc, id) ==
  LET unit == IF acc.pes = <<>> /\ id % FragPackets # 0 THEN <<>> ELSE Append(acc.pes, id)
  IN  IF acc.eof THEN acc
      ELSE IF Len(unit) < FragPackets THEN [acc EXCEPT !.pes = unit]
      ELSE IF expectedBytes >= 0 /\ Len(acc.body) + Len(unit) >= expectedBytes
      THEN [acc EXCEPT !.eof = TRUE]
      ELSE [pes |-> <<>>, eof |-> FALSE, body |-> acc.body \o unit]

\* decoder.Write and the writes to the pipe for one ordered packet. The decoder
\* starts a unit at a pack header only, so it scans over packets in the middle of
\* a unit whose start it never saw; a unit once begun takes whatever follows.
WritePacket(acc, id) ==
  LET unit == IF acc.pes = <<>> /\ id % FragPackets # 0 THEN <<>> ELSE Append(acc.pes, id)
      room == expectedBytes - Len(acc.body)
  IN  IF acc.eof THEN acc
      ELSE IF Len(unit) < FragPackets THEN [acc EXCEPT !.pes = unit]
      ELSE IF expectedBytes >= 0 /\ room <= 0 THEN [acc EXCEPT !.eof = TRUE]
      ELSE [pes  |-> <<>>, eof |-> FALSE,
            body |-> acc.body \o (IF expectedBytes >= 0 /\ Len(unit) > room
                                  THEN SubSeq(unit, 1, room) ELSE unit)]

\* The decoder and the pipe before any packet of ready, after the first, and so on.
decoderAfter(ready) ==
  LET written[n \in 0 .. Len(ready)] ==
        IF n = 0 THEN [pes |-> pes, body |-> body, eof |-> FALSE]
        ELSE WritePacket(written[n - 1], ready[n])
  IN  written

processOrderedPackets(ready) == decoderAfter(ready)[Len(ready)]

\* Mutant of Finish: the port is not released.
FinishKeepingPort(callbacks, why) ==
  /\ pc' = "done" /\ finish' = why
  /\ reports' = reports \o callbacks
  /\ UNCHANGED portHeld

\* The loop returns: Close releases the port, and each report is a callback.
Finish(callbacks, why) ==
  /\ pc' = "done" /\ finish' = why
  /\ reports' = reports \o callbacks
  /\ portHeld' = FALSE

Goto(label) == pc' = label /\ UNCHANGED endVars
AfterGapCheck == IF work = <<>> THEN "top" ELSE "work"

\* Bytes out of step with the units the decoder frames: it scans them for a start
\* code, may meet a chance one, and refuses the PES that seems to follow.
OutOfStep(acc, id) == ~acc.eof /\ id % FragPackets # Len(acc.pes)

\* decoder.Write fails at ready[n]: its chunks and the packets after it are dropped.
DecodeError(ready) ==
  \E n \in 1 .. Len(ready) :
    LET out == decoderAfter(ready)[n - 1]
    IN  /\ OutOfStep(out, ready[n])
        /\ closed => out.body = body
        /\ pes' = out.pes /\ body' = out.body
        /\ Finish(<<"error">>, "decode")

\* Every packet of ready reaches the decoder, and what it frames the pipe; the loop
\* goes on at `label' unless the reader has closed the pipe, or a unit arrives when
\* the body is already complete: then reportSuccess has run, and io.EOF goes back to
\* the caller, which makes the callbacks eofReports in all.
WriteAll(ready, label, eofReports) ==
  LET out   == processOrderedPackets(ready)
      wrote == out.body # body
  IN  /\ pes' = out.pes
      /\ body' = IF closed THEN body ELSE out.body
      /\ IF closed /\ wrote THEN Finish(<<"error">>, "write")
         ELSE IF out.eof     THEN Finish(eofReports, "content_length")
         ELSE Goto(label)

\* The packets that `result' releases are processed.
Deliver(result, label, eofReports) ==
  /\ buf' = result.buf
  /\ decoded' = decoded \o result.ready
  /\ WriteAll(result.ready, label, eofReports) \/ DecodeError(result.ready)

-----------------------------------------------------------------------------
(* The answering node: SendStreamWithProfile, then ResponseEnd, then BYE.  *)

SendPacket ==
  /\ sent < NumPackets /\ ~byeSent
  /\ sent' = sent + 1
  /\ UNCHANGED <<stream, endSent, byeSent, bufVars, fecVars, outVars, sipVars, loopVars, endVars>>

SendResponseEnd ==
  /\ sent = NumPackets /\ ~endSent /\ ~byeSent
  /\ endSent' = TRUE
  /\ UNCHANGED <<stream, sent, byeSent, bufVars, fecVars, outVars, sipVars, loopVars, endVars>>

\* BYE follows ResponseEnd, a ResponseEnd that could not be built, or a failed send.
SendBye ==
  /\ ~byeSent
  /\ byeSent' = TRUE
  /\ UNCHANGED <<stream, sent, endSent, bufVars, fecVars, outVars, sipVars, loopVars, endVars>>

-----------------------------------------------------------------------------
(* The asking node beside the loop: SIP handlers, helper, reader, timers.  *)

LowerExpected(v) ==
  expectedBytes' = IF v >= 0 /\ (expectedBytes < 0 \/ v < expectedBytes) THEN v ELSE expectedBytes

\* handleTunnelControlMessage, RESPONSEEND.
RecvResponseEnd ==
  /\ endSent /\ ~closed
  /\ LowerExpected(NumPackets)
  /\ endCh' = TRUE
  /\ UNCHANGED <<byeCh, helper, ctxDone, closed, netVars, bufVars, fecVars, outVars, loopVars, endVars>>

\* handleBYE: a token for byeCh unless there is one.
RecvBye ==
  /\ byeSent /\ ~closed
  /\ byeCh' = TRUE
  /\ UNCHANGED <<expectedBytes, endCh, helper, ctxDone, closed, netVars, bufVars, fecVars, outVars, loopVars, endVars>>

\* ExecuteForward has the ResponseStart: Stream starts the loop, and the helper.
StreamStart ==
  /\ pc = "idle"
  /\ LowerExpected(stream.length)
  /\ helper' = TRUE
  /\ pc' = "top"
  /\ UNCHANGED <<endCh, byeCh, ctxDone, closed, work, localExpected, byeSeen,
                 netVars, bufVars, fecVars, outVars, endVars>>

HelperTakesEnd ==
  /\ helper /\ endCh
  /\ helper' = FALSE /\ endCh' = FALSE
  /\ LowerExpected(NumPackets)
  /\ UNCHANGED <<byeCh, ctxDone, closed, netVars, bufVars, fecVars, outVars, loopVars, endVars>>

HelperTakesBye ==
  /\ helper /\ byeCh
  /\ helper' = FALSE /\ byeCh' = FALSE
  /\ UNCHANGED <<expectedBytes, endCh, ctxDone, closed, netVars, bufVars, fecVars, outVars, loopVars, endVars>>

HelperGivesUp ==
  /\ helper /\ ctxDone
  /\ helper' = FALSE
  /\ UNCHANGED <<expectedBytes, endCh, byeCh, ctxDone, closed, netVars, bufVars, fecVars, outVars, loopVars, endVars>>

BodyTimeout ==
  /\ pc # "idle" /\ ~ctxDone
  /\ ctxDone' = TRUE
  /\ UNCHANGED <<expectedBytes, endCh, byeCh, helper, closed, netVars, bufVars, fecVars, outVars, loopVars, endVars>>

\* The HTTP side closes the body: cleanupWithBody cancels, closes the socket,
\* releases the port and forgets the pending session.
ReaderClose ==
  /\ pc # "idle" /\ ~closed
  /\ closed' = TRUE /\ ctxDone' = TRUE /\ portHeld' = FALSE
  /\ UNCHANGED <<expectedBytes, endCh, byeCh, helper, reports, finish,
                 netVars, bufVars, fecVars, outVars, loopVars>>

\* Time passes while a gap is open.
Tick ==
  /\ gapAge \in {0, 1}
  /\ gapAge' = gapAge + 1
  /\ UNCHANGED <<buf, decoded, rescued, netVars, fecVars, outVars, sipVars, loopVars, endVars>>

-----------------------------------------------------------------------------
(* streamLoop. One action per branch; the steps of one iteration are       *)
(* separate actions where another goroutine, or time, can come between.    *)

CompleteByExcess  == expectedBytes >= 0 /\ Len(body) > expectedBytes   \* mutant of Complete
Complete          == expectedBytes >= 0 /\ Len(body) >= expectedBytes
CancelledAfterBye == ctxDone /\ byeSeen                                \* mutant of Cancelled
Cancelled         == ctxDone

LoopTopComplete ==
  /\ pc = "top"
  /\ Complete
  /\ Finish(<<"success">>, "content_length")
  /\ UNCHANGED <<netVars, bufVars, fecVars, outVars, sipVars, work, localExpected, byeSeen>>

LoopTopCancelled ==
  /\ pc = "top"
  /\ ~Complete /\ Cancelled
  /\ Finish(<<"error">>, "ctx")
  /\ UNCHANGED <<netVars, bufVars, fecVars, outVars, sipVars, work, localExpected, byeSeen>>

\* Polls byeCh and arms the read; what the loop compares with later is the length
\* known here.
LoopTopArm ==
  /\ pc = "top"
  /\ ~Complete /\ ~Cancelled
  /\ localExpected' = expectedBytes
  /\ byeSeen' = (byeSeen \/ byeCh)
  /\ byeCh' = (byeCh /\ byeSeen)
  /\ Goto("read")
  /\ UNCHANGED <<netVars, bufVars, fecVars, outVars, expectedBytes, endCh, helper, ctxDone, closed, work>>

\* What the FEC tracker forgets: packets and groups more than MaxRecent behind the
\* expected sequence number, which is 0 until the first packet is pushed.
sequenceBehind(seq) ==
  IF Dist(buf.expected, seq) >= Half THEN 0 ELSE Dist(buf.expected, seq)
TrimRecent(ids) == {i \in ids : sequenceBehind(SeqNo(i)) <= MaxRecent}
TrimGroups(gs)  ==
  {g \in gs : sequenceBehind(SeqNo(CHOOSE i \in g.ids : \A j \in g.ids : j <= i)) <= MaxRecent}

\* tryRecover: the one packet of the group whose data is not there.
Recoverable(g) == Cardinality(g.ids \ g.data) = 1
Missing(g)     == CHOOSE i \in g.ids : i \notin g.data

\* ObserveData. The sender's groups are disjoint, so a packet completes at most one.
ObserveData(id) ==
  LET noted == {IF id \in g.ids THEN [g EXCEPT !.data = @ \cup {id}] ELSE g : g \in groups}
      hit   == {g \in noted : id \in g.ids /\ Recoverable(g)}
      found == Missing(CHOOSE g \in hit : TRUE)
  IN  /\ groups' = TrimGroups(noted \ hit)
      /\ recent' = TrimRecent(recent \cup {id} \cup (IF hit = {} THEN {} ELSE {found}))
      /\ work' = IF hit = {} THEN <<id>> ELSE <<found, id>>

\* Assumed of the network: a packet arrives before the stream has moved on by Span
\* packets, and the receiver never falls half the sequence space behind.
InSpan(ids) ==
  decoded # <<>> => \A i \in ids : i - NextId < Half /\ NextId - i <= Span

\* ReadFrom returned a data packet: what it lets FEC recover is pushed before it.
ReadPacket(id) ==
  /\ pc = "read" /\ ~closed
  /\ id < sent
  /\ InSpan({id} \cup UNION {g \in ParityGroups : id \in g})
  /\ IF FecGroup > 1 THEN ObserveData(id) ELSE work' = <<id>> /\ UNCHANGED fecVars
  /\ Goto("work")
  /\ UNCHANGED <<netVars, bufVars, outVars, sipVars, localExpected, byeSeen>>

\* ObserveFEC. Parity received again replaces the group it opened before.
ReadParity(g) ==
  LET group == [ids |-> g, data |-> g \cap recent]
      other == {h \in groups : h.ids # g}
  IN  /\ pc = "read" /\ ~closed
      /\ \A i \in g : i < sent
      /\ InSpan(g)
      /\ IF Recoverable(group)
         THEN /\ groups' = TrimGroups(groups)
              /\ recent' = TrimRecent(recent \cup {Missing(group)})
              /\ work' = <<Missing(group)>>
              /\ Goto("work")
         ELSE /\ groups' = TrimGroups(other \cup {group})
              /\ recent' = TrimRecent(recent)
              /\ Goto("top") /\ UNCHANGED work
      /\ UNCHANGED <<netVars, bufVars, outVars, sipVars, localExpected, byeSeen>>

\* A packet with another SSRC ends a stream that has begun.
ReadStray ==
  /\ pc = "read" /\ ~closed
  /\ decoded # <<>>
  /\ Finish(<<"error">>, "ssrc")
  /\ UNCHANGED <<netVars, bufVars, fecVars, outVars, sipVars, work, localExpected, byeSeen>>

\* The socket was closed under the loop.
ReadError ==
  /\ pc = "read" /\ closed
  /\ Finish(<<"error">>, "read")
  /\ UNCHANGED <<netVars, bufVars, fecVars, outVars, sipVars, work, localExpected, byeSeen>>

-----------------------------------------------------------------------------
(* handleSequence, once for every packet of work.                          *)

Pushing(states) == pc = "work" /\ PushState(buf, SeqNo(Head(work))) \in states
Pushed == Push(buf, SeqNo(Head(work)), Head(work))

PushInOrder ==
  /\ Pushing({"in_order"})
  /\ Deliver(Pushed, "check", <<"success">>)
  /\ gapAge' = IF HasPending(Pushed.buf) THEN gapAge ELSE -1
  /\ work' = Tail(work)
  /\ UNCHANGED <<rescued, netVars, fecVars, sipVars, localExpected, byeSeen>>

PushBuffered ==
  /\ Pushing({"buffered"})
  /\ buf' = Pushed.buf
  /\ gapAge' = IF gapAge = -1 THEN 0 ELSE gapAge
  /\ work' = Tail(work)
  /\ Goto("check")
  /\ UNCHANGED <<decoded, rescued, netVars, fecVars, outVars, sipVars, localExpected, byeSeen>>

\* escalateRangePlaybackRescue: due when the backlog fills the window, and possible
\* earlier, once 32 packets were tolerated with half the window filled. A longer
\* GapTimeout makes a gap younger.
RescueDue(b)      == Cardinality(DOMAIN b.pending) >= b.reorderWindow
RescuePossible(b) ==
  /\ stream.range /\ ~rescued
  /\ RescueWindow > b.reorderWindow \/ RescueTolerance > b.lossTolerance \/ RescueSlower
  /\ 2 * Cardinality(DOMAIN b.pending) + 1 >= b.reorderWindow

PushTolerated ==
  /\ Pushing({"gap_tolerated"})
  /\ \/ /\ RescuePossible(Pushed.buf)
        /\ rescued' = TRUE
        /\ buf' = ExpandTolerance(Pushed.buf, RescueWindow, RescueTolerance)
        /\ gapAge' \in IF gapAge = -1 THEN {0} ELSE IF gapAge = 2 /\ RescueSlower THEN {1, 2} ELSE {gapAge}
     \/ /\ ~(RescuePossible(Pushed.buf) /\ RescueDue(Pushed.buf))
        /\ rescued' = rescued
        /\ buf' = Pushed.buf
        /\ gapAge' = IF gapAge = -1 THEN 0 ELSE gapAge
  /\ work' = Tail(work)
  /\ Goto("proactive")
  /\ UNCHANGED <<decoded, netVars, fecVars, outVars, sipVars, localExpected, byeSeen>>

PushIgnored ==
  /\ Pushing({"late", "duplicate"})
  /\ work' = Tail(work)
  /\ Goto("check")
  /\ UNCHANGED <<netVars, bufVars, fecVars, outVars, sipVars, localExpected, byeSeen>>

PushOverflow ==
  /\ Pushing({"gap_overflow"})
  /\ Finish(<<"error">>, "gap_overflow")
  /\ UNCHANGED <<netVars, bufVars, fecVars, outVars, sipVars, work, localExpected, byeSeen>>

-----------------------------------------------------------------------------
(* Gaps that do not heal.                                                  *)

\* Mutant of CanSkip: every stream may skip losses.
CanSkipAnyStream == CanFastForward(buf, IF buf.lossTolerance > 1 THEN buf.lossTolerance ELSE 1)

MaxSkip == IF buf.lossTolerance > 1 THEN buf.lossTolerance ELSE 1
CanSkip == stream.skip /\ CanFastForward(buf, MaxSkip)

\* tryFastForwardGap. Only media and range playback may skip (shouldAllowRTPLossSkip).
tryFastForwardGap(label, eofReports) ==
  LET skip == FastForwardToNextPending(buf, MaxSkip)
  IN  /\ Deliver(skip, label, eofReports)
      /\ gapAge' = IF HasPending(skip.buf) THEN 0 ELSE -1
      /\ UNCHANGED <<rescued, netVars, fecVars, sipVars, work, localExpected, byeSeen>>

Stay(label) ==
  /\ Goto(label)
  /\ UNCHANGED <<netVars, bufVars, fecVars, outVars, sipVars, work, localExpected, byeSeen>>

\* Mutant of Fail: the callback is forgotten.
FailUnreported(why) ==
  /\ Finish(<<>>, why)
  /\ UNCHANGED <<netVars, bufVars, fecVars, outVars, sipVars, work, localExpected, byeSeen>>

Fail(why) ==
  /\ Finish(<<"error">>, why)
  /\ UNCHANGED <<netVars, bufVars, fecVars, outVars, sipVars, work, localExpected, byeSeen>>

ProactiveDue ==
  /\ (stream.range /\ rescued) \/ stream.download
  /\ PendingGapPackets(buf) \in 1 .. ProactiveGap
  /\ Cardinality(DOMAIN buf.pending) >= ProactiveBacklog
  /\ gapAge >= 1

maybeProactiveFastForward ==
  /\ pc = "proactive"
  /\ IF ProactiveDue /\ CanSkip
     THEN tryFastForwardGap("check", <<"success">>)
     ELSE Stay("check")

GapStalled == gapAge = 2 /\ PendingGapPackets(buf) > 0

checkActiveGapTimeout ==
  /\ pc = "check"
  /\ IF ~GapStalled THEN Stay(AfterGapCheck)
     ELSE IF CanSkip THEN tryFastForwardGap("recheck", <<"success", "error">>)
     ELSE Fail("gap_timeout")

\* After the skip, another gap behind it is reported as timed out at once.
GapRecheck ==
  /\ pc = "recheck"
  /\ IF gapAge = -1 \/ PendingGapPackets(buf) = 0
     THEN Stay(AfterGapCheck)
     ELSE Fail("gap_timeout")

-----------------------------------------------------------------------------
(* The read timed out: idle, the grace time after BYE, or a poked deadline. *)

ReadTimeout ==
  /\ pc = "read" /\ ~closed
  /\ Stay("timeout")

TimeoutGap ==
  /\ pc = "timeout"
  /\ IF ~(HasPending(buf) /\ gapAge = 2) THEN Stay("bye")
     ELSE IF CanSkip THEN tryFastForwardGap("bye", <<"success", "error">>)
     ELSE Fail("gap_timeout")

TimeoutBye ==
  /\ pc = "bye"
  /\ IF ~byeSeen THEN Stay("top")
     ELSE IF HasPending(buf) /\ CanSkip
     THEN tryFastForwardGap("byeEnd", <<"success", "error">>)
     ELSE Stay("byeEnd")

ByeEnd ==
  /\ pc = "byeEnd"
  /\ IF HasPending(buf) THEN Fail("gap_on_bye")
     ELSE IF localExpected >= 0 /\ Len(body) < localExpected THEN Fail("short")
     ELSE /\ Finish(<<"success">>, "bye_idle")
          /\ UNCHANGED <<netVars, bufVars, fecVars, outVars, sipVars, work, localExpected, byeSeen>>

-----------------------------------------------------------------------------
Init ==
  /\ stream \in StreamKinds
  /\ sent = 0 /\ endSent = FALSE /\ byeSent = FALSE
  /\ pc = "idle" /\ work = <<>> /\ localExpected = -1 /\ byeSeen = FALSE
  /\ buf = newRTPSequenceReorderBuffer(ReorderWindow, LossTolerance)
  /\ decoded = <<>> /\ gapAge = -1 /\ rescued = FALSE
  /\ groups = {} /\ recent = {}
  /\ pes = <<>> /\ body = <<>>
  /\ expectedBytes = -1 /\ endCh = FALSE /\ byeCh = FALSE
  /\ helper = FALSE /\ ctxDone = FALSE /\ closed = FALSE
  /\ reports = <<>> /\ finish = "none" /\ portHeld = TRUE

Answerer == SendPacket \/ SendResponseEnd \/ SendBye

Beside ==
  \/ RecvResponseEnd \/ RecvBye
  \/ HelperTakesEnd \/ HelperTakesBye \/ HelperGivesUp
  \/ ReaderClose

Arrival ==
  \/ \E id \in Ids : ReadPacket(id)
  \/ \E g \in ParityGroups : ReadParity(g)
  \/ ReadStray

\* What the loop does by itself.
Loop ==
  \/ LoopTopComplete \/ LoopTopCancelled \/ LoopTopArm
  \/ PushInOrder \/ PushBuffered \/ PushTolerated \/ PushIgnored \/ PushOverflow
  \/ maybeProactiveFastForward \/ checkActiveGapTimeout \/ GapRecheck
  \/ ReadTimeout \/ TimeoutGap \/ TimeoutBye \/ ByeEnd \/ ReadError

Next == Answerer \/ Beside \/ StreamStart \/ BodyTimeout \/ Tick \/ Arrival \/ Loop

Spec == Init /\ [][Next]_vars

\* The scheduler runs the loop and the helper, and ExecuteForward gets to Stream.
\* Nothing is assumed of the network, of SIP or of the reader.
LoopFairness ==
  WF_vars(StreamStart) /\ WF_vars(Loop) /\ WF_vars(HelperTakesEnd \/ HelperTakesBye \/ HelperGivesUp)
LoopSpec == Spec /\ LoopFairness

\* bodyCtx has a deadline (dynamicRelayBodyWait), and its timer fires.
DeadlineFires == WF_vars(BodyTimeout)

-----------------------------------------------------------------------------
(* Properties.                                                             *)

Packets == Seq(Ids)

TypeOK ==
  /\ stream \in StreamKinds
  /\ sent \in 0 .. NumPackets /\ endSent \in BOOLEAN /\ byeSent \in BOOLEAN
  /\ pc \in {"idle", "top", "read", "work", "proactive", "check", "recheck",
             "timeout", "bye", "byeEnd", "done"}
  /\ work \in Packets /\ decoded \in Packets /\ pes \in Packets /\ body \in Packets
  /\ buf.expected \in Seqs /\ buf.started \in BOOLEAN
  /\ DOMAIN buf.pending \subseteq Seqs /\ \A s \in DOMAIN buf.pending : buf.pending[s] \in Ids
  /\ gapAge \in -1 .. 2 /\ rescued \in BOOLEAN
  /\ recent \subseteq Ids /\ \A g \in groups : g.data \subseteq g.ids
  /\ expectedBytes \in Int /\ localExpected \in Int
  /\ {endCh, byeCh, byeSeen, helper, ctxDone, closed, portHeld} \subseteq BOOLEAN
  /\ reports \in Seq({"success", "error"})

\* No packet reaches the decoder twice or behind a later one, however the network
\* repeats and reorders, across the wrap of the sequence space and past FEC.
DecodedInOrder ==
  \A i, j \in DOMAIN decoded : i < j => decoded[i] < decoded[j]

\* The buffer never holds more than its window: everything in it lies within
\* totalWindow of the expected number, so its memory is bounded.
PendingInWindow ==
  \A s \in DOMAIN buf.pending :
    LET d == Dist(s, buf.expected)
    IN  d \in 1 .. totalWindow(buf) /\ buf.pending[s] = NextId + d

\* Skipping is bounded: two packets the decoder sees in a row are at most the loss
\* tolerance apart, and next to each other where losses may not be skipped.
LossBounded ==
  \A i \in 1 .. (Len(decoded) - 1) :
    decoded[i + 1] - decoded[i] <= 1 + (IF stream.skip THEN MaxSkip ELSE 0)

\* A stream that may not skip losses writes an unbroken run of the body, from the
\* first unit that begins at or after the first packet received.
BodyContiguous ==
  ~stream.skip /\ body # <<>> =>
    /\ body[1] - decoded[1] \in 0 .. (FragPackets - 1) /\ body[1] % FragPackets = 0
    /\ \A i \in 1 .. (Len(body) - 1) : body[i + 1] = body[i] + 1

\* The declared length ends a stream only when every byte of it was written.
LengthMeansWhole ==
  finish = "content_length" /\ ~stream.skip => body = [i \in 1 .. NumPackets |-> i - 1]

\* One stream, one verdict: the terminal callbacks (device health, statistics) run
\* exactly once, and the port is free afterwards.
OneVerdict ==
  pc = "done" => Len(reports) = 1 /\ ~portHeld

\* Once the declared length is written the loop ends, whatever comes or stays away: it
\* does not wait for the deadline.
CompleteEnds ==
  (pc # "idle" /\ expectedBytes >= 0 /\ Len(body) >= expectedBytes) ~> pc = "done"

\* Every loop that was started ends and gives its port back, as long as the deadline of
\* the body context fires.
StreamEnds == DeadlineFires => ((pc # "idle") ~> (pc = "done" /\ ~portHeld))

-----------------------------------------------------------------------------
(* What the documents say of the receiver, and the code does not do.       *)

\* docs/ENGINEERING_GUARDRAILS.md:169: the length in ResponseEnd decides first when
\* the body is complete, so BYE does not make a shorter one a success.
ByeMeansWhole ==
  finish = "bye_idle" => expectedBytes < 0 \/ Len(body) >= expectedBytes

\* docs/ENGINEERING_GUARDRAILS.md:171: BYE completes a response, without waiting for
\* the body timeout.
ByeEnds == (pc # "idle" /\ byeCh) ~> (pc = "done" \/ ctxDone)
=============================================================================
