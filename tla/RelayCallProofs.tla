--------------------------- MODULE RelayCallProofs ---------------------------
(***************************************************************************)
(* For any number of calls, any pool, lane and transport: a call gives     *)
(* back everything it took, the pool is never overdrawn, a release at the  *)
(* lane takes the token of its own call, and the relay implements the      *)
(* safety part of HttpCall. A session of the answering node has its socket *)
(* open, whatever is repeated. Then what the messages of the relay are,    *)
(* and that over TCP a request is executed at most once, which closes      *)
(* every RTP sender.                                                       *)
(***************************************************************************)
EXTENDS RelayCall, FiniteSetTheorems, SequenceTheorems, TLAPS

-----------------------------------------------------------------------------
(* The inductive invariant. GivenBack alone is not inductive: a call that  *)
(* waits for the lane can time out, so it must hold nothing either; and    *)
(* the limits need finite sets.                                            *)

Purposes == {"rtp", "invite", "message"}
Shape ==
  /\ pc \in [Calls -> AskerPcs]
  /\ ports \subseteq Calls \X Purposes
  /\ lane \subseteq Calls /\ pending \subseteq Calls
HandsEmpty ==
  \A c \in Calls : pc[c] \in {"idle", "gate", "lane", "done", "failed"} => ~Holds(c)
Limits == IsFiniteSet(ports) /\ WithinLimits
IInv == Shape /\ HandsEmpty /\ Limits

resources == <<pc, ports, lane, pending>>

\* What a step of call c does to the rest, and to c as HttpCall sees it.
Alone(c) ==
  \A d \in Calls : d # c => pc'[d] = pc[d] /\ (Holds(d)' <=> Holds(d))
Empty(c) == ~Holds(c)'
Same(c)  == Holds(c)' <=> Holds(c)
Moves(c) ==
  \/ Phase(c) = "idle" /\ Phase(c)' = "active" /\ Same(c)
  \/ Phase(c) \in {"active", "answered"} /\ Phase(c)' = Phase(c)
  \/ Phase(c) = "active" /\ Phase(c)' = "answered" /\ (Same(c) \/ Empty(c))
  \/ Phase(c) = "active" /\ Phase(c)' = "failed" /\ Empty(c)
  \/ Phase(c) = "answered" /\ Phase(c)' = "done" /\ Empty(c)

CallStep(c) == Shape' /\ Alone(c) /\ Moves(c)
               /\ (pc'[c] \in {"idle", "gate", "lane", "done", "failed"} => Empty(c))

\* A message is taken from the network, or put into the channel of its call.
Received(message) ==
  \/ RecvResponse(message) \/ RecvBye(message)
  \/ AcceptInvite(message) \/ RejectInvite(message) \/ RecvRequest(message)

AskerStep(c) ==
  Begin(c) \/ acquireUDPLane(c) \/ LaneTimeout(c) \/ Forward(c) \/ StreamOver(c) \/ CloseBody(c)

-----------------------------------------------------------------------------
\* Phase of a call, by cases.
LEMMA PhaseOf ==
  ASSUME NEW c \in Calls
  PROVE  /\ pc[c] = "idle" => Phase(c) = "idle"
         /\ pc[c] \in {"answered", "streaming"} => Phase(c) = "answered"
         /\ pc[c] = "done" => Phase(c) = "done"
         /\ pc[c] = "failed" => Phase(c) = "failed"
         /\ pc[c] \in {"gate", "lane", "open", "invite", "inviting", "invited", "requesting",
                       "waiting", "inline"} => Phase(c) = "active"
BY DEF Phase

\* The same after a step.
LEMMA PhaseOfPrimed ==
  ASSUME NEW c \in Calls
  PROVE  /\ pc'[c] = "idle" => Phase(c)' = "idle"
         /\ pc'[c] \in {"answered", "streaming"} => Phase(c)' = "answered"
         /\ pc'[c] = "done" => Phase(c)' = "done"
         /\ pc'[c] = "failed" => Phase(c)' = "failed"
         /\ pc'[c] \in {"gate", "lane", "open", "invite", "inviting", "invited", "requesting",
                        "waiting", "inline"} => Phase(c)' = "active"
BY DEF Phase

\* Cleanup empties the hands of c and touches no other call.
LEMMA CleanupEmpties ==
  ASSUME Shape, NEW c \in Calls, NEW label \in AskerPcs, Goto(c, label), Cleanup(c)
  PROVE  Shape' /\ Alone(c) /\ Empty(c) /\ pc'[c] = label
BY DEF Shape, Goto, Cleanup, LeaveLane, Alone, Empty, Holds, PortsOf

\* A failed call.
LEMMA FailStep ==
  ASSUME IInv, NEW c \in Calls, Phase(c) = "active", Fail(c)
  PROVE  CallStep(c)
<1>1. Shape' /\ Alone(c) /\ Empty(c) /\ pc'[c] = "failed"
  BY CleanupEmpties, "failed" \in AskerPcs DEF IInv, Fail, AskerPcs
<1>2. Phase(c)' = "failed"
  BY <1>1, PhaseOfPrimed
<1> QED BY <1>1, <1>2 DEF CallStep, Moves

\* Every step of ExecuteForward and of the reader of its response is a step of its
\* own call, as HttpCall has it.
LEMMA AskerStepIsCallStep ==
  ASSUME IInv, NEW c \in Calls, AskerStep(c)
  PROVE  CallStep(c)
<1> USE DEF IInv
<1>1. CASE Begin(c)
  <2>1. pc'[c] \in {"gate", "open"} /\ pc[c] = "idle" /\ Shape' /\ Alone(c) /\ Same(c)
    BY <1>1 DEF Begin, laneVars, Goto, Shape, AskerPcs, Alone, Same, Holds, PortsOf
  <2>2. ~Holds(c)
    BY <2>1 DEF HandsEmpty
  <2> QED BY <2>1, <2>2, PhaseOf, PhaseOfPrimed DEF CallStep, Moves, Same, Empty
<1>2. CASE acquireUDPLane(c)
  <2>1. pc'[c] = "open" /\ pc[c] = "lane" /\ Shape' /\ Alone(c)
    BY <1>2 DEF acquireUDPLane, Goto, Shape, AskerPcs, Alone, Holds, PortsOf
  <2> QED BY <2>1, PhaseOf, PhaseOfPrimed DEF CallStep, Moves
<1>3. CASE LaneTimeout(c)
  BY <1>3, FailStep, PhaseOf DEF LaneTimeout
<1>18. CASE FindLane(c)
  <2>1. pc'[c] = "lane" /\ pc[c] = "gate" /\ Shape' /\ Alone(c) /\ Same(c)
    BY <1>18 DEF FindLane, Goto, Shape, AskerPcs, Alone, Same, Holds, PortsOf
  <2>2. ~Holds(c)
    BY <2>1 DEF HandsEmpty
  <2> QED BY <2>1, <2>2, PhaseOf, PhaseOfPrimed DEF CallStep, Moves, Same, Empty
<1>4. CASE OpenReceiver(c)
  <2>1. pc'[c] = "invite" /\ pc[c] = "open" /\ Shape' /\ Alone(c)
    BY <1>4 DEF OpenReceiver, laneVars, Goto, Shape, AskerPcs, Purposes, Alone, Holds, PortsOf
  <2> QED BY <2>1, PhaseOf, PhaseOfPrimed DEF CallStep, Moves
<1>5. CASE OpenFails(c)
  BY <1>5, FailStep, PhaseOf DEF OpenFails
<1>6. CASE SendInvite(c)
  <2>1. pc'[c] = "inviting" /\ pc[c] = "invite" /\ Shape' /\ Alone(c)
    BY <1>6 DEF SendInvite, Send, laneVars, Goto, Shape, AskerPcs, Purposes, Alone, Holds, PortsOf
  <2> QED BY <2>1, PhaseOf, PhaseOfPrimed DEF CallStep, Moves
<1>7. CASE InviteFails(c)
  BY <1>7, FailStep, PhaseOf DEF InviteFails
<1>8. CASE InviteAnswered(c)
  <2>1. CASE Fail(c)
    BY <1>8, <2>1, FailStep, PhaseOf DEF InviteAnswered
  <2>2. CASE ~Fail(c)
    <3>1. pc'[c] = "invited" /\ pc[c] = "inviting" /\ Shape' /\ Alone(c)
      BY <1>8, <2>2 DEF InviteAnswered, laneVars, Goto, Shape, AskerPcs, Alone, Holds, PortsOf
    <3> QED BY <3>1, PhaseOf, PhaseOfPrimed DEF CallStep, Moves
  <2> QED BY <2>1, <2>2
<1>9. CASE SendRequest(c)
  <2>1. pc'[c] = "requesting" /\ pc[c] = "invited" /\ Shape' /\ Alone(c)
    BY <1>9 DEF SendRequest, Send, laneVars, Goto, Shape, AskerPcs, Purposes, Alone, Holds, PortsOf
  <2> QED BY <2>1, PhaseOf, PhaseOfPrimed DEF CallStep, Moves
<1>10. CASE RequestFails(c)
  BY <1>10, FailStep, PhaseOf DEF RequestFails
<1>11. CASE RequestAnswered(c)
  <2>1. CASE Fail(c)
    BY <1>11, <2>1, FailStep, PhaseOf DEF RequestAnswered
  <2>2. CASE ~Fail(c)
    <3>1. pc'[c] = "waiting" /\ pc[c] = "requesting" /\ Shape' /\ Alone(c)
      BY <1>11, <2>2 DEF RequestAnswered, laneVars, Goto, Shape, AskerPcs, Alone, Holds, PortsOf
    <3> QED BY <3>1, PhaseOf, PhaseOfPrimed DEF CallStep, Moves
  <2> QED BY <2>1, <2>2
<1>12. CASE TakeStart(c)
  <2>1. CASE Fail(c)
    BY <1>12, <2>1, FailStep, PhaseOf DEF TakeStart
  <2>2. CASE ~Fail(c)
    <3>1. pc'[c] \in {"inline", "streaming"} /\ pc[c] = "waiting" /\ Shape' /\ Alone(c)
      BY <1>12, <2>2 DEF TakeStart, LeaveLane, Goto, Shape, AskerPcs, Alone, Holds, PortsOf
    <3>2. Same(c) \/ Empty(c)
      BY <1>12, <2>2 DEF TakeStart, LeaveLane, Same, Empty, Holds, PortsOf
    <3> QED BY <3>1, <3>2, PhaseOf, PhaseOfPrimed DEF CallStep, Moves
  <2> QED BY <2>1, <2>2
<1>13. CASE StartTimeout(c)
  BY <1>13, FailStep, PhaseOf DEF StartTimeout
<1>14. CASE TakeInline(c)
  <2>1. pc'[c] = "answered" /\ pc[c] = "inline" /\ Shape' /\ Alone(c) /\ Same(c)
    BY <1>14 DEF TakeInline, laneVars, Goto, Shape, AskerPcs, Alone, Same, Holds, PortsOf
  <2> QED BY <2>1, PhaseOf, PhaseOfPrimed DEF CallStep, Moves
<1>15. CASE InlineFails(c)
  BY <1>15, FailStep, PhaseOf DEF InlineFails
<1>16. CASE CloseBody(c)
  <2>1. pc[c] \in {"answered", "streaming"} /\ Goto(c, "done") /\ Cleanup(c)
    BY <1>16 DEF CloseBody
  <2>2. Shape' /\ Alone(c) /\ Empty(c) /\ pc'[c] = "done"
    BY <2>1, CleanupEmpties, "done" \in AskerPcs DEF AskerPcs
  <2> QED BY <2>1, <2>2, PhaseOf, PhaseOfPrimed DEF CallStep, Moves
<1>17. CASE StreamOver(c)
  <2>1. pc'[c] = "streaming" /\ pc[c] = "streaming" /\ Shape' /\ Alone(c)
    BY <1>17 DEF StreamOver, laneVars, Shape, Alone, Holds, PortsOf
  <2> QED BY <2>1, PhaseOf, PhaseOfPrimed DEF CallStep, Moves
<1> QED
  BY <1>1, <1>2, <1>3, <1>4, <1>5, <1>6, <1>7, <1>8, <1>9, <1>10, <1>11, <1>12, <1>13,
     <1>14, <1>15, <1>16, <1>17, <1>18 DEF AskerStep, Forward

\* The state page takes a running call out of pending.
LEMMA PruneIsCallStep ==
  ASSUME IInv, NEW c \in Calls, PrunePending(c)
  PROVE  CallStep(c)
<1>1. pc'[c] = pc[c] /\ pc[c] \in {"answered", "streaming"} /\ Shape' /\ Alone(c)
  BY DEF IInv, PrunePending, laneVars, Shape, Alone, Holds, PortsOf
<1> QED BY <1>1, PhaseOf, PhaseOfPrimed DEF CallStep, Moves

-----------------------------------------------------------------------------
(* Limits.                                                                 *)

\* A set with room for one more, and one more.
LEMMA AddOne ==
  ASSUME NEW S, IsFiniteSet(S), NEW x, NEW n \in Nat, Cardinality(S) < n
  PROVE  IsFiniteSet(S \cup {x}) /\ Cardinality(S \cup {x}) <= n
<1>1. IsFiniteSet(S \cup {x})
      /\ Cardinality(S \cup {x}) = IF x \in S THEN Cardinality(S) ELSE Cardinality(S) + 1
  BY FS_AddElement
<1>2. Cardinality(S) \in Nat
  BY FS_CardinalityType
<1> QED BY <1>1, <1>2

\* A part of a set within a limit.
LEMMA TakeAway ==
  ASSUME NEW S, IsFiniteSet(S), NEW n \in Nat, Cardinality(S) <= n, NEW R, R \subseteq S
  PROVE  IsFiniteSet(R) /\ Cardinality(R) <= n
<1>1. IsFiniteSet(R) /\ Cardinality(R) <= Cardinality(S)
  BY FS_Subset
<1>2. Cardinality(S) \in Nat /\ Cardinality(R) \in Nat
  BY <1>1, FS_CardinalityType
<1> QED BY <1>1, <1>2

\* The pool is asked before it gives: only OpenReceiver and Send take a port.
LEMMA LimitsKept ==
  ASSUME IInv, [Next]_vars
  PROVE  Limits'
<1> USE DEF IInv, Limits, WithinLimits
<1>0. PoolSize \in Nat
  BY RelayAssumption
<1>1. CASE ports' \subseteq ports
  BY <1>0, <1>1, TakeAway
<1>3. ASSUME NEW c \in Calls, OpenReceiver(c)
      PROVE  Limits'
  <2>1. ports' = ports \/ (HasRoom /\ ports' = ports \cup {<<c, "rtp">>})
    BY <1>3 DEF OpenReceiver
  <2> QED BY <1>0, <2>1, AddOne DEF HasRoom
<1>4. ASSUME NEW c \in Calls, NEW purpose, NEW message, Send(c, purpose, message)
      PROVE  Limits'
  <2>1. ports' = ports \/ (HasRoom /\ ports' = ports \cup {<<c, purpose>>})
    BY <1>4 DEF Send
  <2> QED BY <1>0, <2>1, AddOne DEF HasRoom
<1>5. CASE Asker
  <2>1. PICK c \in Calls : AskerStep(c)
    BY <1>5 DEF Asker, AskerStep
  <2>2. CASE OpenReceiver(c)
    BY <2>2, <1>3
  <2>3. CASE SendInvite(c) \/ SendRequest(c)
    BY <2>3, <1>4 DEF SendInvite, SendRequest
  <2>4. CASE ~(OpenReceiver(c) \/ SendInvite(c) \/ SendRequest(c))
    <3>1. ports' \subseteq ports
      BY <2>1, <2>4 DEF AskerStep, Forward, Begin, FindLane, acquireUDPLane, LaneTimeout, OpenFails, InviteFails,
         InviteAnswered, RequestFails, RequestAnswered, TakeStart, StartTimeout, TakeInline,
         InlineFails, CloseBody, StreamOver, Fail, Cleanup
    <3> QED BY <1>1, <3>1
  <2> QED BY <2>2, <2>3, <2>4
<1>6. CASE Handlers
  <2>1. UNCHANGED ports
    BY <1>6 DEF Handlers, RecvResponse, RecvBye, AcceptInvite, RejectInvite, RecvRequest,
       FillChannel, FillStart, FillInline, askVars
  <2> QED BY <1>1, <2>1
<1>7. CASE \E e \in DOMAIN execs : Execution(e)
  <2>1. UNCHANGED ports
    BY <1>7 DEF Execution, Upstream, SendStart, SendInline, SendStream, SendBye,
       ForgetSession, askVars
  <2> QED BY <1>1, <2>1
<1>8. CASE \E c \in Calls : PrunePending(c) \/ PruneInbound(c)
  <2>1. UNCHANGED ports
    BY <1>8 DEF PrunePending, PruneInbound, askVars
  <2> QED BY <1>1, <2>1
<1>9. CASE UNCHANGED vars
  BY <1>1, <1>9 DEF vars, askVars
<1> QED BY <1>5, <1>6, <1>7, <1>8, <1>9 DEF Next

-----------------------------------------------------------------------------
(* Every step is a step of one call, or touches no resource.               *)

\* Handlers, executions and the peer's state page leave the asking node's table,
\* pool and lane alone.
LEMMA StepCases ==
  ASSUME IInv, [Next]_vars
  PROVE  (\E c \in Calls : CallStep(c)) \/ UNCHANGED resources
<1> USE DEF resources
<1>1. CASE Asker
  <2>1. PICK c \in Calls : AskerStep(c)
    BY <1>1 DEF Asker, AskerStep
  <2> QED BY <2>1, AskerStepIsCallStep
<1>2. CASE Handlers
  BY <1>2 DEF Handlers, RecvResponse, RecvBye, AcceptInvite, RejectInvite, RecvRequest,
     FillChannel, FillStart, FillInline, askVars, laneVars
<1>3. CASE \E e \in DOMAIN execs : Execution(e)
  BY <1>3 DEF Execution, Upstream, SendStart, SendInline, SendStream, SendBye,
     ForgetSession, askVars, laneVars
<1>4. ASSUME NEW c \in Calls, PrunePending(c) \/ PruneInbound(c)
      PROVE  (\E d \in Calls : CallStep(d)) \/ UNCHANGED resources
  <2>1. CASE PrunePending(c)
    BY <2>1, PruneIsCallStep
  <2>2. CASE PruneInbound(c)
    BY <2>2 DEF PruneInbound, askVars, laneVars
  <2> QED BY <1>4, <2>1, <2>2
<1>5. CASE UNCHANGED vars
  BY <1>5 DEF vars, askVars, laneVars
<1> QED BY <1>1, <1>2, <1>3, <1>4, <1>5 DEF Next

\* The invariant is inductive.
LEMMA InitIInv == Init => IInv
<1> SUFFICES ASSUME Init PROVE IInv
  OBVIOUS
<1>1. Shape /\ HandsEmpty
  BY DEF Init, Shape, AskerPcs, HandsEmpty, Holds, PortsOf
<1>2. ports = {} /\ PoolSize \in Nat
  BY RelayAssumption DEF Init
<1>3. Limits
  BY <1>2, FS_EmptySet DEF Limits, WithinLimits
<1> QED BY <1>1, <1>3 DEF IInv

LEMMA NextIInv == IInv /\ [Next]_vars => IInv'
<1> SUFFICES ASSUME IInv, [Next]_vars PROVE IInv'
  OBVIOUS
<1>1. Limits'
  BY LimitsKept
<1>2. CASE \E c \in Calls : CallStep(c)
  <2>1. PICK c \in Calls : CallStep(c)
    BY <1>2
  <2>2. HandsEmpty'
    BY <2>1 DEF CallStep, Alone, Empty, HandsEmpty, IInv
  <2> QED BY <1>1, <2>1, <2>2 DEF IInv, CallStep
<1>3. CASE UNCHANGED resources
  BY <1>1, <1>3 DEF IInv, Shape, HandsEmpty, Holds, PortsOf, resources
<1> QED BY <1>2, <1>3, StepCases

\* Whatever times out, is lost, comes late or comes twice: no call leaves a port, a
\* place in a lane or a pending entry behind, and the pool is never overdrawn.
THEOREM CallsCleanUp == Spec => []NothingLeft
<1>1. IInv => NothingLeft
  BY DEF IInv, HandsEmpty, Limits, NothingLeft, GivenBack, Ended
<1> QED BY <1>1, InitIInv, NextIInv, PTL DEF Spec

-----------------------------------------------------------------------------
(* The relay implements the abstract call.                                 *)

\* A step of one call is a step of HttpCall, or none.
LEMMA CallStepImplements ==
  ASSUME IInv, NEW c \in Calls, CallStep(c)
  PROVE  [Call!Next]_(Call!vars)
<1> DEFINE ph == [d \in Calls |-> Phase(d)]
<1>1. ph' = [ph EXCEPT ![c] = Phase(c)']
  <2>1. \A d \in Calls : d # c => Phase(d)' = Phase(d)
    BY DEF CallStep, Alone, Phase
  <2> QED BY <2>1
<1>2. Holding' = Holding \/ Holding' = Holding \cup {c} \/ Holding' = Holding \ {c}
  BY DEF CallStep, Alone, Holding
<1>3. Empty(c) => Holding' = Holding \ {c}
  BY DEF CallStep, Alone, Holding, Empty
<1>4. Same(c) => Holding' = Holding
  BY DEF CallStep, Alone, Holding, Same
<1>5. ph[c] = Phase(c)
  OBVIOUS
<1>6. CASE Phase(c) = "idle" /\ Phase(c)' = "active" /\ Same(c)
  BY <1>1, <1>4, <1>5, <1>6 DEF Call!Next, Call!Begin
<1>7. CASE Phase(c) \in {"active", "answered"} /\ Phase(c)' = Phase(c)
  <2>1. ph' = ph
    BY <1>1, <1>5, <1>7
  <2>2. CASE Holding' = Holding
    BY <2>1, <2>2 DEF Call!vars
  <2>3. CASE Holding' # Holding
    BY <1>2, <1>5, <1>7, <2>1, <2>3 DEF Call!Next, Call!Use, Call!Live
  <2> QED BY <2>2, <2>3
<1>8. CASE Phase(c) = "active" /\ Phase(c)' = "answered" /\ (Same(c) \/ Empty(c))
  BY <1>1, <1>3, <1>4, <1>5, <1>8 DEF Call!Next, Call!Answer
<1>9. CASE Phase(c) = "active" /\ Phase(c)' = "failed" /\ Empty(c)
  BY <1>1, <1>3, <1>5, <1>9 DEF Call!Next, Call!Fail
<1>10. CASE Phase(c) = "answered" /\ Phase(c)' = "done" /\ Empty(c)
  BY <1>1, <1>3, <1>5, <1>10 DEF Call!Next, Call!Close
<1> QED BY <1>6, <1>7, <1>8, <1>9, <1>10 DEF CallStep, Moves

\* ExecuteForward and its handlers behave, for the HTTP side, as HttpCall: a call is
\* answered or fails once, and holds resources only in between.
THEOREM ImplementsHttpCall == Spec => Call!SafeSpec
<1>1. Init => Call!Init
  <2> SUFFICES ASSUME Init PROVE Call!Init
    OBVIOUS
  <2>1. \A c \in Calls : Phase(c) = "idle"
    BY DEF Init, Phase
  <2>2. Holding = {}
    BY DEF Init, Holding, Holds, PortsOf
  <2> QED BY <2>1, <2>2 DEF Call!Init
<1>2. IInv /\ [Next]_vars => [Call!Next]_(Call!vars)
  <2> SUFFICES ASSUME IInv, [Next]_vars PROVE [Call!Next]_(Call!vars)
    OBVIOUS
  <2>1. CASE \E c \in Calls : CallStep(c)
    BY <2>1, CallStepImplements
  <2>2. CASE UNCHANGED resources
    <3>1. \A c \in Calls : Phase(c)' = Phase(c)
      BY <2>2 DEF Phase, resources
    <3>2. Holding' = Holding
      BY <2>2 DEF Holding, Holds, PortsOf, resources
    <3> QED BY <3>1, <3>2 DEF Call!vars
  <2> QED BY <2>1, <2>2, StepCases
<1> QED BY <1>1, <1>2, InitIInv, NextIInv, PTL DEF Spec, Call!SafeSpec

-----------------------------------------------------------------------------
(* The inductive type invariant: TypeOK says nothing of what is on the way *)
(* or in the table of executions, and every channel is filled from there.  *)

Messages ==
  [kind : {"invite"}, call : Calls, rtp : BOOLEAN] \cup [kind : {"request"}, call : Calls]
    \cup [kind : {"start", "inline", "bye"}, call : Calls, exec : 1 .. MaxExecs]

Answers == {m \in Messages : m.kind \in {"start", "inline"}}

Executions ==
  [call : Calls, sender : 1 .. MaxSenders, kind : {"none", "inline", "rtp", "broken"},
   pc : {"upstream", "start", "inline", "stream", "bye", "forget", "over"}]

AskTyped ==
  /\ pc \in [Calls -> AskerPcs]
  /\ mode \in [Calls -> {"none", "AUTO", "RTP", "INLINE"}]
  /\ ports \subseteq Calls \X Purposes
  /\ lane \subseteq Calls /\ pending \subseteq Calls

ChannelsTyped ==
  /\ found \subseteq Answers
  /\ startCh \in [Calls -> 0 .. MaxExecs] /\ inlineCh \in [Calls -> 0 .. MaxExecs]
  /\ byeCh \in [Calls -> BOOLEAN]

NetTyped ==
  /\ net \subseteq Messages
  /\ \A r \in replies : r.call \in Calls

AnsTyped ==
  /\ inbound \in [Calls -> 0 .. MaxSenders]
  /\ senders \in 0 .. MaxSenders /\ open \subseteq 1 .. senders
  /\ execs \in Seq(Executions) /\ Len(execs) <= MaxExecs

Typed == AskTyped /\ ChannelsTyped /\ NetTyped /\ AnsTyped /\ views \in 0 .. MaxViews

\* The bounds are natural numbers.
LEMMA BoundsFact == MaxExecs \in Nat /\ MaxSenders \in Nat /\ MaxViews \in Nat
BY RelayAssumption

\* Steps of ExecuteForward and of the reader.
LEMMA AskerTyped ==
  ASSUME Typed, NEW c \in Calls, AskerStep(c)
  PROVE  Typed'
<1> USE DEF Typed
<1>1. ASSUME Fail(c), UNCHANGED mode PROVE AskTyped'
  BY <1>1 DEF Fail, Goto, Cleanup, LeaveLane, AskTyped, AskerPcs
<1>2. ASSUME Quiet PROVE ChannelsTyped' /\ NetTyped' /\ AnsTyped' /\ views' = views
  BY <1>2 DEF Quiet, chVars, netVars, ansVars, ChannelsTyped, NetTyped, AnsTyped
<1>3. CASE Begin(c)
  <2>1. AskTyped'
    BY <1>3, RelayAssumption DEF Begin, laneVars, Goto, AskTyped, AskerPcs
  <2> QED BY <1>2, <1>3, <2>1 DEF Begin
<1>4. CASE acquireUDPLane(c)
  <2>1. AskTyped'
    BY <1>4 DEF acquireUDPLane, Goto, AskTyped, AskerPcs
  <2> QED BY <1>2, <1>4, <2>1 DEF acquireUDPLane
<1>14. CASE FindLane(c)
  <2>1. AskTyped'
    BY <1>14 DEF FindLane, Goto, AskTyped, AskerPcs
  <2> QED BY <1>2, <1>14, <2>1 DEF FindLane
<1>5. CASE LaneTimeout(c) \/ OpenFails(c) \/ InviteFails(c) \/ RequestFails(c)
           \/ StartTimeout(c) \/ InlineFails(c)
  BY <1>1, <1>2, <1>5 DEF LaneTimeout, OpenFails, InviteFails, RequestFails, StartTimeout, InlineFails
<1>6. CASE OpenReceiver(c)
  <2>1. AskTyped'
    BY <1>6 DEF OpenReceiver, laneVars, Goto, AskTyped, AskerPcs, Purposes
  <2> QED BY <1>2, <1>6, <2>1 DEF OpenReceiver
<1>7. ASSUME NEW purpose \in Purposes, NEW message \in Messages, NEW label \in AskerPcs,
             Send(c, purpose, message), Goto(c, label)
      PROVE  Typed'
  <2>1. AskTyped'
    BY <1>7 DEF Send, laneVars, Goto, AskTyped
  <2>2. ChannelsTyped' /\ AnsTyped' /\ views' = views
    BY <1>7 DEF Send, chVars, ansVars, ChannelsTyped, AnsTyped
  <2>3. NetTyped'
    BY <1>7 DEF Send, NetTyped
  <2> QED BY <2>1, <2>2, <2>3
<1>8. CASE SendInvite(c)
  <2>1. [kind |-> "invite", call |-> c, rtp |-> HasReceiver(c)] \in Messages
    BY DEF Messages, HasReceiver
  <2> QED BY <1>7, <1>8, <2>1 DEF SendInvite, Purposes, AskerPcs
<1>9. CASE SendRequest(c)
  <2>1. [kind |-> "request", call |-> c] \in Messages
    BY DEF Messages
  <2> QED BY <1>7, <1>9, <2>1 DEF SendRequest, Purposes, AskerPcs
<1>10. CASE InviteAnswered(c) \/ RequestAnswered(c)
  <2>1. AskTyped'
    BY <1>1, <1>10 DEF InviteAnswered, RequestAnswered, laneVars, Goto, AskTyped, AskerPcs
  <2> QED BY <1>2, <1>10, <2>1 DEF InviteAnswered, RequestAnswered
<1>11. CASE TakeStart(c)
  <2>1. AskTyped'
    BY <1>1, <1>11 DEF TakeStart, LeaveLane, Goto, AskTyped, AskerPcs
  <2>2. ChannelsTyped'
    BY <1>11, BoundsFact DEF TakeStart, ChannelsTyped
  <2>3. NetTyped' /\ AnsTyped' /\ views' = views
    BY <1>11 DEF TakeStart, netVars, ansVars, NetTyped, AnsTyped
  <2> QED BY <2>1, <2>2, <2>3
<1>12. CASE TakeInline(c) \/ CloseBody(c)
  <2>1. AskTyped'
    BY <1>12 DEF TakeInline, CloseBody, Cleanup, LeaveLane, laneVars, Goto, AskTyped, AskerPcs
  <2>2. ChannelsTyped'
    <3>1. CASE TakeInline(c)
      BY <3>1, BoundsFact DEF TakeInline, ChannelsTyped
    <3>2. CASE CloseBody(c)
      BY <3>2 DEF CloseBody, ChannelsTyped
    <3> QED BY <1>12, <3>1, <3>2
  <2>3. NetTyped' /\ AnsTyped' /\ views' = views
    BY <1>12 DEF TakeInline, CloseBody, netVars, ansVars, NetTyped, AnsTyped
  <2> QED BY <2>1, <2>2, <2>3
<1>13. CASE StreamOver(c)
  <2>1. AskTyped'
    BY <1>13 DEF StreamOver, laneVars, AskTyped
  <2> QED BY <1>2, <1>13, <2>1 DEF StreamOver
<1> QED
  BY <1>3, <1>4, <1>5, <1>6, <1>8, <1>9, <1>10, <1>11, <1>12, <1>13, <1>14 DEF AskerStep, Forward

\* A message that is taken from the network.
LEMMA HandlersTyped ==
  ASSUME Typed, NEW message \in net, Received(message)
  PROVE  Typed'
<1> USE DEF Typed
<1>1. message \in Messages /\ message.call \in Calls
  BY DEF NetTyped, Messages
<1>2. ASSUME Delivered(message) PROVE net' \subseteq Messages
  BY <1>2 DEF Delivered, NetTyped
<1>3. CASE RecvResponse(message) \/ RecvBye(message)
  <2>1. UNCHANGED <<pc, mode, ports, lane, pending, replies, ansVars, views>> /\ Delivered(message)
    BY <1>3 DEF RecvResponse, RecvBye, laneVars
  <2>2. AskTyped' /\ AnsTyped' /\ NetTyped'
    BY <1>2, <2>1 DEF AskTyped, AnsTyped, ansVars, NetTyped
  <2>3. ChannelsTyped'
    BY <1>1, <1>3, <2>1 DEF RecvResponse, RecvBye, ChannelsTyped, Answers
  <2> QED BY <2>1, <2>2, <2>3
<1>4. ASSUME NEW to, NEW status, Reply(message.call, to, status), Delivered(message)
      PROVE NetTyped'
  BY <1>1, <1>2, <1>4 DEF Reply, NetTyped
<1>5. CASE RejectInvite(message)
  <2>1. NetTyped'
    BY <1>4, <1>5 DEF RejectInvite
  <2> QED BY <1>5, <2>1 DEF RejectInvite, askVars, chVars, laneVars, ansVars, AskTyped, ChannelsTyped, AnsTyped
<1>6. CASE AcceptInvite(message)
  <2>1. NetTyped'
    BY <1>4, <1>6 DEF AcceptInvite
  <2>2. AnsTyped'
    BY <1>1, <1>6, BoundsFact DEF AcceptInvite, AnsTyped
  <2> QED BY <1>6, <2>1, <2>2 DEF AcceptInvite, askVars, chVars, laneVars, AskTyped, ChannelsTyped
<1>7. CASE RecvRequest(message)
  <2>1. NetTyped'
    BY <1>4, <1>7 DEF RecvRequest
  <2>2. AnsTyped'
    <3>1. CASE inbound[message.call] = 0
      BY <1>7, <3>1 DEF RecvRequest, AnsTyped
    <3>2. CASE inbound[message.call] # 0
      <4> DEFINE x == [call |-> message.call, sender |-> inbound[message.call],
                       kind |-> "none", pc |-> "upstream"]
      <4>1. x \in Executions
        BY <1>1, <3>2, BoundsFact DEF Executions, AnsTyped
      <4>2. execs' = Append(execs, x) /\ Len(execs) < MaxExecs /\ UNCHANGED <<inbound, senders, open>>
        BY <1>7, <3>2 DEF RecvRequest
      <4> HIDE DEF x
      <4>3. execs' \in Seq(Executions) /\ Len(execs') = Len(execs) + 1
        BY <4>1, <4>2, AppendProperties DEF AnsTyped
      <4>4. Len(execs) \in Nat
        BY LenProperties DEF AnsTyped
      <4> QED BY <4>2, <4>3, <4>4, BoundsFact DEF AnsTyped
    <3> QED BY <3>1, <3>2
  <2> QED BY <1>7, <2>1, <2>2 DEF RecvRequest, askVars, chVars, laneVars, AskTyped, ChannelsTyped
<1> QED BY <1>3, <1>5, <1>6, <1>7 DEF Received

\* A message that is put into the channel of its call, if that is empty.
LEMMA FillTyped ==
  ASSUME Typed, NEW message \in found, FillStart(message) \/ FillInline(message)
  PROVE  Typed'
<1> USE DEF Typed
<1>1. message.call \in Calls /\ message.exec \in 0 .. MaxExecs
  BY DEF ChannelsTyped, Answers, Messages
<1>2. ChannelsTyped'
  BY <1>1 DEF FillStart, FillInline, Filled, ChannelsTyped
<1>3. AskTyped' /\ NetTyped' /\ AnsTyped' /\ views' = views
  BY DEF FillStart, FillInline, laneVars, netVars, ansVars, AskTyped, NetTyped, AnsTyped
<1> QED BY <1>2, <1>3

\* An execution changes only its own entry.
LEMMA EntryTyped ==
  ASSUME Typed, NEW e \in DOMAIN execs
  PROVE  /\ execs[e] \in Executions /\ e \in 1 .. MaxExecs /\ e \in 1 .. Len(execs)
         /\ Len(execs) \in Nat
<1>1. execs \in Seq(Executions) /\ Len(execs) <= MaxExecs /\ Len(execs) \in Nat
      /\ DOMAIN execs = 1 .. Len(execs)
  BY LenProperties DEF Typed, AnsTyped
<1> QED BY <1>1, ElementOfSeq, BoundsFact

\* A step of an execution.
LEMMA ExecutionTyped ==
  ASSUME Typed, NEW e \in DOMAIN execs, Execution(e)
  PROVE  Typed'
<1> USE DEF Typed
<1>1. /\ execs[e] \in Executions /\ e \in 1 .. MaxExecs /\ e \in 1 .. Len(execs) /\ Len(execs) \in Nat
      /\ execs \in Seq(Executions)
  BY EntryTyped DEF AnsTyped
<1>2. AskTyped' /\ ChannelsTyped' /\ views' = views
  BY DEF Execution, Upstream, SendStart, SendInline, SendStream, SendBye, ForgetSession,
     askVars, chVars, laneVars, AskTyped, ChannelsTyped
<1>3. ASSUME NEW x \in Executions, execs' = [execs EXCEPT ![e] = x]
      PROVE  execs' \in Seq(Executions) /\ Len(execs') <= MaxExecs
  BY <1>1, <1>3, ExceptSeq DEF AnsTyped
<1>4. execs' \in Seq(Executions) /\ Len(execs') <= MaxExecs
  <2>1. CASE Upstream(e)
    <3>1. PICK kind \in {"inline", "rtp", "broken"} :
            execs' = [execs EXCEPT ![e].kind = kind,
                                   ![e].pc = IF kind = "broken" THEN "bye" ELSE "start"]
      BY <2>1 DEF Upstream
    <3> DEFINE x == [execs[e] EXCEPT !.kind = kind, !.pc = IF kind = "broken" THEN "bye" ELSE "start"]
    <3>2. x \in Executions
      BY <1>1 DEF Executions
    <3>3. execs' = [execs EXCEPT ![e] = x]
      BY <1>1, <3>1
    <3> HIDE DEF x
    <3> QED BY <1>3, <3>2, <3>3
  <2>2. CASE ~Upstream(e)
    <3>1. PICK label \in {"inline", "stream", "bye", "forget", "over"} : ExecGoto(e, label)
      BY <2>2 DEF Execution, SendStart, SendInline, SendStream, SendBye, ForgetSession
    <3> DEFINE x == [execs[e] EXCEPT !.pc = label]
    <3>2. x \in Executions
      BY <1>1 DEF Executions
    <3>3. execs' = [execs EXCEPT ![e] = x]
      BY <3>1 DEF ExecGoto
    <3> HIDE DEF x
    <3> QED BY <1>3, <3>2, <3>3
  <2> QED BY <2>1, <2>2
<1>5. inbound' \in [Calls -> 0 .. MaxSenders] /\ senders' = senders /\ open' \subseteq open
  BY BoundsFact DEF Execution, Upstream, SendStart, SendInline, SendStream, SendBye, ForgetSession, AnsTyped
<1>6. AnsTyped'
  BY <1>4, <1>5 DEF AnsTyped
<1>7. NetTyped'
  <2>1. ASSUME NEW kind \in {"start", "inline", "bye"}, Callback(e, kind)
        PROVE  net' \subseteq Messages
    <3>1. [kind |-> kind, call |-> execs[e].call, exec |-> e] \in Messages
      BY <1>1 DEF Messages, Executions
    <3> QED BY <2>1, <3>1 DEF Callback, NetTyped
  <2> QED BY <2>1 DEF Execution, Upstream, SendStart, SendInline, SendStream, SendBye,
             ForgetSession, netVars, NetTyped
<1> QED BY <1>2, <1>6, <1>7

\* Every step keeps the types.
LEMMA TypedInvariant == Spec => []Typed
<1>1. ASSUME Init PROVE Typed
  <2>1. AskTyped /\ NetTyped
    BY <1>1 DEF Init, AskTyped, AskerPcs, NetTyped
  <2>2. ChannelsTyped /\ views \in 0 .. MaxViews
    BY <1>1, BoundsFact DEF Init, ChannelsTyped
  <2>3. AnsTyped
    <3>1. <<>> \in Seq(Executions) /\ Len(<<>>) = 0
      OBVIOUS
    <3>2. execs \in Seq(Executions) /\ Len(execs) = 0 /\ senders = 0 /\ open = {}
          /\ inbound = [c \in Calls |-> 0]
      BY <1>1, <3>1 DEF Init
    <3> QED BY <3>2, BoundsFact DEF AnsTyped
  <2> QED BY <2>1, <2>2, <2>3 DEF Typed
<1>2. ASSUME Typed, [Next]_vars PROVE Typed'
  <2>1. CASE Asker
    BY <1>2, <2>1, AskerTyped DEF Asker, AskerStep
  <2>2. CASE Handlers
    BY <1>2, <2>2, HandlersTyped, FillTyped DEF Handlers, FillChannel, Received
  <2>3. CASE \E e \in DOMAIN execs : Execution(e)
    BY <1>2, <2>3, ExecutionTyped
  <2>4. CASE \E c \in Calls : PrunePending(c) \/ PruneInbound(c)
    <3>1. PICK c \in Calls : PrunePending(c) \/ PruneInbound(c)
      BY <2>4
    <3>2. AskTyped' /\ ChannelsTyped' /\ NetTyped'
      BY <1>2, <3>1 DEF PrunePending, PruneInbound, askVars, chVars, laneVars, netVars,
         Typed, AskTyped, ChannelsTyped, NetTyped
    <3>3. AnsTyped'
      <4>1. CASE PrunePending(c)
        BY <1>2, <4>1 DEF PrunePending, ansVars, Typed, AnsTyped
      <4>2. CASE PruneInbound(c)
        <5>1. /\ inbound' = [inbound EXCEPT ![c] = 0] /\ open' \subseteq open
              /\ UNCHANGED <<senders, execs>>
          BY <4>2 DEF PruneInbound
        <5> QED BY <1>2, <5>1, BoundsFact DEF Typed, AnsTyped
      <4> QED BY <3>1, <4>1, <4>2
    <3>4. views' \in 0 .. MaxViews
      BY <1>2, <3>1, BoundsFact DEF PrunePending, PruneInbound, Typed
    <3> QED BY <3>2, <3>3, <3>4 DEF Typed
  <2>5. CASE UNCHANGED vars
    BY <1>2, <2>5 DEF vars, askVars, chVars, laneVars, ansVars, netVars, Typed, AskTyped, ChannelsTyped, NetTyped, AnsTyped
  <2> QED BY <1>2, <2>1, <2>2, <2>3, <2>4, <2>5 DEF Next
<1> QED BY <1>1, <1>2, PTL DEF Spec

-----------------------------------------------------------------------------
(* The lane. A call that waits at a channel or has a token in one knows    *)
(* which, whatever the table holds by now, so each release takes the       *)
(* token its call put in.                                                  *)

Lanes == Seq([capacity : LaneCapacities, tokens : Nat])

LanesTyped ==
  /\ lanes \in Lanes /\ Len(lanes) <= MaxLanes
  /\ gate \in [Calls -> 0 .. Len(lanes)]
  /\ \A c \in Calls : pc[c] = "lane" \/ c \in lane => gate[c] \in DOMAIN lanes

LaneInv == LanesTyped /\ LaneHonest

\* The configured capacities.
LEMMA CapacitiesFact == LaneCapacities \subseteq Nat \ {0}
BY RelayAssumption DEF LaneCapacities

\* A channel of the table with n tokens in it.
LEMMA TokensSet ==
  ASSUME lanes \in Lanes, NEW k \in DOMAIN lanes, NEW n \in Nat, lanes' = [lanes EXCEPT ![k].tokens = n]
  PROVE  /\ lanes' \in Lanes /\ Len(lanes') = Len(lanes) /\ DOMAIN lanes' = DOMAIN lanes
         /\ lanes'[k].tokens = n /\ lanes'[k].capacity = lanes[k].capacity
         /\ \A j \in DOMAIN lanes : j # k => lanes'[j] = lanes[j]
<1> DEFINE x == [lanes[k] EXCEPT !.tokens = n]
<1>1. k \in 1 .. Len(lanes) /\ lanes[k] \in [capacity : LaneCapacities, tokens : Nat]
  BY LenProperties, ElementOfSeq DEF Lanes
<1>2. x \in [capacity : LaneCapacities, tokens : Nat] /\ x.tokens = n /\ x.capacity = lanes[k].capacity
  BY <1>1
<1>3. lanes' = [lanes EXCEPT ![k] = x]
  OBVIOUS
<1> HIDE DEF x
<1> QED BY <1>1, <1>2, <1>3, ExceptSeq, LenProperties DEF Lanes

\* What a step of call c does at the lane.
LaneMoves(c) ==
  /\ \A d \in Calls : d # c => pc'[d] = pc[d]
  /\ \/ UNCHANGED laneVars /\ (pc'[c] = "lane" => pc[c] = "lane")
     \/ LeaveLane(c) /\ pc'[c] # "lane"
     \/ FindLane(c) \/ acquireUDPLane(c)

\* Every step of ExecuteForward and of the reader is one of these.
LEMMA AskerLaneMoves ==
  ASSUME Shape, NEW c \in Calls, AskerStep(c)
  PROVE  LaneMoves(c)
<1>1. pc \in [Calls -> AskerPcs]
  BY DEF Shape
<1>2. CASE FindLane(c) \/ acquireUDPLane(c)
  BY <1>1, <1>2 DEF FindLane, acquireUDPLane, Goto, LaneMoves
<1>3. ASSUME Fail(c) PROVE LaneMoves(c)
  BY <1>1, <1>3 DEF Fail, Goto, Cleanup, LaneMoves
<1>4. CASE Begin(c) \/ OpenReceiver(c) \/ SendInvite(c) \/ SendRequest(c) \/ TakeInline(c) \/ StreamOver(c)
  BY <1>1, <1>4 DEF Begin, OpenReceiver, SendInvite, SendRequest, TakeInline, StreamOver, Send, Goto, LaneMoves
<1>5. CASE InviteAnswered(c) \/ RequestAnswered(c)
  <2>1. CASE Fail(c)
    BY <1>3, <2>1
  <2>2. CASE ~Fail(c)
    BY <1>1, <1>5, <2>2 DEF InviteAnswered, RequestAnswered, laneVars, Goto, LaneMoves
  <2> QED BY <2>1, <2>2
<1>6. CASE TakeStart(c)
  <2>1. CASE Fail(c)
    BY <1>3, <2>1
  <2>2. CASE ~Fail(c)
    BY <1>1, <1>6, <2>2 DEF TakeStart, Goto, LaneMoves
  <2> QED BY <2>1, <2>2
<1>7. CASE CloseBody(c)
  BY <1>1, <1>7 DEF CloseBody, Goto, Cleanup, LaneMoves
<1>8. CASE LaneTimeout(c) \/ OpenFails(c) \/ InviteFails(c) \/ RequestFails(c) \/ StartTimeout(c) \/ InlineFails(c)
  BY <1>3, <1>8 DEF LaneTimeout, OpenFails, InviteFails, RequestFails, StartTimeout, InlineFails
<1> QED BY <1>2, <1>4, <1>5, <1>6, <1>7, <1>8 DEF AskerStep, Forward

Tickets(k) == {c \in lane : gate[c] = k}

\* Calls are finitely many, and so are those with a token.
LEMMA TicketsFinite ==
  ASSUME Shape, NEW k
  PROVE  IsFiniteSet(Tickets(k)) /\ Cardinality(Tickets(k)) \in Nat
<1>1. IsFiniteSet(Calls) /\ Tickets(k) \subseteq Calls
  BY RelayAssumption DEF Shape, Tickets
<1> QED BY <1>1, FS_Subset, FS_CardinalityType

\* A channel has a capacity.
LEMMA ChannelFact ==
  ASSUME lanes \in Lanes, NEW k \in DOMAIN lanes
  PROVE  lanes[k].capacity \in Nat /\ lanes[k].tokens \in Nat
<1>1. k \in 1 .. Len(lanes) /\ lanes[k] \in [capacity : LaneCapacities, tokens : Nat]
  BY LenProperties, ElementOfSeq DEF Lanes
<1> QED BY <1>1, CapacitiesFact

\* The channels are honest after a step that changes one of them.
LEMMA HonestAgain ==
  ASSUME LaneHonest, DOMAIN lanes' = DOMAIN lanes, NEW k \in DOMAIN lanes, NEW T,
         lanes'[k].tokens = Cardinality(T), Cardinality(T) <= lanes'[k].capacity,
         \A j \in DOMAIN lanes : j # k => lanes'[j] = lanes[j],
         \A j \in DOMAIN lanes : {d \in lane' : gate'[d] = j} = IF j = k THEN T ELSE {d \in lane : gate[d] = j}
  PROVE  LaneHonest'
<1> SUFFICES ASSUME NEW j \in DOMAIN lanes
             PROVE  /\ lanes'[j].tokens = Cardinality({d \in lane' : gate'[d] = j})
                    /\ lanes'[j].tokens <= lanes'[j].capacity
  BY DEF LaneHonest
<1>1. CASE j = k
  BY <1>1
<1>2. CASE j # k
  BY <1>2 DEF LaneHonest
<1> QED BY <1>1, <1>2

\* A call that leaves takes out the token it put in.
LEMMA LeaveKeepsLanes ==
  ASSUME Shape, LaneInv, NEW c \in Calls, LeaveLane(c), pc'[c] # "lane",
         \A d \in Calls : d # c => pc'[d] = pc[d]
  PROVE  LaneInv'
<1> USE DEF LaneInv, LanesTyped
<1>1. lane' = lane \ {c} /\ gate' = [gate EXCEPT ![c] = 0] /\ lane \subseteq Calls
  BY DEF LeaveLane, Shape
<1>2. Len(lanes) \in Nat /\ DOMAIN lanes = 1 .. Len(lanes)
  BY LenProperties DEF Lanes
<1>3. CASE c \notin lane
  <2>1. lanes' = lanes
    BY <1>3 DEF LeaveLane
  <2>2. \A k \in DOMAIN lanes : Tickets(k)' = Tickets(k)
    BY <1>1, <1>2, <1>3 DEF Tickets
  <2>3. LaneHonest'
    BY <2>1, <2>2 DEF LaneHonest, Tickets
  <2> QED BY <1>1, <1>2, <2>1, <2>3
<1>4. CASE c \in lane
  <2>0. PICK k : k = gate[c]
    OBVIOUS
  <2>1. k \in DOMAIN lanes /\ c \in Tickets(k) /\ k \in Nat /\ k # 0
    BY <1>2, <1>4, <2>0 DEF Tickets, Shape
  <2>2. lanes[k].tokens = Cardinality(Tickets(k)) /\ lanes[k].tokens <= lanes[k].capacity
    BY <2>1 DEF LaneHonest, Tickets
  <2>3. PICK T : T = Tickets(k) \ {c}
    OBVIOUS
  <2>4. Cardinality(T) \in Nat /\ Cardinality(Tickets(k)) = Cardinality(T) + 1
    <3>1. IsFiniteSet(Tickets(k)) /\ Cardinality(Tickets(k)) \in Nat
      BY TicketsFinite
    <3>2. IsFiniteSet(T) /\ Cardinality(T) = Cardinality(Tickets(k)) - 1
      BY <2>1, <2>3, <3>1, FS_RemoveElement
    <3> QED BY <3>1, <3>2, FS_CardinalityType
  <2>5. PICK n \in Nat : n = Cardinality(T)
    BY <2>4
  <2>6. lanes[k].tokens = n + 1 /\ lanes[k].capacity \in Nat
    BY <2>1, <2>2, <2>4, <2>5, ChannelFact
  <2>7. lanes' = [lanes EXCEPT ![k].tokens = n]
    <3>1. lanes' = [lanes EXCEPT ![k].tokens = IF @ > 0 THEN @ - 1 ELSE @]
      BY <1>4, <2>0 DEF LeaveLane
    <3>2. lanes[k].tokens > 0 /\ lanes[k].tokens - 1 = n
      BY <2>5, <2>6
    <3> QED BY <3>1, <3>2
  <2>8. /\ lanes' \in Lanes /\ Len(lanes') = Len(lanes) /\ DOMAIN lanes' = DOMAIN lanes
        /\ lanes'[k].tokens = n /\ lanes'[k].capacity = lanes[k].capacity
        /\ \A j \in DOMAIN lanes : j # k => lanes'[j] = lanes[j]
    BY <2>1, <2>5, <2>7, TokensSet
  <2>9. \A j \in DOMAIN lanes : {d \in lane' : gate'[d] = j} = IF j = k THEN T ELSE {d \in lane : gate[d] = j}
    BY <1>1, <1>2, <2>0, <2>1, <2>3 DEF Tickets
  <2>10. n <= lanes'[k].capacity
    BY <2>2, <2>5, <2>6, <2>8
  <2>11. LaneHonest'
    BY <2>1, <2>5, <2>8, <2>9, <2>10, HonestAgain
  <2> QED BY <1>1, <1>2, <2>8, <2>11
<1> QED BY <1>3, <1>4

\* A call finds the channel of the table, or makes one that nobody has a token in.
LEMMA FindKeepsLanes ==
  ASSUME Shape, HandsEmpty, LaneInv, NEW c \in Calls, FindLane(c),
         \A d \in Calls : d # c => pc'[d] = pc[d]
  PROVE  LaneInv'
<1> USE DEF LaneInv, LanesTyped
<1>1. /\ c \notin lane /\ lane' = lane /\ gate' = [gate EXCEPT ![c] = Len(lanes')]
      /\ lane \subseteq Calls
  BY DEF FindLane, HandsEmpty, Holds, Shape
<1>2. Len(lanes) \in Nat /\ DOMAIN lanes = 1 .. Len(lanes)
  BY LenProperties DEF Lanes
<1>3. PICK capacity \in LaneCapacities :
        IF lanes # <<>> /\ lanes[Len(lanes)].capacity = capacity
        THEN UNCHANGED lanes
        ELSE Len(lanes) < MaxLanes /\ lanes' = Append(lanes, [capacity |-> capacity, tokens |-> 0])
  BY DEF FindLane
<1>4. CASE lanes # <<>> /\ lanes[Len(lanes)].capacity = capacity
  <2>1. lanes' = lanes /\ Len(lanes) > 0
    BY <1>2, <1>3, <1>4, EmptySeq DEF Lanes
  <2>2. \A k \in DOMAIN lanes : Tickets(k)' = Tickets(k)
    BY <1>1 DEF Tickets
  <2>3. LaneHonest'
    BY <2>1, <2>2 DEF LaneHonest, Tickets
  <2> QED BY <1>1, <1>2, <2>1, <2>3
<1>5. CASE ~(lanes # <<>> /\ lanes[Len(lanes)].capacity = capacity)
  <2> DEFINE x == [capacity |-> capacity, tokens |-> 0]
  <2>1. lanes' = Append(lanes, x) /\ Len(lanes) < MaxLanes /\ MaxLanes \in Nat
    BY <1>3, <1>5, RelayAssumption
  <2>2. x \in [capacity : LaneCapacities, tokens : Nat] /\ x.tokens = 0 /\ x.capacity = capacity
    OBVIOUS
  <2> HIDE DEF x
  <2>3. /\ lanes' \in Lanes /\ Len(lanes') = Len(lanes) + 1 /\ DOMAIN lanes' = 1 .. Len(lanes) + 1
        /\ \A k \in DOMAIN lanes : lanes'[k] = lanes[k]
        /\ lanes'[Len(lanes) + 1] = x
    BY <1>2, <2>1, <2>2, AppendProperties, LenProperties DEF Lanes
  <2>4. \A k \in DOMAIN lanes : Tickets(k)' = Tickets(k)
    BY <1>1 DEF Tickets
  <2>9. PICK n : n = Len(lanes) + 1
    OBVIOUS
  <2>6. capacity \in Nat
    BY CapacitiesFact
  <2>7. \A k \in DOMAIN lanes' : lanes'[k].tokens = Cardinality(Tickets(k)') /\ lanes'[k].tokens <= lanes'[k].capacity
    <3> SUFFICES ASSUME NEW k \in DOMAIN lanes'
                 PROVE  lanes'[k].tokens = Cardinality(Tickets(k)') /\ lanes'[k].tokens <= lanes'[k].capacity
      OBVIOUS
    <3>1. CASE k \in DOMAIN lanes
      BY <2>3, <2>4, <3>1 DEF LaneHonest, Tickets
    <3>2. CASE k = n
      <4>1. Tickets(k)' = {}
        BY <1>1, <1>2, <2>9, <3>2 DEF Tickets
      <4>2. Cardinality(Tickets(k)') = 0
        BY <4>1, FS_EmptySet
      <4>3. lanes'[k] = x
        BY <2>3, <2>9, <3>2
      <4> QED BY <2>2, <2>6, <4>2, <4>3
    <3> QED BY <1>2, <2>3, <2>9, <3>1, <3>2
  <2>8. LaneHonest'
    BY <2>7 DEF LaneHonest, Tickets
  <2> QED BY <1>1, <1>2, <2>1, <2>3, <2>8
<1> QED BY <1>4, <1>5

\* A call puts its token in the channel it found.
LEMMA AcquireKeepsLanes ==
  ASSUME Shape, HandsEmpty, LaneInv, NEW c \in Calls, acquireUDPLane(c),
         \A d \in Calls : d # c => pc'[d] = pc[d]
  PROVE  LaneInv'
<1> USE DEF LaneInv, LanesTyped
<1>0. PICK k : k = gate[c]
  OBVIOUS
<1>1. /\ c \notin lane /\ lane' = lane \cup {c} /\ gate' = gate /\ lane \subseteq Calls
      /\ k \in DOMAIN lanes /\ lanes[k].tokens < lanes[k].capacity
      /\ lanes' = [lanes EXCEPT ![k].tokens = @ + 1]
  BY <1>0 DEF acquireUDPLane, HandsEmpty, Holds, Shape
<1>2. PICK T : T = Tickets(k) \cup {c}
  OBVIOUS
<1>3. Cardinality(Tickets(k)) \in Nat /\ Cardinality(T) = Cardinality(Tickets(k)) + 1
  <2>1. c \notin Tickets(k)
    BY <1>1 DEF Tickets
  <2>2. IsFiniteSet(Tickets(k)) /\ Cardinality(Tickets(k)) \in Nat
    BY TicketsFinite
  <2> QED BY <1>2, <2>1, <2>2, FS_AddElement
<1>4. lanes[k].tokens = Cardinality(Tickets(k)) /\ lanes[k].capacity \in Nat
  BY <1>1, ChannelFact DEF LaneHonest, Tickets
<1>5. PICK n \in Nat : n = Cardinality(T)
  BY <1>3
<1>6. lanes' = [lanes EXCEPT ![k].tokens = n] /\ n <= lanes[k].capacity
  BY <1>1, <1>3, <1>4, <1>5
<1>7. /\ lanes' \in Lanes /\ Len(lanes') = Len(lanes) /\ DOMAIN lanes' = DOMAIN lanes
      /\ lanes'[k].tokens = n /\ lanes'[k].capacity = lanes[k].capacity
      /\ \A j \in DOMAIN lanes : j # k => lanes'[j] = lanes[j]
  BY <1>1, <1>5, <1>6, TokensSet
<1>8. \A j \in DOMAIN lanes : {d \in lane' : gate'[d] = j} = IF j = k THEN T ELSE {d \in lane : gate[d] = j}
  BY <1>0, <1>1, <1>2 DEF Tickets
<1>9. LaneHonest'
  <2>1. lanes'[k].tokens = Cardinality(T) /\ Cardinality(T) <= lanes'[k].capacity
    BY <1>5, <1>6, <1>7
  <2>2. k \in DOMAIN lanes
    BY <1>1
  <2> QED BY <1>7, <1>8, <2>1, <2>2, HonestAgain
<1>10. \A d \in Calls : pc'[d] = "lane" \/ d \in lane' => gate'[d] \in DOMAIN lanes'
  BY <1>0, <1>1, <1>7 DEF acquireUDPLane, Goto, Shape
<1> QED BY <1>1, <1>7, <1>9, <1>10

\* The invariant of the lane holds always.
LEMMA LaneInvariant == Spec => []LaneInv
<1>1. ASSUME Init PROVE LaneInv
  <2>1. lanes = <<>> /\ gate = [c \in Calls |-> 0] /\ lane = {} /\ pc = [c \in Calls |-> "idle"]
    BY <1>1 DEF Init
  <2>2. <<>> \in Lanes /\ Len(<<>>) = 0 /\ DOMAIN <<>> = {}
    BY DEF Lanes
  <2> QED BY <2>1, <2>2, RelayAssumption DEF LaneInv, LanesTyped, LaneHonest
<1>2. ASSUME IInv, LaneInv, [Next]_vars PROVE LaneInv'
  <2>1. Shape /\ HandsEmpty
    BY <1>2 DEF IInv
  <2>2. CASE UNCHANGED <<pc, lanes, gate, lane>>
    BY <1>2, <2>2 DEF LaneInv, LanesTyped, LaneHonest
  <2>3. CASE Asker
    <3>1. PICK c \in Calls : AskerStep(c)
      BY <2>3 DEF Asker, AskerStep
    <3>2. LaneMoves(c)
      BY <2>1, <3>1, AskerLaneMoves
    <3>3. CASE UNCHANGED laneVars /\ (pc'[c] = "lane" => pc[c] = "lane")
      BY <1>2, <3>2, <3>3 DEF LaneMoves, laneVars, LaneInv, LanesTyped, LaneHonest
    <3> QED BY <1>2, <2>1, <3>2, <3>3, LeaveKeepsLanes, FindKeepsLanes, AcquireKeepsLanes DEF LaneMoves
  <2>4. CASE Handlers
    <3>1. UNCHANGED <<pc, lanes, gate, lane>>
      BY <2>4 DEF Handlers, RecvResponse, RecvBye, AcceptInvite, RejectInvite, RecvRequest,
         FillChannel, FillStart, FillInline, askVars, laneVars
    <3> QED BY <2>2, <3>1
  <2>5. CASE (\E e \in DOMAIN execs : Execution(e)) \/ UNCHANGED vars
    <3>1. UNCHANGED <<pc, lanes, gate, lane>>
      BY <2>5 DEF Execution, Upstream, SendStart, SendInline, SendStream, SendBye, ForgetSession,
         vars, askVars, laneVars
    <3> QED BY <2>2, <3>1
  <2>6. CASE \E c \in Calls : PrunePending(c) \/ PruneInbound(c)
    <3>1. UNCHANGED <<pc, lanes, gate, lane>>
      BY <2>6 DEF PrunePending, PruneInbound, askVars, laneVars
    <3> QED BY <2>2, <3>1
  <2> QED BY <1>2, <2>3, <2>4, <2>5, <2>6 DEF Next
<1> QED BY <1>1, <1>2, InitIInv, NextIInv, PTL DEF Spec

\* A channel of the UDP request lane has one token for each call that went through it and
\* has not left, and never more than its capacity, also after a penalty or its end
\* replaced it in the table (acquireUDPLane): no release takes the token of another call.
THEOREM LanesAreHonest == Spec => []LaneHonest
<1>1. LaneInv => LaneHonest
  BY DEF LaneInv
<1> QED BY <1>1, LaneInvariant, PTL

\* Every variable of the relay keeps its type for any number of calls: what a handler
\* takes from a message is a call it knows and an execution that exists.
THEOREM RelayTypes == Spec => []TypeOK
<1>1. Typed /\ LaneInv => TypeOK
  BY DEF Typed, LaneInv, LanesTyped, Lanes, Answers, Messages, AskTyped, ChannelsTyped, NetTyped, AnsTyped, TypeOK, Purposes
<1> QED BY <1>1, TypedInvariant, LaneInvariant, PTL

-----------------------------------------------------------------------------
(* Over TCP. A call sends one INVITE and one Request and each is consumed  *)
(* when it arrives, so there is one session, one sender and one execution  *)
(* per call. ExecutedOnce alone is not inductive: it needs that a Request  *)
(* on the way has no execution yet, and that none is sent a second time.   *)

Unasked == {"idle", "gate", "lane", "open", "invite"}
Early   == Unasked \cup {"inviting", "invited"}

SentOnce ==
  \A m, n \in net :
    m.kind \in {"invite", "request"} /\ n.kind = m.kind /\ n.call = m.call => n = m

InviteOnce ==
  /\ \A m \in net : m.kind = "invite" =>
       /\ pc[m.call] \notin Unasked \cup {"invited"}
       /\ \A r \in replies : r.to = "invite" => r.call # m.call
       /\ \A n \in net : n.kind = "request" => n.call # m.call
       /\ \A e \in DOMAIN execs : execs[e].call # m.call
  /\ \A r \in replies : r.to = "invite" => pc[r.call] \notin Unasked

RequestOnce ==
  /\ \A m \in net : m.kind = "request" =>
       pc[m.call] \notin Early /\ \A e \in DOMAIN execs : execs[e].call # m.call
  /\ \A e \in DOMAIN execs : pc[execs[e].call] \notin Early

OnceInv == SentOnce /\ InviteOnce /\ RequestOnce /\ ExecutedOnce

\* What an asker's step does to the INVITE and the Request of its call.
AskMoves(c) ==
  /\ UNCHANGED <<replies, execs>> /\ \A d \in Calls : d # c => pc'[d] = pc[d]
  /\ \/ /\ net' = net
        /\ pc'[c] \in Unasked => pc[c] \in Unasked
        /\ pc'[c] \in Early => pc[c] \in Early
        /\ pc'[c] = "invited" => \E r \in replies : r.call = c /\ r.to = "invite"
     \/ \E b : /\ net' = net \cup {[kind |-> "invite", call |-> c, rtp |-> b]}
               /\ pc[c] = "invite" /\ pc'[c] = "inviting"
     \/ /\ net' = net \cup {[kind |-> "request", call |-> c]}
        /\ pc[c] = "invited" /\ pc'[c] = "requesting"

\* Every step of ExecuteForward and of the reader is one of these.
LEMMA AskerMoves ==
  ASSUME Typed, NEW c \in Calls, AskerStep(c)
  PROVE  AskMoves(c)
<1>1. pc \in [Calls -> AskerPcs]
  BY DEF Typed, AskTyped
<1>2. CASE SendInvite(c)
  BY <1>1, <1>2 DEF SendInvite, Send, Goto, AskMoves, ansVars
<1>3. CASE SendRequest(c)
  BY <1>1, <1>3 DEF SendRequest, Send, Goto, AskMoves, ansVars
<1>4. CASE ~SendInvite(c) /\ ~SendRequest(c)
  <2>1. UNCHANGED <<replies, execs, net>>
    BY <1>4 DEF AskerStep, Forward, Begin, FindLane, acquireUDPLane, LaneTimeout, OpenReceiver, OpenFails,
       InviteFails, InviteAnswered, RequestFails, RequestAnswered, TakeStart, StartTimeout,
       TakeInline, InlineFails, StreamOver, CloseBody, Quiet, netVars, ansVars
  <2>2. /\ \A d \in Calls : d # c => pc'[d] = pc[d]
        /\ pc'[c] \in Unasked => pc[c] \in Unasked
        /\ pc'[c] \in Early => pc[c] \in Early
        /\ pc'[c] = "invited" => \E r \in replies : r.call = c /\ r.to = "invite"
    BY <1>1, <1>4 DEF AskerStep, Forward, Begin, FindLane, acquireUDPLane, LaneTimeout, OpenReceiver, OpenFails,
       InviteFails, InviteAnswered, RequestFails, RequestAnswered, TakeStart, StartTimeout,
       TakeInline, InlineFails, StreamOver, CloseBody, Goto, Fail, Unasked, Early
  <2> QED BY <2>1, <2>2 DEF AskMoves
<1> QED BY <1>2, <1>3, <1>4

\* Such a step keeps the invariant.
LEMMA AskOnce ==
  ASSUME Typed, OnceInv, NEW c \in Calls, AskMoves(c)
  PROVE  OnceInv'
<1> USE DEF OnceInv
<1>1. /\ \A m \in net : m.call \in Calls
      /\ \A r \in replies : r.call \in Calls
      /\ \A e \in DOMAIN execs : execs[e].call \in Calls
  BY EntryTyped DEF Typed, NetTyped, Messages, Executions
<1>2. UNCHANGED <<replies, execs>> /\ (\A d \in Calls : d # c => pc'[d] = pc[d]) /\ ExecutedOnce'
  BY DEF AskMoves, ExecutedOnce
<1>3. CASE /\ net' = net
           /\ pc'[c] \in Unasked => pc[c] \in Unasked
           /\ pc'[c] \in Early => pc[c] \in Early
           /\ pc'[c] = "invited" => \E r \in replies : r.call = c /\ r.to = "invite"
  <2>1. SentOnce'
    BY <1>3 DEF SentOnce
  <2>2. RequestOnce'
    BY <1>1, <1>2, <1>3 DEF RequestOnce
  <2>3. InviteOnce'
    BY <1>1, <1>2, <1>3 DEF InviteOnce
  <2> QED BY <1>2, <2>1, <2>2, <2>3
<1>4. ASSUME NEW b, net' = net \cup {[kind |-> "invite", call |-> c, rtp |-> b]},
             pc[c] = "invite", pc'[c] = "inviting"
      PROVE  OnceInv'
  <2> DEFINE x == [kind |-> "invite", call |-> c, rtp |-> b]
  <2>1. x.kind = "invite" /\ x.call = c /\ net' = net \cup {x}
    BY <1>4
  <2>2. pc[c] \in Unasked /\ pc[c] \in Early /\ pc'[c] \notin Unasked \cup {"invited"} /\ pc'[c] \in Early
    BY <1>4 DEF Unasked, Early
  <2>3. /\ \A m \in net : m.kind \in {"invite", "request"} => m.call # c
        /\ \A r \in replies : r.to = "invite" => r.call # c
        /\ \A e \in DOMAIN execs : execs[e].call # c
    BY <2>2 DEF InviteOnce, RequestOnce
  <2> HIDE DEF x
  <2>4. SentOnce'
    BY <2>1, <2>3 DEF SentOnce
  <2>5. InviteOnce'
    BY <1>1, <1>2, <2>1, <2>2, <2>3 DEF InviteOnce
  <2>6. RequestOnce'
    BY <1>1, <1>2, <2>1, <2>3 DEF RequestOnce
  <2> QED BY <1>2, <2>4, <2>5, <2>6
<1>5. CASE /\ net' = net \cup {[kind |-> "request", call |-> c]}
           /\ pc[c] = "invited" /\ pc'[c] = "requesting"
  <2> DEFINE x == [kind |-> "request", call |-> c]
  <2>1. x.kind = "request" /\ x.call = c /\ net' = net \cup {x}
    BY <1>5
  <2>2. pc[c] \in Early /\ pc'[c] \notin Unasked \cup {"invited"} /\ pc'[c] \notin Early
    BY <1>5 DEF Unasked, Early
  <2>3. /\ \A m \in net : m.kind \in {"invite", "request"} => m.call # c
        /\ \A e \in DOMAIN execs : execs[e].call # c
    BY <1>5, <2>2 DEF InviteOnce, RequestOnce
  <2> HIDE DEF x
  <2>4. SentOnce'
    BY <2>1, <2>3 DEF SentOnce
  <2>5. InviteOnce'
    BY <1>1, <1>2, <2>1, <2>2, <2>3 DEF InviteOnce
  <2>6. RequestOnce'
    BY <1>1, <1>2, <2>1, <2>2, <2>3 DEF RequestOnce
  <2> QED BY <1>2, <2>4, <2>5, <2>6
<1> QED BY <1>3, <1>4, <1>5 DEF AskMoves

\* A message that arrives is gone: what it leads to is not on the way any more.
LEMMA HandlersOnce ==
  ASSUME Typed, OnceInv, ~Udp, NEW message \in net, Received(message)
  PROVE  OnceInv'
<1> USE DEF OnceInv
<1>1. net' = net \ {message} /\ UNCHANGED pc
  BY DEF Received, RecvResponse, RecvBye, AcceptInvite, RejectInvite, RecvRequest, Delivered, askVars
<1>2. SentOnce'
  BY <1>1 DEF SentOnce
<1>3. CASE RecvResponse(message) \/ RecvBye(message)
  <2>1. UNCHANGED <<replies, execs>>
    BY <1>3 DEF RecvResponse, RecvBye, ansVars
  <2> QED BY <1>1, <1>2, <2>1 DEF InviteOnce, RequestOnce, ExecutedOnce
<1>4. CASE AcceptInvite(message) \/ RejectInvite(message)
  <2>1. PICK status : replies' = replies \cup {[call |-> message.call, to |-> "invite", status |-> status]}
    BY <1>4, ZenonT(60) DEF AcceptInvite, RejectInvite, Reply
  <2>2. message.kind = "invite" /\ UNCHANGED execs
    BY <1>4 DEF AcceptInvite, RejectInvite, ansVars
  <2>3. RequestOnce' /\ ExecutedOnce'
    BY <1>1, <2>2 DEF RequestOnce, ExecutedOnce
  <2>4. \A m \in net' : m.kind = "invite" => m.call # message.call
    BY <1>1, <2>2 DEF SentOnce
  <2>5. pc[message.call] \notin Unasked
    BY <2>2 DEF InviteOnce
  <2>6. InviteOnce'
    BY <1>1, <2>1, <2>2, <2>4, <2>5 DEF InviteOnce
  <2> QED BY <1>2, <2>3, <2>6
<1>5. CASE RecvRequest(message)
  <2>1. PICK status : replies' = replies \cup {[call |-> message.call, to |-> "request", status |-> status]}
    BY <1>5, ZenonT(60) DEF RecvRequest, Reply
  <2>2. /\ message.kind = "request" /\ pc[message.call] \notin Early
        /\ \A e \in DOMAIN execs : execs[e].call # message.call
    BY <1>5 DEF RecvRequest, RequestOnce
  <2>3. \A m \in net' : m.kind = "request" => m.call # message.call
    BY <1>1, <2>2 DEF SentOnce
  <2>4. \A m \in net : m.kind = "invite" => m.call # message.call
    BY <2>2 DEF InviteOnce
  <2>5. CASE execs' = execs
    <3>1. RequestOnce' /\ ExecutedOnce'
      BY <1>1, <2>5 DEF RequestOnce, ExecutedOnce
    <3>2. InviteOnce'
      BY <1>1, <2>1, <2>5 DEF InviteOnce
    <3> QED BY <1>2, <3>1, <3>2
  <2>6. CASE execs' # execs
    <3> DEFINE x == [call |-> message.call, sender |-> inbound[message.call],
                     kind |-> "none", pc |-> "upstream"]
    <3>1. execs' = Append(execs, x) /\ inbound[message.call] # 0
      BY <1>5, <2>6 DEF RecvRequest
    <3>2. x.call = message.call /\ x \in Executions /\ execs \in Seq(Executions)
      BY <3>1, BoundsFact DEF Typed, NetTyped, Messages, AnsTyped, Executions
    <3> HIDE DEF x
    <3>3. /\ DOMAIN execs' = 1 .. (Len(execs) + 1) /\ DOMAIN execs = 1 .. Len(execs) /\ Len(execs) \in Nat
          /\ \A i \in 1 .. Len(execs) : execs'[i] = execs[i]
          /\ execs'[Len(execs) + 1] = x
      BY <3>1, <3>2, AppendProperties, LenProperties
    <3>4. \A e \in DOMAIN execs' : \/ e \in DOMAIN execs /\ execs'[e].call = execs[e].call
                                   \/ e = Len(execs) + 1 /\ execs'[e].call = message.call
      BY <3>2, <3>3
    <3>5. ExecutedOnce'
      BY <2>2, <3>4 DEF ExecutedOnce
    <3>6. RequestOnce'
      BY <1>1, <2>2, <2>3, <3>4 DEF RequestOnce
    <3>7. InviteOnce'
      BY <1>1, <2>1, <2>4, <3>4 DEF InviteOnce
    <3> QED BY <1>2, <3>5, <3>6, <3>7
  <2> QED BY <2>5, <2>6
<1> QED BY <1>3, <1>4, <1>5 DEF Received

\* An execution keeps its call and sender, and sends nothing but answers.
LEMMA ExecutionFrame ==
  ASSUME Typed, NEW e \in DOMAIN execs, Execution(e)
  PROVE  /\ DOMAIN execs' = DOMAIN execs
         /\ \A f \in DOMAIN execs : execs'[f].call = execs[f].call /\ execs'[f].sender = execs[f].sender
         /\ \A f \in DOMAIN execs : f # e => execs'[f] = execs[f]
         /\ UNCHANGED <<askVars, replies>>
         /\ \/ net' = net
            \/ \E kind \in {"start", "inline", "bye"} :
                 net' = net \cup {[kind |-> kind, call |-> execs[e].call, exec |-> e]}
<1>1. execs[e] \in Executions
  BY EntryTyped
<1>2. UNCHANGED <<askVars, replies>>
  BY DEF Execution, Upstream, SendStart, SendInline, SendStream, SendBye, ForgetSession, netVars
<1>3. \/ net' = net
      \/ \E kind \in {"start", "inline", "bye"} :
           net' = net \cup {[kind |-> kind, call |-> execs[e].call, exec |-> e]}
  BY DEF Execution, Upstream, SendStart, SendInline, SendStream, SendBye, ForgetSession, Callback, netVars
<1>4. PICK x : execs' = [execs EXCEPT ![e] = x] /\ x.call = execs[e].call /\ x.sender = execs[e].sender
  <2>1. CASE Upstream(e)
    <3>1. PICK kind \in {"inline", "rtp", "broken"} :
            execs' = [execs EXCEPT ![e].kind = kind,
                                   ![e].pc = IF kind = "broken" THEN "bye" ELSE "start"]
      BY <2>1 DEF Upstream
    <3> DEFINE x == [execs[e] EXCEPT !.kind = kind, !.pc = IF kind = "broken" THEN "bye" ELSE "start"]
    <3>2. x.call = execs[e].call /\ x.sender = execs[e].sender
      BY <1>1 DEF Executions
    <3>3. execs' = [execs EXCEPT ![e] = x]
      BY <1>1, <3>1
    <3> QED BY <3>2, <3>3
  <2>2. CASE ~Upstream(e)
    <3>1. PICK label \in {"inline", "stream", "bye", "forget", "over"} : ExecGoto(e, label)
      BY <2>2 DEF Execution, SendStart, SendInline, SendStream, SendBye, ForgetSession
    <3> DEFINE x == [execs[e] EXCEPT !.pc = label]
    <3>2. x.call = execs[e].call /\ x.sender = execs[e].sender
      BY <1>1 DEF Executions
    <3>3. execs' = [execs EXCEPT ![e] = x]
      BY <3>1 DEF ExecGoto
    <3> QED BY <3>2, <3>3
  <2> QED BY <2>1, <2>2
<1> QED BY <1>2, <1>3, <1>4

\* Executions, and everything else.
LEMMA OtherOnce ==
  ASSUME Typed, OnceInv,
         \/ \E e \in DOMAIN execs : Execution(e)
         \/ \E c \in Calls : PrunePending(c) \/ PruneInbound(c)
         \/ FillChannel \/ UNCHANGED vars
  PROVE  OnceInv'
<1> USE DEF OnceInv
<1>1. ASSUME NEW e \in DOMAIN execs, Execution(e) PROVE OnceInv'
  <2>1. /\ DOMAIN execs' = DOMAIN execs
        /\ \A f \in DOMAIN execs : execs'[f].call = execs[f].call
        /\ UNCHANGED <<pc, replies>>
        /\ \A m \in net' : m.kind \in {"invite", "request"} => m \in net
    BY <1>1, ExecutionFrame DEF askVars
  <2>2. SentOnce'
    BY <2>1 DEF SentOnce
  <2>3. InviteOnce'
    BY <2>1 DEF InviteOnce
  <2>4. RequestOnce' /\ ExecutedOnce'
    BY <2>1 DEF RequestOnce, ExecutedOnce
  <2> QED BY <2>2, <2>3, <2>4
<1>2. CASE \/ \E c \in Calls : PrunePending(c) \/ PruneInbound(c)
           \/ FillChannel \/ UNCHANGED vars
  <2>1. UNCHANGED <<pc, net, replies, execs>>
    BY <1>2 DEF FillChannel, FillStart, FillInline, PrunePending, PruneInbound, askVars, ansVars, netVars, vars
  <2> QED BY <2>1 DEF SentOnce, InviteOnce, RequestOnce, ExecutedOnce
<1> QED BY <1>1, <1>2

\* Over TCP the invariant holds always.
LEMMA OnceInvariant == ASSUME ~Udp PROVE Spec => []OnceInv
<1>1. ASSUME Init PROVE OnceInv
  <2>1. net = {} /\ replies = {} /\ execs = <<>>
    BY <1>1 DEF Init
  <2>2. DOMAIN execs = {}
    BY <2>1
  <2> QED BY <2>1, <2>2 DEF OnceInv, SentOnce, InviteOnce, RequestOnce, ExecutedOnce
<1>2. ASSUME Typed, OnceInv, [Next]_vars PROVE OnceInv'
  <2>1. CASE Asker
    <3>1. PICK c \in Calls : AskerStep(c)
      BY <2>1 DEF Asker, AskerStep
    <3> QED BY <1>2, <3>1, AskerMoves, AskOnce
  <2>2. CASE Handlers
    BY <1>2, <2>2, HandlersOnce, OtherOnce DEF Handlers, Received
  <2> QED BY <1>2, <2>1, <2>2, OtherOnce DEF Next
<1> QED BY <1>1, <1>2, TypedInvariant, PTL DEF Spec

\* Over TCP the local service of the answering node runs a request at most once,
\* whatever times out on the way (executeInboundHTTP starts from one Request, and
\* sendSIPPayload writes it once).
THEOREM RequestRunsOnce == ASSUME ~Udp PROVE Spec => []ExecutedOnce
<1>1. OnceInv => ExecutedOnce
  BY DEF OnceInv
<1> QED BY <1>1, OnceInvariant, PTL

-----------------------------------------------------------------------------
(* The RTP senders. SenderClosed needs that the session of a call has the  *)
(* sender of its execution, or none any more because it was closed.        *)

SenderInv ==
  /\ \A c \in Calls : inbound[c] \in 0 .. senders
  /\ \A e \in DOMAIN execs :
       /\ execs[e].sender \in 1 .. senders
       /\ inbound[execs[e].call] \in {0, execs[e].sender}
       /\ inbound[execs[e].call] = 0 \/ execs[e].pc = "over" => execs[e].sender \notin open

\* The sessions and their senders, on every step over TCP.
LEMMA SenderStep ==
  ASSUME Typed, OnceInv, SenderInv, [Next]_vars, ~Udp
  PROVE  SenderInv'
<1>1. /\ inbound \in [Calls -> 0 .. MaxSenders] /\ senders \in Nat /\ execs \in Seq(Executions)
      /\ \A m \in net : m.call \in Calls
      /\ \A e \in DOMAIN execs : execs[e].call \in Calls
  BY EntryTyped, BoundsFact DEF Typed, AnsTyped, NetTyped, Messages, Executions
<1>2. CASE UNCHANGED <<inbound, senders, open, execs>>
  BY <1>2 DEF SenderInv
<1>3. ASSUME NEW m \in net, AcceptInvite(m) PROVE SenderInv'
  <2>1. \A e \in DOMAIN execs : execs[e].call # m.call
    BY <1>3 DEF OnceInv, InviteOnce, AcceptInvite
  <2>2. /\ senders' = senders + 1 /\ open' = open \cup {senders + 1} /\ UNCHANGED execs
        /\ inbound' = [inbound EXCEPT ![m.call] = senders + 1]
    BY <1>3 DEF AcceptInvite
  <2> QED BY <1>1, <2>1, <2>2 DEF SenderInv
<1>4. ASSUME NEW m \in net, RecvRequest(m) PROVE SenderInv'
  <2>1. UNCHANGED <<inbound, senders, open>> /\ m.call \in Calls
    BY <1>1, <1>4 DEF RecvRequest
  <2>2. CASE UNCHANGED execs
    BY <1>2, <2>1, <2>2
  <2>3. CASE ~UNCHANGED execs
    <3> DEFINE x == [call |-> m.call, sender |-> inbound[m.call], kind |-> "none", pc |-> "upstream"]
    <3>1. execs' = Append(execs, x) /\ inbound[m.call] # 0
      BY <1>4, <2>3 DEF RecvRequest
    <3>2. x.call = m.call /\ x.sender = inbound[m.call] /\ x.pc = "upstream" /\ x \in Executions
      BY <1>1, <3>1, BoundsFact DEF Executions
    <3> HIDE DEF x
    <3>3. /\ DOMAIN execs' = 1 .. (Len(execs) + 1) /\ DOMAIN execs = 1 .. Len(execs) /\ Len(execs) \in Nat
          /\ \A i \in 1 .. Len(execs) : execs'[i] = execs[i]
          /\ execs'[Len(execs) + 1] = x
      BY <1>1, <3>1, <3>2, AppendProperties, LenProperties
    <3>4. \A e \in DOMAIN execs' : (e \in DOMAIN execs /\ execs'[e] = execs[e]) \/ execs'[e] = x
      BY <3>3
    <3>5. x.sender \in 1 .. senders
      BY <1>1, <2>1, <3>1, <3>2 DEF SenderInv
    <3> QED BY <2>1, <3>1, <3>2, <3>4, <3>5 DEF SenderInv
  <2> QED BY <2>2, <2>3
<1>5. ASSUME NEW e \in DOMAIN execs, Execution(e) PROVE SenderInv'
  <2>1. /\ DOMAIN execs' = DOMAIN execs
        /\ \A f \in DOMAIN execs : execs'[f].call = execs[f].call /\ execs'[f].sender = execs[f].sender
        /\ \A f \in DOMAIN execs : f # e => execs'[f] = execs[f]
    BY <1>5, ExecutionFrame
  <2>2. CASE ForgetSession(e)
    <3>1. /\ open' = open \ {inbound[execs[e].call]} /\ senders' = senders
          /\ inbound' = [inbound EXCEPT ![execs[e].call] = 0]
      BY <2>2 DEF ForgetSession
    <3>2. execs[e].sender \notin open'
      BY <3>1 DEF SenderInv
    <3>3. \A f \in DOMAIN execs : f # e => execs[f].call # execs[e].call
      BY DEF OnceInv, ExecutedOnce
    <3> QED BY <1>1, <2>1, <3>1, <3>2, <3>3, SMTT(60) DEF SenderInv
  <2>3. CASE ~ForgetSession(e)
    <3>1. UNCHANGED <<inbound, senders, open>>
      BY <1>5, <2>3 DEF Execution, Upstream, SendStart, SendInline, SendStream, SendBye
    <3>2. execs'[e].pc # "over"
      <4>1. execs[e] \in Executions /\ e \in DOMAIN execs
        BY EntryTyped
      <4> QED BY <1>5, <2>3, <4>1 DEF Execution, Upstream, SendStart, SendInline, SendStream, SendBye,
                 ExecGoto, Executions
    <3> QED BY <2>1, <3>1, <3>2 DEF SenderInv
  <2> QED BY <2>2, <2>3
<1>6. ASSUME NEW c \in Calls, PruneInbound(c) PROVE SenderInv'
  <2>1. /\ open' = open \ {inbound[c]} /\ senders' = senders /\ UNCHANGED execs
        /\ inbound' = [inbound EXCEPT ![c] = 0]
    BY <1>6 DEF PruneInbound
  <2> QED BY <1>1, <2>1 DEF SenderInv
<1>7. CASE Asker \/ (\E c \in Calls : PrunePending(c)) \/ UNCHANGED vars
  <2>1. UNCHANGED ansVars
    BY <1>7 DEF Asker, Forward, Begin, FindLane, acquireUDPLane, LaneTimeout, OpenReceiver,
       OpenFails, SendInvite, InviteFails, InviteAnswered, SendRequest, RequestFails,
       RequestAnswered, TakeStart, StartTimeout, TakeInline, InlineFails, StreamOver, CloseBody,
       Send, Quiet, PrunePending, vars
  <2> QED BY <1>2, <2>1 DEF ansVars
<1>8. CASE Handlers
  <2>1. CASE FillChannel
    <3>1. UNCHANGED ansVars
      BY <2>1 DEF FillChannel, FillStart, FillInline
    <3> QED BY <1>2, <3>1 DEF ansVars
  <2>2. ASSUME NEW m \in net, RecvResponse(m) \/ RecvBye(m) \/ RejectInvite(m) PROVE SenderInv'
    <3>1. UNCHANGED ansVars
      BY <2>2 DEF RecvResponse, RecvBye, RejectInvite
    <3> QED BY <1>2, <3>1 DEF ansVars
  <2> QED BY <1>3, <1>4, <1>8, <2>1, <2>2 DEF Handlers
<1> QED BY <1>5, <1>6, <1>7, <1>8 DEF Next

\* Over TCP an RTP sender does not outlive the execution that used it, also when the
\* state page prunes its session first (sendBye, pruneInboundSessions).
THEOREM SendersAreClosed == ASSUME ~Udp PROVE Spec => []SenderClosed
<1>1. ASSUME Init PROVE SenderInv
  <2>1. DOMAIN execs = {} /\ inbound = [c \in Calls |-> 0] /\ senders = 0
    BY <1>1 DEF Init
  <2> QED BY <2>1 DEF SenderInv
<1>2. SenderInv => SenderClosed
  BY DEF SenderInv, SenderClosed
<1> QED BY <1>1, <1>2, SenderStep, TypedInvariant, OnceInvariant, PTL DEF Spec

-----------------------------------------------------------------------------
(* Sessions over either transport. SessionLive alone is not inductive: two *)
(* sessions must not share a sender, and a new sender must be a new one.   *)

SessionInv ==
  /\ inbound \in [Calls -> 0 .. senders] /\ open \subseteq 1 .. senders /\ senders \in Nat
  /\ \A c, d \in Calls : inbound[c] = inbound[d] /\ inbound[c] # 0 => c = d
  /\ SessionLive

\* What a step does to the sessions: one is made with a new sender, or one ends with its
\* sender.
LEMMA SessionMoves ==
  ASSUME Typed, [Next]_vars
  PROVE  \/ UNCHANGED <<inbound, senders, open>>
         \/ \E c \in Calls :
              \/ /\ senders' = senders + 1 /\ open' = open \cup {senders + 1}
                 /\ inbound' = [inbound EXCEPT ![c] = senders + 1]
              \/ /\ senders' = senders /\ open' = open \ {inbound[c]}
                 /\ inbound' = [inbound EXCEPT ![c] = 0]
<1>1. CASE Asker \/ (\E c \in Calls : PrunePending(c)) \/ FillChannel \/ UNCHANGED vars
  <2>1. UNCHANGED ansVars
    BY <1>1 DEF Asker, Forward, Begin, FindLane, acquireUDPLane, LaneTimeout, OpenReceiver,
       OpenFails, SendInvite, InviteFails, InviteAnswered, SendRequest, RequestFails,
       RequestAnswered, TakeStart, StartTimeout, TakeInline, InlineFails, StreamOver, CloseBody,
       Send, Quiet, PrunePending, FillChannel, FillStart, FillInline, vars
  <2> QED BY <2>1 DEF ansVars
<1>2. ASSUME NEW m \in net, Received(m)
      PROVE  \/ UNCHANGED <<inbound, senders, open>>
             \/ /\ senders' = senders + 1 /\ open' = open \cup {senders + 1} /\ m.call \in Calls
                /\ inbound' = [inbound EXCEPT ![m.call] = senders + 1]
  <2>1. m.call \in Calls
    BY DEF Typed, NetTyped, Messages
  <2>2. CASE AcceptInvite(m)
    BY <2>1, <2>2 DEF AcceptInvite
  <2>3. CASE ~AcceptInvite(m)
    BY <1>2, <2>3 DEF Received, RecvResponse, RecvBye, RejectInvite, RecvRequest, ansVars
  <2> QED BY <2>2, <2>3
<1>3. ASSUME NEW e \in DOMAIN execs, Execution(e)
      PROVE  \/ UNCHANGED <<inbound, senders, open>>
             \/ /\ senders' = senders /\ open' = open \ {inbound[execs[e].call]}
                /\ inbound' = [inbound EXCEPT ![execs[e].call] = 0] /\ execs[e].call \in Calls
  <2>1. execs[e].call \in Calls
    BY EntryTyped DEF Executions
  <2>2. CASE ForgetSession(e)
    BY <2>1, <2>2 DEF ForgetSession
  <2>3. CASE ~ForgetSession(e)
    BY <1>3, <2>3 DEF Execution, Upstream, SendStart, SendInline, SendStream, SendBye
  <2> QED BY <2>2, <2>3
<1>4. ASSUME NEW c \in Calls, PruneInbound(c)
      PROVE  /\ senders' = senders /\ open' = open \ {inbound[c]}
             /\ inbound' = [inbound EXCEPT ![c] = 0]
  BY <1>4 DEF PruneInbound
<1>5. CASE Handlers
  BY <1>1, <1>2, <1>5 DEF Handlers, Received
<1> QED BY <1>1, <1>3, <1>4, <1>5 DEF Next

\* A session in s.inbound has its RTP socket open, over UDP as well, where INVITEs and
\* Requests repeat and several executions end the session of one call (handleInvite,
\* sendBye, pruneRuntimeLocked).
THEOREM SessionsAreLive == Spec => []SessionLive
<1>1. ASSUME Init PROVE SessionInv
  BY <1>1 DEF Init, SessionInv, SessionLive
<1>2. ASSUME Typed, SessionInv, [Next]_vars PROVE SessionInv'
  <2>1. CASE UNCHANGED <<inbound, senders, open>>
    BY <1>2, <2>1 DEF SessionInv, SessionLive
  <2>2. ASSUME NEW c \in Calls, senders' = senders + 1, open' = open \cup {senders + 1},
               inbound' = [inbound EXCEPT ![c] = senders + 1]
        PROVE  SessionInv'
    <3>1. /\ inbound' \in [Calls -> 0 .. senders'] /\ open' \subseteq 1 .. senders' /\ senders' \in Nat
      BY <1>2, <2>2 DEF SessionInv
    <3>2. \A d \in Calls : inbound[d] # senders + 1
      BY <1>2 DEF SessionInv
    <3>3. \A d, f \in Calls : inbound'[d] = inbound'[f] /\ inbound'[d] # 0 => d = f
      BY <1>2, <2>2, <3>2 DEF SessionInv
    <3>4. SessionLive'
      BY <1>2, <2>2 DEF SessionInv, SessionLive
    <3> QED BY <3>1, <3>3, <3>4 DEF SessionInv
  <2>3. ASSUME NEW c \in Calls, senders' = senders, open' = open \ {inbound[c]},
               inbound' = [inbound EXCEPT ![c] = 0]
        PROVE  SessionInv'
    <3>1. /\ inbound' \in [Calls -> 0 .. senders'] /\ open' \subseteq 1 .. senders' /\ senders' \in Nat
      <4>1. inbound \in [Calls -> 0 .. senders] /\ open \subseteq 1 .. senders /\ senders \in Nat
        BY <1>2 DEF SessionInv
      <4>2. 0 \in 0 .. senders
        BY <4>1
      <4> QED BY <2>3, <4>1, <4>2
    <3>2. \A d \in Calls : inbound'[d] # 0 => d # c /\ inbound'[d] = inbound[d]
      BY <1>2, <2>3 DEF SessionInv
    <3>3. \A d, f \in Calls : inbound'[d] = inbound'[f] /\ inbound'[d] # 0 => d = f
      BY <1>2, <3>2 DEF SessionInv
    <3>4. SessionLive'
      BY <1>2, <2>3, <3>2 DEF SessionInv, SessionLive
    <3> QED BY <3>1, <3>3, <3>4 DEF SessionInv
  <2> QED BY <1>2, <2>1, <2>2, <2>3, SessionMoves
<1>3. SessionInv => SessionLive
  BY DEF SessionInv
<1> QED BY <1>1, <1>2, <1>3, TypedInvariant, PTL DEF Spec
=============================================================================
