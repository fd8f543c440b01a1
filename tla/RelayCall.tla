------------------------------ MODULE RelayCall ------------------------------
(***************************************************************************)
(* One HTTP request carried over SIP, for several calls at once.           *)
(*                                                                         *)
(* The asking node runs ExecuteForward: take a lane (UDP), open an RTP     *)
(* receiver, INVITE, ACK, MESSAGE(Request), wait for ResponseStart, then   *)
(* take the body inside SIP (INLINE) or as an RTP stream. The answering    *)
(* node accepts the INVITE (an inbound session with an RTP sender) and     *)
(* runs executeInboundHTTP for every Request it gets: ResponseStart, the   *)
(* body, ResponseEnd, BYE.                                                 *)
(*                                                                         *)
(* Over TCP every send has a connection of its own (the gateway always has *)
(* a port pool, so the pooled connections and their retry are not used): a *)
(* request is written once and delivered at most once. Over UDP            *)
(* SendSIPUDPAndWait repeats it, and what was sent may arrive again at any *)
(* time. Either way a wait may time out although the request arrived.      *)
(* The stream itself is module RtpStream; here it is a phase of the call.  *)
(* Call-IDs are unique (a counter and a clock), so a call is its Call-ID.  *)
(***************************************************************************)
EXTENDS Integers, FiniteSets, Sequences

CONSTANTS
  Calls,
  Udp,             \* transport of the signalling: UDP, or TCP
  RequestModes,    \* response modes calls ask for: AUTO, RTP, INLINE
  PoolSize,        \* ports in the asking node's RTP port pool
  LaneCapacity,    \* configured parallelism of the UDP request lane of a device
  LaneTimed,       \* whether the wait for the lane has a deadline ("small" requests)
  MaxSenders,      \* bound: INVITEs accepted in a behaviour
  MaxExecs,        \* bound: Requests executed in a behaviour
  MaxViews,        \* bound: times the state page is opened after a quiet quarter hour
  MaxLanes         \* bound: lane channels made in a behaviour

ASSUME RelayAssumption ==
  /\ IsFiniteSet(Calls) /\ Udp \in BOOLEAN /\ LaneTimed \in BOOLEAN
  /\ RequestModes \subseteq {"AUTO", "RTP", "INLINE"}
  /\ PoolSize \in Nat /\ LaneCapacity \in Nat \ {0}
  /\ MaxSenders \in Nat /\ MaxExecs \in Nat /\ MaxViews \in Nat /\ MaxLanes \in Nat \ {0}

VARIABLES
  pc,        \* where ExecuteForward, or the reader of its response, is
  mode,      \* negotiatedMode
  ports,     \* RTP port pool: what each allocated port serves
  lanes,     \* channels made for the UDP request lane; the last one is in the table
  gate,      \* the channel a call waits at or has a token in; 0: none
  lane,      \* calls that have a token in a channel
  pending,   \* calls in GB28181TunnelService.pending
  found,     \* messages whose handler has found their call in pending
  startCh, inlineCh,   \* the execution whose message is in the channel; 0: empty
  byeCh,
  net,       \* SIP requests on the way
  replies,   \* final SIP responses
  inbound,   \* answering node: RTP sender of the call's inbound session; 0: no session
  senders,   \* RTP senders opened so far
  open,      \* RTP senders whose socket is open
  execs,     \* runs of executeInboundHTTP
  views      \* times the state page was opened

laneVars == <<lanes, gate, lane>>
chVars  == <<found, startCh, inlineCh, byeCh>>
askVars == <<pc, mode, ports, laneVars, pending, chVars>>
ansVars == <<inbound, senders, open, execs>>
netVars == <<net, replies>>
vars == <<askVars, ansVars, netVars, views>>

Ended(c) == pc[c] \in {"done", "failed"}

Goto(c, label) == pc' = [pc EXCEPT ![c] = label]

-----------------------------------------------------------------------------
(* The asking node: ExecuteForward.                                        *)

PortsOf(c)       == {p \in ports : p[1] = c}
HasRoom          == Cardinality(ports) < PoolSize
HasReceiver(c)   == <<c, "rtp">> \in ports

\* releaseRequestGate: takes a token out of the channel it was put in, whichever is in
\* the table by now, and is forgotten. It takes none from an empty channel.
LeaveLane(c) ==
  /\ lanes' = IF c \in lane
              THEN [lanes EXCEPT ![gate[c]].tokens = IF @ > 0 THEN @ - 1 ELSE @] ELSE lanes
  /\ lane' = lane \ {c}
  /\ gate' = [gate EXCEPT ![c] = 0]

\* cleanup, and what ExecuteForward defers: close the receiver, release the source
\* port of a send, forget the pending session, leave the lane.
Cleanup(c) ==
  /\ ports' = ports \ PortsOf(c)
  /\ pending' = pending \ {c}
  /\ LeaveLane(c)

Fail(c) == Goto(c, "failed") /\ Cleanup(c)

\* Leaves the channels, the network and the peer alone.
Quiet == UNCHANGED <<chVars, netVars, ansVars, views>>

\* Mutant of Begin: a mapping without a response mode is not given AUTO.
BeginWithoutMode(c) ==
  /\ pc[c] = "idle"
  /\ Goto(c, IF Udp THEN "gate" ELSE "open")
  /\ \E m \in RequestModes \cup {""} : mode' = [mode EXCEPT ![c] = m]
  /\ UNCHANGED <<ports, laneVars, pending>> /\ Quiet

Begin(c) ==
  /\ pc[c] = "idle"
  /\ Goto(c, IF Udp THEN "gate" ELSE "open")
  /\ \E m \in RequestModes : mode' = [mode EXCEPT ![c] = m]
  /\ UNCHANGED <<ports, laneVars, pending>> /\ Quiet

\* A device with three failures in a row is given one slot less for some minutes; the
\* failures are of all its calls.
LaneCapacities == {LaneCapacity, IF LaneCapacity > 1 THEN LaneCapacity - 1 ELSE LaneCapacity}

\* acquireUDPRequestGate after the delay of a penalty: a channel of another capacity is
\* replaced in the table, whoever waits at it or has a token in it.
FindLane(c) ==
  /\ pc[c] = "gate"
  /\ \E capacity \in LaneCapacities :
       IF lanes # <<>> /\ lanes[Len(lanes)].capacity = capacity
       THEN UNCHANGED lanes
       ELSE /\ Len(lanes) < MaxLanes
            /\ lanes' = Append(lanes, [capacity |-> capacity, tokens |-> 0])
  /\ gate' = [gate EXCEPT ![c] = Len(lanes')]
  /\ Goto(c, "lane")
  /\ UNCHANGED <<mode, ports, lane, pending>> /\ Quiet

\* Mutant of acquireUDPLane: the token is put in the channel of the table.
acquireUDPLaneOfTable(c) ==
  /\ pc[c] = "lane" /\ lanes[Len(lanes)].tokens < lanes[Len(lanes)].capacity
  /\ lanes' = [lanes EXCEPT ![Len(lanes)].tokens = @ + 1]
  /\ lane' = lane \cup {c}
  /\ Goto(c, "open")
  /\ UNCHANGED <<mode, ports, gate, pending>> /\ Quiet

acquireUDPLane(c) ==
  /\ pc[c] = "lane" /\ lanes[gate[c]].tokens < lanes[gate[c]].capacity
  /\ lanes' = [lanes EXCEPT ![gate[c]].tokens = @ + 1]
  /\ lane' = lane \cup {c}
  /\ Goto(c, "open")
  /\ UNCHANGED <<mode, ports, gate, pending>> /\ Quiet

\* A penalty's delay and the wait for the lane end with the client's context; the wait
\* of a small request has a deadline of its own.
LaneTimeout(c) ==
  /\ pc[c] \in {"gate", "lane"}
  /\ Fail(c)
  /\ UNCHANGED mode /\ Quiet

\* newRTPBodyReceiver, then the entry in pending. With no port left an AUTO call
\* goes on without a receiver.
OpenReceiver(c) ==
  /\ pc[c] = "open"
  /\ \/ mode[c] = "INLINE" /\ UNCHANGED <<mode, ports>>
     \/ /\ mode[c] # "INLINE" /\ HasRoom
        /\ ports' = ports \cup {<<c, "rtp">>} /\ UNCHANGED mode
     \/ /\ mode[c] = "AUTO" /\ ~HasRoom
        /\ mode' = [mode EXCEPT ![c] = "INLINE"] /\ UNCHANGED ports
  /\ pending' = pending \cup {c}
  /\ Goto(c, "invite")
  /\ UNCHANGED laneVars /\ Quiet

\* No port for an RTP call, the port cannot be bound, or no callback address.
OpenFails(c) ==
  /\ pc[c] = "open"
  /\ Fail(c)
  /\ UNCHANGED mode /\ Quiet

\* Mutant of Send: the pool is asked for one port too many.
SendOverdrawn(c, purpose, message) ==
  /\ Udp \/ Cardinality(ports) <= PoolSize
  /\ ports' = IF Udp THEN ports ELSE ports \cup {<<c, purpose>>}
  /\ net' = net \cup {message}
  /\ UNCHANGED <<mode, laneVars, pending, chVars, replies, ansVars, views>>

\* sendSIPPayload: over TCP the connection has a source port of the same pool.
Send(c, purpose, message) ==
  /\ Udp \/ HasRoom
  /\ ports' = IF Udp THEN ports ELSE ports \cup {<<c, purpose>>}
  /\ net' = net \cup {message}
  /\ UNCHANGED <<mode, laneVars, pending, chVars, replies, ansVars, views>>

SendInvite(c) ==
  /\ pc[c] = "invite"
  /\ Send(c, "invite", [kind |-> "invite", call |-> c, rtp |-> HasReceiver(c)])
  /\ Goto(c, "inviting")

\* No source port, no connection, no answer in time, an answer that does not parse.
InviteFails(c) ==
  /\ pc[c] \in {"invite", "inviting"}
  /\ Fail(c)
  /\ UNCHANGED mode /\ Quiet

InviteAnswered(c) ==
  /\ pc[c] = "inviting"
  /\ \E r \in replies :
       /\ r.call = c /\ r.to = "invite"
       /\ IF r.status = 200
          THEN /\ Goto(c, "invited")
               /\ ports' = ports \ {<<c, "invite">>}
               /\ UNCHANGED <<pending, laneVars>>
          ELSE Fail(c)
  /\ UNCHANGED mode /\ Quiet

\* ACK went out and the Request fits.
SendRequest(c) ==
  /\ pc[c] = "invited"
  /\ Send(c, "message", [kind |-> "request", call |-> c])
  /\ Goto(c, "requesting")

\* Mutant of RequestFails: a Request without an answer is sent again.
RequestFailsRetrying(c) ==
  \/ /\ pc[c] = "requesting"
     /\ Goto(c, "invited")
     /\ UNCHANGED <<mode, ports, laneVars, pending>> /\ Quiet
  \/ /\ pc[c] = "invited"
     /\ Fail(c)
     /\ UNCHANGED mode /\ Quiet

\* ACK cannot be sent, the Request is too large for UDP, or its send fails.
RequestFails(c) ==
  /\ pc[c] \in {"invited", "requesting"}
  /\ Fail(c)
  /\ UNCHANGED mode /\ Quiet

RequestAnswered(c) ==
  /\ pc[c] = "requesting"
  /\ \E r \in replies :
       /\ r.call = c /\ r.to = "request"
       /\ IF r.status = 200
          THEN /\ Goto(c, "waiting")
               /\ ports' = ports \ {<<c, "message">>}
               /\ UNCHANGED <<pending, laneVars>>
          ELSE Fail(c)
  /\ UNCHANGED mode /\ Quiet

\* The ResponseStart decides how the body comes, whatever the call asked for.
TakeStart(c) ==
  /\ pc[c] = "waiting" /\ startCh[c] # 0
  /\ startCh' = [startCh EXCEPT ![c] = 0]
  /\ IF execs[startCh[c]].kind = "rtp" /\ ~HasReceiver(c)
     THEN Fail(c)
     ELSE /\ Goto(c, IF execs[startCh[c]].kind = "inline" THEN "inline" ELSE "streaming")
          /\ LeaveLane(c)
          /\ UNCHANGED <<ports, pending>>
  /\ UNCHANGED <<mode, found, inlineCh, byeCh, netVars, ansVars, views>>

\* Mutant of StartTimeout: only the lane is left.
StartTimeoutDirty(c) ==
  /\ pc[c] = "waiting"
  /\ Goto(c, "failed") /\ LeaveLane(c)
  /\ UNCHANGED <<mode, ports, pending>> /\ Quiet

StartTimeout(c) ==
  /\ pc[c] = "waiting"
  /\ Fail(c)
  /\ UNCHANGED mode /\ Quiet

TakeInline(c) ==
  /\ pc[c] = "inline" /\ inlineCh[c] # 0
  /\ inlineCh' = [inlineCh EXCEPT ![c] = 0]
  /\ Goto(c, "answered")
  /\ UNCHANGED <<mode, ports, laneVars, pending, found, startCh, byeCh, netVars, ansVars, views>>

\* No body in time, or one that does not decode.
InlineFails(c) ==
  /\ pc[c] = "inline"
  /\ Fail(c)
  /\ UNCHANGED mode /\ Quiet

\* Mutant of CloseBody: an INLINE body waits for BYE without a deadline.
CloseBodyAfterBye(c) ==
  /\ pc[c] = "streaming" \/ (pc[c] = "answered" /\ byeCh[c])
  /\ Goto(c, "done") /\ Cleanup(c)
  /\ byeCh' = [byeCh EXCEPT ![c] = FALSE]
  /\ UNCHANGED <<mode, found, startCh, inlineCh, netVars, ansVars, views>>

\* The reader closes the body. After an INLINE body the hook waits for BYE, but not
\* for longer than 1.5 s, so it passes with or without a token.
CloseBody(c) ==
  /\ pc[c] \in {"answered", "streaming"}
  /\ Goto(c, "done") /\ Cleanup(c)
  /\ byeCh' = [byeCh EXCEPT ![c] = FALSE]
  /\ UNCHANGED <<mode, found, startCh, inlineCh, netVars, ansVars, views>>

\* streamLoop returns (module RtpStream): the receiver's port is free already.
StreamOver(c) ==
  /\ pc[c] = "streaming" /\ HasReceiver(c)
  /\ ports' = ports \ {<<c, "rtp">>}
  /\ UNCHANGED <<pc, mode, laneVars, pending>> /\ Quiet

-----------------------------------------------------------------------------
(* The asking node: handlers of what the peer sends.                       *)

\* A request is consumed over TCP; over UDP it may come again.
Delivered(message) == net' = IF Udp THEN net ELSE net \ {message}

\* TCP has a goroutine per connection. UDP has one read loop, which runs each handler to
\* its end before it reads again.
LoopFree == Udp => found = {}

\* handleTunnelControlMessage, RESPONSESTART and RESPONSEINLINE: the call is looked up
\* under s.mu, which is released before the channel is tried.
RecvResponse(message) ==
  /\ message.kind \in {"start", "inline"} /\ LoopFree
  /\ found' = IF message.call \in pending THEN found \cup {message} ELSE found
  /\ Delivered(message)
  /\ UNCHANGED <<pc, mode, ports, laneVars, pending, startCh, inlineCh, byeCh,
                 replies, ansVars, views>>

\* A channel holds one message; the handler returns whether it took this one or not. The
\* call may have ended, and the channel be nobody's.
Filled(channel, message) ==
  IF channel[message.call] = 0 THEN [channel EXCEPT ![message.call] = message.exec] ELSE channel

FillStart(message) ==
  /\ message \in found /\ message.kind = "start"
  /\ startCh' = Filled(startCh, message)
  /\ found' = found \ {message}
  /\ UNCHANGED <<pc, mode, ports, laneVars, pending, inlineCh, byeCh, netVars, ansVars, views>>

\* Mutant of FillInline: the handler waits until the channel is empty.
FillInlineWaiting(message) ==
  /\ message \in found /\ message.kind = "inline" /\ inlineCh[message.call] = 0
  /\ inlineCh' = [inlineCh EXCEPT ![message.call] = message.exec]
  /\ found' = found \ {message}
  /\ UNCHANGED <<pc, mode, ports, laneVars, pending, startCh, byeCh, netVars, ansVars, views>>

FillInline(message) ==
  /\ message \in found /\ message.kind = "inline"
  /\ inlineCh' = Filled(inlineCh, message)
  /\ found' = found \ {message}
  /\ UNCHANGED <<pc, mode, ports, laneVars, pending, startCh, byeCh, netVars, ansVars, views>>

\* handleBYE tries its channel under s.mu.
RecvBye(message) ==
  LET c == message.call
  IN  /\ message.kind = "bye" /\ LoopFree
      /\ byeCh' = [byeCh EXCEPT ![c] = @ \/ c \in pending]
      /\ Delivered(message)
      /\ UNCHANGED <<pc, mode, ports, laneVars, pending, found, startCh, inlineCh,
                     replies, ansVars, views>>

-----------------------------------------------------------------------------
(* The answering node.                                                     *)

Reply(c, to, status) == replies' = replies \cup {[call |-> c, to |-> to, status |-> status]}

\* handleInvite: a device it does not know, an SDP without an RTP port, a socket that
\* cannot be opened. Otherwise a new session replaces what the Call-ID had.
RejectInvite(message) ==
  /\ message.kind = "invite"
  /\ \E status \in {404, IF message.rtp THEN 500 ELSE 488} :
       Reply(message.call, "invite", status)
  /\ Delivered(message)
  /\ UNCHANGED <<askVars, ansVars, views>>

AcceptInvite(message) ==
  /\ message.kind = "invite" /\ message.rtp
  /\ senders < MaxSenders
  /\ senders' = senders + 1
  /\ open' = open \cup {senders + 1}
  /\ inbound' = [inbound EXCEPT ![message.call] = senders + 1]
  /\ Reply(message.call, "invite", 200)
  /\ Delivered(message)
  /\ UNCHANGED <<askVars, execs, views>>

\* handleTunnelControlMessage, REQUEST: every one that finds a session is executed.
RecvRequest(message) ==
  LET c == message.call
  IN  /\ message.kind = "request"
      /\ IF inbound[c] = 0
         THEN Reply(c, "request", 481) /\ UNCHANGED execs
         ELSE /\ Len(execs) < MaxExecs
              /\ execs' = Append(execs, [call |-> c, sender |-> inbound[c],
                                         kind |-> "none", pc |-> "upstream"])
              /\ Reply(c, "request", 200)
      /\ Delivered(message)
      /\ UNCHANGED <<askVars, inbound, senders, open, views>>

ExecGoto(e, label) == execs' = [execs EXCEPT ![e].pc = label]

\* A callback either leaves or fails before it does (lane, size, connection); the
\* execution goes on the same way.
Callback(e, kind) ==
  net' \in {net, net \cup {[kind |-> kind, call |-> execs[e].call, exec |-> e]}}

\* The local service answered, refused or failed (INLINE), has a large body (RTP), or
\* broke off while an INLINE body was read.
Upstream(e) ==
  /\ execs[e].pc = "upstream"
  /\ \E kind \in {"inline", "rtp", "broken"} :
       execs' = [execs EXCEPT ![e].kind = kind,
                              ![e].pc = IF kind = "broken" THEN "bye" ELSE "start"]
  /\ UNCHANGED <<askVars, inbound, senders, open, netVars, views>>

SendStart(e) ==
  /\ execs[e].pc = "start"
  /\ Callback(e, "start")
  /\ ExecGoto(e, IF execs[e].kind = "inline" THEN "inline" ELSE "stream")
  /\ UNCHANGED <<askVars, inbound, senders, open, replies, views>>

SendInline(e) ==
  /\ execs[e].pc = "inline"
  /\ Callback(e, "inline")
  /\ ExecGoto(e, "bye")
  /\ UNCHANGED <<askVars, inbound, senders, open, replies, views>>

\* SendStreamWithProfile, and ResponseEnd if it succeeds (module RtpStream).
SendStream(e) ==
  /\ execs[e].pc = "stream"
  /\ ExecGoto(e, "bye")
  /\ UNCHANGED <<askVars, inbound, senders, open, netVars, views>>

\* sendBye: the BYE, then the session the Call-ID has now.
SendBye(e) ==
  /\ execs[e].pc = "bye"
  /\ Callback(e, "bye")
  /\ ExecGoto(e, "forget")
  /\ UNCHANGED <<askVars, inbound, senders, open, replies, views>>

\* Mutant of ForgetSession: the sender is left to the garbage collector.
ForgetSessionOnly(e) ==
  /\ execs[e].pc = "forget"
  /\ inbound' = [inbound EXCEPT ![execs[e].call] = 0]
  /\ ExecGoto(e, "over")
  /\ UNCHANGED <<askVars, senders, open, netVars, views>>

\* Mutant of ForgetSession: a session newer than the execution loses its socket and stays.
ForgetSessionOfOwn(e) ==
  LET c == execs[e].call
  IN  /\ execs[e].pc = "forget"
      /\ open' = open \ {inbound[c]}
      /\ inbound' = IF inbound[c] = execs[e].sender THEN [inbound EXCEPT ![c] = 0] ELSE inbound
      /\ ExecGoto(e, "over")
      /\ UNCHANGED <<askVars, senders, netVars, views>>

ForgetSession(e) ==
  /\ execs[e].pc = "forget"
  /\ open' = open \ {inbound[execs[e].call]}
  /\ inbound' = [inbound EXCEPT ![execs[e].call] = 0]
  /\ ExecGoto(e, "over")
  /\ UNCHANGED <<askVars, senders, netVars, views>>

-----------------------------------------------------------------------------
(* Snapshot: the state page prunes sessions without a new stage for 15     *)
(* minutes. Streams (up to 60 minutes) and slow readers are that quiet,    *)
(* and so is a session whose caller gave up.                               *)

PrunePending(c) ==
  /\ views < MaxViews /\ views' = views + 1
  /\ pc[c] \in {"answered", "streaming"} /\ c \in pending
  /\ pending' = pending \ {c}
  /\ UNCHANGED <<pc, mode, ports, laneVars, chVars, ansVars, netVars>>

QuietSession(c) ==
  \/ Ended(c) /\ \A e \in DOMAIN execs : execs[e].call = c => execs[e].pc = "over"
  \/ \E e \in DOMAIN execs : execs[e].call = c /\ execs[e].pc = "stream"

PruneInbound(c) ==
  /\ views < MaxViews /\ views' = views + 1
  /\ inbound[c] # 0 /\ QuietSession(c)
  /\ open' = open \ {inbound[c]}
  /\ inbound' = [inbound EXCEPT ![c] = 0]
  /\ UNCHANGED <<askVars, senders, execs, netVars>>

-----------------------------------------------------------------------------
Init ==
  /\ pc = [c \in Calls |-> "idle"] /\ mode = [c \in Calls |-> "none"]
  /\ ports = {} /\ pending = {} /\ found = {}
  /\ lanes = <<>> /\ gate = [c \in Calls |-> 0] /\ lane = {}
  /\ startCh = [c \in Calls |-> 0] /\ inlineCh = [c \in Calls |-> 0]
  /\ byeCh = [c \in Calls |-> FALSE]
  /\ net = {} /\ replies = {}
  /\ inbound = [c \in Calls |-> 0] /\ senders = 0 /\ open = {} /\ execs = <<>>
  /\ views = 0

\* Steps of ExecuteForward with a timer behind them, or nothing to wait for.
Forward(c) ==
  \/ FindLane(c) \/ OpenReceiver(c) \/ OpenFails(c)
  \/ SendInvite(c) \/ InviteFails(c) \/ InviteAnswered(c)
  \/ SendRequest(c) \/ RequestFails(c) \/ RequestAnswered(c)
  \/ TakeStart(c) \/ StartTimeout(c) \/ TakeInline(c) \/ InlineFails(c)

Asker == \E c \in Calls :
  Begin(c) \/ acquireUDPLane(c) \/ LaneTimeout(c) \/ Forward(c) \/ StreamOver(c) \/ CloseBody(c)

FillChannel == \E message \in found : FillStart(message) \/ FillInline(message)

Handlers ==
  \/ \E message \in net :
       \/ RecvResponse(message) \/ RecvBye(message)
       \/ AcceptInvite(message) \/ RejectInvite(message) \/ RecvRequest(message)
  \/ FillChannel

Execution(e) ==
  Upstream(e) \/ SendStart(e) \/ SendInline(e) \/ SendStream(e) \/ SendBye(e) \/ ForgetSession(e)

Next ==
  \/ Asker \/ Handlers
  \/ \E e \in DOMAIN execs : Execution(e)
  \/ \E c \in Calls : PrunePending(c) \/ PruneInbound(c)

Spec == Init /\ [][Next]_vars

\* Every wait of ExecuteForward has a timer, except the one for the lane of large
\* requests: there Go's channel serves the waiting senders in turn. The HTTP handler
\* closes the body it was given, and a handler of SIP that need not wait goes on. Nothing is
\* assumed of the network or the peer.
AskerFairness ==
  /\ \A c \in Calls :
       /\ WF_vars(Forward(c))
       /\ IF LaneTimed THEN WF_vars(acquireUDPLane(c) \/ LaneTimeout(c)) ELSE SF_vars(acquireUDPLane(c))
       /\ WF_vars(CloseBody(c))
  /\ WF_vars(FillChannel)
FairSpec == Spec /\ AskerFairness

\* The peer runs, too, and every message arrives.
AllFairSpec ==
  /\ FairSpec
  /\ WF_vars(\E e \in DOMAIN execs : Execution(e)) /\ WF_vars(Handlers)

-----------------------------------------------------------------------------
(* Properties.                                                             *)

AskerPcs ==
  {"idle", "gate", "lane", "open", "invite", "inviting", "invited", "requesting", "waiting",
   "inline", "answered", "streaming", "done", "failed"}

TypeOK ==
  /\ pc \in [Calls -> AskerPcs]
  /\ mode \in [Calls -> {"none", "AUTO", "RTP", "INLINE"}]
  /\ ports \subseteq Calls \X {"rtp", "invite", "message"}
  /\ lanes \in Seq([capacity : LaneCapacities, tokens : Nat]) /\ Len(lanes) <= MaxLanes
  /\ gate \in [Calls -> 0 .. Len(lanes)] /\ lane \subseteq Calls /\ pending \subseteq Calls
  /\ \A message \in found : message.call \in Calls
  /\ {startCh, inlineCh} \subseteq [Calls -> 0 .. MaxExecs]
  /\ byeCh \in [Calls -> BOOLEAN]
  /\ \A r \in replies : r.call \in Calls
  /\ inbound \in [Calls -> 0 .. MaxSenders]
  /\ senders \in 0 .. MaxSenders /\ open \subseteq 1 .. senders
  /\ Len(execs) <= MaxExecs /\ views \in 0 .. MaxViews

Holds(c) == PortsOf(c) # {} \/ c \in lane \/ c \in pending
Holding  == {c \in Calls : Holds(c)}

\* A call holds ports, the lane and its entry in pending only while it runs, on every
\* path out of ExecuteForward; and the port pool is never overdrawn.
GivenBack    == \A c \in Calls : pc[c] = "idle" \/ Ended(c) => ~Holds(c)
WithinLimits == Cardinality(ports) <= PoolSize
NothingLeft  == GivenBack /\ WithinLimits

\* acquireUDPLane and its release: a channel holds one token for each call that went
\* through it and has not left, never more than its capacity, also after it was replaced:
\* no release takes a token of another call, and no call waits for one that is gone.
LaneHonest ==
  \A k \in DOMAIN lanes :
    /\ lanes[k].tokens = Cardinality({c \in lane : gate[c] = k})
    /\ lanes[k].tokens <= lanes[k].capacity

\* The UDP read loop, which also brings the answers every call waits for, comes back from
\* handleTunnelControlMessage, however often a message is repeated and although its call
\* may have ended, or never take what is in its channel.
LoopReturns == []<>(found = {})

\* The local service of the answering node runs a request at most once over TCP,
\* whatever times out. (Over UDP a repeated Request is executed again.)
ExecutedOnce == \A e, f \in DOMAIN execs : execs[e].call = execs[f].call => e = f

\* A session in s.inbound has its RTP socket open, so that a Request that finds one finds a
\* sender to stream with: handleInvite, sendBye and pruning replace and close both, for
\* repeated INVITEs and several executions as well.
SessionLive == \A c \in Calls : inbound[c] # 0 => inbound[c] \in open

\* An RTP sender does not outlive the execution that used it.
SenderClosed == \A e \in DOMAIN execs : execs[e].pc = "over" => execs[e].sender \notin open

\* The relay is the abstract call: answered or failed, once, and always in the end.
Phase(c) ==
  IF pc[c] \in {"idle", "done", "failed"} THEN pc[c]
  ELSE IF pc[c] \in {"answered", "streaming"} THEN "answered" ELSE "active"
Call == INSTANCE HttpCall WITH phase <- [c \in Calls |-> Phase(c)], holding <- Holding
CallSpec == Call!Spec

-----------------------------------------------------------------------------
(* What the documents say of the relay, and the code does not do.          *)

\* gateway-server/docs/gb28181-phase22-resilience-gap-review.md:25: an AUTO call that
\* finds the port pool empty degrades to INLINE, and its session is established.
DegradedGoesOn == \A r \in replies : r.status # 488

\* docs/GB28181_PHASE1_ACCEPTANCE_AND_PCAP_CHECKLIST_20260318.md:101: a dialog that was
\* accepted ends with BYE, which removes its session.
DialogCloses == \A c \in Calls : inbound[c] # 0 ~> inbound[c] = 0
=============================================================================
