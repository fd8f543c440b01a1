# SIPTunnel: a TLA+ verification project

SIPTunnel carries HTTP over a GB28181 (SIP/RTP) link between two nodes. The
asking node listens for HTTP, turns a request into a SIP dialog (INVITE, MESSAGE)
with its peer, and receives the answer either inside SIP (INLINE) or as an RTP
program stream. The answering node runs the request against its local service.
A management console (`gateway-ui`, Vue) configures and watches a node over HTTP.
This directory models the parts of the Go server (`gateway-server/internal`) where
ordering, loss, timeouts and concurrency decide whether the tunnel works, and the
console against the part of the server it talks to.

Paths below are relative to `gateway-server/internal/`, those of the console
(`views/`, `api/`, `layouts/`, `utils/`, `types/`) to `gateway-ui/src/`.

## 1. Inventory

| Part | State it keeps | Operations | Hard behaviour |
|---|---|---|---|
| RTP body stream: `server/rtp_reorder.go`, `rtp_fec.go`, `gb28181_media_receiver.go`, `gb28181_media_sender.go`, `gb28181_media_ps_codec.go`, `rtp_tolerance_policy.go` | reorder buffer, FEC groups, decoder, bytes written, expected length, gap timer, two one-token channels, RTP port | `Push`, `FastForwardToNextPending`, `ObserveData`, `ObserveFEC`, `streamLoop`, `SetExpectedBytes`, `NotifyBYE` | loss, repetition, reordering, wrap of the sequence space, stale length, lost wake-ups, several ways to end |
| SIP relay: `server/gb28181_tunnel.go`, `gb28181_state.go` | `pending`, `inbound` dialogs, request gates, UDP lanes | `ExecuteForward`, `handleInvite`, `handleTunnelControlMessage`, `handleBYE`, `executeInboundHTTP` | lost and repeated SIP, timeouts that race answers, clean-up on every path, bounded queues |
| Catalog: `server/catalog_registry.go`, catalog part of `gb28181_tunnel.go` | resources, fragments being merged | SUBSCRIBE, NOTIFY, `mergeCatalogNotifyFragment` | fragments lost or mixed between rounds |
| Tunnel session: `server/tunnel_session_manager.go`, `gb28181_registrar.go` | registration and heartbeat state, backoff | trigger, register, heartbeat, authentication challenge | retries, manual trigger racing the loop, configuration change in flight |
| SIP transports: `server/sip_udp_transport.go`, `sip_client_pool.go`, `service/siptcp` | connections, sessions, pending transactions | accept, read loop, shutdown, retransmission | connection limit, shutdown racing accept |
| File transfer: `service/filetransfer`, `protocol/rtpfile` | port pool, receive contexts with chunk bitmaps, retransmit rounds | `Allocate`, `Release`, `ReceiveChunk`, `BuildRetransmitRequests`, clean-up | missing and repeated chunks, conflicting metadata, rounds and timeouts |
| SIP control: `service/sipcontrol` | replay guard, sessions | envelope checks, dispatch | replay within and after the window, clock skew |
| Task engine: `service/taskengine`, `repository/memory`, `repository/sqlite` | task status, attempts, events | create, transition, success, failure, retry, due-retry scan | check-then-act between read and save, repeated completion, dead letter at the limit |
| Mapping runtime: `server/mapping_runtime.go`, `mapping_runtime_delivery.go`, `adaptive_delivery.go` | listeners, mapping states, resume and segment windows | reconcile, forward, resume, segment retry | partial delivery resumed from the wrong offset, endpoint conflict |
| Guards: `server/protection_runtime.go`, `upstream_resilience.go`, `generic_download_control.go`, `device_backoff_policy.go`, `service/rate_limiter.go` | circuits, limits, leases | acquire, release, record | release without acquire, circuit stuck open, limits exceeded |
| HTTP invocation: `service/httpinvoke` | none | invoke with retry | - |
| Settings: `views/SystemSettingsView.vue`, `layouts/AdminLayout.vue`, `server/ops_system_settings_http.go`, `ops_runtime_strategy.go`, `restart.go` | stored settings and baselines, values that run, the file | load, save and re-read, the GET that tunes, restart | a tuned value shown and saved as the next baseline; a crash between memory and file |
| Nodes: `views/NodesAndTunnelsView.vue`, `server/ops_workspace_loadtest_http.go` | node, tunnel settings, a write-only password | load, save, linked fields | derived fields, read outside the lock |
| Protection: `views/AlertsAndRateLimitView.vue`, `views/RateLimitPoliciesView.vue`, `server/ops_protection_security_http.go` | rules, limits, restrictions, circuit | load, edit, cancel, save, restrict, recover | answers that overwrite the form being edited |
| Mappings, local resources: `views/TunnelMappingsView.vue`, `views/LocalResourcesView.vue` and their stores | rows, editor | load, save, remove | two browsers with stale rows, an id that is edited |
| Lists: access logs, audits, events, tasks (`views/`) | filter, page, rows | query, reset, page turn | answers out of order, a watcher that runs late |
| Monitoring: dashboard, link monitor, licence, diagnosis (`views/`) | figures, chart, notices | load, select, act and reload | answers out of order, failure after the act |
| Mock gateway: `api/mockGateway.ts` and the four views that only it serves | an in-memory gateway | configuration, transfer file, snapshots, jobs | functions that wait half way |
| Logging, metrics, licences, configuration files, self-check, load test | logs, reports | read, report | none that a model would reach |

How the console meets the gateway: every view calls `api/gateway.ts`, which sends one
HTTP request per call. A view's handlers are async functions of one thread; between
two awaits anything else may run. Views share no state but the gateway's.

How the parts meet. The mapping runtime accepts an HTTP request and calls
`ExecuteForward` of the SIP relay, which uses the guards, the UDP lanes, the SIP
transports and the RTP port pool, and returns a response whose body is the RTP
stream. The peer's relay receives SIP from its transports, runs the local service
and answers through its own transports and RTP sender. Tunnel session and catalog
run beside this and decide which peer and which devices exist. Task engine, SIP
control and file transfer are an older path of their own (JSON over SIP, files over
RTP chunks) that shares the port pool.

What makes each part correct:

- RTP stream: what is written is a run of the body in order; a declared length ends
  only a whole body; every stream ends, reports once and gives its port back.
- SIP relay: every path out of a call gives everything back; a call is answered or
  fails, once, and returns; a lane has as many tokens as calls in it; the read loop comes
  back from every message; over TCP the local service runs a request once; a session
  of the peer has its socket, and its dialog ends.
- Console: a spinner that turns will stop; what a page shows belongs together and is
  what its notice says; what a save has got into the file survives a restart; the
  stores keep sockets and codes apart whatever stale rows a browser saw.
- Catalog: what is applied is one round of one peer. Tunnel session: a trigger is
  not lost, a dead peer is noticed. Transports: limits hold, shutdown ends. File
  transfer: a finished file is the file; no port without a transfer. SIP control: no
  message twice. Task engine: a terminal status stays, attempts are never lost.
  Mapping runtime: listeners are what the configuration says. Delivery: the client
  gets a prefix of the body. Guards: counters are what is held.

## 2. Modules

| Module | What it is |
|---|---|
| `RtpReorder` | the reorder buffer of `rtp_reorder.go` as operators on a buffer value |
| `RtpStream` | sender, network, FEC tracker, `streamLoop` and all that runs beside it |
| `MCRtpStream` | the kinds of stream TLC explores |
| `RtpStreamProofs`, `RtpBodyProofs` | theorems about `RtpStream`: the reorder buffer; the decoder, the body and the end |
| `HttpCall` | abstract specification: what the relay promises the HTTP side |
| `RelayCall` | the SIP relay, both nodes, several calls at once |
| `MCRelayCall` | symmetry of the calls |
| `RelayCallProofs` | theorems about `RelayCall`: clean-up and refinement, lanes, executions, sessions and senders |
| `PageCalls` | what the views share: handlers under way, requests sent, half served, served, lost |
| `GatewaySettings` | stored settings, the values that run, the settings file, the tuning profiles, the start |
| `SettingsPage`, `NodesPage`, `ProtectionPage` | three views on those settings, each with its endpoints |
| `MappingPage`, `ResourcePage` | two views with their file stores and another browser |
| `ListPages`, `MonitorPages` | six list views, four monitoring views |
| `MockGateway` | the in-memory gateway and the views that run against it |
| `Conversions` | pure functions of `utils/`, checked over bounded inputs |
| `Console`, `MCConsole` | all views behind one router; the bounds TLC uses |
| `StoreProofs` | theorems about `Console`: the gateway's stores, the mock gateway, the conversions |
| `SettingsProofs`, `PagesProofs` | theorems about `Console`: settings; nodes, protection, lists, monitoring |
| `ConsoleProofs`, `TypeProofs` | theorems about all pages of `Console`: the spinners; the types |

Operators with the comment "Mutant of X" are deliberate faults; nothing
uses them in the specifications. PROJECT.json pairs each with the property that
notices it when X is replaced.

### 2.1 RtpReorder and RtpStream

A packet is its number in the stream; the RTP sequence number is that number in a
wrapped space of `SeqSpace` values (2^16 in the code). The decoder sees PES units of
`FragPackets` packets, so a unit whose start was lost is scanned over as in
`programStreamDecoder.Write`. A unit that is out of step, because a gap was skipped inside
it, may make the decoder refuse the packet; the loop then ends with one error report
(`DecodeError`). Bytes are packets. Time is the age of a gap in three steps:
new, old enough for a proactive skip, past `GapTimeout`.

| Action | Code |
|---|---|
| `SendPacket`, `SendResponseEnd`, `SendBye` | `SendStreamWithProfile`, `executeInboundHTTP` |
| `RecvResponseEnd`, `RecvBye` | `handleTunnelControlMessage`, `handleBYE` |
| `StreamStart`, `Helper*`, `BodyTimeout`, `ReaderClose` | `ExecuteForward` from ResponseStart on: its helper goroutine, body context and clean-up |
| `LoopTop*`, `Read*` | the head of an iteration of `streamLoop` and what `ReadFrom` returns |
| `Push*`, `maybeProactiveFastForward` | `handleSequence`, one action per outcome of `Push` |
| `checkActiveGapTimeout`, `GapRecheck`, `TimeoutGap`, `TimeoutBye`, `ByeEnd` | gap timeout, idle timeout and grace time after BYE |
| `Tick` | time passes |

One iteration of the loop is several actions wherever another goroutine or the clock
can come between: the length read at the loop's top is used after the read, and the
BYE token is polled there while the helper may take it.

Assumed: a packet arrives before the stream has moved on by `Span` packets and never
half the sequence space away (`InSpan`; in the code 2^15 packets, seconds of traffic);
no packet of a foreign SSRC comes before the first one; writing to the pipe does not
block for ever (the HTTP side reads or closes); the payload of a packet in the middle of
a unit does not look like a start code to a decoder that lost the unit's start.

### 2.2 RelayCall and HttpCall

`HttpCall` is a call seen from HTTP: idle, active, answered or failed, done; it holds
resources only while it lives, and it returns. `RelayCall` is mapped to it by `Phase`
(the program counter) and `Holding` (ports, lane or pending entry held).

| Action | Code |
|---|---|
| `Begin`, `FindLane`, `acquireUDPLane`, `LaneTimeout` | `ExecuteForward` up to the lane: `acquireUDPRequestGate` and its penalty, the lane's channel looked up or replaced, the wait for a token |
| `OpenReceiver`, `OpenFails` | `newRTPBodyReceiver`, degradation to INLINE, entry in `pending` |
| `SendInvite` to `RequestAnswered` | INVITE, ACK, MESSAGE(Request) and their failures |
| `TakeStart`, `StartTimeout`, `TakeInline`, `InlineFails` | the waits for ResponseStart and the INLINE body |
| `StreamOver`, `CloseBody` | end of the stream, `onClose` |
| `RecvResponse`, `FillStart`, `FillInline`, `RecvBye` | SIP handlers of the asking node |
| `AcceptInvite`, `RejectInvite`, `RecvRequest` | SIP handlers of the answering node |
| `Upstream` to `ForgetSession` | `executeInboundHTTP` and its callbacks, `sendBye` |
| `PrunePending`, `PruneInbound` | `Snapshot`, which prunes before it lists |

`Cleanup` is part of every failing action, as `cleanup` and the deferred releases are
part of every return. Over UDP a message stays in the network once sent, so it may
arrive again at any time; over TCP it is consumed.

`handleTunnelControlMessage` looks a call up in `pending` under `s.mu`, unlocks, and only
then tries the call's channel: `RecvResponse` and `FillStart` or `FillInline`. The call may
end between the two, and its channel still takes the message. Over UDP one read loop runs
each handler to its end (`LoopFree`); over TCP each connection has its goroutine.

A lane is a channel in a table. A penalty, or its end, changes the capacity a call asks
for, and a channel of another capacity is replaced (`FindLane`) while other calls wait at
the old one or have a token in it; each gives back to the channel it took from (`gate`).
When a device has a penalty is a choice: it depends on the failures of all its calls.

Assumed: Call-IDs are unique; the node has an RTP port pool, as the gateway always
does (so each TCP send opens its own connection and is not retried); the SIP-UDP lane to
a peer only delays. Pruning touches sessions
that can be quiet for 15 minutes: an answered or streaming call, an abandoned dialog.
ResponseEnd acts on the stream and is in `RtpStream`. Left out: the protector's
permits, the transaction observer.

### 2.3 The console

A handler of a view is one action up to its first await and one per later part. Its
requests are kept in a slot of the page's call table; the gateway serves a request at a
moment of its own, and a request may fail before or after it was served, upon which the
handler runs its catch and finally blocks while the gateway may still act. Buttons and
inputs are enabled as the template says (`disabled`, the area under a spinner). Each page
module names its actions after the view's functions; `...Loaded`, `...Saved`,
`...Answered` are the parts after an await, `...Fails` the catch and finally blocks,
`...Serve...` the gateway's side.

| Module | Code on the gateway's side |
|---|---|
| `SettingsPage` | `handleSystemSettings` in the steps tuning, memory, file cut, file written (`saveJSON` is `os.WriteFile`); the write may fail before or after the cut, its error is dropped and the POST is answered with success; `applyRecommendedRuntimeProfile` in its two steps; `handleGatewayRestart` and a crash, both followed by the start of `http.go` |
| `NodesPage` | `handleNodeTunnelWorkspace`, with the password read before the lock; a write of its file that fails is dropped, too |
| `ProtectionPage` | `handleProtectionState`, `handleProtectionRestrictions`, `handleProtectionCircuitRecover`, `handleLimits`; an input that was cleared leaves what is in force |
| `MappingPage`, `ResourcePage` | `Create`, `Update`, `Delete` of the two file stores; an equal port is refused when `netbind.SameBindAddress` holds; a write of the file that fails is answered with an error and the change in memory stays |
| `ListPages` | the lists as they are filtered and cut, with entries arriving; in mock mode the filter object is read when the mock answers |
| `MonitorPages` | a count of what happened; an action raises it, an answer carries it |
| `MockGateway` | `api/mockGateway.ts` itself; a roll-back takes any version, and one that is not known leaves no snapshot active |

Data is abstracted to what the properties tell apart: the retention fields are one
value, the access policy one, the tuned fields the download bandwidth (in units of
8 Mbps) and the request limit; a rule set, a resource, a code is a model value. An
address of the host has one spelling (in the code `::1` and `0:0:0:0:0:0:0:1`, or `localhost`
and `127.0.0.1`, pass for two, and the second listener fails to bind), and `AnyIP` stands for 0.0.0.0, `::` and an empty
field. Fields
named in a comment as "kept for the properties" (`raced`, `crossed`, `torn`, `wrote`,
`stored`) record history and guard nothing.

Approximations: requests of one `Promise.all` are served at one moment on the
monitoring pages and at their own on the others; the files of the workspace handler are
written in one step with its memory, since no restart is modelled on that route; a
restart and the start after it are one step; `UpdateSchedule`, whose error
`handleSystemSettings` answers, repeats a check the body has passed. Views that are in the source and not in
`router/index.ts` (command tasks, file tasks, audit logs, the node, peer and tunnel
configuration, rate limit policies) are modelled as written. The mock's export, import,
network, roll-back and job functions have no view; their callers are
`api/__tests__/mockGateway.spec.ts`.

## 3. Runs

All runs say `CHECK_DEADLOCK FALSE`: a stream and a set of calls come to an end, and an
operator may stop.

| Run | Checks | Bounds and why they are enough |
|---|---|---|
| `rtp_file` | `TypeOK`, `DecodedInOrder`, `PendingInWindow`, `BodyContiguous`, `LossBounded`, `LengthMeansWhole`, `OneVerdict` | 4 packets, 2 PES units, a parity packet per unit, window 1+1: every outcome of `Push`, recovery, an overflow, a wrap after packet 1, a Content-Length that is unknown, exact or too long |
| `rtp_media` | `LossBounded`, `OneVerdict` | 5 packets, a rescue that widens 1+1 to 2+2 and lengthens the timeout; range playback, download and plain media |
| `rtp_ends` | `CompleteEnds`, `StreamEnds` | 3 packets, window 1+1: a gap, its timeout, an overflow, BYE lost or early |
| `relay_tcp` | `TypeOK`, `NothingLeft`, `ExecutedOnce`, `SenderClosed` | 2 calls, 3 ports: one call can starve the other's send in each place; all modes |
| `relay_udp` | `NothingLeft`, `LoopReturns`, `CallSpec` (refinement, with liveness) | 2 calls, 1 port, a lane of one slot: each waits for the other; one INVITE accepted and one Request executed, so the other call is never answered; the messages of both repeated and late |
| `relay_lanes` | `LaneHonest`, `SessionLive` | 2 calls over UDP, 2 slots: each call looks the lane up once, so the channel is replaced once, with a call at the old one; 2 INVITEs accepted and 1 Request executed, so a session is replaced before, during and after an execution of the one before it; more replacements, executions and the pruning are left to the proofs |
| `console` | the 19 invariants below | two handlers of a page at a time, 4 to 6 operator steps: a load, an edit, a save and one disturbance (a second handler, another browser, a crash); two values wherever a property compares them |

The invariants of `console`:

- pages: `SpinnersHonest` (no flag outlives its handler, all pages), `SoloSaveRereads`,
  `LinkageHolds`, `ClosedFormIsState`, `NoticeNamesRestriction`, `PagerHonest`,
  `ChartIsOfSelection`, `ActionIsShown`;
- gateway: `FeedbackBounded` (tune, show, save, tune does not run away),
  `StoredSurvives` (what a save got into the file outlives crash and restart),
  `AuthHasSecret`, `SocketsDistinct` (no two mappings on one address and port),
  `CodesUnique`;
- mock: `JobHonest`, `PoolConsistent`, `ImportRestores`;
- conversions, on every bounded input: `MethodsNormal`, `BaseNormal`; and `TypeOK`.

Several exclude, by a history field, an overlap that the code does get wrong: a load
that overlaps a save may put the old form back under the notice "saved"; two workspace
POSTs that meet half way may lose a password; two settings POSTs that meet half way may
leave memory and file with one of them each; a save whose file could not be written is
answered with success and lost by the next start; a crash while the settings file is cut
short starts the gateway with the defaults, the access policy among them; trends
answered out of order show the earlier selection. The hazards of PROJECT.json say so.

Over UDP `ExecutedOnce` and `SenderClosed` are false: a repeated Request is executed
again, two executions of one call can mix their answers, and a repeated
INVITE leaks the sender it replaces. No document of the relay promises otherwise, so
these are hazards and no run; the two are checked over TCP. A lane's old and new channel
together let more calls through than either has slots, which is listed there, too.

Runs that find what a document or test says violated:

| Run | Property | What happens |
|---|---|---|
| `rtp_stale_length` | `ByeMeansWhole` | ResponseEnd pokes the read deadline; the timeout compares with the length read before, and a short body succeeds |
| `rtp_bye_lost` | `ByeEnds` | the helper takes the BYE token the loop polls for; the loop reads until the body's deadline |
| `relay_degraded` | `DegradedGoesOn` | an AUTO call without a port offers port 0 and is refused with 488 |
| `relay_dialog` | `DialogCloses` | a caller that gives up after 200 OK sends no BYE; the peer keeps session and socket |
| `access_window` | `AccessWindow` | the access log page queries before its watcher has copied the picker's range: figures of all time under the tag "current filter" |

PROJECT.json quotes the lines these contradict. Some more behaviours that the models
have are listed as hazards there and have no run of their own: a media or playback body
goes on after a skipped gap without telling its reader; two packets exchanged at the very
start of a stream lose the first of them, since the first to arrive fixes `expected`;
`gapSince` is kept when a gap closes with another behind it, which then fails early; and
the state page closes the sender of a stream that has reported no stage for 15 minutes.

## 4. Fairness

- `LoopSpec`: the scheduler runs `streamLoop` (a read with a deadline returns), the
  helper, and `ExecuteForward` up to `Stream`. Nothing of network, SIP or reader.
- The console's properties are invariants; no fairness is assumed there.
- `StreamEnds` assumes `DeadlineFires` besides: the body context has a deadline, so it
  fires. `CompleteEnds` does not.
- `FairSpec`: every wait of `ExecuteForward` has a timer, so `Forward(c)` is weakly
  fair. The lane's wait has a timer for small requests; for others the lane is a Go
  channel, which serves waiting senders in turn, hence strong fairness of
  `acquireUDPLane`. `net/http` closes the body of a handler that returns. A SIP handler
  that has found its call does not wait for the channel, so `FillChannel` is weakly fair.
- `AllFairSpec` also lets the peer run and every message arrive. It is used only to
  show that `DialogCloses` fails even then.

## 5. Proofs

The theorems hold for every value of the constants that meets the named assumptions of
the modules; in particular for any number of packets, calls, slots, operator steps and
writes, which TLC bounds. Every invariant of the passing runs is proved (four of
them under a named hypothesis, `HonestLength` or `~Udp`, that the runs meet), and so is
the safety part of the refinement `CallSpec`; what is left to TLC is liveness.

### 5.1 The RTP stream (`SeqSpaceAssumption`, `StreamAssumption`)

- `RtpStreamProofs!InOrder`, `WithinWindow`: `DecodedInOrder`, `PendingInWindow`.
- `RtpBodyProofs!SkipsAreBounded`: `LossBounded`. `StreamTypes`: `TypeOK`.
- `RtpBodyProofs!BodyUnbroken`: `BodyContiguous`.
- `RtpBodyProofs!VerdictIsOne`, `LengthIsWhole`: `OneVerdict` and `LengthMeansWhole`, for
  streams with `HonestLength`: the announced Content-Length is unknown or not less than
  the body. The answering node copies both from its HTTP client, which reads no more of a
  response than its Content-Length. The kinds of `MCRtpStream` satisfy it.

The first two are not inductive. A buffered sequence number says nothing by itself of
which packet it is once the space has wrapped; `BufInv` ties each to a packet number near
the next expected one, which needs that pushed packets are near it, too. `WorkInv`
carries that from the read, where `InSpan` gives it, over the FEC-recovered packet
pushed first, which may move the window; `GroupsInv` says that what FEC recovers
belongs to a group the sender made. The condition `Span + 2 * (MaxWindow + 1) < Half`
is what keeps "behind" and "ahead" apart. Lemmas about `SeqAdd`, `Dist`, `flushReady`,
`Push` and `FastForwardToNextPending` carry the arithmetic.

`Releases` says what a push or a skip releases: a run of packets that starts at most the
tolerance after the last one released. The body rests on it: `SyncInv` relates the open PES unit
(`pes`), what was written and the packets released, through each packet of a run that
`processOrderedPackets` goes over. That loop is a recursive function over the prefix of
the run, and the induction over it is a lemma of its own (`Upto`: a set with 0, closed
under successor up to k, contains 0 .. k), from the least-number principle.
`LengthIsWhole` combines `SyncInv` with `LengthInv` (the length is only lowered, and
never below the body). `VerdictInv` adds to `OneVerdict` that nothing is reported before
the end.

### 5.2 The relay (`RelayAssumption`)

- `RelayCallProofs!CallsCleanUp`: `NothingLeft`; `ImplementsHttpCall`:
  `Spec => Call!SafeSpec`.
- `RelayCallProofs!RelayTypes`: `TypeOK`. `LanesAreHonest`, `SessionsAreLive`: `LaneHonest`,
  `SessionLive`, for any number of lane replacements and of repeated INVITEs and Requests.
- `RelayCallProofs!RequestRunsOnce`, `SendersAreClosed`: `ExecutedOnce`, `SenderClosed`,
  each under `~Udp`. Over UDP they are false.

For the clean-up the inductive invariant is `Shape /\ HandsEmpty /\ Limits`: `HandsEmpty`
also covers a call that waits for the lane, which can fail from there and must not hold
anything; `Limits` adds finiteness, without which cardinalities do not add up. Each step
is shown to be a step of one call that leaves the others alone (`CallStep`); the clean-up
and the refinement follow from that.

`TypeOK` is not inductive, for it says nothing of the messages and executions that the
channels are filled from; `Typed` does. `OnceInv` follows a call through its messages: an
INVITE or a Request exists only from the program counter on that sent it, is alone of its
kind, and excludes what comes after it, so the second execution would need a second
Request. `SenderInv` says that the session of a call has the sender of its execution, or
none because it was closed.

`LaneHonest` needs that a call with a token knows a channel of the table (`LanesTyped`)
and, from `HandsEmpty`, that a call which takes a token has none yet. `SessionInv` adds to
`SessionLive` that no two sessions share a sender and that a new sender is a new one.

### 5.3 The console

| Theorem | Property | What the inductive invariant adds |
|---|---|---|
| `StoreProofs!MappingSocketsDistinct`, `ResourceCodesUnique` | `SocketsDistinct`, `CodesUnique` | for the first, that addresses which are not the same have no socket in common, wildcards included; else nothing: the stores check under their lock, and the proof shows that nothing else writes them |
| `StoreProofs!PoolAddsUp`, `JobsAreHonest` | `PoolConsistent`, `JobHonest` | `MockInv`: the shape of the store and which page may send which request; that a job can fail only while it has not failed |
| `StoreProofs!ImportsRestore` | `ImportRestores` | `TransferInv`: an import that is alone between its halves, with nothing raced, has left its first half in the store |
| `StoreProofs!MethodListsNormal`, `RouterBaseNormal` | `MethodsNormal`, `BaseNormal` | nothing: they hold of every sample, for lists of any length, by induction over the entries (below) |
| `SettingsProofs!FeedbackIsBounded` | `FeedbackBounded` | `FeedbackInv`: every copy of a baseline (store, file, forms, requests half served, answers on the way, two other pages) is in range, since each may become the store |
| `SettingsProofs!SavedSettingsSurvive` | `StoredSurvives` | `StoredInv`: a POST half way is alone and memory has its body, or the page knows that two crossed; `stored` stands only while none is half way |
| `SettingsProofs!SavedIsReread` | `SoloSaveRereads` | `SoloInv`: a save goes through its requests in order, counts its write before it asks again, and is alone under `saving` |
| `PagesProofs!LinkageIsDerived`, `AuthKeepsSecret` | `LinkageHolds`, `AuthHasSecret` | `NodesInv`: answers on the way are derived as well; a store that is not torn has lost no password, so a form that saw one stays right when it is old |
| `PagesProofs!ClosedFormShowsState`, `NoticeIsOfRestriction` | `ClosedFormIsState`, `NoticeNamesRestriction` | `ProtInv`: one restriction is under way, and the input it was read from is locked until its notice |
| `PagesProofs!PagerShowsOneAnswer` | `PagerHonest` | `ListInv`: what is on the way is an answer to one query |
| `PagesProofs!ChartFollowsSelection`, `ActionsAreShown` | `ChartIsOfSelection`, `ActionIsShown` | `MonInv`: with nothing raced one handler is under way, what it asked for is what is selected, and an answer that follows an action is not older than it |
| `ConsoleProofs!SpinnersFall` | `SpinnersHonest` | `Flags`: a flag that is up has a handler that will take it down, which depends on its kind and on how far it is |
| `TypeProofs!ConsoleTypes` | `TypeOK` | `ConsoleTyped`: for each kind of handler of the mounted page, what its requests carry, find half way and are answered with; what an open editor holds |

`SpinnersFall` goes page by page. A step replaces the handler of one slot, so a flag that
is up afterwards is of the handler put there, or was up before and is not of the handler
replaced. Where a button is dead while its flag is up there is at most one such handler;
where it is not (the reload buttons), a flag that goes down early is allowed, and the
property says only that none stays up.

`TypeOK` is not inductive: a store takes its values from a request, a form from an
answer. A few of the types hold only because of the order in which a page does things.
The licence page reads again only after the import was answered, so its notice has a
count. The settings form is posted only after its check, so what is stored is never the
invalid value the form may hold. A restart costs an operator step and only one is under
way, so as many are scheduled as steps were taken. The page that moves configuration
files never meets an empty peer list, for only the peer page deletes.

The conversions loop over lists. A loop is a recursive function over the prefixes of the
list, with its step as an operator (`AddNew`, `AddMark`, `AddWanted`). That such a
function exists is proved once for all of them (`PassExists`), from the least-number
principle of the library's well-founded induction, and what holds of the empty prefix
and is kept by a step holds of the whole list (`AllUpTo`). So induction over the length
of a list is done with sets of numbers, which the provers can instantiate, in place of
the library's induction rules, which they cannot.

Assumed of the constants: `EnteredValues` (there are values to type; bandwidths and limits
are finite sets of positive numbers), `NodeValues` (the network modes are among the four of
`config.NetworkMode`), `MockAssumption` (port ranges and limits are numbers, there is a
snapshot, the mode the mock starts with is one of its modes), `ListAssumption`,
`LongestAssumption`, `ClicksAssumption`, `WritesAssumption` and `BudgetAssumption` (bounds
are numbers, and a route's budget is within the bound), `BindAssumption` and
`PlaceholderAssumption` (the wildcard is no address of the host, the placeholder no slash
or blank), and `CountAssumption` (an empty field is not a number). TLC evaluates them on the run `console`.

What the proofs changed in the models: a CASE of the mock gateway had arms that
overlapped, of which TLC takes the first and the logic any; they are exclusive now.
`processOrderedPackets`, the loops of `Conversions` and the filter of a list
(`Filtered`) are recursive functions instead of folds and `SelectSeq`, so that one can
reason about their steps.

### 5.4 Only model-checked

- Liveness (`CompleteEnds`, `StreamEnds`, `LoopReturns`, the fairness in `CallSpec`), which is out of the
  prover's reach; the safety part of `CallSpec` is proved.
- That the runs' bounds reach the interesting cases (the mutants show it), and the five
  violations, each a behaviour TLC prints.

## 6. Not modelled, and the plan

Modules, as the need arises:

1. `FileReceiver`: chunks lost, repeated and late; a finished file is the file.
2. `TaskEngine`: concurrent operations of several repository calls, a crash between
   them, the in-memory and the SQLite repository; abstract specification: the state
   machines.
3. `TunnelSession`: register, heartbeat, triggers and configuration changes in flight.
4. `UdpLanes` (what gives a device a penalty, one request in flight to a peer),
   `SipTcpServer` (limit, shutdown), `ReplayGuard`.
5. `Catalog`, `MappingRuntime`, `Delivery` (resume, windows, segment cache), `Guards`.

Left out of the console: the router and layout but for the restart button, the static
views (`AlertsCenterView`, `OpsToolsView`), `utils/capability.ts` (warnings shown from one
start-up summary), `TaskDetailView` (one fetch), the message
host, formats of times and numbers, the admin session the settings page keeps in the browser, the
constant answers of the mock and its mapping and resource tables, which repeat what the
stores do.

Left out for good: byte layouts (PS, RTP, SIP text, MANSCDP, SDP), HTTP retry, SQLite
and its retention, configuration files, licences, self-check and load test. They keep no
state that several actors change in an order that matters, or are pure conversions that
unit tests cover.
