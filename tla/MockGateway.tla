---------------------------- MODULE MockGateway ----------------------------
(***************************************************************************)
(* The in-memory gateway of gateway-ui (api/mockGateway.ts) and the node   *)
(* and tunnel configuration pages that run against it: TunnelConfigView,   *)
(* LocalNodeConfigView, PeerNodeConfigView, NodeConfigView.  One page is   *)
(* open, or none ("api") while the mock's own functions are called: export *)
(* and import of the configuration, network settings, roll back of a       *)
(* snapshot, diagnosis export jobs.  Every function waits before it acts,  *)
(* and export and import wait a second time half way.                      *)
(***************************************************************************)
EXTENDS PageCalls, SequencesExt

CONSTANTS
  NodeIds,     \* device codes
  Addresses,   \* node addresses
  MockModes,   \* network modes, by the names of the code
  RtpRanges,   \* RTP port ranges: pairs of numbers, maybe out of order
  Transfers,   \* values of maxConcurrentTransfers
  Versions     \* config snapshots

ASSUME MockAssumption ==
  /\ RtpRanges \subseteq Nat \X Nat /\ Transfers \subseteq Nat /\ Versions # {}
  /\ "SENDER_SIP__RECEIVER_RTP" \in MockModes     \* what the mock starts with

VARIABLES
  store,       \* localNodeState, peerNodeState, tunnelConfigState, networkConfigState, ...
  cfgPage,
  cfgCalls

mockVars == <<store, cfgPage, cfgCalls>>

deriveTunnelCapability(mode) ==
  CASE mode = "SENDER_SIP_RTP__RECEIVER_SIP_RTP"
         -> {"small_request", "large_request", "large_response", "streaming", "bidirectional"}
    [] mode = "SENDER_SIP__RECEIVER_SIP" -> {"small_request"}
    [] mode \in {"SENDER_SIP__RECEIVER_RTP", "SENDER_SIP__RECEIVER_SIP_RTP"}
         -> {"small_request", "large_response", "streaming"}
    [] OTHER -> {}

tunnelConfigState(mode) == [mode |-> mode, capability |-> deriveTunnelCapability(mode)]

\* A scaled-down copy of the mock's first values.
networkConfigState ==
  [ports |-> <<1, 10>>, most |-> 4, pool |-> [total |-> 10, occupied |-> 2, active |-> 1]]

localNodeState(id, address) == [id |-> id, ip |-> address]

peerNodeState(id, address) == <<[id |-> id, ip |-> address]>>

configSnapshotsSeed ==
  [v \in Versions |-> IF v = CHOOSE u \in Versions : TRUE THEN "active" ELSE "archived"]

\* A page, and the two nodes of the store.
MockStores ==
  {x \in [kind : {"tunnel", "local", "peer", "node", "transfer", "api"},
          mine : NodeIds, other : NodeIds, ip : Addresses] : x.mine # x.other}

MockInit(stores) ==
  /\ \E x \in stores :
       /\ store = [local |-> localNodeState(x.mine, x.ip), peers |-> peerNodeState(x.other, x.ip),
                   tunnel |-> tunnelConfigState("SENDER_SIP__RECEIVER_RTP"), net |-> networkConfigState,
                   snaps |-> configSnapshotsSeed, job |-> Nothing]
       /\ cfgPage = [kind |-> x.kind, draft |-> Nothing, saving |-> FALSE, acting |-> FALSE,
                     open |-> "", file |-> Nothing, raced |-> FALSE]
  /\ cfgCalls = NoCalls

(***************************************************************************)
(* What the functions do to the store once their wait is over.             *)
(***************************************************************************)
saveTunnelConfigMock(st, mode) == [st EXCEPT !.tunnel = tunnelConfigState(mode)]

updateLocalNodeMock(st, local) == [st EXCEPT !.local = local]

createPeerMock(st, peer) == [st EXCEPT !.peers = Append(@, peer)]

IndexOf(peers, id) == SelectInSeq(peers, LAMBDA p : p.id = id)

updatePeerMock(st, peer) ==
  [st EXCEPT !.peers = [@ EXCEPT ![IndexOf(st.peers, peer.id)] = peer]]

deletePeerMock(st, id) == [st EXCEPT !.peers = Filtered(@, {p \in ToSet(@) : p.id # id})]

fetchNodeConfigMock(st) ==
  [local |-> st.local,
   peer |-> IF st.peers = <<>> THEN [id |-> "", ip |-> ""] ELSE st.peers[1]]

\* Mutant of saveNodeConfigMock: a peer that is known already is left as it is.
saveNodeConfigKeepingPeer(st, config) ==
  [st EXCEPT !.local = config.local,
             !.peers = IF IndexOf(@, config.peer.id) > 0 THEN @ ELSE <<config.peer>> \o @]

saveNodeConfigMock(st, config) ==
  [st EXCEPT !.local = config.local,
             !.peers = IF IndexOf(@, config.peer.id) > 0
                       THEN [@ EXCEPT ![IndexOf(st.peers, config.peer.id)] = config.peer]
                       ELSE <<config.peer>> \o @]

\* Math.round(x * percent / 100)
Part(x, percent) == (x * percent + 50) \div 100

Least(a, b) == IF a < b THEN a ELSE b

\* Mutant of updateNetworkConfigMock: the occupied ports are not capped by the range.
updateNetworkConfigUncapped(st, ports, most) ==
  LET total == IF ports[2] < ports[1] THEN 0 ELSE ports[2] - ports[1] + 1 IN
  [st EXCEPT !.net = [ports |-> ports, most |-> most,
                      pool |-> [total |-> total, occupied |-> Part(most, 60), active |-> Part(most, 35)]]]

updateNetworkConfigMock(st, ports, most) ==
  LET total == IF ports[2] < ports[1] THEN 0 ELSE ports[2] - ports[1] + 1
      occupied == Least(total, Part(most, 60)) IN
  [st EXCEPT !.net = [ports |-> ports, most |-> most,
                      pool |-> [total |-> total, occupied |-> occupied,
                                active |-> Least(occupied, Part(most, 35))]]]

\* The version is any string: one that is not known leaves no snapshot active.
rollbackConfigMock(st, version) ==
  [st EXCEPT !.snaps = [v \in Versions |->
     IF v = version THEN "active" ELSE IF @[v] = "active" THEN "archived" ELSE @[v]]]

\* `fails`, kept for the property: how often the job has failed.
createDiagnosticExportMock(st, failOnce) ==
  [st EXCEPT !.job = [status |-> "pending", polls |-> 0, done |-> 0, url |-> FALSE,
                      error |-> FALSE, failOnce |-> failOnce, fails |-> 0]]

getDiagnosticExportMock(st) ==
  LET job == st.job
      progress == Least(100, (job.polls + 1) * 25)
      polled == [job EXCEPT !.polls = @ + 1, !.done = (progress * 7) \div 100,
                            !.status = IF progress < 40 THEN "collecting" ELSE "packaging"] IN
  [st EXCEPT !.job =
     IF job.status \in {"succeeded", "failed"} THEN job
     ELSE IF progress < 100 THEN polled
     ELSE IF job.failOnce THEN [polled EXCEPT !.status = "failed", !.error = TRUE,
                                              !.failOnce = FALSE, !.fails = @ + 1]
     ELSE [polled EXCEPT !.status = "succeeded", !.error = FALSE, !.url = TRUE]]

\* Mutant of retryDiagnosticExportMock: the download of the first attempt stays.
retryDiagnosticExportKeeping(st) ==
  [st EXCEPT !.job = [@ EXCEPT !.status = "pending", !.polls = 0, !.done = 0, !.error = FALSE]]

retryDiagnosticExportMock(st) ==
  [st EXCEPT !.job = [@ EXCEPT !.status = "pending", !.polls = 0, !.done = 0,
                               !.url = FALSE, !.error = FALSE]]

(***************************************************************************)
(* The pages.  Each handler sends, and after its own request loads.        *)
(***************************************************************************)
CfgBegin(op, act, get) ==
  /\ Click
  /\ \E s \in Free(cfgCalls) : cfgCalls' = Put(cfgCalls, s, [op |-> op, act |-> act, get |-> get])
  /\ UNCHANGED store

CfgLoad(kind) ==
  /\ cfgPage.kind = kind /\ CfgBegin("load", Unsent, Sent(Nothing)) /\ UNCHANGED cfgPage

TunnelLoad == CfgLoad("tunnel")

LocalLoad == CfgLoad("local")

PeerLoad == CfgLoad("peer")

NodeConfigLoad == CfgLoad("node")

Fetched ==
  CASE cfgPage.kind = "tunnel" -> store.tunnel.mode
    [] cfgPage.kind = "local" -> store.local
    [] cfgPage.kind = "peer" -> store.peers
    [] cfgPage.kind = "node" -> fetchNodeConfigMock(store)

Drafted(kind) == cfgPage.kind = kind /\ cfgPage.draft # Nothing

TunnelSave ==
  /\ Drafted("tunnel") /\ ~cfgPage.saving
  /\ CfgBegin("save", Sent(cfgPage.draft), Unsent)
  /\ cfgPage' = [cfgPage EXCEPT !.saving = TRUE]

\* triggerTunnelSessionAction changes nothing in the store.
TunnelAction ==
  /\ cfgPage.kind = "tunnel" /\ ~cfgPage.acting
  /\ CfgBegin("action", Sent(Nothing), Unsent)
  /\ cfgPage' = [cfgPage EXCEPT !.acting = TRUE]

LocalSave ==
  /\ Drafted("local") /\ ~cfgPage.saving
  /\ CfgBegin("save", Sent(cfgPage.draft), Unsent)
  /\ cfgPage' = [cfgPage EXCEPT !.saving = TRUE]

NodeConfigSave ==
  /\ Drafted("node") /\ ~cfgPage.saving
  /\ CfgBegin("save", Sent(cfgPage.draft), Unsent)
  /\ cfgPage' = [cfgPage EXCEPT !.saving = TRUE]

\* The drawer of the peer page, with what the operator filled in.  No flag
\* keeps a second press of its save button away.
PeerOpen ==
  /\ Drafted("peer") /\ cfgPage.open = ""
  /\ Click
  /\ cfgPage' \in {[cfgPage EXCEPT !.open = mode] : mode \in {"create", "edit"}}
  /\ UNCHANGED <<store, cfgCalls>>

PeerSave ==
  /\ Drafted("peer") /\ cfgPage.open # ""
  /\ \E id \in IF cfgPage.open = "create" THEN NodeIds ELSE {p.id : p \in ToSet(cfgPage.draft)},
        address \in Addresses :
       CfgBegin(cfgPage.open, Sent([id |-> id, ip |-> address]), Unsent)
  /\ UNCHANGED cfgPage

PeerRemove ==
  /\ Drafted("peer") /\ cfgPage.open = ""
  /\ \E p \in ToSet(cfgPage.draft) : CfgBegin("remove", Sent(p), Unsent)
  /\ UNCHANGED cfgPage

TunnelEdit ==
  /\ Drafted("tunnel") /\ Click
  /\ cfgPage' \in {[cfgPage EXCEPT !.draft = mode] : mode \in MockModes}
  /\ UNCHANGED <<store, cfgCalls>>

LocalEdit ==
  /\ Drafted("local") /\ Click
  /\ cfgPage' \in {[cfgPage EXCEPT !.draft.ip = address] : address \in Addresses}
  /\ UNCHANGED <<store, cfgCalls>>

NodeConfigEdit ==
  /\ Drafted("node") /\ Click
  /\ cfgPage' \in {[cfgPage EXCEPT !.draft.peer.id = id] : id \in NodeIds}
  /\ UNCHANGED <<store, cfgCalls>>

\* The mock carries out a handler's own request; an unknown peer is an error.
CfgServeAct(s) ==
  LET call == cfgCalls[s]
      with == call.act.with
      found == call.op = "edit" => IndexOf(store.peers, with.id) > 0 IN
  /\ call.op \notin {"idle", "import", "export"} /\ call.act.at = "sent"
  /\ store' = CASE call.op = "action" \/ ~found -> store
                [] call.op = "create" -> createPeerMock(store, with)
                [] call.op = "edit" /\ found -> updatePeerMock(store, with)
                [] call.op = "remove" -> deletePeerMock(store, with.id)
                [] call.op = "save" /\ cfgPage.kind = "tunnel" -> saveTunnelConfigMock(store, with)
                [] call.op = "save" /\ cfgPage.kind = "local" -> updateLocalNodeMock(store, with)
                [] call.op = "save" /\ cfgPage.kind = "node" -> saveNodeConfigMock(store, with)
  /\ cfgCalls' = IF found THEN [cfgCalls EXCEPT ![s].act = Served(Nothing)] ELSE Put(cfgCalls, s, Idle)
  /\ UNCHANGED <<cfgPage, clicks>>

CfgActed(s) ==
  /\ cfgCalls[s].op \notin {"idle", "import", "export"}
  /\ cfgCalls[s].act.at = "served" /\ cfgCalls[s].get.at = "unsent"
  /\ cfgPage' = [cfgPage EXCEPT !.open = IF cfgCalls[s].op \in {"create", "edit"} THEN "" ELSE @]
  /\ cfgCalls' = [cfgCalls EXCEPT ![s].get = Sent(Nothing)]
  /\ UNCHANGED <<store, clicks>>

CfgServeGet(s) ==
  /\ cfgCalls[s].op \notin {"idle", "import", "export"} /\ cfgCalls[s].get.at = "sent"
  /\ cfgCalls' = [cfgCalls EXCEPT ![s].get = Served(Fetched)]
  /\ UNCHANGED <<store, cfgPage, clicks>>

CfgLoaded(s) ==
  /\ cfgCalls[s].op \notin {"idle", "import", "export"} /\ cfgCalls[s].get.at = "served"
  /\ cfgPage' = [cfgPage EXCEPT !.draft = cfgCalls[s].get.with,
                   !.saving = @ /\ cfgCalls[s].op # "save", !.acting = @ /\ cfgCalls[s].op # "action"]
  /\ cfgCalls' = Put(cfgCalls, s, Idle)
  /\ UNCHANGED <<store, clicks>>

(***************************************************************************)
(* Export: network and tunnel are copied, the node part after a second     *)
(* wait.  Import: network and tunnel are replaced, the node part is saved  *)
(* after a second wait.  The pool of the network part is not computed      *)
(* again.                                                                  *)
(***************************************************************************)
ExportBegin ==
  /\ cfgPage.kind = "transfer"
  /\ CfgBegin("export", Sent(Nothing), Unsent) /\ UNCHANGED cfgPage

exportConfigJsonMock(s) ==
  LET call == cfgCalls[s]
      net == [ports |-> store.net.ports, most |-> store.net.most] IN
  /\ call.op = "export"
  /\ \/ /\ call.act.at = "sent"
        /\ cfgCalls' = [cfgCalls EXCEPT ![s].act = Read([net |-> net, tunnel |-> store.tunnel])]
        /\ UNCHANGED cfgPage
     \/ /\ call.act.at = "read"
        /\ cfgPage' = [cfgPage EXCEPT !.file = [net |-> call.act.with.net, tunnel |-> call.act.with.tunnel,
                                                node |-> fetchNodeConfigMock(store)]]
        /\ cfgCalls' = Put(cfgCalls, s, Idle)
  /\ UNCHANGED <<store, clicks>>

ImportBegin ==
  /\ cfgPage.kind = "transfer" /\ cfgPage.file # Nothing
  /\ CfgBegin("import", Sent(cfgPage.file), Unsent) /\ UNCHANGED cfgPage

\* `draft` of the transfer page is what was imported last, `raced` whether
\* anything else was under way or was changed since it began.
importConfigJsonMock(s) ==
  LET call == cfgCalls[s]
      file == call.act.with IN
  /\ call.op = "import"
  /\ \/ /\ call.act.at = "sent"
        /\ store' = [store EXCEPT !.net.ports = file.net.ports, !.net.most = file.net.most,
                                  !.tunnel = file.tunnel]
        /\ cfgCalls' = [cfgCalls EXCEPT ![s].act = Read(file)]
        /\ cfgPage' = [cfgPage EXCEPT !.raced = FALSE]
     \/ /\ call.act.at = "read"
        /\ store' = saveNodeConfigMock(store, file.node)
        /\ cfgCalls' = Put(cfgCalls, s, Idle)
        /\ cfgPage' = [cfgPage EXCEPT !.draft = file,
                         !.raced = @ \/ \E t \in Slots \ {s} : cfgCalls[t].op = "import"]
  /\ UNCHANGED clicks

\* The other calls of the mock, each in one step after its wait.
MockCall ==
  /\ cfgPage.kind \in {"transfer", "api"}
  /\ Click
  /\ \/ \E mode \in MockModes : store' = saveTunnelConfigMock(store, mode)
     \/ \E id \in NodeIds, address \in Addresses :
          store' = saveNodeConfigMock(store, [local |-> store.local, peer |-> [id |-> id, ip |-> address]])
     \/ \E address \in Addresses :
          \/ store' = updateLocalNodeMock(store, [store.local EXCEPT !.ip = address])
          \/ store' = updatePeerMock(store, [store.peers[1] EXCEPT !.ip = address])
     \/ \E ports \in RtpRanges, most \in Transfers : store' = updateNetworkConfigMock(store, ports, most)
  /\ cfgPage' = [cfgPage EXCEPT !.raced = TRUE]
  /\ UNCHANGED cfgCalls

SnapshotCall ==
  /\ cfgPage.kind = "api" /\ Click
  /\ \E version \in Maybe(Versions) : store' = rollbackConfigMock(store, version)
  /\ UNCHANGED <<cfgPage, cfgCalls>>

\* A job is polled without the operator doing anything.
JobCall ==
  /\ cfgPage.kind = "api"
  /\ \/ /\ store.job = Nothing /\ Click
        /\ \E failOnce \in BOOLEAN : store' = createDiagnosticExportMock(store, failOnce)
     \/ store.job # Nothing /\ store' = getDiagnosticExportMock(store) /\ UNCHANGED clicks
     \/ store.job # Nothing /\ Click /\ store' = retryDiagnosticExportMock(store)
  /\ UNCHANGED <<cfgPage, cfgCalls>>

MockNext ==
  \/ TunnelLoad \/ LocalLoad \/ PeerLoad \/ NodeConfigLoad
  \/ TunnelSave \/ TunnelAction \/ LocalSave \/ NodeConfigSave \/ PeerOpen \/ PeerSave \/ PeerRemove
  \/ TunnelEdit \/ LocalEdit \/ NodeConfigEdit
  \/ ExportBegin \/ ImportBegin \/ MockCall \/ SnapshotCall \/ JobCall
  \/ \E s \in Slots :
       \/ CfgServeAct(s) \/ CfgActed(s) \/ CfgServeGet(s) \/ CfgLoaded(s)
       \/ exportConfigJsonMock(s) \/ importConfigJsonMock(s)

(***************************************************************************)
(* A diagnosis job never contradicts itself under any order of polls and   *)
(* retries: a download is offered only of a job that succeeded, an error   *)
(* is shown only of one that failed, all seven sections are done exactly   *)
(* when it ended, and a retry of a job that failed does not fail again     *)
(* (getDiagnosticExportMock, retryDiagnosticExportMock).                   *)
(***************************************************************************)
JobHonest ==
  store.job # Nothing =>
    LET job == store.job IN
    /\ job.url <=> job.status = "succeeded"
    /\ job.error <=> job.status = "failed"
    /\ job.done = 7 <=> job.status \in {"succeeded", "failed"}
    /\ job.fails <= 1

(***************************************************************************)
(* The port pool adds up: no more transfers than occupied ports, and no    *)
(* more of those than ports, for ranges that are empty or out of order and *)
(* after an import that leaves the pool as it was                          *)
(* (updateNetworkConfigMock, importConfigJsonMock).                        *)
(***************************************************************************)
PoolConsistent ==
  LET pool == store.net.pool IN pool.active <= pool.occupied /\ pool.occupied <= pool.total

(***************************************************************************)
(* An import that nothing overlapped leaves the configuration of the file: *)
(* network, tunnel and local node are the file's, and its peer is listed   *)
(* as the file has it, although the file may have been torn by a change    *)
(* between the two halves of its export (importConfigJsonMock).            *)
(***************************************************************************)
ImportRestores ==
  cfgPage.kind = "transfer" /\ cfgPage.draft # Nothing /\ ~cfgPage.raced
    /\ Waiting(cfgCalls, "import") = {}
    => LET file == cfgPage.draft IN
       /\ store.net.ports = file.net.ports /\ store.net.most = file.net.most
       /\ store.tunnel = file.tunnel
       /\ store.local = file.node.local
       /\ file.node.peer \in ToSet(store.peers)

\* A flag of a configuration page is set only while a handler that clears it is under way.
ConfigSpinner ==
  /\ cfgPage.saving => Waiting(cfgCalls, "save") # {}
  /\ cfgPage.acting => Waiting(cfgCalls, "action") # {}

\* The types of the store and of the pages.
MockNodes == [id : NodeIds \cup {""}, ip : Addresses \cup {""}]

NodeConfigPayload == [local : MockNodes, peer : MockNodes]

TunnelConfigs ==
  [mode : MockModes,
   capability : SUBSET {"small_request", "large_request", "large_response", "streaming",
                        "bidirectional"}]

UpdateNetworkConfigPayload == [ports : Nat \X Nat, most : Nat]

NetworkConfigPayload ==
  [ports : Nat \X Nat, most : Nat, pool : [total : Nat, occupied : Nat, active : Nat]]

ConfigTransferPayload ==
  [net : UpdateNetworkConfigPayload, tunnel : TunnelConfigs, node : NodeConfigPayload]

DiagnosticExportJob ==
  [status : {"pending", "collecting", "packaging", "succeeded", "failed"}, polls : Nat,
   done : 0 .. 7, url : BOOLEAN, error : BOOLEAN, failOnce : BOOLEAN, fails : Nat]

\* What the page of a kind edits.
Drafts(kind) ==
  CASE kind = "tunnel" -> MockModes
    [] kind = "local" -> MockNodes
    [] kind = "peer" -> Seq(MockNodes)
    [] kind = "node" -> NodeConfigPayload
    [] kind = "transfer" -> ConfigTransferPayload
    [] OTHER -> {}

MockTypeOK ==
  /\ store \in
       [local : MockNodes, peers : Seq(MockNodes), tunnel : TunnelConfigs,
        net : NetworkConfigPayload, snaps : [Versions -> {"active", "archived"}],
        job : Maybe(DiagnosticExportJob)]
  /\ cfgPage \in
       [kind : {"tunnel", "local", "peer", "node", "transfer", "api"}, saving : BOOLEAN,
        draft : Maybe(Drafts(cfgPage.kind)), acting : BOOLEAN, open : {"", "create", "edit"},
        file : Maybe(ConfigTransferPayload), raced : BOOLEAN]
  /\ \A s \in Slots : cfgCalls[s] # Idle =>
       /\ cfgCalls[s].op \in {"load", "save", "action", "create", "edit", "remove",
                              "export", "import"}
       /\ cfgCalls[s].act \in
            Requests(Maybe(IF cfgCalls[s].op \in {"create", "edit", "remove"} THEN MockNodes
                           ELSE Drafts(cfgPage.kind)),
                     IF cfgCalls[s].op = "import" THEN ConfigTransferPayload
                     ELSE [net : UpdateNetworkConfigPayload, tunnel : TunnelConfigs],
                     {Nothing})
       /\ cfgCalls[s].get \in Requests({Nothing}, {}, Drafts(cfgPage.kind))
=============================================================================
