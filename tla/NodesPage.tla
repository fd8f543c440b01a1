----------------------------- MODULE NodesPage -----------------------------
(***************************************************************************)
(* The nodes and cascade page (NodesAndTunnelsView.vue) against the        *)
(* workspace handler of the gateway.  The page derives the response        *)
(* channel and the capability matrix from the network mode and the relay   *)
(* mode whenever either changes; the gateway derives them again.  The      *)
(* digest password is write-only: an empty input keeps the stored one.     *)
(* The workspace carries the access policy of the system settings along.   *)
(***************************************************************************)
EXTENDS GatewaySettings

CONSTANTS
  Ranges,      \* mapping port ranges that pass the checks
  BadRange,    \* one that does not (overlaps the SIP or RTP ports)
  Modes,       \* network modes, by the names of the code
  Passwords

\* The values of config.NetworkMode; there is something to choose.
ASSUME NodeValues ==
  /\ Ranges # {} /\ Modes # {}
  /\ Modes \subseteq {"SENDER_SIP__RECEIVER_SIP", "SENDER_SIP__RECEIVER_RTP",
                      "SENDER_SIP__RECEIVER_SIP_RTP", "SENDER_SIP_RTP__RECEIVER_SIP_RTP"}

VARIABLES
  node,        \* local node, tunnelConfig: what the gateway stores
  nodesPage,
  nodesCalls

nodesVars == <<node, nodesPage, nodesCalls>>

RelayModes == {"AUTO", "SIP_ONLY"}

(***************************************************************************)
(* The gateway: DeriveCapability, normalizeTunnelConfigPayload and the     *)
(* workspace handler.                                                      *)
(***************************************************************************)
DeriveCapability(mode) ==
  {"small_request"}
    \cup (IF mode # "SENDER_SIP__RECEIVER_SIP"
          THEN {"large_response", "streaming"} ELSE {})
    \cup (IF mode = "SENDER_SIP_RTP__RECEIVER_SIP_RTP"
          THEN {"large_request", "bidirectional"} ELSE {})

normalizeTunnelConfigPayload(mode, relay) ==
  CASE relay = "SIP_ONLY" \/ mode = "SENDER_SIP__RECEIVER_SIP" -> "SIP"
    [] relay = "AUTO" /\ mode = "SENDER_SIP__RECEIVER_RTP"     -> "RTP"
    [] OTHER                                                   -> "SIP/RTP"

handleNodeTunnelWorkspaceGet ==
  [range |-> node.range, mode |-> node.mode, relay |-> node.relay, code |-> "set",
   channel |-> normalizeTunnelConfigPayload(node.mode, node.relay),
   matrix |-> DeriveCapability(node.mode), auth |-> node.auth,
   configured |-> node.secret # Nothing, access |-> settings.access]

\* The POST, up to the store of nodes, which has its own lock, and the read of
\* the tunnel settings it will replace, which takes none (SecretToStore; an empty
\* password input is Nothing).
ApplyWorkspace(body) ==
  /\ node' = [node EXCEPT !.range = body.range, !.mode = body.mode]
  /\ UNCHANGED gatewayVars

\* Mutant of SecretToStore: an empty input clears the password.
SecretToStoreCleared(password) == password

SecretToStore(password) == IF password = Nothing THEN node.secret ELSE password

\* The rest, under the handler's lock, and the files, whose errors are dropped.
\* `torn`, kept for the properties: the password was changed after it had been
\* read as `was`, and the change is lost.
handleNodeTunnelWorkspacePost(body, secret, was) ==
  /\ settings.writes < MaxWrites
  /\ node' = [node EXCEPT !.relay = body.relay, !.auth = body.auth, !.secret = secret,
                          !.torn = @ \/ was # node.secret]
  /\ settings' = [settings EXCEPT !.access = body.access, !.writes = @ + 1]
  /\ disk' \in {[keep |-> settings.keep, access |-> body.access, mbps |-> settings.base],
                disk, Nothing}
  /\ UNCHANGED running

TunnelConfigPayload ==
  [range : Ranges, mode : Modes, relay : RelayModes, auth : BOOLEAN,
   secret : Maybe(Passwords), torn : BOOLEAN]

NodeStores ==
  {n \in TunnelConfigPayload : (n.auth => n.secret # Nothing) /\ ~n.torn}

NodesInit(stores) ==
  /\ node \in stores
  /\ nodesPage = [ws |-> Nothing, input |-> Nothing, loading |-> FALSE, saving |-> FALSE,
                  error |-> FALSE, notice |-> ""]
  /\ nodesCalls = NoCalls

(***************************************************************************)
(* The page's own derivations.                                             *)
(***************************************************************************)
deriveCapabilityMatrix(mode) ==
  CASE mode = "SENDER_SIP__RECEIVER_SIP" -> {"small_request"}
    [] mode \in {"SENDER_SIP__RECEIVER_RTP", "SENDER_SIP__RECEIVER_SIP_RTP"}
         -> {"small_request", "large_response", "streaming"}
    [] OTHER -> {"small_request", "large_request", "large_response", "streaming", "bidirectional"}

applyNetworkModeLinkage(ws) ==
  [ws EXCEPT !.matrix = deriveCapabilityMatrix(ws.mode),
             !.channel = IF ws.mode = "SENDER_SIP__RECEIVER_SIP" \/ ws.relay = "SIP_ONLY" THEN "SIP"
                         ELSE IF ws.mode = "SENDER_SIP__RECEIVER_RTP" THEN "RTP" ELSE "SIP/RTP"]

\* generateLocalNodeCode and generatePeerNodeCode, for a code that is empty.
generateNodeCodes(ws) == [ws EXCEPT !.code = "set"]

NodesValidate(ws, input) ==
  /\ ws.range # BadRange
  /\ ws.auth => input # Nothing \/ ws.configured

(***************************************************************************)
(* load, save: POST, then GET, then a comparison of the port range.        *)
(***************************************************************************)
NodesLoad ==
  /\ Click
  /\ \E s \in Free(nodesCalls) :
       nodesCalls' = Put(nodesCalls, s, [op |-> "load", post |-> Unsent, get |-> Sent(Nothing)])
  /\ nodesPage' = [nodesPage EXCEPT !.loading = TRUE, !.error = FALSE, !.notice = ""]
  /\ UNCHANGED <<node, gatewayVars>>

NodesLoaded(s) ==
  /\ nodesCalls[s].op = "load" /\ nodesCalls[s].get.at = "served"
  /\ nodesPage' = [nodesPage EXCEPT !.ws = applyNetworkModeLinkage(nodesCalls[s].get.with),
                                    !.input = Nothing, !.loading = FALSE]
  /\ nodesCalls' = Put(nodesCalls, s, Idle)
  /\ UNCHANGED <<node, clicks, gatewayVars>>

\* Empty codes are generated before the checks, and stay when the checks fail.
NodesSave ==
  /\ nodesPage.ws # Nothing /\ ~nodesPage.saving
  /\ Click
  /\ LET ws == generateNodeCodes(nodesPage.ws) IN
     IF ~NodesValidate(ws, nodesPage.input)
     THEN /\ nodesPage' = [nodesPage EXCEPT !.ws = ws]
          /\ UNCHANGED nodesCalls
     ELSE /\ nodesPage' = [nodesPage EXCEPT !.ws = ws, !.saving = TRUE, !.error = FALSE, !.notice = ""]
          /\ \E s \in Free(nodesCalls) :
               nodesCalls' = Put(nodesCalls, s,
                 [op |-> "save", get |-> Unsent,
                  post |-> Sent([ws |-> ws, password |-> nodesPage.input])])
  /\ UNCHANGED <<node, gatewayVars>>

NodesReread(s) ==
  /\ nodesCalls[s].op = "save" /\ nodesCalls[s].post.at = "served" /\ nodesCalls[s].get.at = "unsent"
  /\ nodesCalls' = [nodesCalls EXCEPT ![s].get = Sent(Nothing)]
  /\ UNCHANGED <<node, nodesPage, clicks, gatewayVars>>

\* A range other than the posted one is reported, the form is taken anyway.
NodesApplied(s) ==
  LET got == nodesCalls[s].get.with
      same == got.range = nodesCalls[s].post.with IN
  /\ nodesCalls[s].op = "save" /\ nodesCalls[s].get.at = "served"
  /\ nodesPage' = [nodesPage EXCEPT !.ws = applyNetworkModeLinkage(got), !.input = Nothing,
                                    !.saving = FALSE, !.error = ~same,
                                    !.notice = IF same THEN "applied" ELSE ""]
  /\ nodesCalls' = Put(nodesCalls, s, Idle)
  /\ UNCHANGED <<node, clicks, gatewayVars>>

NodesFails(s) ==
  /\ nodesCalls[s].op \in {"load", "save"}
  /\ nodesPage' = [nodesPage EXCEPT !.error = TRUE,
                                    !.loading = @ /\ nodesCalls[s].op # "load",
                                    !.saving = @ /\ nodesCalls[s].op # "save"]
  /\ nodesCalls' = IF nodesCalls[s].post.at \in {"sent", "read"} THEN Leave(nodesCalls, s)
                   ELSE Put(nodesCalls, s, Idle)
  /\ UNCHANGED <<node, clicks, gatewayVars>>

NodesLeft(s) ==
  /\ nodesCalls[s].op = "left" /\ nodesCalls[s].post.at # "read"
  /\ nodesCalls' = Put(nodesCalls, s, Idle)
  /\ UNCHANGED <<node, nodesPage, clicks, gatewayVars>>

NodesServeGet(s) ==
  /\ nodesCalls[s].op \in {"load", "save"} /\ nodesCalls[s].get.at = "sent"
  /\ nodesCalls' = [nodesCalls EXCEPT ![s].get = Served(handleNodeTunnelWorkspaceGet)]
  /\ UNCHANGED <<node, nodesPage, clicks, gatewayVars>>

\* The posted range is kept to compare the re-read one with (expectedStart, expectedEnd).
NodesServePost(s) ==
  LET sent == nodesCalls[s].post.with IN
  /\ nodesCalls[s] # Idle
  /\ \/ /\ nodesCalls[s].post.at = "sent"
        /\ ApplyWorkspace(sent.ws)
        /\ nodesCalls' = [nodesCalls EXCEPT ![s].post =
             Read([ws |-> sent.ws, secret |-> SecretToStore(sent.password), was |-> node.secret])]
     \/ /\ nodesCalls[s].post.at = "read"
        /\ handleNodeTunnelWorkspacePost(sent.ws, sent.secret, sent.was)
        /\ nodesCalls' = [nodesCalls EXCEPT ![s].post = Served(sent.ws.range)]
  /\ UNCHANGED <<nodesPage, clicks>>

\* The same page in another browser: nobody here waits for its save.
OtherWorkspaceSave ==
  /\ Click
  /\ \E range \in Ranges, auth \in BOOLEAN, s \in Free(nodesCalls) :
       LET ws == [handleNodeTunnelWorkspaceGet EXCEPT !.range = range, !.auth = auth] IN
       /\ NodesValidate(ws, Nothing)
       /\ nodesCalls' = Put(nodesCalls, s, [op |-> "left", get |-> Unsent,
                                            post |-> Sent([ws |-> ws, password |-> Nothing])])
  /\ UNCHANGED <<node, nodesPage, gatewayVars>>

\* An edit, and the watcher that follows a change of either mode.
NodesEdit ==
  /\ nodesPage.ws # Nothing /\ ~nodesPage.loading /\ ~nodesPage.saving
  /\ Click
  /\ \/ \E v \in Ranges \cup {BadRange} : nodesPage' = [nodesPage EXCEPT !.ws.range = v]
     \/ nodesPage' = [nodesPage EXCEPT !.ws.code = ""]
     \/ nodesPage' = [nodesPage EXCEPT !.ws.auth = ~@]
     \/ nodesPage.ws.auth /\ \E p \in Passwords : nodesPage' = [nodesPage EXCEPT !.input = p]
  /\ UNCHANGED <<node, nodesCalls, gatewayVars>>

NodesEditMode ==
  /\ nodesPage.ws # Nothing /\ ~nodesPage.loading /\ ~nodesPage.saving
  /\ Click
  /\ \E mode \in Modes :
       nodesPage' = [nodesPage EXCEPT !.ws = applyNetworkModeLinkage([@ EXCEPT !.mode = mode])]
  /\ UNCHANGED <<node, nodesCalls, gatewayVars>>

\* Mutant of NodesEditRelay: only the network mode is watched.
NodesEditRelayUnwatched ==
  /\ nodesPage.ws # Nothing /\ ~nodesPage.loading /\ ~nodesPage.saving
  /\ Click
  /\ \E relay \in RelayModes : nodesPage' = [nodesPage EXCEPT !.ws.relay = relay]
  /\ UNCHANGED <<node, nodesCalls, gatewayVars>>

NodesEditRelay ==
  /\ nodesPage.ws # Nothing /\ ~nodesPage.loading /\ ~nodesPage.saving
  /\ Click
  /\ \E relay \in RelayModes :
       nodesPage' = [nodesPage EXCEPT !.ws = applyNetworkModeLinkage([@ EXCEPT !.relay = relay])]
  /\ UNCHANGED <<node, nodesCalls, gatewayVars>>

NodesNext ==
  \/ NodesLoad \/ NodesSave \/ OtherWorkspaceSave
  \/ NodesEdit \/ NodesEditMode \/ NodesEditRelay
  \/ \E s \in Slots :
       \/ NodesLoaded(s) \/ NodesReread(s) \/ NodesApplied(s) \/ NodesFails(s) \/ NodesLeft(s)
       \/ NodesServeGet(s) \/ NodesServePost(s)

(***************************************************************************)
(* What the page shows as response channel and capabilities is what the    *)
(* gateway will use for the mode and relay mode on the screen, after any   *)
(* sequence of loads, edits, saves and late answers (the two watchers,     *)
(* deriveCapabilityMatrix and the gateway's own derivations agree).        *)
(***************************************************************************)
LinkageHolds ==
  nodesPage.ws # Nothing =>
    LET ws == nodesPage.ws IN
    /\ ws.channel = normalizeTunnelConfigPayload(ws.mode, ws.relay)
    /\ ws.matrix = DeriveCapability(ws.mode)

(***************************************************************************)
(* Digest authentication is never on without a password, unless two POSTs  *)
(* met half way and a password was lost: only the page checks it, against  *)
(* a flag that may be stale, and every save with an empty input must have  *)
(* kept the stored one (NodesAndTunnelsView.vue:203).                      *)
(***************************************************************************)
AuthHasSecret == node.auth /\ ~node.torn => node.secret # Nothing

\* The nodes page's spinner turns only while a handler that stops it is under way.
NodesSpinner ==
  /\ nodesPage.loading => Waiting(nodesCalls, "load") # {}
  /\ nodesPage.saving <=> Waiting(nodesCalls, "save") # {}

\* The types of the page.
TunnelConfigCapability ==
  SUBSET {"small_request", "large_request", "large_response", "streaming", "bidirectional"}

NodeTunnelWorkspace ==
  [range : Ranges \cup {BadRange}, mode : Modes, relay : RelayModes, code : {"", "set"},
   channel : {"SIP", "RTP", "SIP/RTP"}, matrix : TunnelConfigCapability,
   auth : BOOLEAN, configured : BOOLEAN, access : StoredAccesses]

NodesTypeOK ==
  /\ node \in TunnelConfigPayload
  /\ nodesPage \in
       [ws : Maybe(NodeTunnelWorkspace), input : Maybe(Passwords), loading : BOOLEAN,
        saving : BOOLEAN, error : BOOLEAN, notice : {"", "applied"}]
  /\ nodesCalls \in [Slots -> {Idle}
       \cup [op : {"load", "save", "left"},
             post : Requests([ws : NodeTunnelWorkspace, password : Maybe(Passwords)],
                             [ws : NodeTunnelWorkspace, secret : Maybe(Passwords),
                              was : Maybe(Passwords)],
                             Ranges),
             get : Requests({Nothing}, {}, NodeTunnelWorkspace)]]
=============================================================================
