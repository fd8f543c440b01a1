---------------------------- MODULE MappingPage ----------------------------
(***************************************************************************)
(* The tunnel mappings page (TunnelMappingsView.vue) against the mapping   *)
(* store and the node's mapping port range.  A load reads the overview,    *)
(* the mappings and the workspace in parallel, each at its own moment.     *)
(* The page refuses a port that another of its rows has; the gateway, one  *)
(* that a stored mapping has on an address that overlaps, under the        *)
(* store's lock.  Another browser (OtherBrowser...) may save, or move the  *)
(* range on the nodes page.                                                *)
(***************************************************************************)
EXTENDS PageCalls

CONSTANTS
  Resources,   \* resources of the remote catalog, by their 20 digit code
  Spans,       \* mapping port ranges of the node, each a set of ports
  BindIPs,     \* addresses of the host to listen on
  AnyIP        \* 0.0.0.0 or ::, all of them

ASSUME BindAssumption == BindIPs # {} /\ AnyIP \notin BindIPs

VARIABLES
  mappings,    \* the store: records [resource, ip, port]; the code is the mapping id
  span,        \* the node's mapping port range
  mapPage,
  mapCalls

mappingVars == <<mappings, span, mapPage, mapCalls>>

Ports == UNION Spans

ListenIPs == BindIPs \cup {AnyIP}

MappingRows == [resource : Resources, ip : ListenIPs, port : Ports]

MappingOf(store, resource) == {m \in store : m.resource = resource}

MappingInit(spans) ==
  /\ mappings = {}
  /\ span \in spans
  /\ mapPage = [rows |-> Nothing, raw |-> {}, span |-> {}, loading |-> FALSE, saving |-> FALSE,
                testing |-> FALSE, error |-> FALSE, notice |-> "", open |-> FALSE,
                editor |-> [resource |-> Nothing, editing |-> FALSE, ip |-> AnyIP, port |-> Nothing]]
  /\ mapCalls = NoCalls

(***************************************************************************)
(* The gateway: validateMappingPorts and the store's own check.            *)
(***************************************************************************)
SameBindAddress(a, b) == a = b \/ AnyIP \in {a, b}

\* Mutant of ensureNoConflictsLocked: the addresses are compared as they are.
ensureNoSameSocketLocked(m, others) ==
  \A x \in others : x.resource # m.resource /\ (x.port = m.port => x.ip # m.ip)

ensureNoConflictsLocked(m, others) ==
  \A x \in others : x.resource # m.resource /\ (x.port = m.port => ~SameBindAddress(x.ip, m.ip))

Create(m) ==
  /\ m.port \in span
  /\ ensureNoConflictsLocked(m, mappings)
  /\ mappings' = mappings \cup {m}

Update(m) ==
  LET old == MappingOf(mappings, m.resource) IN
  /\ m.port \in span
  /\ old # {}
  /\ ensureNoConflictsLocked(m, mappings \ old)
  /\ mappings' = (mappings \ old) \cup {m}

Delete(resource) ==
  /\ MappingOf(mappings, resource) # {}
  /\ mappings' = mappings \ MappingOf(mappings, resource)

(***************************************************************************)
(* load, alone or at the end of another handler (`call.op` tells which).   *)
(***************************************************************************)
MapLoads(call) ==
  [call EXCEPT !.rows = Sent(Nothing), !.raw = Sent(Nothing), !.span = Sent(Nothing)]

MapCall(op, act) == [op |-> op, act |-> act, rows |-> Unsent, raw |-> Unsent, span |-> Unsent]

MapBegin(call) == \E s \in Free(mapCalls) : mapCalls' = Put(mapCalls, s, call)

Loading(page, notice) ==
  [page EXCEPT !.loading = TRUE, !.error = FALSE, !.notice = notice]

MapLoad ==
  /\ Click
  /\ MapBegin(MapLoads(MapCall("load", Unsent)))
  /\ mapPage' = Loading(mapPage, "")
  /\ UNCHANGED <<mappings, span>>

\* finally: the flag of the handler the load belonged to falls with `loading`.
MapFlagsDown(page, op) ==
  [page EXCEPT !.loading = FALSE, !.saving = @ /\ op \notin {"save", "remove"},
               !.testing = @ /\ op # "catalog"]

MapLoaded(s) ==
  LET call == mapCalls[s] IN
  /\ call # Idle
  /\ {call.rows.at, call.raw.at, call.span.at} = {"served"}
  /\ mapPage' = [MapFlagsDown(mapPage, call.op) EXCEPT
                   !.rows = call.rows.with, !.raw = call.raw.with, !.span = call.span.with]
  /\ mapCalls' = Put(mapCalls, s, Idle)
  /\ UNCHANGED <<mappings, span, clicks>>

\* load catches its own error; the handler around it ends as if all were well.
MapLoadFails(s) ==
  /\ mapCalls[s] # Idle /\ mapCalls[s].rows.at # "unsent"
  /\ mapPage' = [MapFlagsDown(mapPage, mapCalls[s].op) EXCEPT !.error = TRUE]
  /\ mapCalls' = Put(mapCalls, s, Idle)
  /\ UNCHANGED <<mappings, span, clicks>>

MapServe(s) ==
  /\ mapCalls[s] # Idle
  /\ \/ /\ mapCalls[s].rows.at = "sent"
        /\ mapCalls' = [mapCalls EXCEPT ![s].rows = Served(mappings)]
     \/ /\ mapCalls[s].raw.at = "sent"
        /\ mapCalls' = [mapCalls EXCEPT ![s].raw = Served(mappings)]
     \/ /\ mapCalls[s].span.at = "sent"
        /\ mapCalls' = [mapCalls EXCEPT ![s].span = Served(span)]
  /\ UNCHANGED <<mappings, span, mapPage, clicks>>

(***************************************************************************)
(* The editor.  The table is under the spinner, the drawer is not.         *)
(***************************************************************************)
TableOpen == ~mapPage.loading /\ ~mapPage.saving /\ ~mapPage.testing /\ mapPage.rows # Nothing

\* findBaseMapping: by the ids of the row, or by the device, in rawMappings.
openMapping(resource) ==
  LET base == MappingOf(mapPage.raw, resource)
      row == MappingOf(mapPage.rows, resource)
      filled == IF base # {} THEN base ELSE row IN
  /\ Click
  /\ TableOpen /\ ~mapPage.open
  /\ mapPage' = [mapPage EXCEPT !.open = TRUE,
       !.editor = [resource |-> resource, editing |-> base # {},
                   ip |-> IF filled = {} THEN AnyIP ELSE (CHOOSE m \in filled : TRUE).ip,
                   port |-> IF filled = {} THEN Nothing ELSE (CHOOSE m \in filled : TRUE).port]]
  /\ UNCHANGED <<mappings, span, mapCalls>>

MapType ==
  /\ Click
  /\ mapPage.open
  /\ \/ \E p \in Ports : mapPage' = [mapPage EXCEPT !.editor.port = p]
     \/ \E a \in ListenIPs : mapPage' = [mapPage EXCEPT !.editor.ip = a]
  /\ UNCHANGED <<mappings, span, mapCalls>>

MapCancel ==
  /\ Click
  /\ mapPage.open
  /\ mapPage' = [mapPage EXCEPT !.open = FALSE]
  /\ UNCHANGED <<mappings, span, mapCalls>>

\* The checks of saveMapping that look at what the page loaded.
PortChecks(editor) ==
  /\ editor.port # Nothing
  /\ \A m \in mapPage.rows : m.port = editor.port => m.resource = editor.resource
  /\ editor.port \in mapPage.span

saveMapping ==
  LET editor == mapPage.editor IN
  /\ Click
  /\ mapPage.open /\ ~mapPage.saving
  /\ IF ~PortChecks(editor)
     THEN mapPage' = [mapPage EXCEPT !.error = TRUE, !.notice = ""] /\ UNCHANGED mapCalls
     ELSE /\ mapPage' = [mapPage EXCEPT !.saving = TRUE, !.error = FALSE, !.notice = ""]
          /\ MapBegin(MapCall("save", Sent(editor)))
  /\ UNCHANGED <<mappings, span>>

removeMapping ==
  /\ Click
  /\ mapPage.open /\ mapPage.editor.editing
  /\ mapPage' = [mapPage EXCEPT !.saving = TRUE, !.error = FALSE]
  /\ MapBegin(MapCall("remove", Sent(mapPage.editor)))
  /\ UNCHANGED <<mappings, span>>

\* runCatalogAction and runTest change nothing that is modelled in the gateway.
runCatalogAction ==
  /\ Click
  /\ ~mapPage.testing
  /\ mapPage' = [mapPage EXCEPT !.testing = TRUE, !.error = FALSE, !.notice = ""]
  /\ \E op \in {"catalog", "test"} : MapBegin(MapCall(op, Sent(Nothing)))
  /\ UNCHANGED <<mappings, span>>

\* The gateway serves the handler's own request, or refuses it.  persistLocked may
\* fail after the change: the answer is then an error, the change is not undone.
MapServeAct(s) ==
  LET call == mapCalls[s] IN
  /\ call # Idle /\ call.act.at = "sent"
  /\ \/ /\ call.op = "save"
        /\ LET m == [resource |-> call.act.with.resource, ip |-> call.act.with.ip,
                     port |-> call.act.with.port] IN
           IF call.act.with.editing THEN Update(m) ELSE Create(m)
     \/ call.op = "remove" /\ Delete(call.act.with.resource)
     \/ call.op \in {"catalog", "test"} /\ UNCHANGED mappings
  /\ \E persisted \in IF call.op \in {"save", "remove"} THEN BOOLEAN ELSE {TRUE} :
       mapCalls' = [mapCalls EXCEPT ![s].act = Served(persisted)]
  /\ UNCHANGED <<span, mapPage, clicks>>

\* The editor that is open closes, and load() wipes the notice just set.
MapActed(s) ==
  LET call == mapCalls[s] IN
  /\ call # Idle /\ call.op \in {"save", "remove", "catalog"}
  /\ call.act.at = "served" /\ call.act.with /\ call.rows.at = "unsent"
  /\ mapPage' = IF call.op = "catalog" THEN Loading(mapPage, "done")
                ELSE [Loading(mapPage, "") EXCEPT !.open = FALSE]
  /\ mapCalls' = Put(mapCalls, s, MapLoads(call))
  /\ UNCHANGED <<mappings, span, clicks>>

MapTested(s) ==
  /\ mapCalls[s].op = "test" /\ mapCalls[s].act.at = "served"
  /\ \E passed \in BOOLEAN :
       mapPage' = [mapPage EXCEPT !.testing = FALSE, !.error = @ \/ ~passed,
                                  !.notice = IF passed THEN "done" ELSE @]
  /\ mapCalls' = Put(mapCalls, s, Idle)
  /\ UNCHANGED <<mappings, span, clicks>>

\* Refused, answered with an error, or lost before or after it was served.  (A save
\* served after the page gave up has the effect of a save from another browser.)
MapActFails(s) ==
  /\ mapCalls[s] # Idle /\ mapCalls[s].act.at # "unsent" /\ mapCalls[s].rows.at = "unsent"
  /\ mapPage' = [mapPage EXCEPT !.error = TRUE,
                   !.saving = @ /\ mapCalls[s].op \notin {"save", "remove"},
                   !.testing = @ /\ mapCalls[s].op \notin {"catalog", "test"}]
  /\ mapCalls' = Put(mapCalls, s, Idle)
  /\ UNCHANGED <<mappings, span, clicks>>

OtherBrowserSaves ==
  /\ Click
  /\ \E m \in MappingRows : Create(m) \/ Update(m) \/ Delete(m.resource)
  /\ UNCHANGED <<span, mapPage, mapCalls>>

\* The nodes page saves another range: the workspace handler looks at no mapping.
OtherBrowserMovesRange ==
  /\ Click
  /\ span' \in Spans
  /\ UNCHANGED <<mappings, mapPage, mapCalls>>

MappingNext ==
  \/ MapLoad \/ MapType \/ MapCancel \/ saveMapping \/ removeMapping \/ runCatalogAction
  \/ OtherBrowserSaves \/ OtherBrowserMovesRange
  \/ \E r \in Resources : openMapping(r)
  \/ \E s \in Slots :
       \/ MapLoaded(s) \/ MapLoadFails(s) \/ MapServe(s) \/ MapServeAct(s)
       \/ MapActed(s) \/ MapTested(s) \/ MapActFails(s)

\* What a mapping listens on: a port of one address of the host, or of all.
Sockets(m) == {<<a, m.port>> : a \in IF m.ip = AnyIP THEN BindIPs ELSE {m.ip}}

(***************************************************************************)
(* No two mappings listen on one socket, and none is stored twice,         *)
(* whatever stale rows two browsers check their ports against, and also    *)
(* when one moves to all addresses or from them (saveMapping's check,      *)
(* ensureNoConflictsLocked, SameBindAddress).  One port on two addresses   *)
(* is allowed.                                                             *)
(***************************************************************************)
SocketsDistinct ==
  \A m, n \in mappings :
    m # n => m.resource # n.resource /\ Sockets(m) \cap Sockets(n) = {}

\* A flag of the mappings page is set only while a handler that clears it is under way.
MappingSpinner ==
  /\ mapPage.loading => \E s \in Slots : mapCalls[s] # Idle /\ mapCalls[s].rows.at # "unsent"
  /\ mapPage.saving => Waiting(mapCalls, "save") \cup Waiting(mapCalls, "remove") # {}
  /\ mapPage.testing => Waiting(mapCalls, "catalog") \cup Waiting(mapCalls, "test") # {}

\* The types of the page.
MappingEditors ==
  [resource : Maybe(Resources), editing : BOOLEAN, ip : ListenIPs, port : Maybe(Ports)]

MappingTypeOK ==
  /\ mappings \subseteq MappingRows
  /\ span \in Spans
  /\ mapPage \in
       [rows : Maybe(SUBSET MappingRows), raw : SUBSET MappingRows, span : Spans \cup {{}},
        loading : BOOLEAN, saving : BOOLEAN, testing : BOOLEAN, error : BOOLEAN,
        notice : {"", "done"}, open : BOOLEAN, editor : MappingEditors]
  /\ mapCalls \in [Slots -> {Idle}
       \cup [op : {"load", "save", "remove", "catalog", "test"},
             act : Requests(Maybe(MappingEditors), {}, BOOLEAN),
             rows : Requests({Nothing}, {}, SUBSET MappingRows),
             raw : Requests({Nothing}, {}, SUBSET MappingRows),
             span : Requests({Nothing}, {}, Spans)]]
=============================================================================
