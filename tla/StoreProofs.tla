----------------------------- MODULE StoreProofs -----------------------------
(***************************************************************************)
(* What the gateway's stores, and the mock's, keep whatever the pages do:  *)
(* sockets and codes stay distinct, the port pool adds up, a diagnosis job *)
(* does not contradict itself, an import restores its file.  And what the  *)
(* console's conversions give for lists of any length: a normalised method *)
(* list, a normalised router base.                                         *)
(***************************************************************************)
EXTENDS Console, FiniteSetTheorems, SequenceTheorems, TLAPS

\* A step of the console is a step of the page that is mounted; the variables of the
\* other pages stay as they are.
LEMMA PageSteps ==
  ASSUME [Next]_vars
  PROVE  /\ UNCHANGED route
         /\ (route = "mapping" /\ MappingNext) \/ UNCHANGED mappingVars
         /\ (route = "resource" /\ ResourceNext) \/ UNCHANGED resourceVars
         /\ (route = "lists" /\ ListNext) \/ UNCHANGED listVars
         /\ (route = "monitor" /\ MonitorNext) \/ UNCHANGED monitorVars
         /\ (route = "mock" /\ MockNext) \/ UNCHANGED mockVars
BY DEF Next, vars, OnSettings, OnNodes, OnProtection, OnLimits, OnMapping, OnResource, OnList,
   OnMonitor, OnMock

-----------------------------------------------------------------------------
(* The mapping store.                                                      *)

\* What a step does to the mappings.
LEMMA MappingKinds ==
  ASSUME MappingNext
  PROVE  \/ UNCHANGED mappings
         \/ \E m : Create(m) \/ Update(m)
         \/ \E r : Delete(r)
<1>1. CASE MapLoad \/ MapType \/ MapCancel \/ saveMapping \/ removeMapping \/ runCatalogAction
           \/ OtherBrowserMovesRange \/ \E r \in Resources : openMapping(r)
  BY <1>1 DEF MapLoad, MapType, MapCancel, saveMapping, removeMapping, runCatalogAction,
     OtherBrowserMovesRange, openMapping
<1>2. CASE OtherBrowserSaves
  BY <1>2 DEF OtherBrowserSaves
<1>3. ASSUME NEW s \in Slots, MapServeAct(s)
      PROVE  UNCHANGED mappings \/ (\E m : Create(m) \/ Update(m)) \/ \E r : Delete(r)
  BY <1>3 DEF MapServeAct
<1>4. ASSUME NEW s \in Slots, MapLoaded(s) \/ MapLoadFails(s) \/ MapServe(s) \/ MapActed(s)
                              \/ MapTested(s) \/ MapActFails(s)
      PROVE  UNCHANGED mappings
  BY <1>4 DEF MapLoaded, MapLoadFails, MapServe, MapActed, MapTested, MapActFails
<1> QED BY <1>1, <1>2, <1>3, <1>4 DEF MappingNext

\* What the store's check asks of two mappings is enough for their sockets.
LEMMA SocketsApart ==
  ASSUME NEW m, NEW n, n.port = m.port => ~SameBindAddress(n.ip, m.ip)
  PROVE  Sockets(m) \cap Sockets(n) = {}
<1>1. CASE m.port # n.port
  BY <1>1 DEF Sockets
<1>2. CASE m.port = n.port
  <2>1. m.ip # n.ip /\ m.ip # AnyIP /\ n.ip # AnyIP
    BY <1>2 DEF SameBindAddress
  <2> QED BY <2>1 DEF Sockets
<1> QED BY <1>1, <1>2

\* Two browsers that check their ports against stale rows never store two mappings on one
\* socket or a mapping twice, on one address or on all of them: the store's own check,
\* under its lock, is enough, whether or not the file was written.
THEOREM MappingSocketsDistinct == Spec => []SocketsDistinct
<1>1. Init => SocketsDistinct
  BY DEF Init, MappingInit, SocketsDistinct
<1>2. SocketsDistinct /\ [Next]_vars => SocketsDistinct'
  <2> SUFFICES ASSUME SocketsDistinct, [Next]_vars PROVE SocketsDistinct'
    OBVIOUS
  <2>1. CASE UNCHANGED mappings
    BY <2>1 DEF SocketsDistinct
  <2>2. ASSUME NEW m, NEW others \in SUBSET mappings, ensureNoConflictsLocked(m, others),
               mappings' = others \cup {m}
        PROVE  SocketsDistinct'
    <3>1. \A x \in others : x.resource # m.resource /\ Sockets(m) \cap Sockets(x) = {}
      BY <2>2, SocketsApart DEF ensureNoConflictsLocked
    <3>2. \A x, y \in others : x # y => x.resource # y.resource /\ Sockets(x) \cap Sockets(y) = {}
      BY DEF SocketsDistinct
    <3> QED BY <2>2, <3>1, <3>2 DEF SocketsDistinct
  <2>3. ASSUME NEW m, Create(m) \/ Update(m) PROVE SocketsDistinct'
    <3>1. CASE Create(m)
      BY <2>2, <3>1 DEF Create
    <3>2. CASE Update(m)
      BY <2>2, <3>2 DEF Update
    <3> QED BY <2>3, <3>1, <3>2
  <2>4. ASSUME NEW r, Delete(r) PROVE SocketsDistinct'
    BY <2>4 DEF Delete, SocketsDistinct
  <2> QED BY <2>1, <2>3, <2>4, PageSteps, MappingKinds DEF mappingVars
<1> QED BY <1>1, <1>2, PTL DEF Spec

-----------------------------------------------------------------------------
(* The store of local resources.                                           *)

\* What a step does to the resources.
LEMMA ResourceKinds ==
  ASSUME ResourceNext
  PROVE  \/ UNCHANGED resources
         \/ \E item : CreateLocalResource(item)
         \/ \E code, item : UpdateLocalResource(code, item)
         \/ \E code : DeleteLocalResource(code)
<1>1. CASE ResLoad \/ openCreate \/ openEditResource \/ ResType \/ ResCancel \/ saveResource
           \/ removeResource \/ pushLocalCatalog
  BY <1>1 DEF ResLoad, openCreate, openEditResource, ResType, ResCancel, saveResource,
     removeResource, pushLocalCatalog
<1>2. CASE OtherBrowserSavesResource
  BY <1>2 DEF OtherBrowserSavesResource
<1>3. ASSUME NEW s \in Slots, ResServeAct(s)
      PROVE  \/ UNCHANGED resources
             \/ \E item : CreateLocalResource(item)
             \/ \E code, item : UpdateLocalResource(code, item)
             \/ \E code : DeleteLocalResource(code)
  BY <1>3 DEF ResServeAct
<1>4. ASSUME NEW s \in Slots, ResLoaded(s) \/ ResLoadFails(s) \/ ResServe(s) \/ ResActed(s)
                              \/ ResActFails(s)
      PROVE  UNCHANGED resources
  BY <1>4 DEF ResLoaded, ResLoadFails, ResServe, ResActed, ResActFails
<1> QED BY <1>1, <1>2, <1>3, <1>4 DEF ResourceNext

\* A resource code names one resource through every order of creates, deletes and
\* updates that rename a resource, from however many browsers.
THEOREM ResourceCodesUnique == Spec => []CodesUnique
<1>1. Init => CodesUnique
  BY DEF Init, ResourceInit, CodesUnique
<1>2. CodesUnique /\ [Next]_vars => CodesUnique'
  <2> SUFFICES ASSUME CodesUnique, [Next]_vars PROVE CodesUnique'
    OBVIOUS
  <2>1. CASE UNCHANGED resources
    BY <2>1 DEF CodesUnique
  <2>2. ASSUME NEW item, CreateLocalResource(item) PROVE CodesUnique'
    BY <2>2 DEF CreateLocalResource, RowsOf, CodesUnique
  <2>3. ASSUME NEW code, NEW item, UpdateLocalResource(code, item) PROVE CodesUnique'
    BY <2>3 DEF UpdateLocalResource, RowsOf, CodesUnique
  <2>4. ASSUME NEW code, DeleteLocalResource(code) PROVE CodesUnique'
    BY <2>4 DEF DeleteLocalResource, CodesUnique
  <2> QED BY <2>1, <2>2, <2>3, <2>4, PageSteps, ResourceKinds DEF resourceVars
<1> QED BY <1>1, <1>2, PTL DEF Spec

-----------------------------------------------------------------------------
(* The mock gateway.                                                       *)

\* The store is a record of six parts, the network one of three.
StoreShape ==
  /\ DOMAIN store = {"local", "peers", "tunnel", "net", "snaps", "job"}
  /\ DOMAIN store.net = {"ports", "most", "pool"}

\* A page sends what its own handlers ask for.
Asks(call, kind) ==
  call.act.at = "sent" =>
    \/ call.op \in {"action", "create", "edit", "remove", "import", "export"}
    \/ call.op = "save" /\ kind \in {"tunnel", "local", "node"}

PageShape(page) ==
  /\ DOMAIN page = {"kind", "draft", "saving", "acting", "open", "file", "raced"}
  /\ page.open \in {"", "create", "edit"}

CallShape ==
  /\ PageShape(cfgPage)
  /\ DOMAIN cfgCalls = Slots
  /\ \A s \in Slots : \/ cfgCalls[s] = Idle
                      \/ DOMAIN cfgCalls[s] = {"op", "act", "get"} /\ Asks(cfgCalls[s], cfgPage.kind)

\* A new call.
LEMMA CfgBegun ==
  ASSUME CallShape, NEW op, NEW act, NEW get, CfgBegin(op, act, get), cfgPage'.kind = cfgPage.kind,
         PageShape(cfgPage'), Asks([op |-> op, act |-> act, get |-> get], cfgPage.kind)
  PROVE  CallShape'
<1> DEFINE call == [op |-> op, act |-> act, get |-> get]
<1>1. PICK s \in Slots : cfgCalls' = [cfgCalls EXCEPT ![s] = call]
  BY DEF CfgBegin, Free, Put
<1>2. DOMAIN call = {"op", "act", "get"} /\ Asks(call, cfgPage.kind)
  OBVIOUS
<1> HIDE DEF call
<1>3. DOMAIN cfgCalls' = Slots
  BY <1>1 DEF CallShape
<1>4. ASSUME NEW t \in Slots
      PROVE  \/ cfgCalls'[t] = Idle
             \/ DOMAIN cfgCalls'[t] = {"op", "act", "get"} /\ Asks(cfgCalls'[t], cfgPage.kind)
  <2>1. cfgCalls'[t] = IF t = s THEN call ELSE cfgCalls[t]
    BY <1>1 DEF CallShape
  <2> QED BY <2>1, <1>2 DEF CallShape
<1>5. (\A t \in Slots : \/ cfgCalls[t] = Idle
                        \/ DOMAIN cfgCalls[t] = {"op", "act", "get"} /\ Asks(cfgCalls[t], cfgPage.kind))'
  BY <1>4 DEF Asks
<1> QED BY <1>3, <1>5 DEF CallShape, PageShape

\* A call that moves on.
LEMMA CfgMoved ==
  ASSUME CallShape, NEW s \in Slots, NEW call, cfgCalls' = [cfgCalls EXCEPT ![s] = call],
         PageShape(cfgPage'), cfgPage'.kind = cfgPage.kind,
         DOMAIN call = {"op", "act", "get"}, Asks(call, cfgPage.kind)
  PROVE  CallShape'
<1>1. DOMAIN cfgCalls' = Slots
  BY DEF CallShape
<1>2. ASSUME NEW t \in Slots
      PROVE  \/ cfgCalls'[t] = Idle
             \/ DOMAIN cfgCalls'[t] = {"op", "act", "get"} /\ Asks(cfgCalls'[t], cfgPage.kind)
  <2>1. cfgCalls'[t] = IF t = s THEN call ELSE cfgCalls[t]
    BY DEF CallShape
  <2> QED BY <2>1 DEF CallShape
<1>3. (\A t \in Slots : \/ cfgCalls[t] = Idle
                        \/ DOMAIN cfgCalls[t] = {"op", "act", "get"} /\ Asks(cfgCalls[t], cfgPage.kind))'
  BY <1>2 DEF Asks
<1> QED BY <1>1, <1>3 DEF CallShape, PageShape

\* The gateway's answer to a request of a call, and a second request.
LEMMA ActMoved ==
  ASSUME CallShape, NEW s \in Slots, cfgCalls[s] # Idle, NEW x, x.at # "sent",
         cfgCalls' = [cfgCalls EXCEPT ![s].act = x], PageShape(cfgPage'), cfgPage'.kind = cfgPage.kind
  PROVE  CallShape'
<1> DEFINE call == [cfgCalls[s] EXCEPT !.act = x]
<1>1. DOMAIN call = {"op", "act", "get"} /\ Asks(call, cfgPage.kind)
  BY DEF CallShape, Asks
<1>2. cfgCalls' = [cfgCalls EXCEPT ![s] = call]
  OBVIOUS
<1> HIDE DEF call
<1> QED BY <1>1, <1>2, CfgMoved

LEMMA GetMoved ==
  ASSUME CallShape, NEW s \in Slots, cfgCalls[s] # Idle, NEW x,
         cfgCalls' = [cfgCalls EXCEPT ![s].get = x], PageShape(cfgPage'), cfgPage'.kind = cfgPage.kind
  PROVE  CallShape'
<1> DEFINE call == [cfgCalls[s] EXCEPT !.get = x]
<1>1. DOMAIN call = {"op", "act", "get"} /\ Asks(call, cfgPage.kind)
  BY DEF CallShape, Asks
<1>2. cfgCalls' = [cfgCalls EXCEPT ![s] = call]
  OBVIOUS
<1> HIDE DEF call
<1> QED BY <1>1, <1>2, CfgMoved

\* The end of a call.
LEMMA CfgEnded ==
  ASSUME CallShape, NEW s \in Slots, cfgCalls' = [cfgCalls EXCEPT ![s] = Idle],
         PageShape(cfgPage'), cfgPage'.kind = cfgPage.kind
  PROVE  CallShape'
<1>1. DOMAIN cfgCalls' = Slots
  BY DEF CallShape
<1>2. ASSUME NEW t \in Slots
      PROVE  \/ cfgCalls'[t] = Idle
             \/ DOMAIN cfgCalls'[t] = {"op", "act", "get"} /\ Asks(cfgCalls'[t], cfgPage.kind)
  BY DEF CallShape
<1>3. (\A t \in Slots : \/ cfgCalls[t] = Idle
                        \/ DOMAIN cfgCalls[t] = {"op", "act", "get"} /\ Asks(cfgCalls[t], cfgPage.kind))'
  BY <1>2 DEF Asks
<1> QED BY <1>1, <1>3 DEF CallShape, PageShape

LEMMA AnswerAt ==
  ASSUME NEW x PROVE Served(x).at # "sent" /\ Read(x).at # "sent"
BY DEF Served, Read

\* The pages keep to it.
LEMMA CallShapeStep == CallShape /\ MockNext => CallShape'
<1> SUFFICES ASSUME CallShape, MockNext PROVE CallShape'
  OBVIOUS
<1>1. CASE TunnelLoad \/ LocalLoad \/ PeerLoad \/ NodeConfigLoad
  <2>1. PICK kind : CfgLoad(kind)
    BY <1>1 DEF TunnelLoad, LocalLoad, PeerLoad, NodeConfigLoad
  <2>2. CfgBegin("load", Unsent, Sent(Nothing)) /\ UNCHANGED cfgPage
    BY <2>1 DEF CfgLoad
  <2> QED BY <2>2, CfgBegun DEF Asks, Sent, Unsent, CallShape
<1>2. CASE TunnelSave \/ LocalSave \/ NodeConfigSave
  <2>1. /\ cfgPage.kind \in {"tunnel", "local", "node"}
        /\ CfgBegin("save", Sent(cfgPage.draft), Unsent) /\ cfgPage' = [cfgPage EXCEPT !.saving = TRUE]
    BY <1>2 DEF TunnelSave, LocalSave, NodeConfigSave, Drafted
  <2>2. cfgPage'.kind = cfgPage.kind /\ PageShape(cfgPage')
    BY <2>1 DEF CallShape, PageShape
  <2>3. Asks([op |-> "save", act |-> Sent(cfgPage.draft), get |-> Unsent], cfgPage.kind)
    BY <2>1 DEF Asks
  <2> QED BY <2>1, <2>2, <2>3, CfgBegun
<1>3. CASE TunnelAction
  <2>1. CfgBegin("action", Sent(Nothing), Unsent) /\ cfgPage' = [cfgPage EXCEPT !.acting = TRUE]
    BY <1>3 DEF TunnelAction
  <2>2. cfgPage'.kind = cfgPage.kind /\ PageShape(cfgPage')
    BY <2>1 DEF CallShape, PageShape
  <2> QED BY <2>1, <2>2, CfgBegun DEF Asks, Sent, Unsent
<1>4. CASE PeerSave
  <2>1. PICK with : CfgBegin(cfgPage.open, Sent(with), Unsent) /\ UNCHANGED cfgPage
    BY <1>4 DEF PeerSave
  <2>2. cfgPage.open \in {"create", "edit"}
    BY <1>4 DEF PeerSave, CallShape, PageShape
  <2> QED BY <2>1, <2>2, CfgBegun DEF Asks, Sent, Unsent, CallShape
<1>5. CASE PeerRemove
  <2>1. PICK with : CfgBegin("remove", Sent(with), Unsent) /\ UNCHANGED cfgPage
    BY <1>5 DEF PeerRemove
  <2> QED BY <2>1, CfgBegun DEF Asks, Sent, Unsent, CallShape
<1>6. CASE ExportBegin
  <2>1. CfgBegin("export", Sent(Nothing), Unsent) /\ UNCHANGED cfgPage
    BY <1>6 DEF ExportBegin
  <2> QED BY <2>1, CfgBegun DEF Asks, Sent, Unsent, CallShape
<1>7. CASE ImportBegin
  <2>1. CfgBegin("import", Sent(cfgPage.file), Unsent) /\ UNCHANGED cfgPage
    BY <1>7 DEF ImportBegin
  <2> QED BY <2>1, CfgBegun DEF Asks, Sent, Unsent, CallShape
<1>8. CASE /\ UNCHANGED cfgCalls /\ PageShape(cfgPage') /\ cfgPage'.kind = cfgPage.kind
  BY <1>8 DEF CallShape, PageShape, Asks
<1>9. CASE PeerOpen \/ TunnelEdit \/ MockCall \/ SnapshotCall \/ JobCall
  <2>1. UNCHANGED cfgCalls
    BY <1>9 DEF PeerOpen, TunnelEdit, MockCall, SnapshotCall, JobCall
  <2>2. \/ UNCHANGED cfgPage
        \/ \E mode \in {"create", "edit"} : cfgPage' = [cfgPage EXCEPT !.open = mode]
        \/ \E mode : cfgPage' = [cfgPage EXCEPT !.draft = mode]
        \/ cfgPage' = [cfgPage EXCEPT !.raced = TRUE]
    BY <1>9 DEF PeerOpen, TunnelEdit, MockCall, SnapshotCall, JobCall
  <2>3. PageShape(cfgPage') /\ cfgPage'.kind = cfgPage.kind
    BY <2>2 DEF CallShape, PageShape
  <2> QED BY <1>8, <2>1, <2>3
<1>10. CASE LocalEdit \/ NodeConfigEdit
  <2>1. UNCHANGED cfgCalls /\ \E draft : cfgPage' = [cfgPage EXCEPT !.draft = draft]
    BY <1>10 DEF LocalEdit, NodeConfigEdit
  <2>2. PageShape(cfgPage') /\ cfgPage'.kind = cfgPage.kind
    BY <2>1 DEF CallShape, PageShape
  <2> QED BY <1>8, <2>1, <2>2
<1>11. ASSUME NEW s \in Slots,
              CfgServeAct(s) \/ CfgServeGet(s) \/ CfgActed(s) \/ CfgLoaded(s)
                \/ exportConfigJsonMock(s) \/ importConfigJsonMock(s)
       PROVE  CallShape'
  <2>1. cfgCalls[s] # Idle
    <3>1. cfgCalls[s].op # "idle"
      BY <1>11 DEF CfgServeAct, CfgServeGet, CfgActed, CfgLoaded, exportConfigJsonMock,
         importConfigJsonMock
    <3> QED BY <3>1 DEF Idle
  <2>2. DOMAIN cfgCalls[s] = {"op", "act", "get"} /\ Asks(cfgCalls[s], cfgPage.kind)
    BY <2>1 DEF CallShape
  <2>3. PageShape(cfgPage)
    BY DEF CallShape
  <2>4. CASE CfgServeAct(s)
    <3>1. cfgCalls' = [cfgCalls EXCEPT ![s].act = Served(Nothing)]
          \/ cfgCalls' = [cfgCalls EXCEPT ![s] = Idle]
      BY <2>4 DEF CfgServeAct, Put
    <3>2. UNCHANGED cfgPage
      BY <2>4 DEF CfgServeAct
    <3>3. CASE cfgCalls' = [cfgCalls EXCEPT ![s] = Idle]
      BY <2>3, <3>2, <3>3, CfgEnded
    <3>4. CASE cfgCalls' = [cfgCalls EXCEPT ![s].act = Served(Nothing)]
      BY <2>1, <2>3, <3>2, <3>4, ActMoved, AnswerAt
    <3> QED BY <3>1, <3>3, <3>4
  <2>5. CASE CfgServeGet(s)
    <3>1. cfgCalls' = [cfgCalls EXCEPT ![s].get = Served(Fetched)]
      BY <2>5 DEF CfgServeGet
    <3>2. UNCHANGED cfgPage
      BY <2>5 DEF CfgServeGet
    <3> QED BY <2>1, <2>3, <3>1, <3>2, GetMoved
  <2>6. CASE CfgActed(s)
    <3>1. cfgCalls' = [cfgCalls EXCEPT ![s].get = Sent(Nothing)]
      BY <2>6 DEF CfgActed
    <3>2. PageShape(cfgPage') /\ cfgPage'.kind = cfgPage.kind
      BY <2>3, <2>6 DEF CfgActed, PageShape
    <3> QED BY <2>1, <3>1, <3>2, GetMoved
  <2>7. CASE CfgLoaded(s)
    <3>1. cfgCalls' = [cfgCalls EXCEPT ![s] = Idle]
      BY <2>7 DEF CfgLoaded, Put
    <3>2. PageShape(cfgPage') /\ cfgPage'.kind = cfgPage.kind
      BY <2>3, <2>7 DEF CfgLoaded, PageShape
    <3> QED BY <3>1, <3>2, CfgEnded
  <2>8. CASE exportConfigJsonMock(s)
    <3>1. \/ /\ \E x : cfgCalls' = [cfgCalls EXCEPT ![s].act = Read(x)]
             /\ UNCHANGED cfgPage
          \/ /\ cfgCalls' = [cfgCalls EXCEPT ![s] = Idle]
             /\ \E file : cfgPage' = [cfgPage EXCEPT !.file = file]
      BY <2>8 DEF exportConfigJsonMock, Put
    <3>2. PageShape(cfgPage') /\ cfgPage'.kind = cfgPage.kind
      BY <2>3, <3>1 DEF PageShape
    <3>3. CASE cfgCalls' = [cfgCalls EXCEPT ![s] = Idle]
      BY <3>2, <3>3, CfgEnded
    <3>4. ASSUME NEW x, cfgCalls' = [cfgCalls EXCEPT ![s].act = Read(x)]
          PROVE  CallShape'
      BY <2>1, <3>2, <3>4, ActMoved, AnswerAt
    <3> QED BY <3>1, <3>3, <3>4
  <2>9. CASE importConfigJsonMock(s)
    <3>1. \/ /\ \E x : cfgCalls' = [cfgCalls EXCEPT ![s].act = Read(x)]
             /\ cfgPage' = [cfgPage EXCEPT !.raced = FALSE]
          \/ /\ cfgCalls' = [cfgCalls EXCEPT ![s] = Idle]
             /\ \E file, raced : cfgPage' = [cfgPage EXCEPT !.draft = file, !.raced = raced]
      BY <2>9 DEF importConfigJsonMock, Put
    <3>2. PageShape(cfgPage') /\ cfgPage'.kind = cfgPage.kind
      BY <2>3, <3>1 DEF PageShape
    <3>3. CASE cfgCalls' = [cfgCalls EXCEPT ![s] = Idle]
      BY <3>2, <3>3, CfgEnded
    <3>4. ASSUME NEW x, cfgCalls' = [cfgCalls EXCEPT ![s].act = Read(x)]
          PROVE  CallShape'
      BY <2>1, <3>2, <3>4, ActMoved, AnswerAt
    <3> QED BY <3>1, <3>3, <3>4
  <2> QED BY <1>11, <2>4, <2>5, <2>6, <2>7, <2>8, <2>9
<1> QED BY <1>1, <1>2, <1>3, <1>4, <1>5, <1>6, <1>7, <1>9, <1>10, <1>11 DEF MockNext

\* The parts of the store that most calls leave alone.
Kept ==
  /\ DOMAIN store' = DOMAIN store /\ DOMAIN store.net' = DOMAIN store.net
  /\ store'.snaps = store.snaps /\ store'.job = store.job /\ store'.net.pool = store.net.pool

\* What a step does to the store.
LEMMA StoreKinds ==
  ASSUME StoreShape, CallShape, MockNext
  PROVE  \/ Kept
         \/ \E ports \in RtpRanges, most \in Transfers : store' = updateNetworkConfigMock(store, ports, most)
         \/ SnapshotCall
         \/ JobCall
<1>1. CASE UNCHANGED store
  BY <1>1 DEF Kept
<1>2. ASSUME NEW x, store' = [store EXCEPT !.tunnel = x] PROVE Kept
  BY <1>2 DEF Kept, StoreShape
<1>3. ASSUME NEW x, store' = [store EXCEPT !.local = x] PROVE Kept
  BY <1>3 DEF Kept, StoreShape
<1>4. ASSUME NEW x, store' = [store EXCEPT !.peers = x] PROVE Kept
  BY <1>4 DEF Kept, StoreShape
<1>5. ASSUME NEW x, NEW y, store' = [store EXCEPT !.local = x, !.peers = y] PROVE Kept
  BY <1>5 DEF Kept, StoreShape
<1>6. ASSUME NEW config, store' = saveNodeConfigMock(store, config) PROVE Kept
  BY <1>5, <1>6 DEF saveNodeConfigMock
<1>7. CASE TunnelLoad \/ LocalLoad \/ PeerLoad \/ NodeConfigLoad \/ TunnelSave \/ TunnelAction
           \/ LocalSave \/ NodeConfigSave \/ PeerOpen \/ PeerSave \/ PeerRemove
           \/ TunnelEdit \/ LocalEdit \/ NodeConfigEdit \/ ExportBegin \/ ImportBegin
  <2>1. UNCHANGED store
    BY <1>7 DEF TunnelLoad, LocalLoad, PeerLoad, NodeConfigLoad, CfgLoad, TunnelSave, TunnelAction,
       LocalSave, NodeConfigSave, PeerOpen, PeerSave, PeerRemove, TunnelEdit, LocalEdit,
       NodeConfigEdit, ExportBegin, ImportBegin, CfgBegin
  <2> QED BY <1>1, <2>1
<1>8. CASE MockCall
  <2>1. CASE \E mode \in MockModes : store' = saveTunnelConfigMock(store, mode)
    BY <1>2, <2>1 DEF saveTunnelConfigMock
  <2>2. CASE \E config : store' = saveNodeConfigMock(store, config)
    BY <1>6, <2>2
  <2>3. CASE \E x : store' = updateLocalNodeMock(store, x)
    BY <1>3, <2>3 DEF updateLocalNodeMock
  <2>4. CASE \E x : store' = updatePeerMock(store, x)
    BY <1>4, <2>4 DEF updatePeerMock
  <2> QED BY <1>8, <2>1, <2>2, <2>3, <2>4 DEF MockCall
<1>9. ASSUME NEW s \in Slots, CfgActed(s) \/ CfgServeGet(s) \/ CfgLoaded(s) \/ exportConfigJsonMock(s)
      PROVE  Kept
  <2>1. UNCHANGED store
    BY <1>9 DEF CfgActed, CfgServeGet, CfgLoaded, exportConfigJsonMock
  <2> QED BY <2>1 DEF Kept
<1>10. ASSUME NEW s \in Slots, importConfigJsonMock(s) PROVE Kept
  <2> DEFINE file == cfgCalls[s].act.with
  <2>1. \/ store' = [store EXCEPT !.net.ports = file.net.ports, !.net.most = file.net.most,
                                  !.tunnel = file.tunnel]
        \/ store' = saveNodeConfigMock(store, file.node)
    BY <1>10 DEF importConfigJsonMock
  <2>2. CASE store' = [store EXCEPT !.net.ports = file.net.ports, !.net.most = file.net.most,
                                    !.tunnel = file.tunnel]
    <3> HIDE DEF file
    <3> QED BY <2>2 DEF Kept, StoreShape
  <2>3. CASE store' = saveNodeConfigMock(store, file.node)
    BY <1>6, <2>3
  <2> QED BY <2>1, <2>2, <2>3
<1>11. ASSUME NEW s \in Slots, CfgServeAct(s) PROVE Kept
  <2> DEFINE call == cfgCalls[s]
  <2>1. call.op \notin {"idle", "import", "export"} /\ call.act.at = "sent"
    BY <1>11 DEF CfgServeAct
  <2>2. \/ call.op \in {"action", "create", "edit", "remove"}
        \/ call.op = "save" /\ cfgPage.kind \in {"tunnel", "local", "node"}
    <3>1. cfgCalls[s] # Idle
      BY <2>1 DEF Idle
    <3> QED BY <2>1, <3>1 DEF CallShape, Asks
  <2>3. \/ UNCHANGED store
        \/ \E x : store' = createPeerMock(store, x)
        \/ \E x : store' = updatePeerMock(store, x)
        \/ \E x : store' = deletePeerMock(store, x)
        \/ \E x : store' = saveTunnelConfigMock(store, x)
        \/ \E x : store' = updateLocalNodeMock(store, x)
        \/ \E x : store' = saveNodeConfigMock(store, x)
    BY <1>11, <2>2 DEF CfgServeAct
  <2>4. CASE \E x : store' = createPeerMock(store, x)
    BY <1>4, <2>4 DEF createPeerMock
  <2>5. CASE \E x : store' = updatePeerMock(store, x)
    BY <1>4, <2>5 DEF updatePeerMock
  <2>6. CASE \E x : store' = deletePeerMock(store, x)
    BY <1>4, <2>6 DEF deletePeerMock
  <2>7. CASE \E x : store' = saveTunnelConfigMock(store, x)
    BY <1>2, <2>7 DEF saveTunnelConfigMock
  <2>8. CASE \E x : store' = updateLocalNodeMock(store, x)
    BY <1>3, <2>8 DEF updateLocalNodeMock
  <2>9. CASE UNCHANGED store
    BY <2>9 DEF Kept
  <2> QED BY <1>6, <2>3, <2>4, <2>5, <2>6, <2>7, <2>8, <2>9
<1> QED BY <1>7, <1>8, <1>9, <1>10, <1>11 DEF MockNext

\* The pool adds up.
PoolInv ==
  /\ store.net.pool.total \in Nat /\ store.net.pool.occupied \in Nat /\ store.net.pool.active \in Nat
  /\ PoolConsistent

Jobs ==
  [status : {"pending", "collecting", "packaging", "succeeded", "failed"}, polls : Nat, done : Nat,
   url : BOOLEAN, error : BOOLEAN, failOnce : BOOLEAN, fails : {0, 1}]

Ended == {"succeeded", "failed"}

\* A job does not contradict itself, and can fail only while it has not failed yet.
Honest(job) ==
  /\ job \in Jobs
  /\ job.url = TRUE <=> job.status = "succeeded"
  /\ job.error = TRUE <=> job.status = "failed"
  /\ job.done = 7 <=> job.status \in Ended
  /\ job.fails = 0 \/ job.failOnce = FALSE

JobInv == store.job # Nothing => Honest(store.job)

MockInv == StoreShape /\ CallShape /\ PoolInv /\ JobInv

LEMMA MockInitially == Init => MockInv
<1> SUFFICES ASSUME Init PROVE MockInv
  OBVIOUS
<1>1. MockInit(On({"mock"}, MockStores))
  BY DEF Init
<1>2. PICK local, peers, tunnel, kind :
        /\ store = [local |-> local, peers |-> peers, tunnel |-> tunnel, net |-> networkConfigState,
                    snaps |-> configSnapshotsSeed, job |-> Nothing]
        /\ cfgPage = [kind |-> kind, draft |-> Nothing, saving |-> FALSE, acting |-> FALSE,
                      open |-> "", file |-> Nothing, raced |-> FALSE]
        /\ cfgCalls = NoCalls
  BY <1>1, Zenon DEF MockInit
<1>3. /\ store.snaps = configSnapshotsSeed /\ store.job = Nothing /\ store.net = networkConfigState
      /\ StoreShape /\ CallShape
  <2>1. DOMAIN networkConfigState = {"ports", "most", "pool"}
    BY DEF networkConfigState
  <2>2. /\ store.snaps = configSnapshotsSeed /\ store.job = Nothing /\ store.net = networkConfigState
        /\ StoreShape
    BY <1>2, <2>1 DEF StoreShape
  <2> QED BY <1>2, <2>2 DEF CallShape, PageShape, NoCalls
<1>5. PoolInv
  BY <1>3 DEF PoolInv, PoolConsistent, networkConfigState
<1> QED BY <1>3, <1>5 DEF MockInv, JobInv

\* The parts that most calls leave alone stay right.
LEMMA KeptRight ==
  ASSUME StoreShape, PoolInv, JobInv, Kept
  PROVE  (StoreShape /\ PoolInv /\ JobInv)'
<1>1. StoreShape'
  BY DEF Kept, StoreShape
<1>3. PoolInv'
  BY DEF Kept, PoolInv, PoolConsistent
<1>4. JobInv'
  BY DEF Kept, JobInv
<1> QED BY <1>1, <1>3, <1>4

\* A network configuration for any range, also an empty one.
LEMMA NetworkRight ==
  ASSUME StoreShape, JobInv, NEW ports \in Nat \X Nat, NEW most \in Nat,
         store' = updateNetworkConfigMock(store, ports, most)
  PROVE  (StoreShape /\ PoolInv /\ JobInv)'
<1> DEFINE total == IF ports[2] < ports[1] THEN 0 ELSE ports[2] - ports[1] + 1
           occupied == Least(total, Part(most, 60))
           active == Least(occupied, Part(most, 35))
           pool == [total |-> total, occupied |-> occupied, active |-> active]
           net == [ports |-> ports, most |-> most, pool |-> pool]
<1>1. ports[1] \in Nat /\ ports[2] \in Nat /\ total \in Nat
  OBVIOUS
<1>2. Part(most, 60) \in Nat /\ Part(most, 35) \in Nat
  BY DEF Part
<1>3. occupied \in Nat /\ active \in Nat /\ active <= occupied /\ occupied <= total
  BY <1>1, <1>2 DEF Least
<1>4. store' = [store EXCEPT !.net = net]
  BY DEF updateNetworkConfigMock
<1>5. /\ DOMAIN net = {"ports", "most", "pool"} /\ net.pool = pool
      /\ pool.total = total /\ pool.occupied = occupied /\ pool.active = active
  OBVIOUS
<1> HIDE DEF net, pool, active, occupied, total
<1>6. DOMAIN store' = DOMAIN store /\ store'.net = net /\ store'.snaps = store.snaps /\ store'.job = store.job
  BY <1>4 DEF StoreShape
<1>7. StoreShape'
  BY <1>5, <1>6 DEF StoreShape
<1>8. JobInv'
  BY <1>6 DEF JobInv
<1>9. PoolInv'
  BY <1>1, <1>3, <1>5, <1>6 DEF PoolInv, PoolConsistent
<1> QED BY <1>7, <1>8, <1>9

\* A roll back.
LEMMA RollbackRight ==
  ASSUME StoreShape, PoolInv, JobInv, SnapshotCall
  PROVE  (StoreShape /\ PoolInv /\ JobInv)'
<1>1. PICK version : store' = rollbackConfigMock(store, version)
  BY DEF SnapshotCall
<1>2. DOMAIN store' = DOMAIN store /\ store'.net = store.net /\ store'.job = store.job
  BY <1>1 DEF rollbackConfigMock, StoreShape
<1> QED BY <1>2 DEF StoreShape, PoolInv, PoolConsistent, JobInv

LEMMA PollHonest ==
  ASSUME NEW st, "job" \in DOMAIN st, Honest(st.job)
  PROVE  Honest(getDiagnosticExportMock(st).job)
<1> DEFINE job == st.job
           progress == Least(100, (job.polls + 1) * 25)
           done == (progress * 7) \div 100
           status == IF progress < 40 THEN "collecting" ELSE "packaging"
           polled == [job EXCEPT !.polls = @ + 1, !.done = done, !.status = status]
<1>1. job \in Jobs
  BY DEF Honest
<1>2. progress \in Nat /\ done \in Nat /\ (done = 7 <=> ~(progress < 100))
  <2>1. job.polls \in Nat
    BY <1>1 DEF Jobs
  <2> QED BY <2>1 DEF Least
<1>3. getDiagnosticExportMock(st).job =
        IF job.status \in {"succeeded", "failed"} THEN job
        ELSE IF progress < 100 THEN polled
        ELSE IF job.failOnce THEN [polled EXCEPT !.status = "failed", !.error = TRUE,
                                                 !.failOnce = FALSE, !.fails = @ + 1]
        ELSE [polled EXCEPT !.status = "succeeded", !.error = FALSE, !.url = TRUE]
  BY DEF getDiagnosticExportMock
<1>4. polled \in Jobs /\ polled.polls = job.polls + 1 /\ polled.done = done /\ polled.status = status
      /\ polled.url = job.url /\ polled.error = job.error /\ polled.failOnce = job.failOnce
      /\ polled.fails = job.fails
  <2>1. status \in {"collecting", "packaging"} /\ job.polls + 1 \in Nat
    BY <1>1 DEF Jobs
  <2> HIDE DEF status, done, progress
  <2> QED BY <1>1, <1>2, <2>1 DEF Jobs
<1>5. CASE job.status \in Ended
  <2>1. getDiagnosticExportMock(st).job = job
    BY <1>3, <1>5 DEF Ended
  <2> QED BY <2>1
<1>6. CASE job.status \notin Ended
  <2>1. /\ job.url = FALSE /\ job.error = FALSE /\ (job.fails = 0 \/ job.failOnce = FALSE)
        /\ job.fails \in {0, 1} /\ job.failOnce \in BOOLEAN
    BY <1>6 DEF Honest, Ended, Jobs
  <2>2. CASE progress < 100
    <3>1. getDiagnosticExportMock(st).job = polled
      BY <1>3, <1>6, <2>2 DEF Ended
    <3>2. polled.status \notin Ended /\ polled.done # 7
      BY <1>2, <1>4, <2>2 DEF Ended
    <3> HIDE DEF polled, status, done, progress
    <3> QED BY <1>4, <2>1, <3>1, <3>2 DEF Honest, Ended
  <2>3. CASE ~(progress < 100) /\ job.failOnce
    <3> DEFINE r == [polled EXCEPT !.status = "failed", !.error = TRUE,
                                   !.failOnce = FALSE, !.fails = @ + 1]
    <3>1. getDiagnosticExportMock(st).job = r
      BY <1>3, <1>6, <2>3 DEF Ended
    <3>2. job.fails = 0
      BY <2>1, <2>3
    <3>3. polled.done = 7 /\ polled.fails = 0 /\ polled.url = FALSE
      BY <1>2, <1>4, <2>1, <2>3, <3>2, <1>1 DEF Jobs
    <3> HIDE DEF polled, status, done, progress
    <3>4. r = [polled EXCEPT !.status = "failed", !.error = TRUE, !.failOnce = FALSE, !.fails = 1]
      BY <3>3
    <3>5. /\ r \in Jobs /\ r.status = "failed" /\ r.error = TRUE /\ r.failOnce = FALSE
          /\ r.fails = 1 /\ r.done = 7 /\ r.url = FALSE
      BY <1>4, <3>3, <3>4 DEF Jobs
    <3> HIDE DEF r
    <3> QED BY <3>1, <3>5 DEF Honest, Ended
  <2>4. CASE ~(progress < 100) /\ ~job.failOnce
    <3> DEFINE r == [polled EXCEPT !.status = "succeeded", !.error = FALSE, !.url = TRUE]
    <3>1. getDiagnosticExportMock(st).job = r
      BY <1>3, <1>6, <2>4 DEF Ended
    <3>2. polled.done = 7 /\ polled.failOnce = FALSE
      BY <1>2, <1>4, <2>4, <1>1 DEF Jobs
    <3> HIDE DEF polled, status, done, progress
    <3>3. /\ r \in Jobs /\ r.status = "succeeded" /\ r.error = FALSE /\ r.failOnce = FALSE
          /\ r.done = 7 /\ r.url = TRUE
      BY <1>4, <3>2 DEF Jobs
    <3> HIDE DEF r
    <3> QED BY <3>1, <3>3 DEF Honest, Ended
  <2> QED BY <2>2, <2>3, <2>4
<1> QED BY <1>5, <1>6

\* A job that is made, polled or tried again.
LEMMA JobRight ==
  ASSUME StoreShape, PoolInv, JobInv, JobCall
  PROVE  (StoreShape /\ PoolInv /\ JobInv)'
<1>1. PICK job : store' = [store EXCEPT !.job = job] /\ Honest(job)
  <2>1. ASSUME NEW failOnce \in BOOLEAN, store' = createDiagnosticExportMock(store, failOnce)
        PROVE  \E job : store' = [store EXCEPT !.job = job] /\ Honest(job)
    <3> DEFINE new == [status |-> "pending", polls |-> 0, done |-> 0, url |-> FALSE,
                       error |-> FALSE, failOnce |-> failOnce, fails |-> 0]
    <3>1. /\ new \in Jobs /\ new.status = "pending" /\ new.done = 0 /\ new.url = FALSE
          /\ new.error = FALSE /\ new.fails = 0
      BY DEF Jobs
    <3>2. store' = [store EXCEPT !.job = new]
      BY <2>1 DEF createDiagnosticExportMock
    <3> HIDE DEF new
    <3>3. Honest(new)
      BY <3>1 DEF Honest, Ended
    <3> QED BY <3>2, <3>3
  <2>2. ASSUME store.job # Nothing, store' = getDiagnosticExportMock(store)
        PROVE  \E job : store' = [store EXCEPT !.job = job] /\ Honest(job)
    <3>1. store' = [store EXCEPT !.job = store'.job]
      BY <2>2 DEF getDiagnosticExportMock, StoreShape
    <3>2. Honest(store'.job)
      BY <2>2, PollHonest DEF JobInv, StoreShape
    <3> QED BY <3>1, <3>2
  <2>3. ASSUME store.job # Nothing, store' = retryDiagnosticExportMock(store)
        PROVE  \E job : store' = [store EXCEPT !.job = job] /\ Honest(job)
    <3> DEFINE new == [store.job EXCEPT !.status = "pending", !.polls = 0, !.done = 0,
                                        !.url = FALSE, !.error = FALSE]
    <3>1. Honest(store.job)
      BY <2>3 DEF JobInv
    <3>2. /\ new \in Jobs /\ new.status = "pending" /\ new.done = 0 /\ new.url = FALSE
          /\ new.error = FALSE /\ new.fails = store.job.fails /\ new.failOnce = store.job.failOnce
      BY <3>1 DEF Honest, Jobs
    <3>3. store' = [store EXCEPT !.job = new]
      BY <2>3 DEF retryDiagnosticExportMock
    <3> HIDE DEF new
    <3>4. Honest(new)
      BY <3>1, <3>2 DEF Honest, Ended
    <3> QED BY <3>3, <3>4
  <2> QED BY <2>1, <2>2, <2>3 DEF JobCall
<1>2. /\ DOMAIN store' = DOMAIN store /\ store'.net = store.net /\ store'.snaps = store.snaps
      /\ store'.job = job
  BY <1>1 DEF StoreShape
<1> QED BY <1>1, <1>2 DEF StoreShape, PoolInv, PoolConsistent, JobInv

\* Every step keeps the mock's store right.
LEMMA MockStep == MockInv /\ [Next]_vars => MockInv'
<1> SUFFICES ASSUME MockInv, [Next]_vars PROVE MockInv'
  OBVIOUS
<1>1. StoreShape /\ CallShape /\ PoolInv /\ JobInv
  BY DEF MockInv
<1>2. CASE UNCHANGED mockVars
  <2>1. UNCHANGED <<store, cfgPage, cfgCalls>>
    BY <1>2 DEF mockVars
  <2>2. CallShape'
    BY <1>1, <2>1 DEF CallShape, PageShape, Asks
  <2>3. Kept
    BY <2>1 DEF Kept
  <2> QED BY <1>1, <2>2, <2>3, KeptRight DEF MockInv
<1>3. CASE MockNext
  <2>1. CallShape'
    BY <1>1, <1>3, CallShapeStep
  <2>2. (StoreShape /\ PoolInv /\ JobInv)'
    <3>1. ASSUME NEW ports \in RtpRanges, NEW most \in Transfers,
                 store' = updateNetworkConfigMock(store, ports, most)
          PROVE  (StoreShape /\ PoolInv /\ JobInv)'
      <4>1. ports \in Nat \X Nat /\ most \in Nat
        BY MockAssumption
      <4> QED BY <1>1, <3>1, <4>1, NetworkRight
    <3> QED BY <1>1, <1>3, <3>1, StoreKinds, KeptRight, RollbackRight, JobRight
  <2> QED BY <2>1, <2>2 DEF MockInv
<1> QED BY <1>2, <1>3, PageSteps

LEMMA MockAlways == Spec => []MockInv
BY MockInitially, MockStep, PTL DEF Spec

\* Transfers fit the occupied ports and those the range, for every range and every limit
\* that a network save or an import brings (updateNetworkConfigMock).
THEOREM PoolAddsUp == Spec => []PoolConsistent
<1>1. MockInv => PoolConsistent
  BY DEF MockInv, PoolInv
<1> QED BY <1>1, MockAlways, PTL

\* A diagnosis job offers a download exactly when it succeeded, shows an error exactly
\* when it failed, and fails once at most, under every order of polls and retries.
THEOREM JobsAreHonest == Spec => []JobHonest
<1>1. MockInv => JobHonest
  <2> SUFFICES ASSUME store.job # Nothing, Honest(store.job)
               PROVE  /\ store.job.url <=> store.job.status = "succeeded"
                      /\ store.job.error <=> store.job.status = "failed"
                      /\ store.job.done = 7 <=> store.job.status \in {"succeeded", "failed"}
                      /\ store.job.fails <= 1
    BY DEF MockInv, JobInv, JobHonest
  <2>1. store.job.fails \in {0, 1}
    BY DEF Honest, Jobs
  <2>2. store.job.fails <= 1
    BY <2>1
  <2> QED BY <2>2 DEF Honest, Ended
<1> QED BY <1>1, MockAlways, PTL

-----------------------------------------------------------------------------
(* The transfer of a configuration: an import works in two halves.         *)

\* A set of numbers that is not empty has a least one.
LEMMA LeastNat ==
  ASSUME NEW T, T \subseteq Nat, T # {}
  PROVE  \E x \in T : \A y \in T : x <= y
<1> DEFINE less == {ss \in Nat \X Nat : ss[1] < ss[2]}
<1>1. IsWellFoundedOn(less, Nat)
  BY NatLessThanWellFounded DEF OpToRel
<1> HIDE DEF less
<1>2. PICK x \in T : \A y \in T : ~(<<y, x>> \in less)
  BY <1>1, WFMin
<1>3. \A y \in T : ~(<<y, x>> \in less) => x <= y
  BY DEF less
<1> QED BY <1>2, <1>3

\* findIndex finds an index of the list, or nothing.
LEMMA PeerIndexed ==
  ASSUME NEW S, NEW peers \in Seq(S), NEW id, IndexOf(peers, id) > 0
  PROVE  IndexOf(peers, id) \in 1 .. Len(peers)
<1> DEFINE I == {i \in 1 .. Len(peers) : peers[i].id = id}
<1>1. IndexOf(peers, id) = IF I # {} THEN Min(I) ELSE 0
  BY DEF IndexOf, SelectInSeq
<1>2. I # {}
  <2> SUFFICES ASSUME I = {} PROVE FALSE
    OBVIOUS
  <2>1. IndexOf(peers, id) = 0
    BY <1>1
  <2> QED BY <2>1
<1>3. I \subseteq Nat /\ I \subseteq 1 .. Len(peers)
  OBVIOUS
<1> HIDE DEF I
<1>4. \E x \in I : \A y \in I : x <= y
  BY <1>2, <1>3, LeastNat
<1>5. Min(I) \in I
  BY <1>4 DEF Min
<1> QED BY <1>1, <1>2, <1>3, <1>5

\* A peer that takes another's place in the list, or none.
LEMMA PeerPlaced ==
  ASSUME NEW S, NEW peers \in Seq(S), NEW k, NEW peer
  PROVE  [peers EXCEPT ![k] = peer] \in Seq(S \cup {peer})
<1>1. peers \in [1 .. Len(peers) -> S] /\ Len(peers) \in Nat
  OBVIOUS
<1>2. [peers EXCEPT ![k] = peer] \in [1 .. Len(peers) -> S \cup {peer}]
  BY <1>1
<1>3. \A n \in Nat : [1 .. n -> S \cup {peer}] \subseteq Seq(S \cup {peer})
  OBVIOUS
<1> QED BY <1>1, <1>2, <1>3

\* A node configuration that is saved: its peer is in the list afterwards, in the place of
\* the peer of that code or at the head.
LEMMA NodeConfigSaved ==
  ASSUME StoreShape, NEW S, store.peers \in Seq(S), NEW config,
         store' = saveNodeConfigMock(store, config)
  PROVE  /\ \E T : store'.peers \in Seq(T)
         /\ config.peer \in ToSet(store'.peers)
         /\ store'.local = config.local /\ store'.net = store.net /\ store'.tunnel = store.tunnel
<1> DEFINE peers == store.peers
           peer == config.peer
           k == IndexOf(peers, peer.id)
           after == IF k > 0 THEN [peers EXCEPT ![k] = peer] ELSE <<peer>> \o peers
<1>1. store' = [store EXCEPT !.local = config.local, !.peers = after]
  BY DEF saveNodeConfigMock
<1>2. (\E T : after \in Seq(T)) /\ peer \in ToSet(after)
  <2>1. CASE k > 0
    <3>1. k \in 1 .. Len(peers)
      BY <2>1, PeerIndexed
    <3> DEFINE new == [peers EXCEPT ![k] = peer]
    <3>2. after = new
      BY <2>1
    <3>3. new \in Seq(S \cup {peer})
      BY PeerPlaced
    <3>4. k \in DOMAIN new /\ new[k] = peer
      BY <3>1
    <3> HIDE DEF new, after, k
    <3> QED BY <3>2, <3>3, <3>4 DEF ToSet
  <2>2. CASE ~(k > 0)
    <3> DEFINE new == <<peer>> \o peers
    <3>1. after = new
      BY <2>2
    <3>2. peers \in Seq(S \cup {peer}) /\ <<peer>> \in Seq(S \cup {peer})
      OBVIOUS
    <3>3. new \in Seq(S \cup {peer}) /\ Len(new) = 1 + Len(peers) /\ new[1] = peer
      BY <3>2
    <3>4. 1 \in DOMAIN new
      <4> HIDE DEF new
      <4> QED BY <3>3
    <3> HIDE DEF new, after, k
    <3> QED BY <3>1, <3>3, <3>4 DEF ToSet
  <2> QED BY <2>1, <2>2
<1> HIDE DEF after
<1>3. /\ store'.peers = after /\ store'.local = config.local
      /\ store'.net = store.net /\ store'.tunnel = store.tunnel
  BY <1>1 DEF StoreShape
<1> QED BY <1>2, <1>3

\* The imports that wait between their halves.
Halfway == {s \in Slots : cfgCalls[s].op = "import" /\ cfgCalls[s].act.at = "read"}

FirstHalf(file) ==
  store.net.ports = file.net.ports /\ store.net.most = file.net.most /\ store.tunnel = file.tunnel

Restored(file) ==
  FirstHalf(file) /\ store.local = file.node.local /\ file.node.peer \in ToSet(store.peers)

Transferring == \A s \in Slots : cfgCalls[s].op \in {"idle", "import", "export"}

Listed == \E S : store.peers \in Seq(S)

\* What was not raced: an import that is alone half way has left its first half in the
\* store; with none half way the store is as the file imported last.
Unraced ==
  ~cfgPage.raced =>
    /\ \A s \in Slots : Halfway = {s} => FirstHalf(cfgCalls[s].act.with)
    /\ Halfway = {} /\ cfgPage.draft # Nothing => Restored(cfgPage.draft)

TransferInv == cfgPage.kind = "transfer" => Listed /\ Transferring /\ Unraced

LEMMA TransferInitially == Init => TransferInv
<1> SUFFICES ASSUME Init, cfgPage.kind = "transfer" PROVE Listed /\ Transferring /\ Unraced
  BY DEF TransferInv
<1>1. MockInit(On({"mock"}, MockStores))
  BY DEF Init
<1>2. PICK x :
        /\ store = [local |-> localNodeState(x.mine, x.ip), peers |-> peerNodeState(x.other, x.ip),
                    tunnel |-> tunnelConfigState("SENDER_SIP__RECEIVER_RTP"), net |-> networkConfigState,
                    snaps |-> configSnapshotsSeed, job |-> Nothing]
        /\ cfgPage = [kind |-> x.kind, draft |-> Nothing, saving |-> FALSE, acting |-> FALSE,
                      open |-> "", file |-> Nothing, raced |-> FALSE]
        /\ cfgCalls = NoCalls
  BY <1>1, Zenon DEF MockInit
<1>3. store.peers = peerNodeState(x.other, x.ip) /\ cfgPage.draft = Nothing
  BY <1>2
<1>4. Listed
  <2> DEFINE p == [id |-> x.other, ip |-> x.ip]
  <2>1. store.peers = <<p>>
    BY <1>3 DEF peerNodeState
  <2> HIDE DEF p
  <2>2. <<p>> \in Seq({p})
    OBVIOUS
  <2> QED BY <2>1, <2>2 DEF Listed
<1>5. \A s \in Slots : cfgCalls[s].op = "idle"
  BY <1>2 DEF NoCalls, Idle
<1> QED BY <1>3, <1>4, <1>5 DEF Transferring, Unraced, Halfway

\* A step that leaves the store, the last import and the imports half way alone.
LEMMA TransferStays ==
  ASSUME Listed, Unraced, UNCHANGED store, cfgPage'.draft = cfgPage.draft, cfgPage'.raced = cfgPage.raced,
         \A t \in Slots : \/ cfgCalls'[t] = cfgCalls[t]
                          \/ t \notin Halfway /\ t \notin Halfway'
  PROVE  Listed' /\ Unraced'
<1>1. Halfway' = Halfway
  BY DEF Halfway
<1>2. \A file : FirstHalf(file) <=> FirstHalf(file)'
  BY DEF FirstHalf
<1>3. \A file : Restored(file) <=> Restored(file)'
  BY DEF Restored, FirstHalf
<1>4. Listed'
  BY DEF Listed
<1>5. ASSUME ~cfgPage'.raced
      PROVE  /\ \A s \in Slots : Halfway' = {s} => FirstHalf(cfgCalls[s].act.with)'
             /\ Halfway' = {} /\ cfgPage'.draft # Nothing => Restored(cfgPage.draft)'
  <2>1. ASSUME NEW s \in Slots, Halfway' = {s} PROVE FirstHalf(cfgCalls[s].act.with)'
    <3>1. cfgCalls'[s] = cfgCalls[s] /\ FirstHalf(cfgCalls[s].act.with)
      BY <1>1, <1>5, <2>1 DEF Unraced
    <3> QED BY <3>1 DEF FirstHalf
  <2>2. ASSUME Halfway' = {}, cfgPage'.draft # Nothing PROVE Restored(cfgPage.draft)'
    <3>1. Restored(cfgPage.draft)
      BY <1>1, <1>5, <2>2 DEF Unraced
    <3> QED BY <3>1 DEF Restored, FirstHalf
  <2> QED BY <2>1, <2>2
<1> QED BY <1>4, <1>5 DEF Unraced

\* The steps of the transfer page.
LEMMA TransferKinds ==
  ASSUME MockNext, cfgPage.kind = "transfer", Transferring
  PROVE  \/ ExportBegin \/ ImportBegin \/ MockCall
         \/ \E s \in Slots : exportConfigJsonMock(s) \/ importConfigJsonMock(s)
<1>1. ~(TunnelLoad \/ LocalLoad \/ PeerLoad \/ NodeConfigLoad)
  BY DEF TunnelLoad, LocalLoad, PeerLoad, NodeConfigLoad, CfgLoad
<1>2. ~(TunnelSave \/ TunnelAction \/ LocalSave \/ NodeConfigSave \/ PeerOpen \/ PeerSave \/ PeerRemove)
  BY DEF TunnelSave, TunnelAction, LocalSave, NodeConfigSave, PeerOpen, PeerSave, PeerRemove, Drafted
<1>3. ~(TunnelEdit \/ LocalEdit \/ NodeConfigEdit \/ SnapshotCall \/ JobCall)
  BY DEF TunnelEdit, LocalEdit, NodeConfigEdit, Drafted, SnapshotCall, JobCall
<1>4. ASSUME NEW s \in Slots
      PROVE  ~(CfgServeAct(s) \/ CfgActed(s) \/ CfgServeGet(s) \/ CfgLoaded(s))
  BY DEF CfgServeAct, CfgActed, CfgServeGet, CfgLoaded, Transferring
<1> QED BY <1>1, <1>2, <1>3, <1>4 DEF MockNext

\* The mock's own calls race an import and keep the list of peers a list.
LEMMA MockCallLists ==
  ASSUME StoreShape, Listed, MockCall
  PROVE  Listed'
<1>1. PICK S : store.peers \in Seq(S)
  BY DEF Listed
<1>2. ASSUME NEW x, store' = saveTunnelConfigMock(store, x) \/ store' = updateLocalNodeMock(store, x)
      PROVE  Listed'
  <2>1. store'.peers = store.peers
    BY <1>2 DEF saveTunnelConfigMock, updateLocalNodeMock, StoreShape
  <2> QED BY <1>1, <2>1 DEF Listed
<1>3. ASSUME NEW config, store' = saveNodeConfigMock(store, config) PROVE Listed'
  BY <1>1, <1>3, NodeConfigSaved DEF Listed
<1>4. ASSUME NEW peer, store' = updatePeerMock(store, peer) PROVE Listed'
  <2> DEFINE new == [store.peers EXCEPT ![IndexOf(store.peers, peer.id)] = peer]
  <2>1. store' = [store EXCEPT !.peers = new]
    BY <1>4 DEF updatePeerMock
  <2>2. new \in Seq(S \cup {peer})
    BY <1>1, PeerPlaced
  <2> HIDE DEF new
  <2>3. store'.peers = new
    BY <2>1 DEF StoreShape
  <2> QED BY <2>2, <2>3 DEF Listed
<1>5. ASSUME NEW ports, NEW most, store' = updateNetworkConfigMock(store, ports, most) PROVE Listed'
  <2>1. PICK net : store' = [store EXCEPT !.net = net]
    BY <1>5 DEF updateNetworkConfigMock
  <2>2. store'.peers = store.peers
    BY <2>1 DEF StoreShape
  <2> QED BY <1>1, <2>2 DEF Listed
<1> QED BY <1>2, <1>3, <1>4, <1>5 DEF MockCall

\* The first half of an import: it is the only one half way, or there are more.
LEMMA FirstHalfDone ==
  ASSUME StoreShape, CallShape, Listed, NEW s \in Slots, cfgCalls[s].op = "import",
         NEW file, file = cfgCalls[s].act.with,
         store' = [store EXCEPT !.net.ports = file.net.ports, !.net.most = file.net.most,
                                !.tunnel = file.tunnel],
         cfgCalls' = [cfgCalls EXCEPT ![s].act = Read(file)]
  PROVE  Listed' /\ Unraced'
<1>1. store'.peers = store.peers /\ FirstHalf(file)'
  BY DEF StoreShape, FirstHalf
<1>2. DOMAIN cfgCalls = Slots /\ DOMAIN cfgCalls[s] = {"op", "act", "get"}
  <2>1. cfgCalls[s] # Idle
    BY DEF Idle
  <2> QED BY <2>1 DEF CallShape
<1>3. /\ cfgCalls'[s].op = "import" /\ cfgCalls'[s].act.at = "read" /\ cfgCalls'[s].act.with = file
  BY <1>2 DEF Read
<1>4. s \in Halfway'
  BY <1>3 DEF Halfway
<1>5. ASSUME NEW t \in Slots, Halfway' = {t} PROVE FirstHalf(cfgCalls[t].act.with)'
  <2>1. t = s
    BY <1>4, <1>5
  <2>2. cfgCalls'[t].act.with = file
    BY <2>1, <1>3
  <2> QED BY <1>1, <2>2 DEF FirstHalf
<1>6. Listed'
  BY <1>1 DEF Listed
<1> QED BY <1>4, <1>5, <1>6 DEF Unraced

\* The second half: with no other import under way the file is restored.
LEMMA SecondHalfDone ==
  ASSUME StoreShape, CallShape, Listed, Unraced, NEW s \in Slots,
         cfgCalls[s].op = "import", cfgCalls[s].act.at = "read",
         NEW file, file = cfgCalls[s].act.with, store' = saveNodeConfigMock(store, file.node),
         cfgCalls' = [cfgCalls EXCEPT ![s] = Idle], cfgPage'.draft = file,
         cfgPage'.raced = (cfgPage.raced \/ \E t \in Slots \ {s} : cfgCalls[t].op = "import")
  PROVE  Listed' /\ Unraced'
<1>1. PICK S : store.peers \in Seq(S)
  BY DEF Listed
<1>2. /\ \E T : store'.peers \in Seq(T)
      /\ file.node.peer \in ToSet(store'.peers)
      /\ store'.local = file.node.local /\ store'.net = store.net /\ store'.tunnel = store.tunnel
  BY <1>1, NodeConfigSaved
<1>3. ASSUME ~cfgPage'.raced
      PROVE  Halfway' = {} /\ Restored(file)'
  <2>1. ~cfgPage.raced /\ \A t \in Slots \ {s} : cfgCalls[t].op # "import"
    BY <1>3
  <2>2. Halfway = {s}
    BY <2>1 DEF Halfway
  <2>3. FirstHalf(file)
    BY <2>1, <2>2 DEF Unraced
  <2>4. Halfway' = {}
    <3> SUFFICES ASSUME NEW t \in Slots, cfgCalls'[t].op = "import" PROVE FALSE
      BY DEF Halfway
    <3>1. cfgCalls'[t] = IF t = s THEN Idle ELSE cfgCalls[t]
      BY DEF CallShape
    <3>2. Idle.op # "import"
      BY DEF Idle
    <3> QED BY <2>1, <3>1, <3>2
  <2>5. Restored(file)'
    BY <1>2, <2>3 DEF Restored, FirstHalf
  <2> QED BY <2>4, <2>5
<1>4. Listed'
  BY <1>2 DEF Listed
<1>5. ASSUME ~cfgPage'.raced PROVE Restored(cfgPage.draft)'
  <2>1. Restored(file)'
    BY <1>3, <1>5
  <2> QED BY <2>1 DEF Restored, FirstHalf
<1> QED BY <1>3, <1>4, <1>5 DEF Unraced

\* A call of the transfer page that moves on.
LEMMA TransferMoves ==
  ASSUME CallShape, NEW s \in Slots, NEW x, cfgCalls[s].op \in {"import", "export"},
         cfgCalls' = [cfgCalls EXCEPT ![s].act = x]
  PROVE  /\ cfgCalls'[s].op = cfgCalls[s].op
         /\ \A t \in Slots : t # s => cfgCalls'[t] = cfgCalls[t]
<1> DEFINE call == [cfgCalls[s] EXCEPT !.act = x]
<1>1. cfgCalls[s] # Idle
  BY DEF Idle
<1>2. DOMAIN cfgCalls[s] = {"op", "act", "get"} /\ DOMAIN cfgCalls = Slots
  BY <1>1 DEF CallShape
<1>3. call.op = cfgCalls[s].op /\ cfgCalls' = [cfgCalls EXCEPT ![s] = call]
  BY <1>2
<1> HIDE DEF call
<1>4. \A t \in Slots : cfgCalls'[t] = IF t = s THEN call ELSE cfgCalls[t]
  BY <1>2, <1>3
<1> QED BY <1>3, <1>4

\* The page that is open stays open.
LEMMA KindStays ==
  ASSUME PageShape(cfgPage), MockNext
  PROVE  cfgPage'.kind = cfgPage.kind
<1>1. CASE UNCHANGED cfgPage
  BY <1>1
<1>2. CASE TunnelLoad \/ LocalLoad \/ PeerLoad \/ NodeConfigLoad \/ PeerSave \/ PeerRemove
           \/ ExportBegin \/ ImportBegin \/ SnapshotCall \/ JobCall
  BY <1>2 DEF TunnelLoad, LocalLoad, PeerLoad, NodeConfigLoad, CfgLoad, PeerSave, PeerRemove,
     ExportBegin, ImportBegin, SnapshotCall, JobCall
<1>3. CASE TunnelSave \/ TunnelAction \/ LocalSave \/ NodeConfigSave \/ MockCall
  BY <1>3 DEF TunnelSave, TunnelAction, LocalSave, NodeConfigSave, MockCall, PageShape
<1>4. CASE PeerOpen \/ TunnelEdit
  BY <1>4 DEF PeerOpen, TunnelEdit, PageShape
<1>5. CASE LocalEdit \/ NodeConfigEdit
  <2>1. PICK draft : cfgPage' = [cfgPage EXCEPT !.draft = draft]
    BY <1>5 DEF LocalEdit, NodeConfigEdit
  <2> QED BY <2>1 DEF PageShape
<1>6. ASSUME NEW s \in Slots, CfgServeAct(s) \/ CfgServeGet(s)
      PROVE  UNCHANGED cfgPage
  BY <1>6 DEF CfgServeAct, CfgServeGet
<1>7. ASSUME NEW s \in Slots, CfgActed(s) \/ CfgLoaded(s)
      PROVE  cfgPage'.kind = cfgPage.kind
  BY <1>7 DEF CfgActed, CfgLoaded, PageShape
<1>8. ASSUME NEW s \in Slots, exportConfigJsonMock(s) \/ importConfigJsonMock(s)
      PROVE  cfgPage'.kind = cfgPage.kind
  <2>1. \/ UNCHANGED cfgPage
        \/ \E file : cfgPage' = [cfgPage EXCEPT !.file = file]
        \/ cfgPage' = [cfgPage EXCEPT !.raced = FALSE]
        \/ \E file, raced : cfgPage' = [cfgPage EXCEPT !.draft = file, !.raced = raced]
    BY <1>8 DEF exportConfigJsonMock, importConfigJsonMock
  <2> QED BY <2>1 DEF PageShape
<1> QED BY <1>1, <1>2, <1>3, <1>4, <1>5, <1>6, <1>7, <1>8 DEF MockNext

LEMMA TransferStep == MockInv /\ TransferInv /\ [Next]_vars => TransferInv'
<1> SUFFICES ASSUME MockInv, TransferInv, [Next]_vars, cfgPage'.kind = "transfer"
             PROVE  Listed' /\ Transferring' /\ Unraced'
  BY DEF TransferInv
<1>1. StoreShape /\ CallShape /\ PageShape(cfgPage) /\ DOMAIN cfgCalls = Slots
  BY DEF MockInv, CallShape
<1>2. CASE UNCHANGED mockVars
  BY <1>2 DEF TransferInv, mockVars, Listed, Transferring, Unraced, Halfway, FirstHalf, Restored
<1>3. CASE MockNext /\ cfgPage.kind = "transfer"
  <2>1. Listed /\ Transferring /\ Unraced
    BY <1>3 DEF TransferInv
  <2>2. CASE ExportBegin \/ ImportBegin
    <3>1. PICK op, body : /\ op \in {"import", "export"}
                            /\ CfgBegin(op, Sent(body), Unsent) /\ UNCHANGED cfgPage
      BY <2>2 DEF ExportBegin, ImportBegin
    <3> DEFINE call == [op |-> op, act |-> Sent(body), get |-> Unsent]
    <3>2. PICK s \in Slots : /\ cfgCalls[s] = Idle /\ cfgCalls' = [cfgCalls EXCEPT ![s] = call]
                             /\ UNCHANGED store
      BY <3>1 DEF CfgBegin, Free, Put
    <3>3. call.op = op /\ call.act.at = "sent" /\ Idle.op = "idle" /\ call.op \in {"import", "export"}
      BY <3>1 DEF Sent, Idle
    <3> HIDE DEF call
    <3>4. \A t \in Slots : cfgCalls'[t] = IF t = s THEN call ELSE cfgCalls[t]
      BY <1>1, <3>2
    <3>5. s \notin Halfway /\ s \notin Halfway'
      BY <3>2, <3>3, <3>4 DEF Halfway
    <3>6. Transferring'
      BY <2>1, <3>3, <3>4 DEF Transferring
    <3>7. \A t \in Slots : cfgCalls'[t] = cfgCalls[t] \/ (t \notin Halfway /\ t \notin Halfway')
      BY <3>4, <3>5
    <3> QED BY <2>1, <3>1, <3>2, <3>6, <3>7, TransferStays
  <2>3. CASE MockCall
    <3>1. UNCHANGED cfgCalls /\ cfgPage' = [cfgPage EXCEPT !.raced = TRUE]
      BY <2>3 DEF MockCall
    <3>2. cfgPage'.raced
      BY <1>1, <3>1 DEF PageShape
    <3>3. Listed'
      BY <1>1, <2>1, <2>3, MockCallLists
    <3> QED BY <2>1, <3>1, <3>2, <3>3 DEF Unraced, Transferring
  <2>4. ASSUME NEW s \in Slots, exportConfigJsonMock(s)
        PROVE  Listed' /\ Transferring' /\ Unraced'
    <3>1. cfgCalls[s].op = "export" /\ UNCHANGED store
      BY <2>4 DEF exportConfigJsonMock
    <3>2. s \notin Halfway
      BY <3>1 DEF Halfway
    <3>3. CASE UNCHANGED cfgPage /\ \E x : cfgCalls' = [cfgCalls EXCEPT ![s].act = x]
      <4>0. PICK x : cfgCalls' = [cfgCalls EXCEPT ![s].act = x]
        BY <3>3
      <4>1. /\ Transferring' /\ cfgCalls'[s].op = "export"
            /\ \A t \in Slots : t # s => cfgCalls'[t] = cfgCalls[t]
        <5>1. CallShape /\ Transferring /\ cfgCalls[s].op \in {"import", "export"}
          BY <1>1, <2>1, <3>1
        <5>2. cfgCalls'[s].op = cfgCalls[s].op
          BY <4>0, <5>1, TransferMoves
        <5>3. \A t \in Slots : t # s => cfgCalls'[t] = cfgCalls[t]
          BY <4>0, <5>1, TransferMoves
        <5> QED BY <3>1, <5>1, <5>2, <5>3 DEF Transferring
      <4>2. s \notin Halfway'
        BY <4>1 DEF Halfway
      <4>3. \A t \in Slots : cfgCalls'[t] = cfgCalls[t] \/ (t \notin Halfway /\ t \notin Halfway')
        BY <3>2, <4>1, <4>2
      <4> QED BY <2>1, <3>1, <3>3, <4>1, <4>3, TransferStays
    <3>4. CASE /\ cfgCalls' = [cfgCalls EXCEPT ![s] = Idle]
               /\ \E file : cfgPage' = [cfgPage EXCEPT !.file = file]
      <4>1. Idle.op = "idle"
        BY DEF Idle
      <4>2. \A t \in Slots : cfgCalls'[t] = IF t = s THEN Idle ELSE cfgCalls[t]
        BY <1>1, <3>4
      <4>3. s \notin Halfway'
        BY <4>1, <4>2 DEF Halfway
      <4>4. cfgPage'.draft = cfgPage.draft /\ cfgPage'.raced = cfgPage.raced
        BY <1>1, <3>4 DEF PageShape
      <4>5. Transferring'
        BY <2>1, <4>1, <4>2 DEF Transferring
      <4>6. \A t \in Slots : cfgCalls'[t] = cfgCalls[t] \/ (t \notin Halfway /\ t \notin Halfway')
        BY <3>2, <4>2, <4>3
      <4> QED BY <2>1, <3>1, <4>4, <4>5, <4>6, TransferStays
    <3> QED BY <2>4, <3>3, <3>4 DEF exportConfigJsonMock, Put
  <2>5. ASSUME NEW s \in Slots, importConfigJsonMock(s)
        PROVE  Listed' /\ Transferring' /\ Unraced'
    <3> DEFINE file == cfgCalls[s].act.with
    <3>1. cfgCalls[s].op = "import"
      BY <2>5 DEF importConfigJsonMock
    <3>2. CASE /\ store' = [store EXCEPT !.net.ports = file.net.ports, !.net.most = file.net.most,
                                         !.tunnel = file.tunnel]
               /\ cfgCalls' = [cfgCalls EXCEPT ![s].act = Read(file)]
      <4>1. Transferring'
        <5> DEFINE x == Read(file)
        <5>1. cfgCalls' = [cfgCalls EXCEPT ![s].act = x]
          BY <3>2
        <5>2. CallShape /\ Transferring /\ cfgCalls[s].op \in {"import", "export"}
          BY <1>1, <2>1, <3>1
        <5> HIDE DEF x
        <5>3. cfgCalls'[s].op = cfgCalls[s].op
          BY <5>1, <5>2, TransferMoves
        <5>4. \A t \in Slots : t # s => cfgCalls'[t] = cfgCalls[t]
          BY <5>1, <5>2, TransferMoves
        <5> QED BY <5>2, <5>3, <5>4 DEF Transferring
      <4> HIDE DEF file
      <4>2. file = cfgCalls[s].act.with
        BY DEF file
      <4> QED BY <1>1, <2>1, <3>1, <3>2, <4>1, <4>2, FirstHalfDone
    <3>3. CASE /\ cfgCalls[s].act.at = "read"
               /\ store' = saveNodeConfigMock(store, file.node)
               /\ cfgCalls' = [cfgCalls EXCEPT ![s] = Idle]
               /\ cfgPage' = [cfgPage EXCEPT !.draft = file,
                                !.raced = @ \/ \E t \in Slots \ {s} : cfgCalls[t].op = "import"]
      <4>1. Transferring'
        <5>1. Idle.op = "idle"
          BY DEF Idle
        <5>2. \A t \in Slots : cfgCalls'[t] = IF t = s THEN Idle ELSE cfgCalls[t]
          BY <1>1, <3>3
        <5> QED BY <2>1, <5>1, <5>2 DEF Transferring
      <4> HIDE DEF file
      <4>2. file = cfgCalls[s].act.with
        BY DEF file
      <4>3. /\ cfgPage'.draft = file
            /\ cfgPage'.raced = (cfgPage.raced \/ \E t \in Slots \ {s} : cfgCalls[t].op = "import")
        BY <1>1, <3>3 DEF PageShape
      <4> QED BY <1>1, <2>1, <3>1, <3>3, <4>1, <4>2, <4>3, SecondHalfDone
    <3> QED BY <2>5, <3>2, <3>3 DEF importConfigJsonMock, Put
  <2> QED BY <1>3, <2>1, <2>2, <2>3, <2>4, <2>5, TransferKinds
<1>4. UNCHANGED mockVars \/ (MockNext /\ cfgPage.kind = "transfer")
  <2>1. MockNext => cfgPage'.kind = cfgPage.kind
    BY <1>1, KindStays
  <2> QED BY <2>1, PageSteps
<1> QED BY <1>2, <1>3, <1>4

\* An import that nothing overlapped leaves the configuration of its file, whatever number
\* of exports and imports, and of changes before it began (importConfigJsonMock).
THEOREM ImportsRestore == Spec => []ImportRestores
<1>1. TransferInv => ImportRestores
  <2> SUFFICES ASSUME TransferInv, cfgPage.kind = "transfer", cfgPage.draft # Nothing, ~cfgPage.raced,
                      Waiting(cfgCalls, "import") = {}
               PROVE  Restored(cfgPage.draft)
    BY DEF ImportRestores, Restored, FirstHalf
  <2>1. Halfway = {}
    BY DEF Halfway, Waiting
  <2> QED BY <2>1 DEF TransferInv, Unraced
<1> QED BY <1>1, TransferInitially, TransferStep, MockAlways, PTL DEF Spec

-----------------------------------------------------------------------------
(* Passes over a list, entry by entry.                                     *)

\* A set of numbers that is not empty has a least one.
LEMMA LeastIn ==
  ASSUME NEW T, T \subseteq Nat, T # {}
  PROVE  \E x \in T : \A y \in T : x <= y
<1> DEFINE less == {pair \in Nat \X Nat : pair[1] < pair[2]}
<1>1. IsWellFoundedOn(less, Nat)
  BY NatLessThanWellFounded DEF OpToRel
<1> HIDE DEF less
<1>2. PICK x \in T : \A y \in T : ~(<<y, x>> \in less)
  BY <1>1, WFMin
<1>3. \A y \in T : ~(<<y, x>> \in less) => x <= y
  BY DEF less
<1> QED BY <1>2, <1>3

\* A set with 0 that is closed under successor below k contains 0 .. k.
LEMMA AllUpTo ==
  ASSUME NEW k \in Nat, NEW S, 0 \in S, \A n \in 1 .. k : n - 1 \in S => n \in S
  PROVE  \A n \in 0 .. k : n \in S
<1> DEFINE T == {n \in 0 .. k : n \notin S}
<1> SUFFICES ASSUME T # {} PROVE FALSE
  OBVIOUS
<1>1. PICK x \in T : \A y \in T : x <= y
  <2>1. T \subseteq Nat
    OBVIOUS
  <2> QED BY <2>1, LeastIn
<1>2. x \in 1 .. k /\ x \notin S
  BY <1>1
<1>3. x - 1 \in 0 .. k /\ ~(x <= x - 1)
  BY <1>2
<1>4. x - 1 \in S
  BY <1>1, <1>3
<1> QED BY <1>2, <1>4

\* One step of a pass.
Step(pass, wanted, acc, x) ==
  IF pass = "new" THEN AddNew(acc, x) ELSE IF pass = "slash" THEN AddMark(acc, x)
  ELSE AddWanted(acc, x, wanted)

\* g[n] is what a pass has after n entries of the list.
Passes(pass, wanted, g, list) ==
  g[0] = <<>> /\ \A n \in 1 .. Len(list) : g[n] = Step(pass, wanted, g[n - 1], list[n])

\* The recursive definition of a pass has a solution.
Solves(pass, wanted, g, list) ==
  g = [n \in 0 .. Len(list) |-> IF n = 0 THEN <<>> ELSE Step(pass, wanted, g[n - 1], list[n])]

LEMMA PassExists ==
  ASSUME NEW list, Len(list) \in Nat, NEW pass, NEW wanted
  PROVE  \E g : Solves(pass, wanted, g, list)
<1> DEFINE L == Len(list)
           Body(g, n) == IF n = 0 THEN <<>> ELSE Step(pass, wanted, g[n - 1], list[n])
           S == {k \in 0 .. L : \E g : g = [n \in 0 .. k |-> Body(g, n)]}
<1>1. 0 \in S
  <2> DEFINE g == [n \in 0 .. 0 |-> <<>>]
  <2>1. g = [n \in 0 .. 0 |-> Body(g, n)]
    OBVIOUS
  <2> HIDE DEF g
  <2>2. \E x : x = [n \in 0 .. 0 |-> Body(x, n)]
    BY <2>1
  <2> QED BY <2>2
<1>2. ASSUME NEW k \in 1 .. L, k - 1 \in S PROVE k \in S
  <2>1. PICK g : g = [n \in 0 .. (k - 1) |-> Body(g, n)]
    BY <1>2
  <2> DEFINE h == [n \in 0 .. k |-> IF n = k THEN Step(pass, wanted, g[k - 1], list[k]) ELSE g[n]]
  <2>2. ASSUME NEW n \in 0 .. k PROVE h[n] = Body(h, n)
    <3>1. CASE n = k
      <4>1. k - 1 \in 0 .. k /\ k - 1 # k /\ k # 0
        BY <1>2
      <4>2. h[k - 1] = g[k - 1] /\ h[k] = Step(pass, wanted, g[k - 1], list[k])
        BY <4>1
      <4> QED BY <3>1, <4>1, <4>2
    <3>2. CASE n # k
      <4>1. n \in 0 .. (k - 1) /\ (n # 0 => n - 1 \in 0 .. (k - 1) /\ n - 1 # k /\ n - 1 \in 0 .. k)
        BY <1>2, <3>2
      <4>2. h[n] = g[n] /\ (n # 0 => h[n - 1] = g[n - 1])
        BY <4>1, <3>2
      <4>3. g[n] = Body(g, n)
        BY <2>1, <4>1
      <4> QED BY <4>2, <4>3
    <3> QED BY <3>1, <3>2
  <2>3. h = [n \in 0 .. k |-> Body(h, n)]
    <3>1. h = [n \in 0 .. k |-> h[n]]
      OBVIOUS
    <3> HIDE DEF h
    <3>2. [n \in 0 .. k |-> h[n]] = [n \in 0 .. k |-> Body(h, n)]
      BY <2>2
    <3> QED BY <3>1, <3>2
  <2> HIDE DEF h
  <2>4. \E x : x = [n \in 0 .. k |-> Body(x, n)]
    BY <2>3
  <2>5. k \in 0 .. L
    OBVIOUS
  <2> HIDE DEF Body
  <2> QED BY <2>4, <2>5
<1>3. L \in S
  <2> HIDE DEF S
  <2>1. \A n \in 0 .. L : n \in S
    BY <1>1, <1>2, AllUpTo
  <2> QED BY <2>1
<1>4. PICK g : g = [n \in 0 .. L |-> Body(g, n)]
  BY <1>3
<1>5. Solves(pass, wanted, g, list)
  BY <1>4 DEF Solves
<1> QED BY <1>5

\* The conversions are what their pass has at the end.
LEMMA DeduplicatedPass ==
  ASSUME NEW list, Len(list) \in Nat
  PROVE  \E g : Passes("new", {}, g, list) /\ Deduplicated(list) = g[Len(list)]
<1> DEFINE L == Len(list)
           Body(g, n) == IF n = 0 THEN <<>> ELSE AddNew(g[n - 1], list[n])
           w == CHOOSE g : g = [n \in 0 .. L |-> Body(g, n)]
<1>1. PICK g : Solves("new", {}, g, list)
  BY PassExists
<1>2. g = [n \in 0 .. L |-> Body(g, n)]
  BY <1>1 DEF Solves, Step
<1>3. w = [n \in 0 .. L |-> Body(w, n)]
  BY <1>2
<1>4. Deduplicated(list) = w[L]
  BY DEF Deduplicated
<1> HIDE DEF w
<1>5. w[0] = <<>> /\ \A n \in 1 .. L : w[n] = AddNew(w[n - 1], list[n])
  BY <1>3
<1> QED BY <1>4, <1>5 DEF Passes, Step

LEMMA CollapsedPass ==
  ASSUME NEW list, Len(list) \in Nat
  PROVE  \E g : Passes("slash", {}, g, list) /\ Collapsed(list) = g[Len(list)]
<1> DEFINE L == Len(list)
           Body(g, n) == IF n = 0 THEN <<>> ELSE AddMark(g[n - 1], list[n])
           w == CHOOSE g : g = [n \in 0 .. L |-> Body(g, n)]
<1>1. PICK g : Solves("slash", {}, g, list)
  BY PassExists
<1>2. g = [n \in 0 .. L |-> Body(g, n)]
  BY <1>1 DEF Solves, Step
<1>3. w = [n \in 0 .. L |-> Body(w, n)]
  BY <1>2
<1>4. Collapsed(list) = w[L]
  BY DEF Collapsed
<1> HIDE DEF w
<1>5. w[0] = <<>> /\ \A n \in 1 .. L : w[n] = AddMark(w[n - 1], list[n])
  BY <1>3
<1> QED BY <1>4, <1>5 DEF Passes, Step

-----------------------------------------------------------------------------
(* Method lists.                                                           *)

Distinct(list) == \A i, j \in 1 .. Len(list) : list[i] = list[j] => i = j

\* What the pass has after n entries: each of them that is not empty, once.
OnceEach(out, list, n) ==
  Distinct(out) /\ \A x : Contains(out, x) <=> x # "" /\ \E i \in 1 .. n : list[i] = x

LEMMA Appended ==
  ASSUME NEW S, NEW out \in Seq(S), NEW y \in S
  PROVE  /\ Append(out, y) \in Seq(S) /\ Len(Append(out, y)) = Len(out) + 1 /\ Len(out) \in Nat
         /\ \A i \in 1 .. Len(out) : Append(out, y)[i] = out[i]
         /\ Append(out, y)[Len(out) + 1] = y
OBVIOUS

LEMMA ContainsAppended ==
  ASSUME NEW S, NEW out \in Seq(S), NEW y \in S
  PROVE  \A x : Contains(Append(out, y), x) <=> Contains(out, x) \/ x = y
<1> DEFINE new == Append(out, y)
           L == Len(out)
<1>1. /\ L \in Nat /\ Len(new) = L + 1
      /\ \A i \in 1 .. L : new[i] = out[i]
      /\ new[L + 1] = y
  BY Appended
<1> HIDE DEF new, L
<1> TAKE x
<1>2. ASSUME Contains(new, x) PROVE Contains(out, x) \/ x = y
  <2>1. PICK i \in 1 .. L + 1 : new[i] = x
    BY <1>1, <1>2 DEF Contains
  <2>2. CASE i = L + 1
    BY <1>1, <2>1, <2>2
  <2>3. CASE i # L + 1
    <3>1. i \in 1 .. L
      BY <1>1, <2>3
    <3> QED BY <1>1, <2>1, <3>1 DEF Contains, L
  <2> QED BY <2>2, <2>3
<1>3. ASSUME Contains(out, x) PROVE Contains(new, x)
  <2>1. PICK i \in 1 .. L : out[i] = x
    BY <1>3 DEF Contains, L
  <2>2. i \in 1 .. L + 1
    BY <1>1
  <2> QED BY <1>1, <2>1, <2>2 DEF Contains
<1>4. ASSUME x = y PROVE Contains(new, x)
  <2>1. L + 1 \in 1 .. L + 1
    BY <1>1
  <2> QED BY <1>1, <1>4, <2>1 DEF Contains
<1> QED BY <1>2, <1>3, <1>4 DEF new

LEMMA DistinctAppended ==
  ASSUME NEW S, NEW out \in Seq(S), NEW y \in S, Distinct(out), ~Contains(out, y)
  PROVE  Distinct(Append(out, y))
<1> DEFINE new == Append(out, y)
           L == Len(out)
<1>1. /\ L \in Nat /\ Len(new) = L + 1
      /\ \A i \in 1 .. L : new[i] = out[i]
      /\ new[L + 1] = y
  BY Appended
<1>2. \A i \in 1 .. L : out[i] # y
  BY DEF Contains
<1>3. \A i, j \in 1 .. L : out[i] = out[j] => i = j
  BY DEF Distinct
<1> HIDE DEF new, L
<1>4. ASSUME NEW i \in 1 .. L + 1, NEW j \in 1 .. L + 1, new[i] = new[j] PROVE i = j
  <2>1. (i \in 1 .. L \/ i = L + 1) /\ (j \in 1 .. L \/ j = L + 1)
    BY <1>1
  <2> QED BY <1>1, <1>2, <1>3, <1>4, <2>1
<1> QED BY <1>1, <1>4 DEF Distinct, new

LEMMA AddNewOnce ==
  ASSUME NEW S, NEW out \in Seq(S), NEW list, NEW n \in Nat \ {0}, list[n] \in S,
         OnceEach(out, list, n - 1)
  PROVE  AddNew(out, list[n]) \in Seq(S) /\ OnceEach(AddNew(out, list[n]), list, n)
<1> DEFINE x == list[n]
<1>1. \A y : (\E i \in 1 .. n : list[i] = y) <=> (\E i \in 1 .. n - 1 : list[i] = y) \/ y = x
  <2> TAKE y
  <2>1. ASSUME NEW i \in 1 .. n, list[i] = y PROVE (\E j \in 1 .. n - 1 : list[j] = y) \/ y = x
    <3>1. i \in 1 .. n - 1 \/ i = n
      OBVIOUS
    <3> QED BY <2>1, <3>1
  <2>2. ASSUME NEW i \in 1 .. n - 1, list[i] = y PROVE \E j \in 1 .. n : list[j] = y
    <3>1. i \in 1 .. n
      OBVIOUS
    <3> QED BY <2>2, <3>1
  <2>3. n \in 1 .. n
    OBVIOUS
  <2> QED BY <2>1, <2>2, <2>3
<1>2. Distinct(out) /\ \A y : Contains(out, y) <=> y # "" /\ \E i \in 1 .. n - 1 : list[i] = y
  BY DEF OnceEach
<1> HIDE DEF x
<1>3. CASE x = "" \/ Contains(out, x)
  <2>1. AddNew(out, x) = out
    BY <1>3 DEF AddNew
  <2>2. \A y : Contains(out, y) <=> y # "" /\ \E i \in 1 .. n : list[i] = y
    BY <1>1, <1>2, <1>3
  <2>3. OnceEach(out, list, n)
    BY <1>2, <2>2 DEF OnceEach
  <2> QED BY <2>1, <2>3 DEF x
<1>4. CASE ~(x = "" \/ Contains(out, x))
  <2>0. x \in S
    BY DEF x
  <2>1. AddNew(out, x) = Append(out, x)
    BY <1>4, Zenon DEF AddNew
  <2>2. \A y : Contains(Append(out, x), y) <=> Contains(out, y) \/ y = x
    BY <2>0, ContainsAppended
  <2>3. \A y : Contains(Append(out, x), y) <=> y # "" /\ \E i \in 1 .. n : list[i] = y
    BY <1>1, <1>2, <1>4, <2>2
  <2>4. Distinct(Append(out, x))
    BY <1>2, <1>4, <2>0, DistinctAppended
  <2>5. OnceEach(Append(out, x), list, n)
    BY <2>3, <2>4 DEF OnceEach
  <2>6. Append(out, x) \in Seq(S)
    BY <2>0, Appended
  <2> QED BY <2>1, <2>5, <2>6 DEF x
<1> QED BY <1>3, <1>4

\* Deduplicated keeps each entry that is not empty, once.
LEMMA DeduplicatedOnce ==
  ASSUME NEW S, NEW list \in Seq(S)
  PROVE  Deduplicated(list) \in Seq(S) /\ OnceEach(Deduplicated(list), list, Len(list))
<1> DEFINE L == Len(list)
<1>1. L \in Nat /\ \A n \in 1 .. L : list[n] \in S
  OBVIOUS
<1>2. PICK g : Passes("new", {}, g, list) /\ Deduplicated(list) = g[L]
  BY <1>1, DeduplicatedPass
<1>3. g[0] = <<>> /\ \A n \in 1 .. L : g[n] = AddNew(g[n - 1], list[n])
  BY <1>2 DEF Passes, Step
<1> DEFINE T == {n \in 0 .. L : g[n] \in Seq(S) /\ OnceEach(g[n], list, n)}
<1> HIDE DEF L
<1>4. 0 \in T
  <2>1. <<>> \in Seq(S) /\ OnceEach(<<>>, list, 0)
    BY DEF OnceEach, Distinct, Contains
  <2>2. 0 \in 0 .. L
    BY <1>1
  <2>3. g[0] \in Seq(S) /\ OnceEach(g[0], list, 0)
    BY <1>3, <2>1
  <2> QED BY <2>2, <2>3
<1>5. ASSUME NEW n \in 1 .. L, n - 1 \in T PROVE n \in T
  <2>1. n \in Nat \ {0} /\ list[n] \in S /\ n \in 0 .. L
    BY <1>1
  <2>2. g[n - 1] \in Seq(S) /\ OnceEach(g[n - 1], list, n - 1)
    BY <1>5
  <2>3. AddNew(g[n - 1], list[n]) \in Seq(S) /\ OnceEach(AddNew(g[n - 1], list[n]), list, n)
    BY <2>1, <2>2, AddNewOnce
  <2>4. g[n] = AddNew(g[n - 1], list[n])
    BY <1>3
  <2> QED BY <2>1, <2>3, <2>4
<1>6. L \in T
  <2> HIDE DEF T
  <2>1. \A n \in 0 .. L : n \in T
    BY <1>1, <1>4, <1>5, AllUpTo
  <2>2. L \in 0 .. L
    BY <1>1
  <2> QED BY <2>1, <2>2
<1> QED BY <1>2, <1>6 DEF L

\* out is the first n entries of the list.
IsFirst(out, list, n) == Len(out) = n /\ \A i \in 1 .. n : out[i] = list[i]

LEMMA FirstAppended ==
  ASSUME NEW S, NEW out \in Seq(S), NEW list, NEW n \in Nat \ {0}, list[n] \in S,
         IsFirst(out, list, n - 1)
  PROVE  Append(out, list[n]) \in Seq(S) /\ IsFirst(Append(out, list[n]), list, n)
<1> DEFINE y == list[n]
           new == Append(out, y)
<1>1. /\ new \in Seq(S) /\ Len(new) = Len(out) + 1
      /\ \A i \in 1 .. Len(out) : new[i] = out[i]
      /\ new[Len(out) + 1] = y
  BY Appended
<1>2. Len(out) = n - 1 /\ \A i \in 1 .. n - 1 : out[i] = list[i]
  BY DEF IsFirst
<1> HIDE DEF new, y
<1>3. Len(new) = n /\ new[n] = y
  BY <1>1, <1>2
<1>4. ASSUME NEW i \in 1 .. n PROVE new[i] = list[i]
  <2>1. CASE i = n
    BY <1>3, <2>1 DEF y
  <2>2. CASE i # n
    <3>1. i \in 1 .. n - 1
      BY <2>2
    <3> QED BY <1>1, <1>2, <3>1
  <2> QED BY <2>1, <2>2
<1>5. IsFirst(new, list, n)
  BY <1>3, <1>4 DEF IsFirst
<1> QED BY <1>1, <1>5 DEF new, y

LEMMA WholeFirst ==
  ASSUME NEW S, NEW out \in Seq(S), NEW list \in Seq(S), IsFirst(out, list, Len(list))
  PROVE  out = list
BY DEF IsFirst

NoEmpty(list) == ~Contains(list, "")

\* A list without empty entries and duplicates stays as it is.
LEMMA DeduplicatedFixed ==
  ASSUME NEW S, NEW list \in Seq(S), Distinct(list), NoEmpty(list)
  PROVE  Deduplicated(list) = list
<1> DEFINE L == Len(list)
<1>1. L \in Nat /\ \A n \in 1 .. L : list[n] \in S
  OBVIOUS
<1>2. PICK g : Passes("new", {}, g, list) /\ Deduplicated(list) = g[L]
  BY <1>1, DeduplicatedPass
<1>3. g[0] = <<>> /\ \A n \in 1 .. L : g[n] = AddNew(g[n - 1], list[n])
  BY <1>2 DEF Passes, Step
<1>4. \A n \in 1 .. L : list[n] # ""
  BY DEF Contains, NoEmpty
<1>5. \A i, j \in 1 .. L : list[i] = list[j] => i = j
  BY DEF Distinct
<1> DEFINE T == {n \in 0 .. L : g[n] \in Seq(S) /\ IsFirst(g[n], list, n)}
<1> HIDE DEF L
<1>6. 0 \in T
  <2>1. <<>> \in Seq(S) /\ IsFirst(<<>>, list, 0)
    BY DEF IsFirst
  <2>2. 0 \in 0 .. L
    BY <1>1
  <2>3. g[0] \in Seq(S) /\ IsFirst(g[0], list, 0)
    BY <1>3, <2>1
  <2> QED BY <2>2, <2>3
<1>7. ASSUME NEW n \in 1 .. L, n - 1 \in T PROVE n \in T
  <2>1. n \in Nat \ {0} /\ list[n] \in S /\ n \in 0 .. L
    BY <1>1
  <2>2. g[n - 1] \in Seq(S) /\ IsFirst(g[n - 1], list, n - 1)
    BY <1>7
  <2> DEFINE out == g[n - 1]
  <2> HIDE DEF out
  <2>3. ~Contains(out, list[n])
    <3>1. SUFFICES ASSUME NEW i \in 1 .. n - 1, out[i] = list[n] PROVE FALSE
      BY <2>2 DEF IsFirst, Contains, out
    <3>2. out[i] = list[i]
      BY <2>2 DEF IsFirst, out
    <3>3. i \in 1 .. L /\ i # n
      BY <1>1
    <3> QED BY <1>5, <3>1, <3>2, <3>3
  <2>4. list[n] # ""
    BY <1>4
  <2>5. AddNew(out, list[n]) = Append(out, list[n])
    BY <2>3, <2>4, Zenon DEF AddNew
  <2>6. Append(out, list[n]) \in Seq(S) /\ IsFirst(Append(out, list[n]), list, n)
    BY <2>1, <2>2, FirstAppended DEF out
  <2>7. g[n] = AddNew(out, list[n])
    BY <1>3 DEF out
  <2>8. g[n] \in Seq(S) /\ IsFirst(g[n], list, n)
    BY <2>5, <2>6, <2>7
  <2> QED BY <2>1, <2>8
<1>8. L \in T
  <2> HIDE DEF T
  <2>1. \A n \in 0 .. L : n \in T
    BY <1>1, <1>6, <1>7, AllUpTo
  <2>2. L \in 0 .. L
    BY <1>1
  <2> QED BY <2>1, <2>2
<1>9. g[L] \in Seq(S) /\ IsFirst(g[L], list, Len(list))
  BY <1>8 DEF L
<1> QED BY <1>2, <1>9, WholeFirst

\* trim and upper case once are enough, and keep an entry that is not empty.
LEMMA UpperFixed == \A x : Upper(Upper(x)) = Upper(x) /\ (Upper(x) = "*" <=> x = "*")
BY DEF Upper

Uppered(values) == [i \in DOMAIN values |-> Upper(values[i])]

\* What normalizeMethodSelection makes of a list.
LEMMA MethodsAre ==
  ASSUME NEW S, NEW values \in Seq(S)
  PROVE  LET d == Deduplicated(Uppered(values))
             U == {Upper(x) : x \in S} IN
         /\ d \in Seq(U) /\ OnceEach(d, Uppered(values), Len(values))
         /\ normalizeMethodSelection(values) = IF Contains(d, "*") \/ d = <<>> THEN <<"*">> ELSE d
<1> DEFINE U == {Upper(x) : x \in S}
           up == Uppered(values)
<1>1. up \in Seq(U) /\ Len(up) = Len(values)
  <2>1. DOMAIN values = 1 .. Len(values) /\ Len(values) \in Nat /\ \A i \in 1 .. Len(values) : values[i] \in S
    OBVIOUS
  <2>2. up = [i \in 1 .. Len(values) |-> Upper(values[i])]
    BY <2>1 DEF Uppered
  <2>3. \A i \in 1 .. Len(values) : Upper(values[i]) \in U
    BY <2>1
  <2> HIDE DEF U
  <2> QED BY <2>1, <2>2, <2>3
<1>2. Deduplicated(up) \in Seq(U) /\ OnceEach(Deduplicated(up), up, Len(up))
  BY <1>1, DeduplicatedOnce
<1>3. normalizeMethodSelection(values)
        = IF Contains(Deduplicated(up), "*") \/ Deduplicated(up) = <<>> THEN <<"*">> ELSE Deduplicated(up)
  BY DEF normalizeMethodSelection, Uppered
<1> QED BY <1>1, <1>2, <1>3

\* The method list ["*"] stays as it is.
LEMMA StarFixed == normalizeMethodSelection(<<"*">>) = <<"*">>
<1> DEFINE v == <<"*">>
           d == Deduplicated(Uppered(v))
<1>1. v \in Seq({"*"}) /\ Len(v) = 1 /\ DOMAIN v = 1 .. 1 /\ v[1] = "*"
  OBVIOUS
<1>2. /\ OnceEach(d, Uppered(v), 1)
      /\ normalizeMethodSelection(v) = IF Contains(d, "*") \/ d = <<>> THEN <<"*">> ELSE d
  BY <1>1, MethodsAre
<1> HIDE DEF d
<1>3. Uppered(v)[1] = "*"
  BY <1>1, UpperFixed DEF Uppered
<1>4. Contains(d, "*")
  <2>1. 1 \in 1 .. 1
    OBVIOUS
  <2>2. \A x : x # "" /\ (\E i \in 1 .. 1 : Uppered(v)[i] = x) => Contains(d, x)
    BY <1>2 DEF OnceEach
  <2> HIDE DEF v
  <2>3. \E i \in 1 .. 1 : Uppered(v)[i] = "*"
    BY <1>3, <2>1
  <2> QED BY <2>2, <2>3
<1> QED BY <1>2, <1>4

\* What was typed, trimmed and in upper case.
Typed(values) == {Upper(x) : x \in ToSet(values)} \ {""}

LEMMA ContainsTyped ==
  ASSUME NEW S, NEW values \in Seq(S), NEW d, OnceEach(d, Uppered(values), Len(values))
  PROVE  \A x : Contains(d, x) <=> x \in Typed(values)
<1> TAKE x
<1>1. Contains(d, x) <=> x # "" /\ \E i \in 1 .. Len(values) : Uppered(values)[i] = x
  BY DEF OnceEach
<1>2. DOMAIN values = 1 .. Len(values)
  OBVIOUS
<1>3. (\E i \in 1 .. Len(values) : Uppered(values)[i] = x) <=> \E i \in DOMAIN values : Upper(values[i]) = x
  BY <1>2 DEF Uppered
<1>4. (\E i \in DOMAIN values : Upper(values[i]) = x) <=> x \in {Upper(y) : y \in ToSet(values)}
  BY DEF ToSet
<1> QED BY <1>1, <1>3, <1>4 DEF Typed

LEMMA InSequence ==
  ASSUME NEW S, NEW d \in Seq(S), NEW T, \A x : Contains(d, x) <=> x \in T
  PROVE  ToSet(d) = T /\ (d = <<>> <=> T = {})
<1>1. DOMAIN d = 1 .. Len(d) /\ Len(d) \in Nat
  OBVIOUS
<1>2. ToSet(d) = T
  BY <1>1 DEF ToSet, Contains
<1>3. ASSUME d = <<>> PROVE T = {}
  BY <1>1, <1>2, <1>3 DEF ToSet
<1>4. ASSUME T = {} PROVE d = <<>>
  <2>1. ~(1 \in 1 .. Len(d))
    BY <1>4 DEF Contains
  <2> QED BY <1>1, <2>1
<1> QED BY <1>2, <1>3, <1>4

LEMMA DistinctIsInjective ==
  ASSUME NEW S, NEW d \in Seq(S)
  PROVE  Distinct(d) <=> IsInjective(d)
BY DEF Distinct, IsInjective

\* A list of distinct methods in upper case stays as it is.
LEMMA NormalFixed ==
  ASSUME NEW S, NEW d \in Seq(S), Distinct(d), NoEmpty(d), ~Contains(d, "*"), d # <<>>,
         \A i \in 1 .. Len(d) : Upper(d[i]) = d[i]
  PROVE  normalizeMethodSelection(d) = d
<1>1. Uppered(d) = d
  <2>1. DOMAIN d = 1 .. Len(d) /\ d = [i \in DOMAIN d |-> d[i]]
    OBVIOUS
  <2>2. [i \in DOMAIN d |-> Upper(d[i])] = [i \in DOMAIN d |-> d[i]]
    BY <2>1
  <2> QED BY <2>1, <2>2 DEF Uppered
<1>2. Deduplicated(d) = d
  BY DeduplicatedFixed
<1> QED BY <1>1, <1>2, MethodsAre

MethodsRight(values) ==
  LET list == normalizeMethodSelection(values) IN
  /\ list # <<>> /\ IsInjective(list) /\ normalizeMethodSelection(list) = list
  /\ ToSet(list) = IF Typed(values) = {} \/ "*" \in Typed(values) THEN {"*"} ELSE Typed(values)

LEMMA MethodsAreRight ==
  ASSUME NEW S, NEW values \in Seq(S)
  PROVE  MethodsRight(values)
<1> DEFINE U == {Upper(x) : x \in S}
           d == Deduplicated(Uppered(values))
           list == normalizeMethodSelection(values)
<1>1. /\ d \in Seq(U) /\ OnceEach(d, Uppered(values), Len(values))
      /\ list = IF Contains(d, "*") \/ d = <<>> THEN <<"*">> ELSE d
  BY MethodsAre
<1>2. \A x : Contains(d, x) <=> x \in Typed(values)
  <2> HIDE DEF d
  <2> QED BY <1>1, ContainsTyped
<1>3. ToSet(d) = Typed(values) /\ (d = <<>> <=> Typed(values) = {})
  <2> HIDE DEF d, U
  <2> QED BY <1>1, <1>2, InSequence
<1>4. CASE Contains(d, "*") \/ d = <<>>
  <2>1. list = <<"*">>
    BY <1>1, <1>4
  <2>2. Typed(values) = {} \/ "*" \in Typed(values)
    BY <1>2, <1>3, <1>4
  <2>3. <<"*">> # <<>> /\ IsInjective(<<"*">>) /\ ToSet(<<"*">>) = {"*"}
    BY DEF IsInjective, ToSet
  <2> HIDE DEF list
  <2> QED BY <2>1, <2>2, <2>3, StarFixed DEF MethodsRight, list
<1>5. CASE ~(Contains(d, "*") \/ d = <<>>)
  <2>1. list = d
    BY <1>1, <1>5
  <2>2. ~(Typed(values) = {} \/ "*" \in Typed(values))
    BY <1>2, <1>3, <1>5
  <2> HIDE DEF d
  <2>3. Distinct(d) /\ NoEmpty(d)
    BY <1>1 DEF OnceEach, NoEmpty
  <2>4. \A i \in 1 .. Len(d) : Upper(d[i]) = d[i]
    <3>1. \A x \in U : Upper(x) = x
      BY UpperFixed
    <3> HIDE DEF U
    <3>2. \A i \in 1 .. Len(d) : d[i] \in U
      BY <1>1
    <3> QED BY <3>1, <3>2
  <2>5. normalizeMethodSelection(d) = d
    <3> HIDE DEF U
    <3> QED BY <1>1, <1>5, <2>3, <2>4, NormalFixed
  <2>6. IsInjective(d)
    BY <1>1, <2>3, DistinctIsInjective
  <2> HIDE DEF list
  <2> QED BY <1>3, <1>5, <2>1, <2>2, <2>5, <2>6 DEF MethodsRight, list
<1> QED BY <1>4, <1>5

-----------------------------------------------------------------------------
(* The router base.                                                        *)

IsSlash(c) == c = "/"

NoEmptySegment(out) == \A i \in 1 .. Len(out) - 1 : ~IsSlash(out[i]) \/ ~IsSlash(out[i + 1])

\* What the pass has after n marks, for n at least 1: the ends of the list so far, and
\* runs of slashes as one.
SlashedOnce(out, list, n) ==
  /\ Len(out) >= 1 /\ out[1] = list[1] /\ out[Len(out)] = list[n]
  /\ NoEmptySegment(out)

LEMMA AddMarkIs ==
  ASSUME NEW S, NEW out \in Seq(S), NEW c
  PROVE  AddMark(out, c) = IF IsSlash(c) /\ Len(out) >= 1 /\ IsSlash(out[Len(out)]) THEN out ELSE Append(out, c)
<1>1. out # <<>> <=> Len(out) >= 1
  OBVIOUS
<1> QED BY <1>1, Zenon DEF AddMark, IsSlash, Last

LEMMA AddMarkOnce ==
  ASSUME NEW S, NEW out \in Seq(S), NEW list, NEW n \in Nat \ {0}, list[n] \in S,
         n = 1 => out = <<>>, n > 1 => SlashedOnce(out, list, n - 1)
  PROVE  AddMark(out, list[n]) \in Seq(S) /\ SlashedOnce(AddMark(out, list[n]), list, n)
<1> DEFINE c == list[n]
           L == Len(out)
           new == Append(out, c)
<1>1. /\ new \in Seq(S) /\ Len(new) = L + 1 /\ L \in Nat
      /\ \A i \in 1 .. L : new[i] = out[i]
      /\ new[L + 1] = c
  BY Appended
<1>2. CASE IsSlash(c) /\ L >= 1 /\ IsSlash(out[L])
  <2>1. AddMark(out, c) = out
    BY <1>2, AddMarkIs
  <2>2. n > 1
    <3>1. n # 1
      BY <1>2
    <3> QED BY <3>1
  <2>3. out[L] = c
    BY <1>2 DEF IsSlash
  <2>4. SlashedOnce(out, list, n)
    BY <2>2, <2>3 DEF SlashedOnce
  <2> QED BY <2>1, <2>4
<1>3. CASE ~(IsSlash(c) /\ L >= 1 /\ IsSlash(out[L]))
  <2>1. AddMark(out, c) = new
    BY <1>3, AddMarkIs
  <2> HIDE DEF new, L, c
  <2>2. new[1] = list[1] /\ NoEmptySegment(new)
    <3>1. CASE n = 1
      <4>1. L = 0
        BY <3>1 DEF L
      <4>2. new[1] = list[1]
        BY <1>1, <3>1, <4>1 DEF c
      <4>3. NoEmptySegment(new)
        BY <1>1, <4>1 DEF NoEmptySegment
      <4> QED BY <4>2, <4>3
    <3>2. CASE n # 1
      <4>1. L >= 1 /\ out[1] = list[1] /\ \A i \in 1 .. L - 1 : ~IsSlash(out[i]) \/ ~IsSlash(out[i + 1])
        BY <3>2 DEF SlashedOnce, NoEmptySegment, L
      <4>2. new[1] = list[1]
        BY <1>1, <4>1
      <4>3. ASSUME NEW i \in 1 .. Len(new) - 1 PROVE ~IsSlash(new[i]) \/ ~IsSlash(new[i + 1])
        <5>1. CASE i = L
          <6>1. new[i] = out[L] /\ new[i + 1] = c
            BY <1>1, <4>1, <5>1
          <6> QED BY <1>3, <4>1, <6>1
        <5>2. CASE i # L
          <6>1. i \in 1 .. L - 1 /\ i \in 1 .. L /\ i + 1 \in 1 .. L
            BY <1>1, <5>2
          <6>2. new[i] = out[i] /\ new[i + 1] = out[i + 1]
            BY <1>1, <6>1
          <6> QED BY <4>1, <6>1, <6>2
        <5> QED BY <5>1, <5>2
      <4> QED BY <4>2, <4>3 DEF NoEmptySegment
    <3> QED BY <3>1, <3>2
  <2>3. Len(new) >= 1 /\ new[Len(new)] = c
    BY <1>1
  <2>4. SlashedOnce(new, list, n)
    BY <2>2, <2>3 DEF SlashedOnce, c
  <2> QED BY <1>1, <2>1, <2>4 DEF c
<1> QED BY <1>2, <1>3

\* Collapsed keeps both ends and leaves no two slashes side by side.
LEMMA CollapsedOnce ==
  ASSUME NEW S, NEW list \in Seq(S), Len(list) >= 1
  PROVE  Collapsed(list) \in Seq(S) /\ SlashedOnce(Collapsed(list), list, Len(list))
<1> DEFINE L == Len(list)
<1>1. L \in Nat /\ L >= 1 /\ \A n \in 1 .. L : list[n] \in S
  OBVIOUS
<1>2. PICK g : Passes("slash", {}, g, list) /\ Collapsed(list) = g[L]
  BY <1>1, CollapsedPass
<1>3. g[0] = <<>> /\ \A n \in 1 .. L : g[n] = AddMark(g[n - 1], list[n])
  BY <1>2 DEF Passes, Step
<1> DEFINE T == {n \in 0 .. L : g[n] \in Seq(S) /\ (n > 0 => SlashedOnce(g[n], list, n))}
<1> HIDE DEF L
<1>4. 0 \in T
  <2>1. 0 \in 0 .. L /\ ~(0 > 0)
    BY <1>1
  <2>2. g[0] \in Seq(S)
    BY <1>3
  <2> QED BY <2>1, <2>2
<1>5. ASSUME NEW n \in 1 .. L, n - 1 \in T PROVE n \in T
  <2>1. n \in Nat \ {0} /\ list[n] \in S /\ n \in 0 .. L
    BY <1>1
  <2>2. g[n - 1] \in Seq(S) /\ (n - 1 > 0 => SlashedOnce(g[n - 1], list, n - 1))
    BY <1>5
  <2>3. (n = 1 => g[n - 1] = <<>>) /\ (n > 1 => SlashedOnce(g[n - 1], list, n - 1))
    <3>1. CASE n = 1
      <4>1. n - 1 = 0 /\ ~(n > 1)
        BY <3>1
      <4> QED BY <1>3, <4>1
    <3>2. CASE n # 1
      <4>1. n - 1 > 0
        BY <3>2
      <4> QED BY <2>2, <3>2, <4>1
    <3> QED BY <3>1, <3>2
  <2>4. AddMark(g[n - 1], list[n]) \in Seq(S) /\ SlashedOnce(AddMark(g[n - 1], list[n]), list, n)
    <3> DEFINE out == g[n - 1]
    <3>1. out \in Seq(S) /\ (n = 1 => out = <<>>) /\ (n > 1 => SlashedOnce(out, list, n - 1))
      BY <2>2, <2>3
    <3> HIDE DEF out
    <3>2. AddMark(out, list[n]) \in Seq(S) /\ SlashedOnce(AddMark(out, list[n]), list, n)
      BY <2>1, <3>1, AddMarkOnce
    <3> QED BY <3>2 DEF out
  <2>5. g[n] = AddMark(g[n - 1], list[n])
    BY <1>3
  <2>6. g[n] \in Seq(S) /\ SlashedOnce(g[n], list, n)
    BY <2>4, <2>5
  <2> QED BY <2>1, <2>6
<1>6. L \in T
  <2> HIDE DEF T
  <2>1. \A n \in 0 .. L : n \in T
    BY <1>1, <1>4, <1>5, AllUpTo
  <2>2. L \in 0 .. L
    BY <1>1
  <2> QED BY <2>1, <2>2
<1>7. L > 0
  BY <1>1
<1> QED BY <1>2, <1>6, <1>7 DEF L

\* A list without two slashes side by side stays as it is.
LEMMA CollapsedFixed ==
  ASSUME NEW S, NEW list \in Seq(S), NoEmptySegment(list)
  PROVE  Collapsed(list) = list
<1> DEFINE L == Len(list)
<1>1. L \in Nat /\ \A n \in 1 .. L : list[n] \in S
  OBVIOUS
<1>2. PICK g : Passes("slash", {}, g, list) /\ Collapsed(list) = g[L]
  BY <1>1, CollapsedPass
<1>3. g[0] = <<>> /\ \A n \in 1 .. L : g[n] = AddMark(g[n - 1], list[n])
  BY <1>2 DEF Passes, Step
<1>4. \A i \in 1 .. L - 1 : ~IsSlash(list[i]) \/ ~IsSlash(list[i + 1])
  BY DEF NoEmptySegment
<1> DEFINE T == {n \in 0 .. L : g[n] \in Seq(S) /\ IsFirst(g[n], list, n)}
<1> HIDE DEF L
<1>6. 0 \in T
  <2>1. <<>> \in Seq(S) /\ IsFirst(<<>>, list, 0)
    BY DEF IsFirst
  <2>2. 0 \in 0 .. L
    BY <1>1
  <2>3. g[0] \in Seq(S) /\ IsFirst(g[0], list, 0)
    BY <1>3, <2>1
  <2> QED BY <2>2, <2>3
<1>7. ASSUME NEW n \in 1 .. L, n - 1 \in T PROVE n \in T
  <2>1. n \in Nat \ {0} /\ list[n] \in S /\ n \in 0 .. L
    BY <1>1
  <2>2. g[n - 1] \in Seq(S) /\ IsFirst(g[n - 1], list, n - 1)
    BY <1>7
  <2> DEFINE out == g[n - 1]
  <2>3. out \in Seq(S) /\ Len(out) = n - 1 /\ \A i \in 1 .. n - 1 : out[i] = list[i]
    BY <2>2 DEF IsFirst
  <2>4. g[n] = AddMark(out, list[n])
    BY <1>3
  <2>5. IsFirst(out, list, n - 1)
    BY <2>2
  <2> HIDE DEF out
  <2>6. ~(IsSlash(list[n]) /\ Len(out) >= 1 /\ IsSlash(out[Len(out)]))
    <3>1. SUFFICES ASSUME IsSlash(list[n]), Len(out) >= 1, IsSlash(out[Len(out)]) PROVE FALSE
      OBVIOUS
    <3>2. PICK m \in 1 .. L - 1 : m = n - 1
      BY <1>1, <2>1, <2>3, <3>1
    <3>3. n = m + 1 /\ m \in 1 .. n - 1
      BY <1>1, <3>2
    <3>4. IsSlash(list[m])
      BY <2>3, <3>1, <3>2, <3>3
    <3> QED BY <1>4, <3>1, <3>3, <3>4
  <2>7. AddMark(out, list[n]) = Append(out, list[n])
    BY <2>3, <2>6, AddMarkIs
  <2>8. Append(out, list[n]) \in Seq(S) /\ IsFirst(Append(out, list[n]), list, n)
    BY <2>1, <2>3, <2>5, FirstAppended
  <2>9. g[n] \in Seq(S) /\ IsFirst(g[n], list, n)
    BY <2>4, <2>7, <2>8
  <2> QED BY <2>1, <2>9
<1>8. L \in T
  <2> HIDE DEF T
  <2>1. \A n \in 0 .. L : n \in T
    BY <1>1, <1>6, <1>7, AllUpTo
  <2>2. L \in 0 .. L
    BY <1>1
  <2> QED BY <2>1, <2>2
<1>9. g[L] \in Seq(S) /\ IsFirst(g[L], list, Len(list))
  BY <1>8 DEF L
<1> QED BY <1>2, <1>9, WholeFirst

\* A slash at both ends.
Slashed(list) == Len(list) >= 1 /\ IsSlash(list[1]) /\ IsSlash(list[Len(list)])

LEMMA LedByOne ==
  ASSUME NEW S, NEW one \in Seq(S), Len(one) = 1, NEW raw \in Seq(S)
  PROVE  one \o raw \in Seq(S) /\ Len(one \o raw) >= 1 /\ (one \o raw)[1] = one[1]
<1>1. one \o raw \in Seq(S) /\ Len(one \o raw) = 1 + Len(raw)
  BY ConcatProperties
<1>2. Len(one \o raw) >= 1 /\ 1 \in 1 .. Len(one) + Len(raw)
  BY <1>1, LenProperties
<1>3. (one \o raw)[1] = one[1]
  BY <1>2, ConcatProperties
<1> QED BY <1>1, <1>2, <1>3

LEMMA ClosedIsSlashed ==
  ASSUME NEW S, "/" \in S, NEW raw \in Seq(S)
  PROVE  Closed(raw) \in Seq(S) /\ Slashed(Closed(raw)) /\ (Slashed(raw) => Closed(raw) = raw)
<1>1. Led(raw) \in Seq(S) /\ Len(Led(raw)) >= 1 /\ IsSlash(Led(raw)[1])
  <2>1. CASE raw = <<>> \/ Head(raw) # "/"
    <3>1. Led(raw) = <<"/">> \o raw
      BY <2>1 DEF Led
    <3>2. <<"/">> \in Seq(S) /\ Len(<<"/">>) = 1 /\ <<"/">>[1] = "/"
      OBVIOUS
    <3> DEFINE one == <<"/">>
    <3>3. IsSlash(one[1])
      BY <3>2 DEF IsSlash
    <3> HIDE DEF one
    <3>4. one \in Seq(S) /\ Len(one) = 1
      BY <3>2 DEF one
    <3>5. one \o raw \in Seq(S) /\ Len(one \o raw) >= 1 /\ (one \o raw)[1] = one[1]
      BY <3>4, LedByOne
    <3> QED BY <3>1, <3>3, <3>5 DEF one
  <2>2. CASE ~(raw = <<>> \/ Head(raw) # "/")
    <3>1. Led(raw) = raw /\ Head(raw) = "/"
      BY <2>2 DEF Led
    <3>2. Len(raw) >= 1 /\ Head(raw) = raw[1]
      BY <2>2
    <3> QED BY <3>1, <3>2 DEF IsSlash
  <2> QED BY <2>1, <2>2
<1>2. Slashed(raw) => Led(raw) = raw
  <2>1. ASSUME Slashed(raw) PROVE raw # <<>> /\ Head(raw) = raw[1]
    BY <2>1 DEF Slashed
  <2>2. ASSUME Slashed(raw) PROVE raw[1] = "/"
    BY <2>2 DEF Slashed, IsSlash
  <2> QED BY <2>1, <2>2, Zenon DEF Led
<1> DEFINE led == Led(raw)
           L == Len(led)
<1>3. Closed(raw) = IF IsSlash(led[L]) THEN led ELSE Append(led, "/")
  BY Zenon DEF Closed, Last, IsSlash
<1> HIDE DEF led
<1>4. led \in Seq(S) /\ L \in Nat /\ L >= 1 /\ IsSlash(led[1])
  BY <1>1 DEF led
<1>5. CASE IsSlash(led[L])
  <2>1. Closed(raw) = led
    BY <1>3, <1>5
  <2>2. Slashed(led)
    BY <1>4, <1>5 DEF Slashed
  <2> QED BY <1>2, <1>4, <2>1, <2>2 DEF led
<1>6. CASE ~IsSlash(led[L])
  <2> DEFINE new == Append(led, "/")
  <2>1. Closed(raw) = new
    BY <1>3, <1>6
  <2>2. /\ new \in Seq(S) /\ Len(new) = L + 1
        /\ \A i \in 1 .. L : new[i] = led[i]
        /\ new[L + 1] = "/"
    BY <1>4, Appended
  <2>3. IsSlash(new[L + 1])
    BY <2>2 DEF IsSlash
  <2> HIDE DEF new, L
  <2>4. 1 \in 1 .. L /\ L + 1 >= 1
    BY <1>4
  <2>5. Slashed(new)
    BY <1>4, <2>2, <2>3, <2>4 DEF Slashed
  <2>6. ~Slashed(raw)
    BY <1>2, <1>6 DEF Slashed, led, L
  <2> QED BY <2>1, <2>2, <2>5, <2>6
<1> QED BY <1>5, <1>6

\* The first and the last of some positions of a list.
LEMMA EndsOf ==
  ASSUME NEW n \in Nat, NEW T, T \subseteq 1 .. n, T # {}
  PROVE  /\ Min(T) \in T /\ \A y \in T : Min(T) <= y
         /\ Max(T) \in T /\ \A y \in T : Max(T) >= y
<1>1. \E x \in T : \A y \in T : x <= y
  <2>1. T \subseteq Nat
    OBVIOUS
  <2> QED BY <2>1, LeastIn
<1>2. \E x \in T : \A y \in T : x >= y
  <2> DEFINE U == {b \in Nat : n - b \in T}
  <2>1. U # {}
    <3>1. PICK y \in T : TRUE
      OBVIOUS
    <3>2. n - y \in Nat /\ n - (n - y) = y
      OBVIOUS
    <3> QED BY <3>1, <3>2
  <2>2. PICK b \in U : \A c \in U : b <= c
    <3>1. U \subseteq Nat
      OBVIOUS
    <3> QED BY <2>1, <3>1, LeastIn
  <2>3. ASSUME NEW y \in T PROVE n - b >= y
    <3>1. n - y \in Nat /\ n - (n - y) = y
      OBVIOUS
    <3>2. b <= n - y
      BY <2>2, <3>1
    <3> QED BY <2>2, <3>1, <3>2
  <2> QED BY <2>2, <2>3
<1> QED BY <1>1, <1>2 DEF Min, Max

LEMMA TrimmedIn ==
  ASSUME NEW S, NEW raw \in Seq(S)
  PROVE  trim(raw) \in Seq(S)
<1>1. CASE Printed(raw) = {}
  BY <1>1 DEF trim
<1>2. CASE Printed(raw) # {}
  <2> DEFINE lo == Min(Printed(raw))
             hi == Max(Printed(raw))
  <2>1. Printed(raw) \subseteq 1 .. Len(raw) /\ Len(raw) \in Nat
    <3>1. DOMAIN raw = 1 .. Len(raw) /\ Len(raw) \in Nat
      BY LenProperties
    <3>2. Printed(raw) \subseteq DOMAIN raw
      BY DEF Printed
    <3> QED BY <3>1, <3>2
  <2>2. lo \in Printed(raw) /\ hi \in Printed(raw)
    BY <1>2, <2>1, EndsOf
  <2>3. trim(raw) = SubSeq(raw, lo, hi)
    BY <1>2 DEF trim
  <2> HIDE DEF lo, hi
  <2>4. lo \in 1 .. Len(raw) /\ hi \in 1 .. Len(raw)
    BY <2>1, <2>2
  <2>5. /\ lo \in Int /\ hi \in Int
        /\ \A i \in lo .. hi : raw[i] \in S
    BY <2>4
  <2>6. SubSeq(raw, lo, hi) \in Seq(S)
    BY <2>5, SubSeqProperties
  <2> QED BY <2>3, <2>6
<1> QED BY <1>1, <1>2

\* There is nothing to trim from a list with a slash at both ends.
LEMMA TrimmedFixed ==
  ASSUME NEW S, NEW base \in Seq(S), Slashed(base)
  PROVE  trim(base) = base
<1> DEFINE L == Len(base)
           P == Printed(base)
<1>1. L \in Nat /\ L >= 1 /\ base[1] = "/" /\ base[L] = "/"
  BY DEF Slashed, IsSlash
<1>2. P \subseteq 1 .. L /\ 1 \in P /\ L \in P
  <2>1. DOMAIN base = 1 .. L /\ 1 \in 1 .. L /\ L \in 1 .. L
    BY <1>1
  <2>2. base[1] # " " /\ base[L] # " "
    BY <1>1
  <2> HIDE DEF L
  <2> QED BY <2>1, <2>2 DEF Printed
<1>3. trim(base) = SubSeq(base, Min(P), Max(P))
  BY <1>2 DEF trim
<1> HIDE DEF P, L
<1>4. /\ Min(P) \in P /\ \A y \in P : Min(P) <= y
      /\ Max(P) \in P /\ \A y \in P : Max(P) >= y
  BY <1>1, <1>2, EndsOf
<1>5. Min(P) = 1 /\ Max(P) = L
  <2>1. Min(P) \in 1 .. L /\ Max(P) \in 1 .. L
    BY <1>2, <1>4
  <2>2. Min(P) <= 1 /\ Max(P) >= L
    BY <1>2, <1>4
  <2> QED BY <1>1, <2>1, <2>2
<1>6. SubSeq(base, 1, Len(base)) = base
  BY SubSeqFull
<1> QED BY <1>3, <1>5, <1>6 DEF L

\* A normal base stays as it is.
LEMMA BaseFixed ==
  ASSUME NEW S, "/" \in S, Placeholder \notin S, NEW base \in Seq(S), Slashed(base),
         NoEmptySegment(base)
  PROVE  normalizeRouterBase(base) = base
<1>1. trim(base) = base
  BY TrimmedFixed
<1>2. ~Unset(base)
  <2>1. base # <<>>
    BY DEF Slashed
  <2>2. \A i \in 1 .. Len(base) : base[i] # Placeholder
    OBVIOUS
  <2> QED BY <2>1, <2>2 DEF Unset, Contains
<1>3. Closed(base) = base
  BY ClosedIsSlashed
<1>4. Collapsed(base) = base
  BY CollapsedFixed
<1> QED BY <1>1, <1>2, <1>3, <1>4 DEF normalizeRouterBase

LEMMA BaseIsNormal ==
  ASSUME NEW M, NEW raw \in Seq(M), NEW S, S = (M \cup {"/"}) \ {Placeholder}
  PROVE  LET base == normalizeRouterBase(raw) IN
         base \in Seq(S) /\ Slashed(base) /\ NoEmptySegment(base)
<1> DEFINE base == normalizeRouterBase(raw)
           text == trim(raw)
<1>1. "/" \in S
  BY PlaceholderAssumption
<1>2. CASE Unset(text)
  <2>1. base = <<"/">>
    BY <1>2 DEF normalizeRouterBase
  <2>2. <<"/">> \in Seq(S) /\ Len(<<"/">>) = 1 /\ <<"/">>[1] = "/"
    BY <1>1
  <2> DEFINE one == <<"/">>
  <2>3. IsSlash(one[1])
    BY <2>2 DEF IsSlash
  <2> HIDE DEF one
  <2>4. one \in Seq(S) /\ Len(one) = 1
    BY <2>2 DEF one
  <2>5. Slashed(one) /\ NoEmptySegment(one)
    BY <2>3, <2>4 DEF Slashed, NoEmptySegment
  <2> QED BY <2>1, <2>4, <2>5 DEF one
<1>3. CASE ~Unset(text)
  <2> DEFINE closed == Closed(text)
  <2>1. base = Collapsed(closed)
    BY <1>3 DEF normalizeRouterBase
  <2>2. text \in Seq(M)
    BY TrimmedIn
  <2>3. \A i \in 1 .. Len(text) : text[i] # Placeholder
    BY <1>3 DEF Unset, Contains
  <2> HIDE DEF text
  <2>4. \A i \in 1 .. Len(text) : text[i] \in S
    BY <2>2, <2>3
  <2>5. text \in Seq(S)
    BY <2>2, <2>4
  <2>6. closed \in Seq(S) /\ Slashed(closed)
    BY <1>1, <2>5, ClosedIsSlashed
  <2> HIDE DEF closed
  <2>7. Len(closed) >= 1 /\ IsSlash(closed[1]) /\ IsSlash(closed[Len(closed)])
    BY <2>6 DEF Slashed
  <2>8. Collapsed(closed) \in Seq(S) /\ SlashedOnce(Collapsed(closed), closed, Len(closed))
    BY <2>6, <2>7, CollapsedOnce
  <2>9. Slashed(Collapsed(closed)) /\ NoEmptySegment(Collapsed(closed))
    BY <2>7, <2>8 DEF Slashed, SlashedOnce
  <2> QED BY <2>1, <2>8, <2>9
<1> QED BY <1>2, <1>3

-----------------------------------------------------------------------------
(* The samples: any list of texts, any list of marks.                      *)

LEMMA ListsAreSequences ==
  ASSUME NEW S, NEW list \in Lists(S)
  PROVE  list \in Seq(S)
BY LongestAssumption DEF Lists

LEMMA SampleKept == Spec => [](sample \in Samples)
<1>1. Samples # {}
  <2>1. <<>> \in Lists(Texts)
    <3>1. 0 \in 0 .. Longest
      BY LongestAssumption
    <3>2. <<>> \in [1 .. 0 -> Texts]
      OBVIOUS
    <3> QED BY <3>1, <3>2 DEF Lists
  <2>2. [of |-> "methods", text |-> <<>>] \in Samples
    BY <2>1 DEF Samples
  <2> QED BY <2>2
<1>2. Init => sample \in Samples
  BY <1>1 DEF Init, ConversionsInit, On
<1>3. sample \in Samples /\ [Next]_vars => (sample \in Samples)'
  BY DEF Next, vars
<1> QED BY <1>2, <1>3, PTL DEF Spec

\* For method lists of any length: a saved list is "*" alone or a list of distinct methods, it
\* allows what was typed, and normalising it again changes nothing (normalizeMethodSelection).
THEOREM MethodListsNormal == Spec => []MethodsNormal
<1>1. ASSUME sample \in Samples PROVE MethodsNormal
  <2> SUFFICES ASSUME sample.of = "methods" PROVE MethodsNormal
    BY DEF MethodsNormal
  <2>1. sample.text \in Lists(Texts)
    BY <1>1 DEF Samples
  <2>2. sample.text \in Seq(Texts)
    BY <2>1, ListsAreSequences
  <2>3. MethodsRight(sample.text)
    BY <2>2, MethodsAreRight
  <2> QED BY <2>3 DEF MethodsRight, MethodsNormal, Typed
<1> QED BY <1>1, SampleKept, PTL

\* For base paths of any length: the router base starts and ends with a slash, has no empty
\* segment and no placeholder, and normalising it again changes nothing (normalizeRouterBase).
THEOREM RouterBaseNormal == Spec => []BaseNormal
<1>1. ASSUME sample \in Samples PROVE BaseNormal
  <2> SUFFICES ASSUME sample.of = "base" PROVE BaseNormal
    BY DEF BaseNormal
  <2> DEFINE S == (Marks \cup {"/"}) \ {Placeholder}
             base == normalizeRouterBase(sample.text)
  <2>1. sample.text \in Lists(Marks)
    BY <1>1 DEF Samples
  <2>2. sample.text \in Seq(Marks)
    BY <2>1, ListsAreSequences
  <2>3. "/" \in S /\ Placeholder \notin S
    BY PlaceholderAssumption
  <2>4. S = (Marks \cup {"/"}) \ {Placeholder}
    OBVIOUS
  <2> HIDE DEF S
  <2>5. base \in Seq(S) /\ Slashed(base) /\ NoEmptySegment(base)
    BY <2>2, <2>4, BaseIsNormal
  <2>6. normalizeRouterBase(base) = base
    BY <2>3, <2>5, BaseFixed
  <2> HIDE DEF base
  <2>7. Len(base) >= 1 /\ Head(base) = base[1]
    BY <2>5 DEF Slashed
  <2>8. Head(base) = "/" /\ Last(base) = "/"
    BY <2>5, <2>7 DEF Slashed, IsSlash, Last
  <2>9. \A i \in 1 .. Len(base) - 1 : base[i] # "/" \/ base[i + 1] # "/"
    BY <2>5 DEF NoEmptySegment, IsSlash
  <2>10. \A i \in 1 .. Len(base) : base[i] # Placeholder
    BY <2>3, <2>5
  <2>11. ~Contains(base, Placeholder)
    BY <2>10 DEF Contains
  <2> QED BY <2>6, <2>8, <2>9, <2>11 DEF BaseNormal, base
<1> QED BY <1>1, SampleKept, PTL
=============================================================================
