--------------------------- MODULE ConsoleProofs ---------------------------
(***************************************************************************)
(* The spinners of the console are honest, for every number of handlers    *)
(* under way at a time.  A handler takes the flags down that it has        *)
(* raised, in its finally block; which ones is a matter of its kind, and   *)
(* on the pages whose handlers end with a load, of how far it is.  The     *)
(* invariant of each page says that a flag that is up has a handler that   *)
(* will take it down.  A step replaces the handler of one slot: every flag *)
(* that is up afterwards must be of the handler put there, or it was up    *)
(* before and is not of the handler replaced.  Where the button is dead    *)
(* while the flag is up there is at most one such handler.                 *)
(***************************************************************************)
EXTENDS Console, TLAPS

-----------------------------------------------------------------------------
(* What all pages share.                                                   *)

\* A step is one of the page on the route; all others stand still.
LEMMA RouteSteps ==
  ASSUME [Next]_vars
  PROVE  /\ SettingsNext \/ UNCHANGED settingsPageVars
         /\ NodesNext \/ UNCHANGED nodesVars
         /\ ProtectionNext \/ UNCHANGED <<protPage, protCalls>>
         /\ MappingNext \/ UNCHANGED mappingVars
         /\ ResourceNext \/ UNCHANGED resourceVars
         /\ ListNext \/ UNCHANGED listVars
         /\ MonitorNext \/ UNCHANGED monitorVars
         /\ MockNext \/ UNCHANGED mockVars
<1>1. CASE UNCHANGED vars
  BY <1>1 DEF vars, protectionVars
<1>2. CASE OnSettings \/ OnNodes \/ OnProtection \/ OnMapping
  BY <1>2 DEF OnSettings, OnNodes, OnProtection, OnMapping, protectionVars
<1>3. CASE OnResource \/ OnList \/ OnMonitor \/ OnMock
  BY <1>3 DEF OnResource, OnList, OnMonitor, OnMock, protectionVars
<1>4. CASE OnLimits
  <2>1. UNCHANGED <<protPage, protCalls>>
    BY <1>4 DEF OnLimits, PolicyNext, loadLimits, openEdit, PolicyType, savePolicy, PolicyServe,
       PolicyAnswered, PolicyFails, PolicyQuiet
  <2> QED BY <1>4, <2>1 DEF OnLimits
<1> QED BY <1>1, <1>2, <1>3, <1>4 DEF Next

\* Each slot has a handler, and a handler a kind.
HasKind(call) == "op" \in DOMAIN call

Ready(calls) ==
  /\ calls = [s \in Slots |-> calls[s]]
  /\ \A s \in Slots : HasKind(calls[s])

LEMMA NoneReady == Ready(NoCalls) /\ \A s \in Slots : NoCalls[s] = Idle /\ NoCalls[s].op = "idle"
BY DEF Ready, NoCalls, Idle, HasKind

\* A handler replaced by another.
Replaced(calls, after, s, call) ==
  Ready(after) /\ \A t \in Slots : after[t] = IF t = s THEN call ELSE calls[t]

LEMMA SlotReplaced ==
  \A calls, s, call :
    Ready(calls) /\ s \in Slots /\ HasKind(call)
      => Replaced(calls, [calls EXCEPT ![s] = call], s, call)
BY DEF Ready, Replaced

LEMMA IdleKind == Idle.op = "idle" /\ HasKind(Idle)
BY DEF Idle, HasKind

\* The handler of a slot goes on with its next request.
LEMMA HandlerGoesOn ==
  ASSUME NEW call, HasKind(call), NEW request
  PROVE  /\ [call EXCEPT !.get = request].op = call.op /\ HasKind([call EXCEPT !.get = request])
         /\ [call EXCEPT !.act = request].op = call.op /\ HasKind([call EXCEPT !.act = request])
         /\ [call EXCEPT !.post = request].op = call.op
         /\ HasKind([call EXCEPT !.post = request])
         /\ [call EXCEPT !.usage = request].op = call.op
         /\ HasKind([call EXCEPT !.usage = request])
BY DEF HasKind

\* The page stops waiting for a handler.
LEMMA HandlerLeft ==
  ASSUME NEW call, HasKind(call)
  PROVE  [call EXCEPT !.op = "left"].op = "left" /\ HasKind([call EXCEPT !.op = "left"])
BY DEF HasKind

\* A flag that is up has a handler that will take it down.
Tended(flag, handlers) == flag = TRUE => handlers # {}

LEMMA StillTended ==
  ASSUME NEW was, NEW is, NEW before, NEW after, NEW s,
         Tended(was, before), before \ {s} \subseteq after,
         is = TRUE => (s \in after \/ (was = TRUE /\ s \notin before))
  PROVE  Tended(is, after)
BY DEF Tended

\* A flag of one kind of handlers, when an old handler makes room for a new one.
Passed(was, is, old, new, op) == is = TRUE => (new.op = op \/ (was = TRUE /\ old.op # op))

LEMMA KindTended ==
  ASSUME NEW calls, NEW after, NEW s \in Slots, NEW call, NEW was, NEW is, NEW op,
         Replaced(calls, after, s, call), Passed(was, is, calls[s], call, op),
         Tended(was, Waiting(calls, op))
  PROVE  Tended(is, Waiting(after, op))
<1>1. after[s] = call /\ \A t \in Slots : t # s => after[t] = calls[t]
  BY DEF Replaced
<1>2. s \in Waiting(after, op) <=> call.op = op
  BY <1>1 DEF Waiting
<1>3. s \in Waiting(calls, op) <=> calls[s].op = op
  BY DEF Waiting
<1>4. Waiting(calls, op) \ {s} \subseteq Waiting(after, op)
  BY <1>1 DEF Waiting
<1>5. is = TRUE => (s \in Waiting(after, op) \/ (was = TRUE /\ s \notin Waiting(calls, op)))
  BY <1>2, <1>3 DEF Passed
<1> QED BY <1>4, <1>5, StillTended

LEMMA NoneTended == \A handlers : Tended(FALSE, handlers)
BY DEF Tended

-----------------------------------------------------------------------------
(* The lists.                                                              *)

ListFlagged(page) == "loading" \in DOMAIN page /\ page.loading \in BOOLEAN

ListFlags ==
  ListFlagged(listPage) /\ Ready(listCalls) /\ Tended(listPage.loading, Waiting(listCalls, "load"))

LEMMA ListTurn ==
  ASSUME ListFlags, NEW s \in Slots, NEW call, HasKind(call),
         listCalls' = [listCalls EXCEPT ![s] = call],
         ListFlagged(listPage'),
         Passed(listPage.loading, listPage'.loading, listCalls[s], call, "load")
  PROVE  ListFlags'
<1>1. Ready(listCalls) /\ Tended(listPage.loading, Waiting(listCalls, "load"))
  BY DEF ListFlags
<1>2. Replaced(listCalls, listCalls', s, call)
  BY <1>1, SlotReplaced
<1>3. Tended(listPage'.loading, Waiting(listCalls', "load"))
  BY <1>1, <1>2, KindTended
<1>4. Ready(listCalls')
  BY <1>2 DEF Replaced
<1> QED BY <1>3, <1>4 DEF ListFlags, Ready, Waiting

LEMMA ListFlagsStep == ListFlags /\ [Next]_vars => ListFlags'
<1> SUFFICES ASSUME ListFlags, [Next]_vars PROVE ListFlags'
  OBVIOUS
<1>1. ListNext \/ UNCHANGED listVars
  BY RouteSteps
<1>2. CASE UNCHANGED listVars
  BY <1>2 DEF listVars, ListFlags, Ready, Waiting
<1>3. ASSUME NEW ask, ListAsk(ask), ListFlagged(listPage')
      PROVE  ListFlags'
  <2> DEFINE call == [op |-> "load", get |-> Sent(ask)]
  <2>1. PICK s \in Slots : listCalls' = [listCalls EXCEPT ![s] = call]
    BY <1>3 DEF ListAsk, Free, Put
  <2>2. HasKind(call) /\ call.op = "load"
    BY DEF HasKind
  <2> HIDE DEF call
  <2> QED BY <1>3, <2>1, <2>2, ListTurn DEF Passed
<1>4. ASSUME UNCHANGED listCalls, ListFlagged(listPage'), listPage'.loading = listPage.loading
      PROVE  ListFlags'
  BY <1>4 DEF ListFlags, Ready, Waiting
<1>5. CASE AccessMount \/ AccessLoad \/ AccessReset
  <2>1. ListFlagged(listPage') /\ listPage'.loading = TRUE
    BY <1>5 DEF AccessMount, AccessLoad, AccessReset, LastHour, ListFlags, ListFlagged
  <2> QED BY <1>3, <1>5, <2>1 DEF AccessMount, AccessLoad, AccessReset
<1>6. ASSUME NEW filter, LoadRows(filter) PROVE ListFlags'
  <2>1. ListFlagged(listPage') /\ listPage'.loading = TRUE
    BY <1>6 DEF LoadRows, ListFlags, ListFlagged
  <2> QED BY <1>3, <1>6, <2>1 DEF LoadRows
<1>7. ASSUME NEW filter, NEW page, NEW size, LoadPage(filter, page, size) PROVE ListFlags'
  <2>1. ListFlagged(listPage')
    BY <1>7 DEF LoadPage, ListFlags, ListFlagged
  <2> QED BY <1>3, <1>7, <2>1 DEF LoadPage
<1>8. CASE AuditsLoad \/ AuditsReset \/ EventsLoad
  BY <1>6, <1>8 DEF AuditsLoad, AuditsReset, EventsLoad
<1>9. ASSUME TurnPage PROVE ListFlags'
  BY <1>7, <1>9 DEF TurnPage
<1>10. CASE CommandLoad \/ CommandTurn \/ CommandReset \/ FileLoad \/ FileTurn \/ FileReset
            \/ AuditLogLoad \/ AuditLogTurn
  BY <1>7, <1>9, <1>10 DEF CommandLoad, CommandTurn, CommandReset, FileLoad, FileTurn, FileReset,
     AuditLogLoad, AuditLogTurn
<1>11. ASSUME TypeFilter PROVE ListFlags'
  <2>1. ListFlagged(listPage') /\ listPage'.loading = listPage.loading
    BY <1>11 DEF TypeFilter, ListFlags, ListFlagged
  <2> QED BY <1>4, <1>11, <2>1 DEF TypeFilter
<1>12. CASE AccessFilter \/ AuditsFilter \/ CommandFilter \/ FileFilter \/ AuditLogFilter
  BY <1>11, <1>12 DEF AccessFilter, AuditsFilter, CommandFilter, FileFilter, AuditLogFilter
<1>13. CASE AccessPick \/ EntryArrives
  <2>1. UNCHANGED listCalls /\ ListFlagged(listPage') /\ listPage'.loading = listPage.loading
    BY <1>13 DEF AccessPick, EntryArrives, ListFlags, ListFlagged
  <2> QED BY <1>4, <2>1
<1>14. ASSUME NEW s \in Slots, ListServe(s) PROVE ListFlags'
  <2>1. PICK request : listCalls' = [listCalls EXCEPT ![s] = [listCalls[s] EXCEPT !.get = request]]
    BY <1>14 DEF ListServe
  <2> DEFINE call == [listCalls[s] EXCEPT !.get = request]
  <2>2. UNCHANGED listPage /\ ListFlagged(listPage)
    BY <1>14 DEF ListServe, ListFlags
  <2>3. call.op = listCalls[s].op /\ HasKind(call)
    BY HandlerGoesOn DEF ListFlags, Ready
  <2>4. listCalls' = [listCalls EXCEPT ![s] = call]
    BY <2>1
  <2> HIDE DEF call
  <2> QED BY <2>2, <2>3, <2>4, ListTurn DEF Passed
<1>15. ASSUME NEW s \in Slots, ListAnswered(s) \/ ListFails(s) PROVE ListFlags'
  <2>1. listCalls' = [listCalls EXCEPT ![s] = Idle]
    BY <1>15 DEF ListAnswered, ListFails, Put
  <2>2. ListFlagged(listPage') /\ listPage'.loading = FALSE
    BY <1>15 DEF ListAnswered, ListFails, ListFlags, ListFlagged
  <2> QED BY <2>1, <2>2, IdleKind, ListTurn DEF Passed
<1> QED BY <1>1, <1>2, <1>5, <1>8, <1>10, <1>12, <1>13, <1>14, <1>15 DEF ListNext

LEMMA ListFlagsInit == Init => ListFlags
<1> SUFFICES ASSUME Init PROVE ListFlags
  OBVIOUS
<1>1. listCalls = NoCalls /\ ListFlagged(listPage) /\ listPage.loading = FALSE
  BY DEF Init, ListInit, ListFlagged
<1> QED BY <1>1, NoneReady, NoneTended DEF ListFlags
-----------------------------------------------------------------------------
(* The protection page: five flags, each of one kind of handlers.          *)

ProtFlagged(page) ==
  /\ {"loading", "saving", "recovering", "restricting", "removing"} \subseteq DOMAIN page
  /\ page.loading \in BOOLEAN /\ page.saving \in BOOLEAN /\ page.recovering \in BOOLEAN
  /\ page.restricting \in BOOLEAN /\ page.removing \in BOOLEAN

ProtFlags ==
  /\ ProtFlagged(protPage) /\ Ready(protCalls)
  /\ Tended(protPage.loading, Waiting(protCalls, "load"))
  /\ Tended(protPage.saving, Waiting(protCalls, "save"))
  /\ Tended(protPage.recovering, Waiting(protCalls, "recover"))
  /\ Tended(protPage.restricting, Waiting(protCalls, "restrict"))
  /\ Tended(protPage.removing, Waiting(protCalls, "remove"))

ProtPassed(page, after, old, new) ==
  /\ Passed(page.loading, after.loading, old, new, "load")
  /\ Passed(page.saving, after.saving, old, new, "save")
  /\ Passed(page.recovering, after.recovering, old, new, "recover")
  /\ Passed(page.restricting, after.restricting, old, new, "restrict")
  /\ Passed(page.removing, after.removing, old, new, "remove")

LEMMA ProtTurn ==
  ASSUME ProtFlags, NEW s \in Slots, NEW call, HasKind(call),
         protCalls' = [protCalls EXCEPT ![s] = call],
         ProtFlagged(protPage'), ProtPassed(protPage, protPage', protCalls[s], call)
  PROVE  ProtFlags'
<1>1. Ready(protCalls)
  BY DEF ProtFlags
<1>2. Replaced(protCalls, protCalls', s, call)
  BY <1>1, SlotReplaced
<1>3. Ready(protCalls')
  BY <1>2 DEF Replaced
<1>4. Tended(protPage'.loading, Waiting(protCalls', "load"))
  BY <1>2, KindTended DEF ProtFlags, ProtPassed
<1>5. Tended(protPage'.saving, Waiting(protCalls', "save"))
  BY <1>2, KindTended DEF ProtFlags, ProtPassed
<1>6. Tended(protPage'.recovering, Waiting(protCalls', "recover"))
  BY <1>2, KindTended DEF ProtFlags, ProtPassed
<1>7. Tended(protPage'.restricting, Waiting(protCalls', "restrict"))
  BY <1>2, KindTended DEF ProtFlags, ProtPassed
<1>8. Tended(protPage'.removing, Waiting(protCalls', "remove"))
  BY <1>2, KindTended DEF ProtFlags, ProtPassed
<1> QED BY <1>3, <1>4, <1>5, <1>6, <1>7, <1>8 DEF ProtFlags, Ready, Waiting

\* A handler starts in a free slot, and raises at most its own flag.
LEMMA ProtStarts ==
  ASSUME ProtFlags, NEW op, NEW act, NEW get, Begin(ProtCall(op, act, get)), ProtFlagged(protPage'),
         protPage'.loading = TRUE => (op = "load" \/ protPage.loading = TRUE),
         protPage'.saving = TRUE => (op = "save" \/ protPage.saving = TRUE),
         protPage'.recovering = TRUE => (op = "recover" \/ protPage.recovering = TRUE),
         protPage'.restricting = TRUE => (op = "restrict" \/ protPage.restricting = TRUE),
         protPage'.removing = TRUE => (op = "remove" \/ protPage.removing = TRUE)
  PROVE  ProtFlags'
<1>1. PICK s \in Slots : protCalls[s] = Idle
                         /\ protCalls' = [protCalls EXCEPT ![s] = ProtCall(op, act, get)]
  BY DEF Begin, Free, Put
<1>2. HasKind(ProtCall(op, act, get)) /\ ProtCall(op, act, get).op = op
  BY DEF HasKind, ProtCall
<1>3. protCalls[s].op = "idle"
  BY <1>1, IdleKind
<1>4. ProtPassed(protPage, protPage', protCalls[s], ProtCall(op, act, get))
  BY <1>2, <1>3 DEF ProtPassed, Passed
<1> QED BY <1>1, <1>2, <1>4, ProtTurn

\* A handler goes on, and no flag changes.
LEMMA ProtGoesOn ==
  ASSUME ProtFlags, NEW s \in Slots, NEW call, HasKind(call), call.op = protCalls[s].op,
         protCalls' = [protCalls EXCEPT ![s] = call], UNCHANGED protPage
  PROVE  ProtFlags'
<1>1. ProtFlagged(protPage') /\ HasKind(protCalls[s])
  BY DEF ProtFlags, Ready
<1>2. ProtPassed(protPage, protPage', protCalls[s], call)
  BY DEF ProtPassed, Passed
<1> QED BY <1>1, <1>2, ProtTurn

\* A handler ends with its own flag down.
LEMMA ProtEnds ==
  ASSUME ProtFlags, NEW s \in Slots, NEW call, HasKind(call),
         protCalls' = [protCalls EXCEPT ![s] = call],
         ProtFlagged(protPage'),
         protPage'.loading = TRUE => (protPage.loading = TRUE /\ protCalls[s].op # "load"),
         protPage'.saving = TRUE => (protPage.saving = TRUE /\ protCalls[s].op # "save"),
         protPage'.recovering = TRUE => (protPage.recovering = TRUE /\ protCalls[s].op # "recover"),
         protPage'.restricting = TRUE => (protPage.restricting = TRUE /\ protCalls[s].op # "restrict"),
         protPage'.removing = TRUE => (protPage.removing = TRUE /\ protCalls[s].op # "remove")
  PROVE  ProtFlags'
<1>1. ProtPassed(protPage, protPage', protCalls[s], call)
  BY DEF ProtPassed, Passed
<1> QED BY <1>1, ProtTurn

LEMMA FlagsFinished ==
  ASSUME NEW page, ProtFlagged(page), NEW op
  PROVE  LET after == Finished(page, op) IN
         /\ ProtFlagged(after) /\ DOMAIN after = DOMAIN page
         /\ after.loading = TRUE => (page.loading = TRUE /\ op # "load")
         /\ after.saving = TRUE => (page.saving = TRUE /\ op # "save")
         /\ after.recovering = TRUE => (page.recovering = TRUE /\ op # "recover")
         /\ after.restricting = TRUE => (page.restricting = TRUE /\ op # "restrict")
         /\ after.removing = TRUE => (page.removing = TRUE /\ op # "remove")
BY DEF ProtFlagged, Finished

\* What the answer of a handler writes is no flag.
SameFlags(page, after) ==
  /\ after.loading = page.loading /\ after.saving = page.saving
  /\ after.recovering = page.recovering /\ after.restricting = page.restricting
  /\ after.removing = page.removing /\ DOMAIN after = DOMAIN page

LEMMA NoFlagWritten ==
  ASSUME NEW page, ProtFlagged(page), NEW v, NEW w, NEW x
  PROVE  /\ SameFlags(page, [page EXCEPT !.error = v])
         /\ SameFlags(page, [page EXCEPT !.state = v, !.form = w, !.notice = x])
         /\ SameFlags(page, [page EXCEPT !.editing = v])
         /\ SameFlags(page, [page EXCEPT !.target = v])
BY DEF ProtFlagged, SameFlags

LEMMA SameIsFlagged ==
  \A page, after : ProtFlagged(page) /\ SameFlags(page, after) => ProtFlagged(after)
BY DEF ProtFlagged, SameFlags

LEMMA ProtFlagsInit == Init => ProtFlags
<1> SUFFICES ASSUME Init PROVE ProtFlags
  OBVIOUS
<1>1. /\ protCalls = NoCalls /\ ProtFlagged(protPage)
      /\ protPage.loading = FALSE /\ protPage.saving = FALSE /\ protPage.recovering = FALSE
      /\ protPage.restricting = FALSE /\ protPage.removing = FALSE
  BY DEF Init, ProtectionInit, ProtFlagged
<1> QED BY <1>1, NoneReady, NoneTended DEF ProtFlags

LEMMA ProtFlagsStep == ProtFlags /\ [Next]_vars => ProtFlags'
<1> SUFFICES ASSUME ProtFlags, [Next]_vars PROVE ProtFlags'
  OBVIOUS
<1>0. ProtFlagged(protPage) /\ \A s \in Slots : HasKind(protCalls[s])
  BY DEF ProtFlags, Ready
<1>1. ProtectionNext \/ UNCHANGED <<protPage, protCalls>>
  BY RouteSteps
<1>2. ASSUME UNCHANGED protCalls, SameFlags(protPage, protPage') PROVE ProtFlags'
  <2>1. ProtFlagged(protPage')
    BY <1>0, <1>2, SameIsFlagged
  <2> QED BY <1>2, <2>1 DEF ProtFlags, SameFlags, Ready, Waiting
<1>3. CASE UNCHANGED <<protPage, protCalls>>
  BY <1>2, <1>3 DEF SameFlags
<1>4. CASE ProtStartEdit \/ ProtType \/ ProtTypeTarget \/ RestrictionExpires
  <2>1. UNCHANGED protCalls /\ SameFlags(protPage, protPage')
    BY <1>0, <1>4 DEF ProtStartEdit, ProtType, ProtTypeTarget, RestrictionExpires, SameFlags, ProtFlagged
  <2> QED BY <1>2, <2>1
<1>5. CASE ProtLoad \/ cancelEdit
  <2>1. ProtFlagged(protPage') /\ Begin(ProtCall("load", Unsent, Sent(Nothing)))
    BY <1>0, <1>5 DEF ProtLoad, cancelEdit, ProtFlagged
  <2>2. /\ protPage'.saving = protPage.saving /\ protPage'.recovering = protPage.recovering
        /\ protPage'.restricting = protPage.restricting /\ protPage'.removing = protPage.removing
    BY <1>0, <1>5 DEF ProtLoad, cancelEdit, ProtFlagged
  <2> QED BY <2>1, <2>2, ProtStarts
<1>6. CASE saveAll
  <2>1. ProtFlagged(protPage') /\ Begin(ProtCall("save", Sent(protPage.form), Unsent))
    BY <1>0, <1>6 DEF saveAll, ProtFlagged
  <2>2. /\ protPage'.loading = protPage.loading /\ protPage'.recovering = protPage.recovering
        /\ protPage'.restricting = protPage.restricting /\ protPage'.removing = protPage.removing
    BY <1>0, <1>6 DEF saveAll, ProtFlagged
  <2> QED BY <2>1, <2>2, ProtStarts
<1>7. CASE recoverCircuit
  <2>1. ProtFlagged(protPage') /\ Begin(ProtCall("recover", Sent(Nothing), Unsent))
    BY <1>0, <1>7 DEF recoverCircuit, ProtFlagged
  <2>2. /\ protPage'.loading = protPage.loading /\ protPage'.saving = protPage.saving
        /\ protPage'.restricting = protPage.restricting /\ protPage'.removing = protPage.removing
    BY <1>0, <1>7 DEF recoverCircuit, ProtFlagged
  <2> QED BY <2>1, <2>2, ProtStarts
<1>8. ASSUME NEW target, AskRestriction(target) PROVE ProtFlags'
  <2>1. CASE target = Nothing
    <3>1. UNCHANGED protCalls /\ protPage' = [protPage EXCEPT !.error = TRUE]
      BY <1>8, <2>1 DEF AskRestriction
    <3> QED BY <1>0, <1>2, <3>1, NoFlagWritten
  <2>2. CASE target # Nothing
    <3>1. ProtFlagged(protPage') /\ Begin(ProtCall("restrict", Sent(target), Unsent))
      BY <1>0, <1>8, <2>2 DEF AskRestriction, ProtFlagged
    <3>2. /\ protPage'.loading = protPage.loading /\ protPage'.saving = protPage.saving
          /\ protPage'.recovering = protPage.recovering /\ protPage'.removing = protPage.removing
      BY <1>0, <1>8, <2>2 DEF AskRestriction, ProtFlagged
    <3> QED BY <3>1, <3>2, ProtStarts
  <2> QED BY <2>1, <2>2
<1>9. CASE submitRestriction \/ quickRestrict
  BY <1>8, <1>9 DEF submitRestriction, quickRestrict
<1>10. CASE removeRestriction
  <2>1. PICK target : Begin(ProtCall("remove", Sent(target), Unsent))
    BY <1>10 DEF removeRestriction
  <2>2. ProtFlagged(protPage')
    BY <1>0, <1>10 DEF removeRestriction, ProtFlagged
  <2>3. /\ protPage'.loading = protPage.loading /\ protPage'.saving = protPage.saving
        /\ protPage'.recovering = protPage.recovering /\ protPage'.restricting = protPage.restricting
    BY <1>0, <1>10 DEF removeRestriction, ProtFlagged
  <2> QED BY <2>1, <2>2, <2>3, ProtStarts
<1>11. ASSUME NEW s \in Slots, ProtLoaded(s) PROVE ProtFlags'
  <2>1. protCalls' = [protCalls EXCEPT ![s] = Idle] /\ protCalls[s].op = "load"
    BY <1>11 DEF ProtLoaded, Put
  <2>2. ProtFlagged(protPage') /\ protPage'.loading = FALSE
    BY <1>0, <1>11 DEF ProtLoaded, ProtFlagged
  <2>3. /\ protPage'.saving = protPage.saving /\ protPage'.recovering = protPage.recovering
        /\ protPage'.restricting = protPage.restricting /\ protPage'.removing = protPage.removing
    BY <1>0, <1>11 DEF ProtLoaded, ProtFlagged
  <2> QED BY <2>1, <2>2, <2>3, IdleKind, ProtEnds
<1>12. ASSUME NEW s \in Slots, NEW call, HasKind(call), protCalls' = [protCalls EXCEPT ![s] = call],
              SameFlags(Finished(protPage, protCalls[s].op), protPage')
       PROVE  ProtFlags'
  <2> DEFINE after == Finished(protPage, protCalls[s].op)
  <2>1. /\ ProtFlagged(after)
        /\ after.loading = TRUE => (protPage.loading = TRUE /\ protCalls[s].op # "load")
        /\ after.saving = TRUE => (protPage.saving = TRUE /\ protCalls[s].op # "save")
        /\ after.recovering = TRUE => (protPage.recovering = TRUE /\ protCalls[s].op # "recover")
        /\ after.restricting = TRUE => (protPage.restricting = TRUE /\ protCalls[s].op # "restrict")
        /\ after.removing = TRUE => (protPage.removing = TRUE /\ protCalls[s].op # "remove")
    BY <1>0, FlagsFinished
  <2>2. SameFlags(after, protPage')
    BY <1>12
  <2> HIDE DEF after
  <2>3. ProtFlagged(protPage')
    BY <2>1, <2>2, SameIsFlagged
  <2> QED BY <1>12, <2>1, <2>2, <2>3, ProtEnds DEF SameFlags
<1>13. ASSUME NEW s \in Slots, ProtAnswered(s) PROVE ProtFlags'
  <2> DEFINE after == Finished(protPage, protCalls[s].op)
  <2>1. ProtFlagged(after)
    BY <1>0, FlagsFinished
  <2>2. protCalls' = [protCalls EXCEPT ![s] = Idle]
    BY <1>13 DEF ProtAnswered, Put
  <2>3. PICK state, form, notice, editing :
          LET shown == [after EXCEPT !.state = state, !.form = form, !.notice = notice] IN
          \/ protPage' = [shown EXCEPT !.target = Nothing]
          \/ protPage' = [shown EXCEPT !.editing = editing]
    BY <1>13 DEF ProtAnswered, resetRestrictionForm
  <2> HIDE DEF after
  <2> DEFINE shown == [after EXCEPT !.state = state, !.form = form, !.notice = notice]
  <2>4. SameFlags(after, shown)
    BY <2>1, NoFlagWritten
  <2>5. ProtFlagged(shown)
    BY <2>1, <2>4, SameIsFlagged
  <2>6. protPage' = [shown EXCEPT !.target = Nothing] \/ protPage' = [shown EXCEPT !.editing = editing]
    BY <2>3
  <2> HIDE DEF shown
  <2>7. SameFlags(shown, protPage')
    <3>1. SameFlags(shown, [shown EXCEPT !.target = Nothing])
      BY <2>5, NoFlagWritten
    <3>2. SameFlags(shown, [shown EXCEPT !.editing = editing])
      BY <2>5, NoFlagWritten
    <3> QED BY <2>6, <3>1, <3>2
  <2>8. SameFlags(after, protPage')
    BY <2>4, <2>7 DEF SameFlags
  <2> QED BY <1>12, <2>2, <2>8, IdleKind DEF after
<1>14. ASSUME NEW s \in Slots, ProtFails(s) PROVE ProtFlags'
  <2>1. ProtFlagged(Finished(protPage, protCalls[s].op))
    BY <1>0, FlagsFinished
  <2>2. SameFlags(Finished(protPage, protCalls[s].op), protPage')
    BY <1>14, <2>1, NoFlagWritten DEF ProtFails
  <2>3. CASE protCalls' = [protCalls EXCEPT ![s] = Idle]
    BY <1>12, <2>2, <2>3, IdleKind
  <2>4. CASE protCalls' = [protCalls EXCEPT ![s] = [protCalls[s] EXCEPT !.op = "left"]]
    <3>1. HasKind([protCalls[s] EXCEPT !.op = "left"])
      BY <1>0, HandlerLeft
    <3> QED BY <1>12, <2>2, <2>4, <3>1
  <2> QED BY <1>14, <2>3, <2>4 DEF ProtFails, Leave, Put
<1>15. ASSUME NEW s \in Slots, ProtLeft(s) PROVE ProtFlags'
  <2>1. UNCHANGED protPage /\ protCalls[s].op = "left" /\ protCalls' = [protCalls EXCEPT ![s] = Idle]
    BY <1>15 DEF ProtLeft, Put
  <2> QED BY <1>0, <2>1, IdleKind, ProtEnds
<1>16. ASSUME NEW s \in Slots, ProtServeGet(s) PROVE ProtFlags'
  <2>1. PICK v : protCalls' = [protCalls EXCEPT ![s] = [protCalls[s] EXCEPT !.get = v]]
    BY <1>16 DEF ProtServeGet
  <2>2. UNCHANGED protPage
    BY <1>16 DEF ProtServeGet
  <2> QED BY <1>0, <2>1, <2>2, HandlerGoesOn, ProtGoesOn
<1>17. ASSUME NEW s \in Slots, ProtServeUsage(s) PROVE ProtFlags'
  <2>1. PICK v : protCalls' = [protCalls EXCEPT ![s] = [protCalls[s] EXCEPT !.usage = v]]
    BY <1>17 DEF ProtServeUsage
  <2>2. UNCHANGED protPage
    BY <1>17 DEF ProtServeUsage
  <2> QED BY <1>0, <2>1, <2>2, HandlerGoesOn, ProtGoesOn
<1>18. ASSUME NEW s \in Slots, ProtServeAct(s) PROVE ProtFlags'
  <2>1. PICK v : protCalls' = [protCalls EXCEPT ![s] = [protCalls[s] EXCEPT !.act = v]]
    BY <1>18 DEF ProtServeAct
  <2>2. UNCHANGED protPage
    BY <1>18 DEF ProtServeAct
  <2> QED BY <1>0, <2>1, <2>2, HandlerGoesOn, ProtGoesOn
<1> QED BY <1>1, <1>3, <1>4, <1>5, <1>6, <1>7, <1>9, <1>10, <1>11, <1>13, <1>14, <1>15, <1>16,
        <1>17, <1>18 DEF ProtectionNext
-----------------------------------------------------------------------------
(* Where the button is dead while the flag is up: there is at most one     *)
(* handler of the kind, and the flag is up all the time it is under way.   *)

Single(flag, handlers) == \A s \in handlers : flag = TRUE /\ \A t \in handlers : s = t

\* The flag rises with a handler and falls only with it.
Kept(was, is, old, new, op) ==
  /\ new.op = op => is = TRUE /\ (old.op = op \/ was # TRUE)
  /\ was = TRUE /\ is # TRUE => old.op = op

LEMMA StillSingle ==
  ASSUME NEW calls, NEW after, NEW s \in Slots, NEW call, NEW was, NEW is, NEW op,
         Replaced(calls, after, s, call), Kept(was, is, calls[s], call, op),
         Single(was, Waiting(calls, op))
  PROVE  Single(is, Waiting(after, op))
<1>1. after[s] = call /\ \A t \in Slots : t # s => after[t] = calls[t]
  BY DEF Replaced
<1>2. \A t \in Slots : calls[t].op = op => was = TRUE /\ \A u \in Slots : calls[u].op = op => t = u
  BY DEF Single, Waiting
<1>3. ASSUME NEW t \in Slots, after[t].op = op PROVE is = TRUE
  <2>1. CASE t = s
    BY <1>1, <1>3, <2>1 DEF Kept
  <2>2. CASE t # s
    <3>1. calls[t].op = op
      BY <1>1, <1>3, <2>2
    <3>2. was = TRUE /\ calls[s].op # op
      BY <1>2, <2>2, <3>1
    <3> QED BY <3>2 DEF Kept
  <2> QED BY <2>1, <2>2
<1>4. ASSUME NEW t \in Slots, after[t].op = op, t # s PROVE after[s].op # op
  <2>1. calls[t].op = op
    BY <1>1, <1>4
  <2>2. was = TRUE /\ calls[s].op # op
    BY <1>2, <1>4, <2>1
  <2> QED BY <1>1, <2>2 DEF Kept
<1>5. ASSUME NEW t \in Slots, after[t].op = op, NEW u \in Slots, after[u].op = op PROVE t = u
  <2>1. CASE t = s \/ u = s
    BY <1>4, <1>5, <2>1
  <2>2. CASE t # s /\ u # s
    BY <1>1, <1>2, <1>5, <2>2
  <2> QED BY <2>1, <2>2
<1> QED BY <1>3, <1>5 DEF Single, Waiting

LEMMA NoneWaiting == \A op : op # "idle" => Waiting(NoCalls, op) = {}
BY NoneReady DEF Waiting

LEMMA NoneSingle == \A flag : Single(flag, {})
BY DEF Single

-----------------------------------------------------------------------------
(* The nodes page.                                                         *)

NodesFlagged(page) ==
  /\ {"loading", "saving"} \subseteq DOMAIN page
  /\ page.loading \in BOOLEAN /\ page.saving \in BOOLEAN

NodesFlags ==
  /\ NodesFlagged(nodesPage) /\ Ready(nodesCalls)
  /\ Tended(nodesPage.loading, Waiting(nodesCalls, "load"))
  /\ Tended(nodesPage.saving, Waiting(nodesCalls, "save"))
  /\ Single(nodesPage.saving, Waiting(nodesCalls, "save"))

LEMMA NodesTurn ==
  ASSUME NodesFlags, NEW s \in Slots, NEW call, HasKind(call),
         nodesCalls' = [nodesCalls EXCEPT ![s] = call], NodesFlagged(nodesPage'),
         Passed(nodesPage.loading, nodesPage'.loading, nodesCalls[s], call, "load"),
         Passed(nodesPage.saving, nodesPage'.saving, nodesCalls[s], call, "save"),
         Kept(nodesPage.saving, nodesPage'.saving, nodesCalls[s], call, "save")
  PROVE  NodesFlags'
<1>1. Ready(nodesCalls)
  BY DEF NodesFlags
<1>2. Replaced(nodesCalls, nodesCalls', s, call)
  BY <1>1, SlotReplaced
<1>3. Ready(nodesCalls')
  BY <1>2 DEF Replaced
<1>4. Tended(nodesPage'.loading, Waiting(nodesCalls', "load"))
  BY <1>2, KindTended DEF NodesFlags
<1>5. Tended(nodesPage'.saving, Waiting(nodesCalls', "save"))
  BY <1>2, KindTended DEF NodesFlags
<1>6. Single(nodesPage'.saving, Waiting(nodesCalls', "save"))
  BY <1>2, StillSingle DEF NodesFlags
<1> QED BY <1>3, <1>4, <1>5, <1>6 DEF NodesFlags, Ready, Waiting

LEMMA NodesFlagsInit == Init => NodesFlags
<1> SUFFICES ASSUME Init PROVE NodesFlags
  OBVIOUS
<1>1. nodesCalls = NoCalls /\ NodesFlagged(nodesPage) /\ nodesPage.loading = FALSE
      /\ nodesPage.saving = FALSE
  BY DEF Init, NodesInit, NodesFlagged
<1>2. Waiting(nodesCalls, "save") = {}
  BY <1>1, NoneWaiting
<1> QED BY <1>1, <1>2, NoneReady, NoneTended, NoneSingle DEF NodesFlags

LEMMA NodesFlagsStep == NodesFlags /\ [Next]_vars => NodesFlags'
<1> SUFFICES ASSUME NodesFlags, [Next]_vars PROVE NodesFlags'
  OBVIOUS
<1>0. NodesFlagged(nodesPage) /\ \A s \in Slots : HasKind(nodesCalls[s])
  BY DEF NodesFlags, Ready
<1>1. NodesNext \/ UNCHANGED nodesVars
  BY RouteSteps
<1>2. ASSUME UNCHANGED nodesCalls, NodesFlagged(nodesPage'), nodesPage'.loading = nodesPage.loading,
             nodesPage'.saving = nodesPage.saving
      PROVE  NodesFlags'
  BY <1>2 DEF NodesFlags, Ready, Waiting
<1>3. CASE UNCHANGED nodesVars
  BY <1>0, <1>2, <1>3 DEF nodesVars
<1>4. CASE NodesEdit \/ NodesEditMode \/ NodesEditRelay
  <2>1. UNCHANGED nodesCalls
    BY <1>4 DEF NodesEdit, NodesEditMode, NodesEditRelay
  <2>2. NodesFlagged(nodesPage') /\ nodesPage'.loading = nodesPage.loading /\ nodesPage'.saving = nodesPage.saving
    BY <1>0, <1>4 DEF NodesEdit, NodesEditMode, NodesEditRelay, NodesFlagged
  <2> QED BY <1>2, <2>1, <2>2
<1>5. ASSUME NEW call, HasKind(call), call.op # "save",
             \E s \in Free(nodesCalls) : nodesCalls' = Put(nodesCalls, s, call),
             NodesFlagged(nodesPage'), nodesPage'.saving = nodesPage.saving,
             nodesPage'.loading = TRUE => (nodesPage.loading = TRUE \/ call.op = "load")
      PROVE  NodesFlags'
  <2>1. PICK s \in Slots : nodesCalls[s] = Idle /\ nodesCalls' = [nodesCalls EXCEPT ![s] = call]
    BY <1>5 DEF Free, Put
  <2>2. nodesCalls[s].op = "idle"
    BY <2>1, IdleKind
  <2> QED BY <1>5, <2>1, <2>2, NodesTurn DEF Passed, Kept
<1>6. CASE NodesLoad
  <2> DEFINE call == [op |-> "load", post |-> Unsent, get |-> Sent(Nothing)]
  <2>1. HasKind(call) /\ call.op = "load" /\ \E s \in Free(nodesCalls) : nodesCalls' = Put(nodesCalls, s, call)
    BY <1>6 DEF NodesLoad, HasKind
  <2>2. NodesFlagged(nodesPage') /\ nodesPage'.saving = nodesPage.saving
    BY <1>0, <1>6 DEF NodesLoad, NodesFlagged
  <2> HIDE DEF call
  <2> QED BY <1>5, <2>1, <2>2
<1>7. CASE OtherWorkspaceSave
  <2>1. PICK body : \E s \in Free(nodesCalls) :
          nodesCalls' = Put(nodesCalls, s, [op |-> "left", get |-> Unsent, post |-> Sent(body)])
    BY <1>7 DEF OtherWorkspaceSave
  <2> DEFINE call == [op |-> "left", get |-> Unsent, post |-> Sent(body)]
  <2>2. HasKind(call) /\ call.op = "left" /\ \E s \in Free(nodesCalls) : nodesCalls' = Put(nodesCalls, s, call)
    BY <2>1 DEF HasKind
  <2>3. UNCHANGED nodesPage
    BY <1>7 DEF OtherWorkspaceSave
  <2> HIDE DEF call
  <2> QED BY <1>0, <1>5, <2>2, <2>3
<1>8. CASE NodesSave
  <2> DEFINE ws == generateNodeCodes(nodesPage.ws)
  <2>1. CASE ~NodesValidate(ws, nodesPage.input)
    <3>1. UNCHANGED nodesCalls /\ nodesPage' = [nodesPage EXCEPT !.ws = ws]
      BY <1>8, <2>1 DEF NodesSave
    <3> HIDE DEF ws
    <3>2. NodesFlagged(nodesPage') /\ nodesPage'.loading = nodesPage.loading /\ nodesPage'.saving = nodesPage.saving
      BY <1>0, <3>1 DEF NodesFlagged
    <3> QED BY <1>2, <3>1, <3>2
  <2>2. CASE NodesValidate(ws, nodesPage.input)
    <3> DEFINE call == [op |-> "save", get |-> Unsent, post |-> Sent([ws |-> ws, password |-> nodesPage.input])]
    <3>1. PICK s \in Slots : nodesCalls[s] = Idle /\ nodesCalls' = [nodesCalls EXCEPT ![s] = call]
      BY <1>8, <2>2 DEF NodesSave, Free, Put
    <3>2. nodesPage.saving # TRUE
          /\ nodesPage' = [nodesPage EXCEPT !.ws = ws, !.saving = TRUE, !.error = FALSE, !.notice = ""]
      BY <1>8, <2>2 DEF NodesSave
    <3>3. HasKind(call) /\ call.op = "save" /\ nodesCalls[s].op = "idle"
      BY <3>1, IdleKind DEF HasKind
    <3> HIDE DEF ws, call
    <3>4. NodesFlagged(nodesPage') /\ nodesPage'.loading = nodesPage.loading /\ nodesPage'.saving = TRUE
      BY <1>0, <3>2 DEF NodesFlagged
    <3> QED BY <3>1, <3>2, <3>3, <3>4, NodesTurn DEF Passed, Kept
  <2> QED BY <2>1, <2>2
<1>9. ASSUME NEW s \in Slots, NEW call, HasKind(call), call.op = nodesCalls[s].op,
             nodesCalls' = [nodesCalls EXCEPT ![s] = call], UNCHANGED nodesPage
      PROVE  NodesFlags'
  <2>1. nodesCalls[s].op = "save" => nodesPage.saving = TRUE
    BY DEF NodesFlags, Single, Waiting
  <2> QED BY <1>0, <1>9, <2>1, NodesTurn DEF Passed, Kept
<1>10. ASSUME NEW s \in Slots, NodesReread(s) \/ NodesServeGet(s) PROVE NodesFlags'
  <2>1. PICK v : nodesCalls' = [nodesCalls EXCEPT ![s] = [nodesCalls[s] EXCEPT !.get = v]]
    BY <1>10 DEF NodesReread, NodesServeGet
  <2>2. UNCHANGED nodesPage
    BY <1>10 DEF NodesReread, NodesServeGet
  <2> QED BY <1>0, <1>9, <2>1, <2>2, HandlerGoesOn
<1>11. ASSUME NEW s \in Slots, NodesServePost(s) PROVE NodesFlags'
  <2>1. PICK v : nodesCalls' = [nodesCalls EXCEPT ![s] = [nodesCalls[s] EXCEPT !.post = v]]
    BY <1>11 DEF NodesServePost
  <2>2. UNCHANGED nodesPage
    BY <1>11 DEF NodesServePost
  <2> QED BY <1>0, <1>9, <2>1, <2>2, HandlerGoesOn
<1>12. ASSUME NEW s \in Slots, NEW call, HasKind(call), call.op \notin {"load", "save"},
              nodesCalls' = [nodesCalls EXCEPT ![s] = call], NodesFlagged(nodesPage'),
              nodesPage'.loading = TRUE => (nodesPage.loading = TRUE /\ nodesCalls[s].op # "load"),
              nodesPage'.saving = TRUE <=> (nodesPage.saving = TRUE /\ nodesCalls[s].op # "save")
       PROVE  NodesFlags'
  BY <1>12, NodesTurn DEF Passed, Kept
<1>13. ASSUME NEW s \in Slots, NodesLoaded(s) PROVE NodesFlags'
  <2>1. nodesCalls' = [nodesCalls EXCEPT ![s] = Idle] /\ nodesCalls[s].op = "load"
    BY <1>13 DEF NodesLoaded, Put
  <2>2. NodesFlagged(nodesPage') /\ nodesPage'.loading = FALSE /\ nodesPage'.saving = nodesPage.saving
    BY <1>0, <1>13 DEF NodesLoaded, NodesFlagged
  <2> QED BY <1>12, <2>1, <2>2, IdleKind
<1>14. ASSUME NEW s \in Slots, NodesApplied(s) PROVE NodesFlags'
  <2>1. nodesCalls' = [nodesCalls EXCEPT ![s] = Idle] /\ nodesCalls[s].op = "save"
    BY <1>14 DEF NodesApplied, Put
  <2>2. NodesFlagged(nodesPage') /\ nodesPage'.loading = nodesPage.loading /\ nodesPage'.saving = FALSE
    BY <1>0, <1>14 DEF NodesApplied, NodesFlagged
  <2> QED BY <1>12, <2>1, <2>2, IdleKind
<1>15. ASSUME NEW s \in Slots, NodesFails(s) PROVE NodesFlags'
  <2>1. /\ NodesFlagged(nodesPage')
        /\ nodesPage'.loading = TRUE => (nodesPage.loading = TRUE /\ nodesCalls[s].op # "load")
        /\ nodesPage'.saving = TRUE <=> (nodesPage.saving = TRUE /\ nodesCalls[s].op # "save")
    BY <1>0, <1>15 DEF NodesFails, NodesFlagged
  <2>2. CASE nodesCalls' = [nodesCalls EXCEPT ![s] = Idle]
    BY <1>12, <2>1, <2>2, IdleKind
  <2>3. CASE nodesCalls' = [nodesCalls EXCEPT ![s] = [nodesCalls[s] EXCEPT !.op = "left"]]
    <3> DEFINE call == [nodesCalls[s] EXCEPT !.op = "left"]
    <3>1. HasKind(call) /\ call.op = "left" /\ nodesCalls' = [nodesCalls EXCEPT ![s] = call]
      BY <1>0, <2>3, HandlerLeft
    <3> HIDE DEF call
    <3> QED BY <1>12, <2>1, <3>1
  <2> QED BY <1>15, <2>2, <2>3 DEF NodesFails, Leave, Put
<1>16. ASSUME NEW s \in Slots, NodesLeft(s) PROVE NodesFlags'
  <2>1. UNCHANGED nodesPage /\ nodesCalls[s].op = "left" /\ nodesCalls' = [nodesCalls EXCEPT ![s] = Idle]
    BY <1>16 DEF NodesLeft, Put
  <2> QED BY <1>0, <1>12, <2>1, IdleKind
<1> QED BY <1>1, <1>3, <1>4, <1>6, <1>7, <1>8, <1>10, <1>11, <1>13, <1>14, <1>15, <1>16 DEF NodesNext
-----------------------------------------------------------------------------
(* The settings page, with the restart button of the layout.               *)

SettingsFlagged(page) ==
  /\ {"loading", "saving", "restarting"} \subseteq DOMAIN page
  /\ page.loading \in BOOLEAN /\ page.saving \in BOOLEAN /\ page.restarting \in BOOLEAN

SettingsFlags ==
  /\ SettingsFlagged(settingsPage) /\ Ready(settingsCalls)
  /\ Tended(settingsPage.loading, Waiting(settingsCalls, "load"))
  /\ Tended(settingsPage.saving, Waiting(settingsCalls, "save"))
  /\ Single(settingsPage.saving, Waiting(settingsCalls, "save"))
  /\ Tended(settingsPage.restarting, Waiting(settingsCalls, "restart"))
  /\ Single(settingsPage.restarting, Waiting(settingsCalls, "restart"))

SettingsPassed(page, after, old, new) ==
  /\ Passed(page.loading, after.loading, old, new, "load")
  /\ Passed(page.saving, after.saving, old, new, "save")
  /\ Kept(page.saving, after.saving, old, new, "save")
  /\ Passed(page.restarting, after.restarting, old, new, "restart")
  /\ Kept(page.restarting, after.restarting, old, new, "restart")

LEMMA SettingsTurn ==
  ASSUME SettingsFlags, NEW s \in Slots, NEW call, HasKind(call),
         settingsCalls' = [settingsCalls EXCEPT ![s] = call], SettingsFlagged(settingsPage'),
         SettingsPassed(settingsPage, settingsPage', settingsCalls[s], call)
  PROVE  SettingsFlags'
<1>1. Ready(settingsCalls)
  BY DEF SettingsFlags
<1>2. Replaced(settingsCalls, settingsCalls', s, call)
  BY <1>1, SlotReplaced
<1>3. Ready(settingsCalls')
  BY <1>2 DEF Replaced
<1>4. Tended(settingsPage'.loading, Waiting(settingsCalls', "load"))
  BY <1>2, KindTended DEF SettingsFlags, SettingsPassed
<1>5. Tended(settingsPage'.saving, Waiting(settingsCalls', "save"))
  BY <1>2, KindTended DEF SettingsFlags, SettingsPassed
<1>6. Single(settingsPage'.saving, Waiting(settingsCalls', "save"))
  BY <1>2, StillSingle DEF SettingsFlags, SettingsPassed
<1>7. Tended(settingsPage'.restarting, Waiting(settingsCalls', "restart"))
  BY <1>2, KindTended DEF SettingsFlags, SettingsPassed
<1>8. Single(settingsPage'.restarting, Waiting(settingsCalls', "restart"))
  BY <1>2, StillSingle DEF SettingsFlags, SettingsPassed
<1> QED BY <1>3, <1>4, <1>5, <1>6, <1>7, <1>8 DEF SettingsFlags, Ready, Waiting

SameSettingsFlags ==
  /\ SettingsFlagged(settingsPage') /\ settingsPage'.loading = settingsPage.loading
  /\ settingsPage'.saving = settingsPage.saving /\ settingsPage'.restarting = settingsPage.restarting

LEMMA SettingsFlagsInit == Init => SettingsFlags
<1> SUFFICES ASSUME Init PROVE SettingsFlags
  OBVIOUS
<1>1. /\ settingsCalls = NoCalls /\ SettingsFlagged(settingsPage)
      /\ settingsPage.loading = FALSE /\ settingsPage.saving = FALSE /\ settingsPage.restarting = FALSE
  BY DEF Init, SettingsInit, SettingsFlagged
<1>2. Waiting(settingsCalls, "save") = {} /\ Waiting(settingsCalls, "restart") = {}
  BY <1>1, NoneWaiting
<1> QED BY <1>1, <1>2, NoneReady, NoneTended, NoneSingle DEF SettingsFlags

LEMMA SettingsFlagsStep == SettingsFlags /\ [Next]_vars => SettingsFlags'
<1> SUFFICES ASSUME SettingsFlags, [Next]_vars PROVE SettingsFlags'
  OBVIOUS
<1>0. SettingsFlagged(settingsPage) /\ \A s \in Slots : HasKind(settingsCalls[s])
  BY DEF SettingsFlags, Ready
<1>1. SettingsNext \/ UNCHANGED settingsPageVars
  BY RouteSteps
\* No handler changes its kind, and no flag changes.
<1>2. ASSUME Ready(settingsCalls'), \A s \in Slots : settingsCalls'[s].op = settingsCalls[s].op,
             SameSettingsFlags
      PROVE  SettingsFlags'
  <2>1. \A op : Waiting(settingsCalls', op) = Waiting(settingsCalls, op)
    BY <1>2 DEF Waiting
  <2>2. /\ Tended(settingsPage'.loading, Waiting(settingsCalls', "load"))
        /\ Tended(settingsPage'.saving, Waiting(settingsCalls', "save"))
        /\ Single(settingsPage'.saving, Waiting(settingsCalls', "save"))
        /\ Tended(settingsPage'.restarting, Waiting(settingsCalls', "restart"))
        /\ Single(settingsPage'.restarting, Waiting(settingsCalls', "restart"))
    BY <1>2, <2>1 DEF SettingsFlags, SameSettingsFlags
  <2> QED BY <1>2, <2>2 DEF SettingsFlags, SameSettingsFlags, Ready, Waiting
<1>3. ASSUME UNCHANGED settingsCalls, SameSettingsFlags PROVE SettingsFlags'
  BY <1>2, <1>3 DEF SettingsFlags
<1>4. CASE UNCHANGED settingsPageVars
  BY <1>0, <1>3, <1>4 DEF settingsPageVars, SameSettingsFlags
<1>5. CASE TypeKeep \/ TypeTuning
  <2>1. UNCHANGED settingsCalls /\ SameSettingsFlags
    BY <1>0, <1>5 DEF TypeKeep, TypeTuning, SameSettingsFlags, SettingsFlagged
  <2> QED BY <1>3, <2>1
<1>6. ASSUME RestartedGateway, SameSettingsFlags PROVE SettingsFlags'
  <2>1. settingsCalls' = [s \in Slots |-> settingsCalls'[s]]
    BY <1>6 DEF RestartedGateway
  <2>2. ASSUME NEW s \in Slots
        PROVE  settingsCalls'[s].op = settingsCalls[s].op /\ HasKind(settingsCalls'[s])
    <3>1. CASE settingsCalls'[s] = settingsCalls[s]
      BY <1>0, <3>1
    <3>2. CASE settingsCalls'[s] = [settingsCalls[s] EXCEPT !.post = Broken(settingsCalls[s].post),
                                                            !.usage = Broken(settingsCalls[s].usage)]
      BY <1>0, <3>2 DEF HasKind
    <3> QED BY <1>6, <3>1, <3>2 DEF RestartedGateway
  <2> QED BY <1>2, <1>6, <2>1, <2>2 DEF Ready
<1>7. CASE Crash
  BY <1>0, <1>6, <1>7 DEF Crash, SameSettingsFlags
<1>8. CASE RestartCommandRuns
  <2>1. SameSettingsFlags
    BY <1>0, <1>8 DEF RestartCommandRuns, SameSettingsFlags, SettingsFlagged
  <2> QED BY <1>6, <1>8, <2>1 DEF RestartCommandRuns
\* A handler starts in a free slot.
<1>9. CASE SettingsLoad
  <2> DEFINE call == SettingsRequests("load", Unsent, Sent(Nothing), Sent(Nothing))
  <2>1. PICK s \in Slots : settingsCalls[s] = Idle /\ settingsCalls' = [settingsCalls EXCEPT ![s] = call]
    BY <1>9 DEF SettingsLoad, Free, Put
  <2>2. HasKind(call) /\ call.op = "load" /\ settingsCalls[s].op = "idle"
    BY <2>1, IdleKind DEF HasKind, SettingsRequests
  <2>3. SettingsFlagged(settingsPage') /\ settingsPage'.saving = settingsPage.saving
        /\ settingsPage'.restarting = settingsPage.restarting
    BY <1>0, <1>9 DEF SettingsLoad, SettingsFlagged
  <2> HIDE DEF call
  <2>4. SettingsPassed(settingsPage, settingsPage', settingsCalls[s], call)
    BY <2>2, <2>3 DEF SettingsPassed, Passed, Kept
  <2> QED BY <2>1, <2>2, <2>3, <2>4, SettingsTurn
<1>10. CASE SettingsSave
  <2>1. CASE ~validateSettings(settingsPage.form)
    <3>1. UNCHANGED settingsCalls /\ settingsPage' = [settingsPage EXCEPT !.error = TRUE]
      BY <1>10, <2>1 DEF SettingsSave
    <3>2. SameSettingsFlags
      BY <1>0, <3>1 DEF SameSettingsFlags, SettingsFlagged
    <3> QED BY <1>3, <3>1, <3>2
  <2>2. CASE validateSettings(settingsPage.form)
    <3> DEFINE call == SettingsRequests("save", Sent(settingsPage.form), Unsent, Unsent)
    <3>1. PICK s \in Slots : settingsCalls[s] = Idle /\ settingsCalls' = [settingsCalls EXCEPT ![s] = call]
      BY <1>10, <2>2 DEF SettingsSave, Free, Put
    <3>2. HasKind(call) /\ call.op = "save" /\ settingsCalls[s].op = "idle"
      BY <3>1, IdleKind DEF HasKind, SettingsRequests
    <3>3. settingsPage.saving # TRUE /\ settingsPage'.saving = TRUE /\ SettingsFlagged(settingsPage')
          /\ settingsPage'.loading = settingsPage.loading /\ settingsPage'.restarting = settingsPage.restarting
      BY <1>0, <1>10, <2>2 DEF SettingsSave, SettingsFlagged
    <3> HIDE DEF call
    <3>4. SettingsPassed(settingsPage, settingsPage', settingsCalls[s], call)
      BY <3>2, <3>3 DEF SettingsPassed, Passed, Kept
    <3> QED BY <3>1, <3>2, <3>3, <3>4, SettingsTurn
  <2> QED BY <2>1, <2>2
<1>11. CASE confirmRestart
  <2> DEFINE call == [op |-> "restart", post |-> Sent(Nothing)]
  <2>1. PICK s \in Slots : settingsCalls[s] = Idle /\ settingsCalls' = [settingsCalls EXCEPT ![s] = call]
    BY <1>11 DEF confirmRestart, Free, Put
  <2>2. HasKind(call) /\ call.op = "restart" /\ settingsCalls[s].op = "idle"
    BY <2>1, IdleKind DEF HasKind
  <2>3. settingsPage.restarting # TRUE /\ settingsPage'.restarting = TRUE /\ SettingsFlagged(settingsPage')
        /\ settingsPage'.loading = settingsPage.loading /\ settingsPage'.saving = settingsPage.saving
    BY <1>0, <1>11 DEF confirmRestart, SettingsFlagged
  <2> HIDE DEF call
  <2>4. SettingsPassed(settingsPage, settingsPage', settingsCalls[s], call)
    BY <2>2, <2>3 DEF SettingsPassed, Passed, Kept
  <2> QED BY <2>1, <2>2, <2>3, <2>4, SettingsTurn
\* A handler goes on.
<1>12. ASSUME NEW s \in Slots, NEW call, HasKind(call), call.op = settingsCalls[s].op,
              settingsCalls' = [settingsCalls EXCEPT ![s] = call], SameSettingsFlags
       PROVE  SettingsFlags'
  <2>1. Ready(settingsCalls)
    BY DEF SettingsFlags
  <2>2. Replaced(settingsCalls, settingsCalls', s, call)
    BY <1>12, <2>1, SlotReplaced
  <2> QED BY <1>2, <1>12, <2>2 DEF Replaced
<1>13. ASSUME NEW s \in Slots, SettingsReread(s) \/ SettingsServeGet(s) PROVE SettingsFlags'
  <2>1. PICK v : settingsCalls' = [settingsCalls EXCEPT ![s] = [settingsCalls[s] EXCEPT !.get = v]]
    BY <1>13 DEF SettingsReread, SettingsServeGet
  <2>2. SameSettingsFlags
    BY <1>0, <1>13 DEF SettingsReread, SettingsServeGet, SameSettingsFlags
  <2> QED BY <1>0, <1>12, <2>1, <2>2, HandlerGoesOn
<1>14. ASSUME NEW s \in Slots, SettingsTakeForm(s) \/ SettingsServeUsage(s) PROVE SettingsFlags'
  <2>1. PICK v : settingsCalls' = [settingsCalls EXCEPT ![s] = [settingsCalls[s] EXCEPT !.usage = v]]
    BY <1>14 DEF SettingsTakeForm, SettingsServeUsage
  <2>2. SameSettingsFlags
    BY <1>0, <1>14 DEF SettingsTakeForm, SettingsServeUsage, SameSettingsFlags, SettingsFlagged
  <2> QED BY <1>0, <1>12, <2>1, <2>2, HandlerGoesOn
<1>15. ASSUME NEW s \in Slots,
              \/ SettingsTune(s) \/ SettingsServePost(s) \/ SettingsOpenFile(s) \/ SettingsWriteFile(s)
              \/ handleGatewayRestart(s)
       PROVE  SettingsFlags'
  <2>1. PICK v : settingsCalls' = [settingsCalls EXCEPT ![s] = [settingsCalls[s] EXCEPT !.post = v]]
    BY <1>15 DEF SettingsTune, SettingsServePost, SettingsOpenFile, SettingsWriteFile, handleGatewayRestart
  <2>2. SameSettingsFlags
    BY <1>0, <1>15 DEF SettingsTune, SettingsServePost, SettingsOpenFile, SettingsWriteFile,
       handleGatewayRestart, SameSettingsFlags, SettingsFlagged
  <2> QED BY <1>0, <1>12, <2>1, <2>2, HandlerGoesOn
\* A handler ends.
<1>16. ASSUME NEW s \in Slots, NEW call, HasKind(call), call.op \notin {"load", "save", "restart"},
              settingsCalls' = [settingsCalls EXCEPT ![s] = call], SettingsFlagged(settingsPage'),
              settingsPage'.loading = TRUE => (settingsPage.loading = TRUE /\ settingsCalls[s].op # "load"),
              settingsPage'.saving = TRUE <=> (settingsPage.saving = TRUE /\ settingsCalls[s].op # "save"),
              settingsPage'.restarting = TRUE <=>
                (settingsPage.restarting = TRUE /\ settingsCalls[s].op # "restart")
       PROVE  SettingsFlags'
  <2>1. SettingsPassed(settingsPage, settingsPage', settingsCalls[s], call)
    BY <1>16 DEF SettingsPassed, Passed, Kept
  <2> QED BY <1>16, <2>1, SettingsTurn
<1>17. ASSUME NEW s \in Slots, SettingsLoaded(s) PROVE SettingsFlags'
  <2>1. settingsCalls' = [settingsCalls EXCEPT ![s] = Idle] /\ settingsCalls[s].op = "load"
    BY <1>17 DEF SettingsLoaded, Put
  <2>2. SettingsFlagged(settingsPage') /\ settingsPage'.loading = FALSE
        /\ settingsPage'.saving = settingsPage.saving /\ settingsPage'.restarting = settingsPage.restarting
    BY <1>0, <1>17 DEF SettingsLoaded, SettingsFlagged
  <2> QED BY <1>16, <2>1, <2>2, IdleKind
<1>18. ASSUME NEW s \in Slots, SettingsSaved(s) PROVE SettingsFlags'
  <2>1. settingsCalls' = [settingsCalls EXCEPT ![s] = Idle] /\ settingsCalls[s].op = "save"
    BY <1>18 DEF SettingsSaved, Put
  <2>2. SettingsFlagged(settingsPage') /\ settingsPage'.saving = FALSE
        /\ settingsPage'.loading = settingsPage.loading /\ settingsPage'.restarting = settingsPage.restarting
    BY <1>0, <1>18 DEF SettingsSaved, SettingsFlagged
  <2> QED BY <1>16, <2>1, <2>2, IdleKind
<1>19. ASSUME NEW s \in Slots, RestartEnds(s) PROVE SettingsFlags'
  <2>1. settingsCalls' = [settingsCalls EXCEPT ![s] = Idle] /\ settingsCalls[s].op = "restart"
    BY <1>19 DEF RestartEnds, Put
  <2>2. PICK late : settingsPage' = [settingsPage EXCEPT !.restarting = FALSE, !.scheduled = @ + late]
    BY <1>19 DEF RestartEnds
  <2>3. SettingsFlagged(settingsPage') /\ settingsPage'.restarting = FALSE
        /\ settingsPage'.loading = settingsPage.loading /\ settingsPage'.saving = settingsPage.saving
    BY <1>0, <2>2 DEF SettingsFlagged
  <2> QED BY <1>16, <2>1, <2>3, IdleKind
<1>20. ASSUME NEW s \in Slots, SettingsFails(s) PROVE SettingsFlags'
  <2>1. /\ SettingsFlagged(settingsPage') /\ settingsPage'.restarting = settingsPage.restarting
        /\ settingsCalls[s].op # "restart"
        /\ settingsPage'.loading = TRUE => (settingsPage.loading = TRUE /\ settingsCalls[s].op # "load")
        /\ settingsPage'.saving = TRUE <=> (settingsPage.saving = TRUE /\ settingsCalls[s].op # "save")
    BY <1>0, <1>20 DEF SettingsFails, SettingsFlagged
  <2>2. CASE settingsCalls' = [settingsCalls EXCEPT ![s] = Idle]
    BY <1>16, <2>1, <2>2, IdleKind
  <2>3. CASE settingsCalls' = [settingsCalls EXCEPT ![s] = [settingsCalls[s] EXCEPT !.op = "left"]]
    <3> DEFINE call == [settingsCalls[s] EXCEPT !.op = "left"]
    <3>1. HasKind(call) /\ call.op = "left" /\ settingsCalls' = [settingsCalls EXCEPT ![s] = call]
      BY <1>0, <2>3, HandlerLeft
    <3> HIDE DEF call
    <3> QED BY <1>16, <2>1, <3>1
  <2> QED BY <1>20, <2>2, <2>3 DEF SettingsFails, Leave, Put
<1>21. ASSUME NEW s \in Slots, SettingsLeft(s) PROVE SettingsFlags'
  <2>1. UNCHANGED settingsPage /\ settingsCalls[s].op = "left" /\ settingsCalls' = [settingsCalls EXCEPT ![s] = Idle]
    BY <1>21 DEF SettingsLeft, Put
  <2> QED BY <1>0, <1>16, <2>1, IdleKind
<1> QED BY <1>1, <1>4, <1>5, <1>7, <1>8, <1>9, <1>10, <1>11, <1>13, <1>14, <1>15, <1>17, <1>18, <1>19,
        <1>20, <1>21 DEF SettingsNext
-----------------------------------------------------------------------------
(* The configuration pages.                                                *)

CfgFlagged(page) ==
  {"saving", "acting"} \subseteq DOMAIN page /\ page.saving \in BOOLEAN /\ page.acting \in BOOLEAN

CfgFlags ==
  /\ CfgFlagged(cfgPage) /\ Ready(cfgCalls)
  /\ Tended(cfgPage.saving, Waiting(cfgCalls, "save"))
  /\ Tended(cfgPage.acting, Waiting(cfgCalls, "action"))

LEMMA CfgTurn ==
  ASSUME CfgFlags, NEW s \in Slots, NEW call, HasKind(call),
         cfgCalls' = [cfgCalls EXCEPT ![s] = call], CfgFlagged(cfgPage'),
         Passed(cfgPage.saving, cfgPage'.saving, cfgCalls[s], call, "save"),
         Passed(cfgPage.acting, cfgPage'.acting, cfgCalls[s], call, "action")
  PROVE  CfgFlags'
<1>1. Ready(cfgCalls)
  BY DEF CfgFlags
<1>2. Replaced(cfgCalls, cfgCalls', s, call)
  BY <1>1, SlotReplaced
<1>3. Ready(cfgCalls')
  BY <1>2 DEF Replaced
<1>4. Tended(cfgPage'.saving, Waiting(cfgCalls', "save"))
  BY <1>2, KindTended DEF CfgFlags
<1>5. Tended(cfgPage'.acting, Waiting(cfgCalls', "action"))
  BY <1>2, KindTended DEF CfgFlags
<1> QED BY <1>3, <1>4, <1>5 DEF CfgFlags, Ready, Waiting

SameCfgFlags ==
  CfgFlagged(cfgPage') /\ cfgPage'.saving = cfgPage.saving /\ cfgPage'.acting = cfgPage.acting

LEMMA CfgStarts ==
  ASSUME CfgFlags, NEW op, NEW act, NEW get, CfgBegin(op, act, get), CfgFlagged(cfgPage'),
         cfgPage'.saving = TRUE => (op = "save" \/ cfgPage.saving = TRUE),
         cfgPage'.acting = TRUE => (op = "action" \/ cfgPage.acting = TRUE)
  PROVE  CfgFlags'
<1> DEFINE call == [op |-> op, act |-> act, get |-> get]
<1>1. PICK s \in Slots : cfgCalls[s] = Idle /\ cfgCalls' = [cfgCalls EXCEPT ![s] = call]
  BY DEF CfgBegin, Free, Put
<1>2. HasKind(call) /\ call.op = op /\ cfgCalls[s].op = "idle"
  BY <1>1, IdleKind DEF HasKind
<1> HIDE DEF call
<1> QED BY <1>1, <1>2, CfgTurn DEF Passed

LEMMA CfgFlagsInit == Init => CfgFlags
<1> SUFFICES ASSUME Init PROVE CfgFlags
  OBVIOUS
<1>1. MockInit(On({"mock"}, MockStores))
  BY DEF Init
<1>2. PICK kind : cfgPage = [kind |-> kind, draft |-> Nothing, saving |-> FALSE, acting |-> FALSE,
                             open |-> "", file |-> Nothing, raced |-> FALSE]
  BY <1>1, Zenon DEF MockInit
<1>3. CfgFlagged(cfgPage) /\ cfgPage.saving = FALSE /\ cfgPage.acting = FALSE
  BY <1>2 DEF CfgFlagged
<1>4. cfgCalls = NoCalls
  BY <1>1, Zenon DEF MockInit
<1> QED BY <1>3, <1>4, NoneReady, NoneTended DEF CfgFlags

LEMMA CfgFlagsStep == CfgFlags /\ [Next]_vars => CfgFlags'
<1> SUFFICES ASSUME CfgFlags, [Next]_vars PROVE CfgFlags'
  OBVIOUS
<1>0. CfgFlagged(cfgPage) /\ \A s \in Slots : HasKind(cfgCalls[s])
  BY DEF CfgFlags, Ready
<1>1. MockNext \/ UNCHANGED mockVars
  BY RouteSteps
<1>2. ASSUME UNCHANGED cfgCalls, SameCfgFlags PROVE CfgFlags'
  BY <1>2 DEF CfgFlags, SameCfgFlags, Ready, Waiting
<1>3. CASE UNCHANGED mockVars
  BY <1>0, <1>2, <1>3 DEF mockVars, SameCfgFlags
<1>4. CASE PeerOpen \/ TunnelEdit \/ LocalEdit \/ NodeConfigEdit \/ MockCall \/ SnapshotCall \/ JobCall
  <2>1. UNCHANGED cfgCalls
    BY <1>4 DEF PeerOpen, TunnelEdit, LocalEdit, NodeConfigEdit, MockCall, SnapshotCall, JobCall
  <2>2. CASE PeerOpen \/ TunnelEdit \/ LocalEdit
    <3>1. SameCfgFlags
      BY <1>0, <2>2 DEF PeerOpen, TunnelEdit, LocalEdit, SameCfgFlags, CfgFlagged
    <3> QED BY <1>2, <2>1, <3>1
  <2>3. CASE NodeConfigEdit
    <3>1. PICK id : cfgPage' = [cfgPage EXCEPT !.draft = [cfgPage.draft EXCEPT !.peer.id = id]]
      BY <2>3 DEF NodeConfigEdit
    <3>2. SameCfgFlags
      BY <1>0, <3>1 DEF SameCfgFlags, CfgFlagged
    <3> QED BY <1>2, <2>1, <3>2
  <2>4. CASE MockCall
    <3>1. cfgPage' = [cfgPage EXCEPT !.raced = TRUE]
      BY <2>4 DEF MockCall
    <3>2. SameCfgFlags
      BY <1>0, <3>1 DEF SameCfgFlags, CfgFlagged
    <3> QED BY <1>2, <2>1, <3>2
  <2>5. CASE SnapshotCall \/ JobCall
    BY <1>0, <1>2, <2>1, <2>5 DEF SnapshotCall, JobCall, SameCfgFlags
  <2> QED BY <1>4, <2>2, <2>3, <2>4, <2>5
<1>5. ASSUME NEW op, NEW act, NEW get, CfgBegin(op, act, get), UNCHANGED cfgPage PROVE CfgFlags'
  BY <1>0, <1>5, CfgStarts
<1>6. CASE TunnelLoad \/ LocalLoad \/ PeerLoad \/ NodeConfigLoad
  BY <1>5, <1>6 DEF TunnelLoad, LocalLoad, PeerLoad, NodeConfigLoad, CfgLoad
<1>7. CASE PeerSave
  <2>1. PICK id, address : CfgBegin(cfgPage.open, Sent([id |-> id, ip |-> address]), Unsent)
    BY <1>7 DEF PeerSave
  <2> QED BY <1>5, <1>7, <2>1 DEF PeerSave
<1>8. CASE PeerRemove
  <2>1. PICK p : CfgBegin("remove", Sent(p), Unsent)
    BY <1>8 DEF PeerRemove
  <2> QED BY <1>5, <1>8, <2>1 DEF PeerRemove
<1>9. CASE ExportBegin \/ ImportBegin
  BY <1>5, <1>9 DEF ExportBegin, ImportBegin
<1>10. CASE TunnelSave \/ LocalSave \/ NodeConfigSave
  <2>1. CfgBegin("save", Sent(cfgPage.draft), Unsent) /\ cfgPage' = [cfgPage EXCEPT !.saving = TRUE]
    BY <1>10 DEF TunnelSave, LocalSave, NodeConfigSave
  <2>2. CfgFlagged(cfgPage') /\ cfgPage'.acting = cfgPage.acting
    BY <1>0, <2>1 DEF CfgFlagged
  <2> QED BY <2>1, <2>2, CfgStarts
<1>11. CASE TunnelAction
  <2>1. CfgBegin("action", Sent(Nothing), Unsent) /\ cfgPage' = [cfgPage EXCEPT !.acting = TRUE]
    BY <1>11 DEF TunnelAction
  <2>2. CfgFlagged(cfgPage') /\ cfgPage'.saving = cfgPage.saving
    BY <1>0, <2>1 DEF CfgFlagged
  <2> QED BY <2>1, <2>2, CfgStarts
<1>12. ASSUME NEW s \in Slots, NEW call, HasKind(call), call.op = cfgCalls[s].op,
              cfgCalls' = [cfgCalls EXCEPT ![s] = call], SameCfgFlags
       PROVE  CfgFlags'
  BY <1>12, CfgTurn DEF Passed, SameCfgFlags
<1>13. ASSUME NEW s \in Slots, cfgCalls' = [cfgCalls EXCEPT ![s] = Idle], CfgFlagged(cfgPage'),
              cfgPage'.saving = TRUE => (cfgPage.saving = TRUE /\ cfgCalls[s].op # "save"),
              cfgPage'.acting = TRUE => (cfgPage.acting = TRUE /\ cfgCalls[s].op # "action")
       PROVE  CfgFlags'
  BY <1>13, IdleKind, CfgTurn DEF Passed
<1>14. ASSUME NEW s \in Slots, CfgServeAct(s) PROVE CfgFlags'
  <2>1. UNCHANGED cfgPage
    BY <1>14 DEF CfgServeAct
  <2>2. CASE cfgCalls' = [cfgCalls EXCEPT ![s] = Idle] /\ cfgCalls[s].op = "edit"
    BY <1>0, <1>13, <2>1, <2>2
  <2>3. CASE cfgCalls' = [cfgCalls EXCEPT ![s] = [cfgCalls[s] EXCEPT !.act = Served(Nothing)]]
    BY <1>0, <1>12, <2>1, <2>3, HandlerGoesOn DEF SameCfgFlags
  <2> QED BY <1>14, <2>2, <2>3 DEF CfgServeAct, Put
<1>15. ASSUME NEW s \in Slots, CfgActed(s) \/ CfgServeGet(s) PROVE CfgFlags'
  <2>1. PICK v : cfgCalls' = [cfgCalls EXCEPT ![s] = [cfgCalls[s] EXCEPT !.get = v]]
    BY <1>15 DEF CfgActed, CfgServeGet
  <2>2. SameCfgFlags
    BY <1>0, <1>15 DEF CfgActed, CfgServeGet, SameCfgFlags, CfgFlagged
  <2> QED BY <1>0, <1>12, <2>1, <2>2, HandlerGoesOn
<1>16. ASSUME NEW s \in Slots, CfgLoaded(s) PROVE CfgFlags'
  <2>1. cfgCalls' = [cfgCalls EXCEPT ![s] = Idle]
    BY <1>16 DEF CfgLoaded, Put
  <2>2. /\ CfgFlagged(cfgPage')
        /\ cfgPage'.saving = TRUE => (cfgPage.saving = TRUE /\ cfgCalls[s].op # "save")
        /\ cfgPage'.acting = TRUE => (cfgPage.acting = TRUE /\ cfgCalls[s].op # "action")
    BY <1>0, <1>16 DEF CfgLoaded, CfgFlagged
  <2> QED BY <1>13, <2>1, <2>2
<1>17. ASSUME NEW s \in Slots, exportConfigJsonMock(s) \/ importConfigJsonMock(s) PROVE CfgFlags'
  <2>1. SameCfgFlags
    <3>1. PICK file, draft, raced :
            \/ UNCHANGED cfgPage \/ cfgPage' = [cfgPage EXCEPT !.file = file]
            \/ cfgPage' = [cfgPage EXCEPT !.raced = FALSE]
            \/ cfgPage' = [cfgPage EXCEPT !.draft = draft, !.raced = raced]
      BY <1>17 DEF exportConfigJsonMock, importConfigJsonMock
    <3> QED BY <1>0, <3>1 DEF SameCfgFlags, CfgFlagged
  <2>2. PICK v : \/ cfgCalls' = [cfgCalls EXCEPT ![s] = [cfgCalls[s] EXCEPT !.act = v]]
                 \/ cfgCalls' = [cfgCalls EXCEPT ![s] = Idle]
    BY <1>17 DEF exportConfigJsonMock, importConfigJsonMock, Put
  <2>3. cfgCalls[s].op \in {"export", "import"}
    BY <1>17 DEF exportConfigJsonMock, importConfigJsonMock
  <2>4. CASE cfgCalls' = [cfgCalls EXCEPT ![s] = [cfgCalls[s] EXCEPT !.act = v]]
    BY <1>0, <1>12, <2>1, <2>4, HandlerGoesOn
  <2>5. CASE cfgCalls' = [cfgCalls EXCEPT ![s] = Idle]
    BY <1>13, <2>1, <2>3, <2>5 DEF SameCfgFlags
  <2> QED BY <2>2, <2>4, <2>5
<1> QED BY <1>1, <1>3, <1>4, <1>6, <1>7, <1>8, <1>9, <1>10, <1>11, <1>14, <1>15, <1>16, <1>17 DEF MockNext
-----------------------------------------------------------------------------
(* The resources page.  A handler that ends with a load takes `loading`    *)
(* down from the moment it has asked for the rows.                         *)

ResFlagged(page) ==
  /\ {"loading", "saving", "syncing"} \subseteq DOMAIN page
  /\ page.loading \in BOOLEAN /\ page.saving \in BOOLEAN /\ page.syncing \in BOOLEAN

\* The handlers that load.
ResLoaders(calls) == {s \in Slots : calls[s] # Idle /\ calls[s].get.at # "unsent"}

ResFlags ==
  /\ ResFlagged(resPage) /\ Ready(resCalls)
  /\ \A s \in Slots : resCalls[s] # Idle => DOMAIN resCalls[s] = {"op", "act", "get"}
  /\ Tended(resPage.loading, ResLoaders(resCalls))
  /\ Tended(resPage.saving, Waiting(resCalls, "save"))
  /\ Tended(resPage.syncing, Waiting(resCalls, "push"))

LEMMA ResTurn ==
  ASSUME ResFlags, NEW s \in Slots, NEW call, HasKind(call),
         call # Idle => DOMAIN call = {"op", "act", "get"},
         resCalls' = [resCalls EXCEPT ![s] = call], ResFlagged(resPage'),
         resPage'.loading = TRUE =>
           \/ call # Idle /\ call.get.at # "unsent"
           \/ resPage.loading = TRUE /\ ~(resCalls[s] # Idle /\ resCalls[s].get.at # "unsent"),
         Passed(resPage.saving, resPage'.saving, resCalls[s], call, "save"),
         Passed(resPage.syncing, resPage'.syncing, resCalls[s], call, "push")
  PROVE  ResFlags'
<1>1. Ready(resCalls)
  BY DEF ResFlags
<1>2. Replaced(resCalls, resCalls', s, call)
  BY <1>1, SlotReplaced
<1>3. Ready(resCalls') /\ resCalls'[s] = call /\ \A t \in Slots : t # s => resCalls'[t] = resCalls[t]
  BY <1>2 DEF Replaced
<1>4. Tended(resPage'.loading, ResLoaders(resCalls'))
  <2>1. ResLoaders(resCalls) \ {s} \subseteq ResLoaders(resCalls')
    BY <1>3 DEF ResLoaders
  <2>2. s \in ResLoaders(resCalls') <=> call # Idle /\ call.get.at # "unsent"
    BY <1>3 DEF ResLoaders
  <2>3. s \in ResLoaders(resCalls) <=> resCalls[s] # Idle /\ resCalls[s].get.at # "unsent"
    BY DEF ResLoaders
  <2>4. resPage'.loading = TRUE =>
          (s \in ResLoaders(resCalls') \/ (resPage.loading = TRUE /\ s \notin ResLoaders(resCalls)))
    BY <2>2, <2>3
  <2>5. Tended(resPage.loading, ResLoaders(resCalls))
    BY DEF ResFlags
  <2> QED BY <2>1, <2>4, <2>5 DEF Tended
<1>5. Tended(resPage'.saving, Waiting(resCalls', "save"))
  BY <1>2, KindTended DEF ResFlags
<1>6. Tended(resPage'.syncing, Waiting(resCalls', "push"))
  BY <1>2, KindTended DEF ResFlags
<1>7. \A t \in Slots : resCalls'[t] # Idle => DOMAIN resCalls'[t] = {"op", "act", "get"}
  BY <1>3 DEF ResFlags
<1> QED BY <1>3, <1>4, <1>5, <1>6, <1>7 DEF ResFlags, Ready, Waiting, ResLoaders

SameResFlags ==
  /\ ResFlagged(resPage') /\ resPage'.loading = resPage.loading
  /\ resPage'.saving = resPage.saving /\ resPage'.syncing = resPage.syncing

LEMMA ResStarts ==
  ASSUME ResFlags, NEW op, NEW act, NEW get, ResBegin(ResCall(op, act, get)), ResFlagged(resPage'),
         resPage'.loading = TRUE => (get.at # "unsent" \/ resPage.loading = TRUE),
         resPage'.saving = TRUE => (op = "save" \/ resPage.saving = TRUE),
         resPage'.syncing = TRUE => (op = "push" \/ resPage.syncing = TRUE)
  PROVE  ResFlags'
<1> DEFINE call == ResCall(op, act, get)
<1>1. PICK s \in Slots : resCalls[s] = Idle /\ resCalls' = [resCalls EXCEPT ![s] = call]
  BY DEF ResBegin, Free, Put
<1>2. HasKind(call) /\ call.op = op /\ call.get = get /\ resCalls[s].op = "idle"
      /\ DOMAIN call = {"op", "act", "get"} /\ call # Idle
  BY <1>1, IdleKind DEF HasKind, ResCall, Idle
<1> HIDE DEF call
<1>3. Passed(resPage.saving, resPage'.saving, resCalls[s], call, "save")
      /\ Passed(resPage.syncing, resPage'.syncing, resCalls[s], call, "push")
  BY <1>2 DEF Passed
<1>4. resPage'.loading = TRUE =>
        \/ call # Idle /\ call.get.at # "unsent"
        \/ resPage.loading = TRUE /\ ~(resCalls[s] # Idle /\ resCalls[s].get.at # "unsent")
  BY <1>1, <1>2
<1> QED BY <1>1, <1>2, <1>3, <1>4, ResTurn

LEMMA ResFlagsInit == Init => ResFlags
<1> SUFFICES ASSUME Init PROVE ResFlags
  OBVIOUS
<1>1. resCalls = NoCalls /\ ResFlagged(resPage) /\ resPage.loading = FALSE /\ resPage.saving = FALSE
      /\ resPage.syncing = FALSE
  BY DEF Init, ResourceInit, ResFlagged
<1> QED BY <1>1, NoneReady, NoneTended DEF ResFlags

LEMMA RequestStages == Unsent.at = "unsent" /\ \A v : Sent(v).at = "sent" /\ Served(v).at = "served"
BY DEF Unsent, Sent, Served

LEMMA ResFlagsStep == ResFlags /\ [Next]_vars => ResFlags'
<1> SUFFICES ASSUME ResFlags, [Next]_vars PROVE ResFlags'
  OBVIOUS
<1>0. /\ ResFlagged(resPage)
      /\ \A s \in Slots : HasKind(resCalls[s])
      /\ \A s \in Slots : resCalls[s] # Idle => DOMAIN resCalls[s] = {"op", "act", "get"}
  BY DEF ResFlags, Ready
<1>1. ResourceNext \/ UNCHANGED resourceVars
  BY RouteSteps
<1>2. ASSUME UNCHANGED resCalls, SameResFlags PROVE ResFlags'
  BY <1>2 DEF ResFlags, SameResFlags, Ready, Waiting, ResLoaders
<1>3. CASE UNCHANGED resourceVars
  BY <1>0, <1>2, <1>3 DEF resourceVars, SameResFlags
<1>4. CASE openCreate \/ openEditResource \/ ResType \/ ResCancel \/ OtherBrowserSavesResource
  <2>1. UNCHANGED resCalls /\ SameResFlags
    BY <1>0, <1>4 DEF openCreate, openEditResource, ResType, ResCancel, OtherBrowserSavesResource,
       SameResFlags, ResFlagged
  <2> QED BY <1>2, <2>1
<1>5. CASE ResLoad
  <2>1. ResBegin(ResCall("load", Unsent, Sent(Nothing)))
    BY <1>5 DEF ResLoad
  <2>2. ResFlagged(resPage') /\ resPage'.saving = resPage.saving /\ resPage'.syncing = resPage.syncing
    BY <1>0, <1>5 DEF ResLoad, ResLoading, ResFlagged
  <2>3. Sent(Nothing).at # "unsent"
    BY RequestStages
  <2> QED BY <2>1, <2>2, <2>3, ResStarts
<1>6. CASE saveResource
  <2>1. PICK item, body : \/ resPage' = [resPage EXCEPT !.editor = item, !.error = TRUE] /\ UNCHANGED resCalls
                          \/ /\ resPage' = [resPage EXCEPT !.editor = item, !.saving = TRUE, !.error = FALSE]
                             /\ ResBegin(ResCall("save", Sent(body), Unsent))
    BY <1>6 DEF saveResource
  <2>2. CASE resPage' = [resPage EXCEPT !.editor = item, !.error = TRUE] /\ UNCHANGED resCalls
    <3>1. SameResFlags
      BY <1>0, <2>2 DEF SameResFlags, ResFlagged
    <3> QED BY <1>2, <2>2, <3>1
  <2>3. CASE /\ resPage' = [resPage EXCEPT !.editor = item, !.saving = TRUE, !.error = FALSE]
             /\ ResBegin(ResCall("save", Sent(body), Unsent))
    <3>1. ResFlagged(resPage') /\ resPage'.loading = resPage.loading /\ resPage'.syncing = resPage.syncing
      BY <1>0, <2>3 DEF ResFlagged
    <3> QED BY <2>3, <3>1, ResStarts
  <2> QED BY <2>1, <2>2, <2>3
<1>7. CASE removeResource
  <2>1. PICK body : ResBegin(ResCall("remove", Sent(body), Unsent))
    BY <1>7 DEF removeResource
  <2>2. UNCHANGED resPage
    BY <1>7 DEF removeResource
  <2> QED BY <1>0, <2>1, <2>2, ResStarts
<1>8. CASE pushLocalCatalog
  <2>1. ResBegin(ResCall("push", Sent(Nothing), Unsent))
    BY <1>8 DEF pushLocalCatalog
  <2>2. ResFlagged(resPage') /\ resPage'.loading = resPage.loading /\ resPage'.saving = resPage.saving
    BY <1>0, <1>8 DEF pushLocalCatalog, ResFlagged
  <2> QED BY <2>1, <2>2, ResStarts
\* A handler goes on.
<1>9. ASSUME NEW s \in Slots, resCalls[s] # Idle, NEW v,
             resCalls' = [resCalls EXCEPT ![s] = [resCalls[s] EXCEPT !.act = v]], UNCHANGED resPage
      PROVE  ResFlags'
  <2> DEFINE call == [resCalls[s] EXCEPT !.act = v]
  <2>1. DOMAIN resCalls[s] = {"op", "act", "get"}
    BY <1>0, <1>9
  <2>2. DOMAIN call = {"op", "act", "get"} /\ call.op = resCalls[s].op /\ call.get = resCalls[s].get
    BY <2>1
  <2>3. HasKind(call) /\ call # Idle /\ resCalls' = [resCalls EXCEPT ![s] = call]
    BY <1>9, <2>2 DEF HasKind, Idle
  <2> HIDE DEF call
  <2>4. /\ Passed(resPage.saving, resPage'.saving, resCalls[s], call, "save")
        /\ Passed(resPage.syncing, resPage'.syncing, resCalls[s], call, "push")
    BY <1>9, <2>2 DEF Passed
  <2>5. resPage'.loading = TRUE =>
          \/ call # Idle /\ call.get.at # "unsent"
          \/ resPage.loading = TRUE /\ ~(resCalls[s] # Idle /\ resCalls[s].get.at # "unsent")
    BY <1>9, <2>2, <2>3
  <2> QED BY <1>0, <1>9, <2>2, <2>3, <2>4, <2>5, ResTurn
<1>10. ASSUME NEW s \in Slots, resCalls[s] # Idle, NEW v, v.at # "unsent",
              resCalls' = [resCalls EXCEPT ![s] = [resCalls[s] EXCEPT !.get = v]], ResFlagged(resPage'),
              resPage'.saving = resPage.saving, resPage'.syncing = resPage.syncing
       PROVE  ResFlags'
  <2> DEFINE call == [resCalls[s] EXCEPT !.get = v]
  <2>1. DOMAIN resCalls[s] = {"op", "act", "get"}
    BY <1>0, <1>10
  <2>2. DOMAIN call = {"op", "act", "get"} /\ call.op = resCalls[s].op /\ call.get = v
    BY <2>1
  <2>3. HasKind(call) /\ call # Idle /\ resCalls' = [resCalls EXCEPT ![s] = call]
    BY <1>10, <2>2 DEF HasKind, Idle
  <2> HIDE DEF call
  <2>4. /\ Passed(resPage.saving, resPage'.saving, resCalls[s], call, "save")
        /\ Passed(resPage.syncing, resPage'.syncing, resCalls[s], call, "push")
    BY <1>10, <2>2 DEF Passed
  <2>5. call # Idle /\ call.get.at # "unsent"
    BY <1>10, <2>2, <2>3
  <2> QED BY <1>10, <2>2, <2>3, <2>4, <2>5, ResTurn
\* A handler ends.
<1>11. ASSUME NEW s \in Slots, resCalls' = [resCalls EXCEPT ![s] = Idle], ResFlagged(resPage'),
              resPage'.loading = TRUE => (resPage.loading = TRUE /\ resCalls[s].get.at = "unsent"),
              resPage'.saving = TRUE => (resPage.saving = TRUE /\ resCalls[s].op # "save"),
              resPage'.syncing = TRUE => (resPage.syncing = TRUE /\ resCalls[s].op # "push")
       PROVE  ResFlags'
  <2>1. /\ Passed(resPage.saving, resPage'.saving, resCalls[s], Idle, "save")
        /\ Passed(resPage.syncing, resPage'.syncing, resCalls[s], Idle, "push")
    BY <1>11 DEF Passed
  <2> QED BY <1>11, <2>1, IdleKind, ResTurn
<1>12. ASSUME NEW s \in Slots, ResLoaded(s) \/ ResLoadFails(s) PROVE ResFlags'
  <2>1. resCalls' = [resCalls EXCEPT ![s] = Idle]
    BY <1>12 DEF ResLoaded, ResLoadFails, Put
  <2>2. PICK rows : \/ resPage' = [ResFlagsDown(resCalls[s].op) EXCEPT !.rows = rows]
                    \/ resPage' = [ResFlagsDown(resCalls[s].op) EXCEPT !.error = TRUE]
    BY <1>12 DEF ResLoaded, ResLoadFails
  <2>3. /\ ResFlagged(resPage') /\ resPage'.loading = FALSE
        /\ resPage'.saving = TRUE => (resPage.saving = TRUE /\ resCalls[s].op # "save")
        /\ resPage'.syncing = TRUE => (resPage.syncing = TRUE /\ resCalls[s].op # "push")
    BY <1>0, <2>2 DEF ResFlagged, ResFlagsDown
  <2> QED BY <1>11, <2>1, <2>3
<1>13. ASSUME NEW s \in Slots, ResServe(s) PROVE ResFlags'
  <2>1. resCalls' = [resCalls EXCEPT ![s] = [resCalls[s] EXCEPT !.get = Served(resources)]]
        /\ UNCHANGED resPage /\ resCalls[s] # Idle
    BY <1>13 DEF ResServe
  <2>2. Served(resources).at # "unsent"
    BY RequestStages
  <2> QED BY <1>0, <1>10, <2>1, <2>2
<1>14. ASSUME NEW s \in Slots, ResServeAct(s) PROVE ResFlags'
  <2>1. resCalls' = [resCalls EXCEPT ![s] = [resCalls[s] EXCEPT !.act = Served(Nothing)]]
        /\ UNCHANGED resPage /\ resCalls[s] # Idle
    BY <1>14 DEF ResServeAct
  <2> QED BY <1>9, <2>1
<1>15. ASSUME NEW s \in Slots, ResActed(s) PROVE ResFlags'
  <2>1. resCalls' = [resCalls EXCEPT ![s] = [resCalls[s] EXCEPT !.get = Sent(Nothing)]] /\ resCalls[s] # Idle
    BY <1>15 DEF ResActed
  <2>2. ResFlagged(resPage') /\ resPage'.saving = resPage.saving /\ resPage'.syncing = resPage.syncing
    BY <1>0, <1>15 DEF ResActed, ResLoading, ResFlagged
  <2>3. Sent(Nothing).at # "unsent"
    BY RequestStages
  <2> QED BY <1>10, <2>1, <2>2, <2>3
<1>16. ASSUME NEW s \in Slots, ResActFails(s) PROVE ResFlags'
  <2>1. resCalls' = [resCalls EXCEPT ![s] = Idle] /\ resCalls[s].get.at = "unsent"
    BY <1>16 DEF ResActFails, Put
  <2>2. /\ ResFlagged(resPage') /\ resPage'.loading = resPage.loading
        /\ resPage'.saving = TRUE => (resPage.saving = TRUE /\ resCalls[s].op # "save")
        /\ resPage'.syncing = TRUE => (resPage.syncing = TRUE /\ resCalls[s].op # "push")
    BY <1>0, <1>16 DEF ResActFails, ResFlagged
  <2> QED BY <1>11, <2>1, <2>2
<1> QED BY <1>1, <1>3, <1>4, <1>5, <1>6, <1>7, <1>8, <1>12, <1>13, <1>14, <1>15, <1>16 DEF ResourceNext
-----------------------------------------------------------------------------
(* A flag that handlers of several kinds share.                            *)

AnyOf(calls, ops) == {s \in Slots : calls[s].op \in ops}

AnyPassed(was, is, old, new, ops) ==
  is = TRUE => (new.op \in ops \/ (was = TRUE /\ old.op \notin ops))

LEMMA AnyTended ==
  ASSUME NEW calls, NEW after, NEW s \in Slots, NEW call, NEW was, NEW is, NEW ops,
         Replaced(calls, after, s, call), AnyPassed(was, is, calls[s], call, ops),
         Tended(was, AnyOf(calls, ops))
  PROVE  Tended(is, AnyOf(after, ops))
<1>1. after[s] = call /\ \A t \in Slots : t # s => after[t] = calls[t]
  BY DEF Replaced
<1>2. s \in AnyOf(after, ops) <=> call.op \in ops
  BY <1>1 DEF AnyOf
<1>3. s \in AnyOf(calls, ops) <=> calls[s].op \in ops
  BY DEF AnyOf
<1>4. AnyOf(calls, ops) \ {s} \subseteq AnyOf(after, ops)
  BY <1>1 DEF AnyOf
<1>5. is = TRUE => (s \in AnyOf(after, ops) \/ (was = TRUE /\ s \notin AnyOf(calls, ops)))
  BY <1>2, <1>3 DEF AnyPassed
<1> QED BY <1>4, <1>5 DEF Tended

-----------------------------------------------------------------------------
(* The mappings page.  A test does not load; every other handler does, and *)
(* from then on it will take `loading` down.                               *)

MapFlagged(page) ==
  /\ {"loading", "saving", "testing"} \subseteq DOMAIN page
  /\ page.loading \in BOOLEAN /\ page.saving \in BOOLEAN /\ page.testing \in BOOLEAN

MapHandler(call) ==
  call # Idle => /\ DOMAIN call = {"op", "act", "rows", "raw", "span"}
                 /\ call.op = "test" => call.rows.at = "unsent"

MapLoader(call) == call # Idle /\ call.rows.at # "unsent"

MapLoaders(calls) == {s \in Slots : MapLoader(calls[s])}

MapFlags ==
  /\ MapFlagged(mapPage) /\ Ready(mapCalls)
  /\ \A s \in Slots : MapHandler(mapCalls[s])
  /\ Tended(mapPage.loading, MapLoaders(mapCalls))
  /\ Tended(mapPage.saving, AnyOf(mapCalls, {"save", "remove"}))
  /\ Tended(mapPage.testing, AnyOf(mapCalls, {"catalog", "test"}))

MapPassed(page, after, old, new) ==
  /\ after.loading = TRUE => (MapLoader(new) \/ (page.loading = TRUE /\ ~MapLoader(old)))
  /\ AnyPassed(page.saving, after.saving, old, new, {"save", "remove"})
  /\ AnyPassed(page.testing, after.testing, old, new, {"catalog", "test"})

LEMMA MapTurn ==
  ASSUME MapFlags, NEW s \in Slots, NEW call, HasKind(call), MapHandler(call),
         mapCalls' = [mapCalls EXCEPT ![s] = call], MapFlagged(mapPage'),
         MapPassed(mapPage, mapPage', mapCalls[s], call)
  PROVE  MapFlags'
<1>1. Ready(mapCalls)
  BY DEF MapFlags
<1>2. Replaced(mapCalls, mapCalls', s, call)
  BY <1>1, SlotReplaced
<1>3. Ready(mapCalls') /\ mapCalls'[s] = call /\ \A t \in Slots : t # s => mapCalls'[t] = mapCalls[t]
  BY <1>2 DEF Replaced
<1>4. Tended(mapPage'.loading, MapLoaders(mapCalls'))
  <2>1. MapLoaders(mapCalls) \ {s} \subseteq MapLoaders(mapCalls')
    BY <1>3 DEF MapLoaders
  <2>2. s \in MapLoaders(mapCalls') <=> MapLoader(call)
    BY <1>3 DEF MapLoaders
  <2>3. s \in MapLoaders(mapCalls) <=> MapLoader(mapCalls[s])
    BY DEF MapLoaders
  <2>4. mapPage'.loading = TRUE =>
          (s \in MapLoaders(mapCalls') \/ (mapPage.loading = TRUE /\ s \notin MapLoaders(mapCalls)))
    BY <2>2, <2>3 DEF MapPassed
  <2>5. Tended(mapPage.loading, MapLoaders(mapCalls))
    BY DEF MapFlags
  <2> QED BY <2>1, <2>4, <2>5 DEF Tended
<1>5. Tended(mapPage'.saving, AnyOf(mapCalls', {"save", "remove"}))
  BY <1>2, AnyTended DEF MapFlags, MapPassed
<1>6. Tended(mapPage'.testing, AnyOf(mapCalls', {"catalog", "test"}))
  BY <1>2, AnyTended DEF MapFlags, MapPassed
<1>7. \A t \in Slots : MapHandler(mapCalls'[t])
  BY <1>3 DEF MapFlags
<1> QED BY <1>3, <1>4, <1>5, <1>6, <1>7 DEF MapFlags, Ready, AnyOf, MapLoaders

SameMapFlags ==
  /\ MapFlagged(mapPage') /\ mapPage'.loading = mapPage.loading
  /\ mapPage'.saving = mapPage.saving /\ mapPage'.testing = mapPage.testing

LEMMA IdleMapHandler == MapHandler(Idle) /\ ~MapLoader(Idle)
BY DEF MapHandler, MapLoader

LEMMA NewMapHandler ==
  ASSUME NEW op, NEW act
  PROVE  /\ HasKind(MapCall(op, act)) /\ MapCall(op, act).op = op
         /\ MapHandler(MapCall(op, act)) /\ ~MapLoader(MapCall(op, act))
<1>1. MapCall(op, act).rows = Unsent /\ DOMAIN MapCall(op, act) = {"op", "act", "rows", "raw", "span"}
  BY DEF MapCall
<1> QED BY <1>1, RequestStages DEF HasKind, MapCall, MapHandler, MapLoader

LEMMA LoadingMapHandler ==
  ASSUME NEW call, DOMAIN call = {"op", "act", "rows", "raw", "span"}, call.op # "test"
  PROVE  /\ HasKind(MapLoads(call)) /\ MapLoads(call).op = call.op
         /\ MapHandler(MapLoads(call)) /\ MapLoader(MapLoads(call))
<1>1. /\ MapLoads(call).rows = Sent(Nothing) /\ MapLoads(call).op = call.op
      /\ DOMAIN MapLoads(call) = {"op", "act", "rows", "raw", "span"}
  BY DEF MapLoads
<1>2. MapLoads(call) # Idle
  BY <1>1 DEF Idle
<1> QED BY <1>1, <1>2, RequestStages DEF HasKind, MapHandler, MapLoader

\* A handler starts without a load.
LEMMA MapStarts ==
  ASSUME MapFlags, NEW op, NEW act, MapBegin(MapCall(op, act)), MapFlagged(mapPage'),
         mapPage'.loading = mapPage.loading,
         mapPage'.saving = TRUE => (op \in {"save", "remove"} \/ mapPage.saving = TRUE),
         mapPage'.testing = TRUE => (op \in {"catalog", "test"} \/ mapPage.testing = TRUE)
  PROVE  MapFlags'
<1>1. PICK s \in Slots : mapCalls[s] = Idle /\ mapCalls' = [mapCalls EXCEPT ![s] = MapCall(op, act)]
  BY DEF MapBegin, Free, Put
<1>2. mapCalls[s].op = "idle" /\ ~MapLoader(mapCalls[s])
  BY <1>1, IdleKind, IdleMapHandler
<1>3. MapPassed(mapPage, mapPage', mapCalls[s], MapCall(op, act))
  BY <1>2, NewMapHandler DEF MapPassed, AnyPassed
<1> QED BY <1>1, <1>3, NewMapHandler, MapTurn

LEMMA MapFlagsInit == Init => MapFlags
<1> SUFFICES ASSUME Init PROVE MapFlags
  OBVIOUS
<1>1. mapCalls = NoCalls /\ MapFlagged(mapPage) /\ mapPage.loading = FALSE /\ mapPage.saving = FALSE
      /\ mapPage.testing = FALSE
  BY DEF Init, MappingInit, MapFlagged
<1>2. \A s \in Slots : MapHandler(mapCalls[s])
  BY <1>1, NoneReady, IdleMapHandler
<1> QED BY <1>1, <1>2, NoneReady, NoneTended DEF MapFlags

LEMMA MapFlagsStep == MapFlags /\ [Next]_vars => MapFlags'
<1> SUFFICES ASSUME MapFlags, [Next]_vars PROVE MapFlags'
  OBVIOUS
<1>0. MapFlagged(mapPage) /\ \A s \in Slots : HasKind(mapCalls[s]) /\ MapHandler(mapCalls[s])
  BY DEF MapFlags, Ready
<1>1. MappingNext \/ UNCHANGED mappingVars
  BY RouteSteps
<1>2. ASSUME UNCHANGED mapCalls, SameMapFlags PROVE MapFlags'
  BY <1>2 DEF MapFlags, SameMapFlags, Ready, AnyOf, MapLoaders
<1>3. CASE UNCHANGED mappingVars
  BY <1>0, <1>2, <1>3 DEF mappingVars, SameMapFlags
<1>4. CASE MapType \/ MapCancel \/ OtherBrowserSaves \/ OtherBrowserMovesRange
  <2>1. UNCHANGED mapCalls /\ SameMapFlags
    BY <1>0, <1>4 DEF MapType, MapCancel, OtherBrowserSaves, OtherBrowserMovesRange, SameMapFlags, MapFlagged
  <2> QED BY <1>2, <2>1
<1>5. ASSUME NEW r, openMapping(r) PROVE MapFlags'
  <2>1. PICK v : mapPage' = [mapPage EXCEPT !.open = TRUE, !.editor = v]
    BY <1>5 DEF openMapping
  <2>2. UNCHANGED mapCalls
    BY <1>5 DEF openMapping
  <2>3. SameMapFlags
    BY <1>0, <2>1 DEF SameMapFlags, MapFlagged
  <2> QED BY <1>2, <2>2, <2>3
<1>6. CASE MapLoad
  <2> DEFINE first == MapCall("load", Unsent)
             call == MapLoads(first)
  <2>1. PICK s \in Slots : mapCalls[s] = Idle /\ mapCalls' = [mapCalls EXCEPT ![s] = call]
    BY <1>6 DEF MapLoad, MapBegin, Free, Put
  <2>2. DOMAIN first = {"op", "act", "rows", "raw", "span"} /\ first.op = "load"
    BY DEF MapCall
  <2>3. HasKind(call) /\ MapHandler(call) /\ MapLoader(call)
    BY <2>2, LoadingMapHandler
  <2>4. MapFlagged(mapPage') /\ mapPage'.saving = mapPage.saving /\ mapPage'.testing = mapPage.testing
    BY <1>0, <1>6 DEF MapLoad, Loading, MapFlagged
  <2>5. mapCalls[s].op = "idle"
    BY <2>1, IdleKind
  <2> HIDE DEF call
  <2>6. MapPassed(mapPage, mapPage', mapCalls[s], call)
    BY <2>3, <2>4, <2>5 DEF MapPassed, AnyPassed
  <2> QED BY <2>1, <2>3, <2>4, <2>6, MapTurn
<1>7. CASE saveMapping
  <2>1. PICK v : \/ mapPage' = [mapPage EXCEPT !.error = TRUE, !.notice = ""] /\ UNCHANGED mapCalls
                 \/ /\ mapPage' = [mapPage EXCEPT !.saving = TRUE, !.error = FALSE, !.notice = ""]
                    /\ MapBegin(MapCall("save", Sent(v)))
    BY <1>7 DEF saveMapping
  <2>2. CASE mapPage' = [mapPage EXCEPT !.error = TRUE, !.notice = ""] /\ UNCHANGED mapCalls
    <3>1. SameMapFlags
      BY <1>0, <2>2 DEF SameMapFlags, MapFlagged
    <3> QED BY <1>2, <2>2, <3>1
  <2>3. CASE /\ mapPage' = [mapPage EXCEPT !.saving = TRUE, !.error = FALSE, !.notice = ""]
             /\ MapBegin(MapCall("save", Sent(v)))
    <3>1. MapFlagged(mapPage') /\ mapPage'.loading = mapPage.loading /\ mapPage'.testing = mapPage.testing
      BY <1>0, <2>3 DEF MapFlagged
    <3> QED BY <2>3, <3>1, MapStarts
  <2> QED BY <2>1, <2>2, <2>3
<1>8. CASE removeMapping
  <2>1. MapBegin(MapCall("remove", Sent(mapPage.editor)))
    BY <1>8 DEF removeMapping
  <2>2. MapFlagged(mapPage') /\ mapPage'.loading = mapPage.loading /\ mapPage'.testing = mapPage.testing
    BY <1>0, <1>8 DEF removeMapping, MapFlagged
  <2> QED BY <2>1, <2>2, MapStarts
<1>9. CASE runCatalogAction
  <2>1. PICK op \in {"catalog", "test"} : MapBegin(MapCall(op, Sent(Nothing)))
    BY <1>9 DEF runCatalogAction
  <2>2. MapFlagged(mapPage') /\ mapPage'.loading = mapPage.loading /\ mapPage'.saving = mapPage.saving
    BY <1>0, <1>9 DEF runCatalogAction, MapFlagged
  <2> QED BY <2>1, <2>2, MapStarts
\* A handler goes on: its load does not start, and does not end.
<1>10. ASSUME NEW s \in Slots, NEW call, HasKind(call), MapHandler(call), call.op = mapCalls[s].op,
              MapLoader(mapCalls[s]) => MapLoader(call),
              mapCalls' = [mapCalls EXCEPT ![s] = call], UNCHANGED mapPage
       PROVE  MapFlags'
  <2>1. MapPassed(mapPage, mapPage', mapCalls[s], call)
    BY <1>10 DEF MapPassed, AnyPassed
  <2> QED BY <1>0, <1>10, <2>1, MapTurn
<1>11. ASSUME NEW s \in Slots, MapServe(s) PROVE MapFlags'
  <2>1. mapCalls[s] # Idle /\ UNCHANGED mapPage
    BY <1>11 DEF MapServe
  <2>2. DOMAIN mapCalls[s] = {"op", "act", "rows", "raw", "span"} /\ MapHandler(mapCalls[s])
        /\ (mapCalls[s].op = "test" => mapCalls[s].rows.at = "unsent")
    BY <1>0, <2>1 DEF MapHandler
  <2>3. CASE mapCalls[s].rows.at = "sent"
             /\ mapCalls' = [mapCalls EXCEPT ![s] = [mapCalls[s] EXCEPT !.rows = Served(mappings)]]
    <3> DEFINE call == [mapCalls[s] EXCEPT !.rows = Served(mappings)]
    <3>1. DOMAIN call = {"op", "act", "rows", "raw", "span"} /\ call.op = mapCalls[s].op
          /\ call.rows = Served(mappings) /\ mapCalls' = [mapCalls EXCEPT ![s] = call]
      BY <2>2, <2>3
    <3> HIDE DEF call
    <3>2. call # Idle /\ HasKind(call) /\ call.op # "test"
      BY <2>2, <2>3, <3>1 DEF Idle, HasKind
    <3>3. MapHandler(call) /\ MapLoader(call)
      BY <3>1, <3>2, RequestStages DEF MapHandler, MapLoader
    <3> QED BY <1>10, <2>1, <3>1, <3>2, <3>3
  <2>4. ASSUME NEW call, DOMAIN call = {"op", "act", "rows", "raw", "span"}, call.op = mapCalls[s].op,
               call.rows = mapCalls[s].rows, mapCalls' = [mapCalls EXCEPT ![s] = call]
        PROVE  MapFlags'
    <3>1. call # Idle /\ HasKind(call)
      BY <2>4 DEF Idle, HasKind
    <3>2. MapHandler(call) /\ (MapLoader(mapCalls[s]) => MapLoader(call))
      BY <2>2, <2>4, <3>1 DEF MapHandler, MapLoader
    <3> QED BY <1>10, <2>1, <2>4, <3>1, <3>2
  <2>5. CASE mapCalls' = [mapCalls EXCEPT ![s] = [mapCalls[s] EXCEPT !.raw = Served(mappings)]]
    <3> DEFINE call == [mapCalls[s] EXCEPT !.raw = Served(mappings)]
    <3>1. DOMAIN call = {"op", "act", "rows", "raw", "span"} /\ call.op = mapCalls[s].op
          /\ call.rows = mapCalls[s].rows /\ mapCalls' = [mapCalls EXCEPT ![s] = call]
      BY <2>2, <2>5
    <3> HIDE DEF call
    <3> QED BY <2>4, <3>1
  <2>6. CASE mapCalls' = [mapCalls EXCEPT ![s] = [mapCalls[s] EXCEPT !.span = Served(span)]]
    <3> DEFINE call == [mapCalls[s] EXCEPT !.span = Served(span)]
    <3>1. DOMAIN call = {"op", "act", "rows", "raw", "span"} /\ call.op = mapCalls[s].op
          /\ call.rows = mapCalls[s].rows /\ mapCalls' = [mapCalls EXCEPT ![s] = call]
      BY <2>2, <2>6
    <3> HIDE DEF call
    <3> QED BY <2>4, <3>1
  <2> QED BY <1>11, <2>3, <2>5, <2>6 DEF MapServe
<1>12. ASSUME NEW s \in Slots, MapServeAct(s) PROVE MapFlags'
  <2>1. PICK persisted : /\ mapCalls[s] # Idle /\ UNCHANGED mapPage
                         /\ mapCalls' = [mapCalls EXCEPT ![s].act = Served(persisted)]
    BY <1>12 DEF MapServeAct
  <2>2. DOMAIN mapCalls[s] = {"op", "act", "rows", "raw", "span"} /\ MapHandler(mapCalls[s])
    BY <1>0, <2>1 DEF MapHandler
  <2> DEFINE call == [mapCalls[s] EXCEPT !.act = Served(persisted)]
  <2>3. DOMAIN call = {"op", "act", "rows", "raw", "span"} /\ call.op = mapCalls[s].op
        /\ call.rows = mapCalls[s].rows /\ mapCalls' = [mapCalls EXCEPT ![s] = call]
    BY <2>1, <2>2
  <2> HIDE DEF call
  <2>4. call # Idle /\ HasKind(call)
    BY <2>3 DEF Idle, HasKind
  <2>5. MapHandler(call) /\ (MapLoader(mapCalls[s]) => MapLoader(call))
    BY <2>1, <2>2, <2>3, <2>4 DEF MapHandler, MapLoader
  <2> QED BY <1>10, <2>1, <2>3, <2>4, <2>5
<1>13. ASSUME NEW s \in Slots, MapActed(s) PROVE MapFlags'
  <2>1. mapCalls[s] # Idle /\ mapCalls[s].op # "test"
        /\ mapCalls' = [mapCalls EXCEPT ![s] = MapLoads(mapCalls[s])]
    BY <1>13 DEF MapActed, Put
  <2>2. DOMAIN mapCalls[s] = {"op", "act", "rows", "raw", "span"}
    BY <1>0, <2>1 DEF MapHandler
  <2>3. MapFlagged(mapPage') /\ mapPage'.saving = mapPage.saving /\ mapPage'.testing = mapPage.testing
    BY <1>0, <1>13 DEF MapActed, Loading, MapFlagged
  <2> DEFINE call == MapLoads(mapCalls[s])
  <2>4. HasKind(call) /\ call.op = mapCalls[s].op /\ MapHandler(call) /\ MapLoader(call)
    BY <2>1, <2>2, LoadingMapHandler
  <2>5. mapCalls' = [mapCalls EXCEPT ![s] = call]
    BY <2>1
  <2> HIDE DEF call
  <2>6. MapPassed(mapPage, mapPage', mapCalls[s], call)
    BY <2>3, <2>4 DEF MapPassed, AnyPassed
  <2> QED BY <2>3, <2>4, <2>5, <2>6, MapTurn
\* A handler ends.
<1>14. ASSUME NEW s \in Slots, mapCalls' = [mapCalls EXCEPT ![s] = Idle], MapFlagged(mapPage'),
              mapPage'.loading = TRUE => (mapPage.loading = TRUE /\ ~MapLoader(mapCalls[s])),
              mapPage'.saving = TRUE => (mapPage.saving = TRUE /\ mapCalls[s].op \notin {"save", "remove"}),
              mapPage'.testing = TRUE => (mapPage.testing = TRUE /\ mapCalls[s].op \notin {"catalog", "test"})
       PROVE  MapFlags'
  <2>1. MapPassed(mapPage, mapPage', mapCalls[s], Idle)
    BY <1>14 DEF MapPassed, AnyPassed
  <2> QED BY <1>14, <2>1, IdleKind, IdleMapHandler, MapTurn
<1>15. ASSUME NEW s \in Slots, MapLoaded(s) \/ MapLoadFails(s) PROVE MapFlags'
  <2>1. mapCalls' = [mapCalls EXCEPT ![s] = Idle] /\ mapCalls[s] # Idle
    BY <1>15 DEF MapLoaded, MapLoadFails, Put
  <2>2. mapCalls[s].rows.at # "unsent"
    BY <1>15 DEF MapLoaded, MapLoadFails
  <2>3. mapCalls[s].op # "test"
    BY <1>0, <2>1, <2>2 DEF MapHandler
  <2>4. PICK rows, raw, v :
          \/ mapPage' = [MapFlagsDown(mapPage, mapCalls[s].op) EXCEPT !.rows = rows, !.raw = raw, !.span = v]
          \/ mapPage' = [MapFlagsDown(mapPage, mapCalls[s].op) EXCEPT !.error = TRUE]
    BY <1>15 DEF MapLoaded, MapLoadFails
  <2>5. /\ MapFlagged(mapPage') /\ mapPage'.loading = FALSE
        /\ mapPage'.saving = TRUE => (mapPage.saving = TRUE /\ mapCalls[s].op \notin {"save", "remove"})
        /\ mapPage'.testing = TRUE => (mapPage.testing = TRUE /\ mapCalls[s].op # "catalog")
    BY <1>0, <2>4 DEF MapFlagged, MapFlagsDown
  <2> QED BY <1>14, <2>1, <2>3, <2>5
<1>16. ASSUME NEW s \in Slots, MapTested(s) PROVE MapFlags'
  <2>1. mapCalls' = [mapCalls EXCEPT ![s] = Idle] /\ mapCalls[s].op = "test"
    BY <1>16 DEF MapTested, Put
  <2>2. ~MapLoader(mapCalls[s])
    BY <1>0, <2>1 DEF MapHandler, MapLoader
  <2>3. PICK error, notice : mapPage' = [mapPage EXCEPT !.testing = FALSE, !.error = error, !.notice = notice]
    BY <1>16 DEF MapTested
  <2>4. MapFlagged(mapPage') /\ mapPage'.loading = mapPage.loading /\ mapPage'.saving = mapPage.saving
        /\ mapPage'.testing = FALSE
    BY <1>0, <2>3 DEF MapFlagged
  <2> QED BY <1>14, <2>1, <2>2, <2>4
<1>17. ASSUME NEW s \in Slots, MapActFails(s) PROVE MapFlags'
  <2>1. mapCalls' = [mapCalls EXCEPT ![s] = Idle] /\ ~MapLoader(mapCalls[s])
    BY <1>17 DEF MapActFails, Put, MapLoader
  <2>2. /\ MapFlagged(mapPage') /\ mapPage'.loading = mapPage.loading
        /\ mapPage'.saving = TRUE => (mapPage.saving = TRUE /\ mapCalls[s].op \notin {"save", "remove"})
        /\ mapPage'.testing = TRUE => (mapPage.testing = TRUE /\ mapCalls[s].op \notin {"catalog", "test"})
    BY <1>0, <1>17 DEF MapActFails, MapFlagged
  <2> QED BY <1>14, <2>1, <2>2
<1> QED BY <1>1, <1>3, <1>4, <1>5, <1>6, <1>7, <1>8, <1>9, <1>11, <1>12, <1>13, <1>15, <1>16, <1>17
        DEF MappingNext
-----------------------------------------------------------------------------
(* The monitor pages.  Two kinds of handlers only load; two act first, and *)
(* will take `loading` down once they have asked for the state.            *)

MonFlagged(page) ==
  /\ {"loading", "acting", "exporting", "starting"} \subseteq DOMAIN page
  /\ page.loading \in BOOLEAN /\ page.acting \in BOOLEAN
  /\ page.exporting \in BOOLEAN /\ page.starting \in BOOLEAN

MonRequests(call) == call.op # "idle" => DOMAIN call = {"op", "act", "get"}

MonLoader(call) ==
  \/ call.op \in {"load", "latest"}
  \/ call.op \in {"action", "import"} /\ call.get.at # "unsent"

MonLoaders(calls) == {s \in Slots : MonLoader(calls[s])}

Acting == {"action", "import", "test"}

MonFlags ==
  /\ MonFlagged(monPage) /\ Ready(monCalls)
  /\ \A s \in Slots : MonRequests(monCalls[s])
  /\ Tended(monPage.loading, MonLoaders(monCalls))
  /\ Tended(monPage.acting, AnyOf(monCalls, Acting))
  /\ Tended(monPage.exporting, Waiting(monCalls, "export"))
  /\ Tended(monPage.starting, Waiting(monCalls, "loadtest"))

MonPassed(page, after, old, new) ==
  /\ after.loading = TRUE => (MonLoader(new) \/ (page.loading = TRUE /\ ~MonLoader(old)))
  /\ AnyPassed(page.acting, after.acting, old, new, Acting)
  /\ Passed(page.exporting, after.exporting, old, new, "export")
  /\ Passed(page.starting, after.starting, old, new, "loadtest")

LEMMA MonTurn ==
  ASSUME MonFlags, NEW s \in Slots, NEW call, HasKind(call), MonRequests(call),
         monCalls' = [monCalls EXCEPT ![s] = call], MonFlagged(monPage'),
         MonPassed(monPage, monPage', monCalls[s], call)
  PROVE  MonFlags'
<1>1. Ready(monCalls)
  BY DEF MonFlags
<1>2. Replaced(monCalls, monCalls', s, call)
  BY <1>1, SlotReplaced
<1>3. Ready(monCalls') /\ monCalls'[s] = call /\ \A t \in Slots : t # s => monCalls'[t] = monCalls[t]
  BY <1>2 DEF Replaced
<1>4. Tended(monPage'.loading, MonLoaders(monCalls'))
  <2>1. MonLoaders(monCalls) \ {s} \subseteq MonLoaders(monCalls')
    BY <1>3 DEF MonLoaders
  <2>2. s \in MonLoaders(monCalls') <=> MonLoader(call)
    BY <1>3 DEF MonLoaders
  <2>3. s \in MonLoaders(monCalls) <=> MonLoader(monCalls[s])
    BY DEF MonLoaders
  <2>4. monPage'.loading = TRUE =>
          (s \in MonLoaders(monCalls') \/ (monPage.loading = TRUE /\ s \notin MonLoaders(monCalls)))
    BY <2>2, <2>3 DEF MonPassed
  <2>5. Tended(monPage.loading, MonLoaders(monCalls))
    BY DEF MonFlags
  <2> QED BY <2>1, <2>4, <2>5 DEF Tended
<1>5. Tended(monPage'.acting, AnyOf(monCalls', Acting))
  BY <1>2, AnyTended DEF MonFlags, MonPassed
<1>6. Tended(monPage'.exporting, Waiting(monCalls', "export"))
  BY <1>2, KindTended DEF MonFlags, MonPassed
<1>7. Tended(monPage'.starting, Waiting(monCalls', "loadtest"))
  BY <1>2, KindTended DEF MonFlags, MonPassed
<1>8. \A t \in Slots : MonRequests(monCalls'[t])
  BY <1>3 DEF MonFlags
<1> QED BY <1>3, <1>4, <1>5, <1>6, <1>7, <1>8 DEF MonFlags, Ready, AnyOf, Waiting, MonLoaders

LEMMA IdleMonHandler == MonRequests(Idle) /\ ~MonLoader(Idle)
BY IdleKind DEF MonRequests, MonLoader

\* MonBegin raises the flags that `page` has.
LEMMA MonRaises ==
  ASSUME MonFlags, NEW page, NEW op, NEW act, NEW get, MonBegin(page, op, act, get), MonFlagged(page),
         page.loading = TRUE => (op \in {"load", "latest"} \/ monPage.loading = TRUE),
         page.acting = TRUE => (op \in Acting \/ monPage.acting = TRUE),
         page.exporting = TRUE => (op = "export" \/ monPage.exporting = TRUE),
         page.starting = TRUE => (op = "loadtest" \/ monPage.starting = TRUE)
  PROVE  MonFlags'
<1> DEFINE call == [op |-> op, act |-> act, get |-> get]
<1>1. PICK s \in Slots : monCalls[s] = Idle /\ monCalls' = [monCalls EXCEPT ![s] = call]
  BY DEF MonBegin, Free, Put
<1>2. HasKind(call) /\ call.op = op /\ MonRequests(call)
  BY DEF HasKind, MonRequests
<1>3. monCalls[s].op = "idle" /\ ~MonLoader(monCalls[s]) /\ "idle" \notin Acting
  BY <1>1, IdleKind, IdleMonHandler DEF Acting
<1>4. PICK raced : monPage' = [page EXCEPT !.mounted = TRUE, !.raced = raced]
  BY DEF MonBegin
<1>5. /\ MonFlagged(monPage') /\ monPage'.loading = page.loading /\ monPage'.acting = page.acting
      /\ monPage'.exporting = page.exporting /\ monPage'.starting = page.starting
  BY <1>4 DEF MonFlagged
<1> HIDE DEF call
<1>6. op \in {"load", "latest"} => MonLoader(call)
  BY <1>2 DEF MonLoader
<1>7. MonPassed(monPage, monPage', monCalls[s], call)
  BY <1>2, <1>3, <1>5, <1>6 DEF MonPassed, AnyPassed, Passed
<1> QED BY <1>1, <1>2, <1>5, <1>7, MonTurn

SameMonFlags(page, after) ==
  /\ MonFlagged(after) /\ after.loading = page.loading /\ after.acting = page.acting
  /\ after.exporting = page.exporting /\ after.starting = page.starting

\* A handler's next request: act, or get.
LEMMA MonRequested ==
  ASSUME NEW call, MonRequests(call), call.op # "idle", NEW v
  PROVE  /\ HasKind([call EXCEPT !.act = v]) /\ MonRequests([call EXCEPT !.act = v])
         /\ [call EXCEPT !.act = v].op = call.op /\ [call EXCEPT !.act = v].get = call.get
         /\ HasKind([call EXCEPT !.get = v]) /\ MonRequests([call EXCEPT !.get = v])
         /\ [call EXCEPT !.get = v].op = call.op /\ [call EXCEPT !.get = v].get = v
<1>1. DOMAIN call = {"op", "act", "get"}
  BY DEF MonRequests
<1> QED BY <1>1 DEF HasKind, MonRequests

LEMMA MonFlagsInit == Init => MonFlags
<1> SUFFICES ASSUME Init PROVE MonFlags
  OBVIOUS
<1>1. PICK kind, choice :
        monPage = [kind |-> kind, mounted |-> FALSE, loading |-> FALSE, acting |-> FALSE,
                   exporting |-> FALSE, starting |-> FALSE, error |-> FALSE, notice |-> NothingDone,
                   shown |-> [state |-> Nothing, jobs |-> Nothing],
                   choice |-> choice, chart |-> Nothing, raced |-> FALSE]
  BY Zenon DEF Init, MonitorInit
<1>2. /\ MonFlagged(monPage) /\ monPage.loading = FALSE /\ monPage.acting = FALSE
      /\ monPage.exporting = FALSE /\ monPage.starting = FALSE
  BY <1>1 DEF MonFlagged
<1>3. monCalls = NoCalls
  BY DEF Init, MonitorInit
<1>4. \A s \in Slots : MonRequests(monCalls[s])
  BY <1>3, NoneReady, IdleMonHandler
<1> QED BY <1>2, <1>3, <1>4, NoneReady, NoneTended DEF MonFlags

LEMMA MonFlagsStep == MonFlags /\ [Next]_vars => MonFlags'
<1> SUFFICES ASSUME MonFlags, [Next]_vars PROVE MonFlags'
  OBVIOUS
<1>0. MonFlagged(monPage) /\ \A s \in Slots : HasKind(monCalls[s]) /\ MonRequests(monCalls[s])
  BY DEF MonFlags, Ready
<1>1. MonitorNext \/ UNCHANGED monitorVars
  BY RouteSteps
<1>2. CASE UNCHANGED monitorVars \/ OtherFact
  BY <1>2 DEF monitorVars, OtherFact, MonFlags, Ready, AnyOf, Waiting, MonLoaders
\* The buttons.
<1>3. CASE DashboardLoad \/ LinkLoad
  <2> DEFINE page == [monPage EXCEPT !.loading = TRUE, !.error = FALSE]
  <2>1. PICK get : MonBegin(page, "load", Unsent, get)
    BY <1>3 DEF DashboardLoad, LinkLoad
  <2>2. /\ MonFlagged(page) /\ page.acting = monPage.acting
        /\ page.exporting = monPage.exporting /\ page.starting = monPage.starting
    BY <1>0 DEF MonFlagged
  <2> HIDE DEF page
  <2> QED BY <2>1, <2>2, MonRaises
<1>4. CASE SecurityLoad
  <2> DEFINE page == [monPage EXCEPT !.loading = TRUE, !.error = FALSE, !.notice = NothingDone]
  <2>1. MonBegin(page, "load", Unsent, Sent(Nothing))
    BY <1>4 DEF SecurityLoad
  <2>2. /\ MonFlagged(page) /\ page.acting = monPage.acting
        /\ page.exporting = monPage.exporting /\ page.starting = monPage.starting
    BY <1>0 DEF MonFlagged
  <2> HIDE DEF page
  <2> QED BY <2>1, <2>2, MonRaises
<1>5. CASE loadLatest
  <2> DEFINE page == [monPage EXCEPT !.loading = TRUE, !.error = FALSE]
  <2>1. MonBegin(page, "latest", Unsent, Sent(Nothing))
    BY <1>5 DEF loadLatest
  <2>2. /\ MonFlagged(page) /\ page.acting = monPage.acting
        /\ page.exporting = monPage.exporting /\ page.starting = monPage.starting
    BY <1>0 DEF MonFlagged
  <2> HIDE DEF page
  <2> QED BY <2>1, <2>2, MonRaises
<1>6. CASE DashboardSelect
  <2>1. PICK choice : MonBegin([monPage EXCEPT !.choice = choice], "trends", Unsent, Sent(choice))
    BY <1>6 DEF DashboardSelect
  <2> DEFINE page == [monPage EXCEPT !.choice = choice]
  <2>2. /\ MonFlagged(page) /\ page.loading = monPage.loading /\ page.acting = monPage.acting
        /\ page.exporting = monPage.exporting /\ page.starting = monPage.starting
    BY <1>0 DEF MonFlagged
  <2>3. MonBegin(page, "trends", Unsent, Sent(choice))
    BY <2>1
  <2> HIDE DEF page
  <2> QED BY <2>2, <2>3, MonRaises
<1>7. CASE LinkAction
  <2> DEFINE page == [monPage EXCEPT !.acting = TRUE, !.error = FALSE]
  <2>1. MonBegin(page, "action", Sent(Nothing), Unsent) /\ "action" \in Acting
    BY <1>7 DEF LinkAction, Acting
  <2>2. /\ MonFlagged(page) /\ page.loading = monPage.loading
        /\ page.exporting = monPage.exporting /\ page.starting = monPage.starting
    BY <1>0 DEF MonFlagged
  <2> HIDE DEF page
  <2> QED BY <2>1, <2>2, MonRaises
<1>8. CASE saveLicense
  <2> DEFINE page == [monPage EXCEPT !.acting = TRUE, !.error = FALSE, !.notice = NothingDone]
  <2>1. MonBegin(page, "import", Sent(Nothing), Unsent) /\ "import" \in Acting
    BY <1>8 DEF saveLicense, Acting
  <2>2. /\ MonFlagged(page) /\ page.loading = monPage.loading
        /\ page.exporting = monPage.exporting /\ page.starting = monPage.starting
    BY <1>0 DEF MonFlagged
  <2> HIDE DEF page
  <2> QED BY <2>1, <2>2, MonRaises
<1>9. SameMonFlags(monPage, Cleared) /\ MonFlagged(Cleared)
  BY <1>0 DEF Cleared, SameMonFlags, MonFlagged
<1>10. CASE runLinkTest
  <2> DEFINE page == [Cleared EXCEPT !.acting = TRUE]
  <2>1. MonBegin(page, "test", Sent(Nothing), Unsent) /\ "test" \in Acting
    BY <1>10 DEF runLinkTest, Acting
  <2>2. /\ MonFlagged(page) /\ page.loading = monPage.loading
        /\ page.exporting = monPage.exporting /\ page.starting = monPage.starting
    BY <1>9 DEF MonFlagged, SameMonFlags
  <2> HIDE DEF page
  <2> QED BY <2>1, <2>2, MonRaises
<1>11. CASE runExport
  <2> DEFINE page == [Cleared EXCEPT !.exporting = TRUE]
  <2>1. MonBegin(page, "export", Sent(monPage.shown.state), Unsent)
    BY <1>11 DEF runExport
  <2>2. /\ MonFlagged(page) /\ page.loading = monPage.loading
        /\ page.acting = monPage.acting /\ page.starting = monPage.starting
    BY <1>9 DEF MonFlagged, SameMonFlags
  <2> HIDE DEF page
  <2> QED BY <2>1, <2>2, MonRaises
<1>12. CASE runLoadtest
  <2> DEFINE page == [Cleared EXCEPT !.starting = TRUE]
  <2>1. MonBegin(page, "loadtest", Sent(Nothing), Unsent)
    BY <1>12 DEF runLoadtest
  <2>2. /\ MonFlagged(page) /\ page.loading = monPage.loading
        /\ page.acting = monPage.acting /\ page.exporting = monPage.exporting
    BY <1>9 DEF MonFlagged, SameMonFlags
  <2> HIDE DEF page
  <2> QED BY <2>1, <2>2, MonRaises
\* The gateway answers.
<1>13. ASSUME NEW s \in Slots, monCalls[s].op # "idle", NEW call, HasKind(call), MonRequests(call),
              call.op = monCalls[s].op, MonLoader(monCalls[s]) => MonLoader(call),
              monCalls' = [monCalls EXCEPT ![s] = call], MonFlagged(monPage'),
              monPage'.loading = TRUE => (monPage.loading = TRUE \/ MonLoader(call)),
              monPage'.acting = monPage.acting, monPage'.exporting = monPage.exporting,
              monPage'.starting = monPage.starting
       PROVE  MonFlags'
  <2>1. MonPassed(monPage, monPage', monCalls[s], call)
    BY <1>13 DEF MonPassed, AnyPassed, Passed
  <2> QED BY <1>13, <2>1, MonTurn
<1>14. ASSUME NEW s \in Slots, monCalls[s].op # "idle", NEW v, v.at # "unsent",
              monCalls' = [monCalls EXCEPT ![s] = [monCalls[s] EXCEPT !.get = v]], MonFlagged(monPage'),
              monPage'.loading = TRUE =>
                (monPage.loading = TRUE \/ monCalls[s].op \in {"action", "import"}),
              monPage'.acting = monPage.acting, monPage'.exporting = monPage.exporting,
              monPage'.starting = monPage.starting
       PROVE  MonFlags'
  <2> DEFINE call == [monCalls[s] EXCEPT !.get = v]
  <2>1. HasKind(call) /\ MonRequests(call) /\ call.op = monCalls[s].op /\ call.get = v
    BY <1>0, <1>14, MonRequested
  <2>2. monCalls' = [monCalls EXCEPT ![s] = call]
    BY <1>14
  <2> HIDE DEF call
  <2>3. (MonLoader(monCalls[s]) => MonLoader(call))
        /\ (monCalls[s].op \in {"action", "import"} => MonLoader(call))
    BY <1>14, <2>1 DEF MonLoader
  <2> QED BY <1>13, <1>14, <2>1, <2>2, <2>3
<1>15. ASSUME NEW s \in Slots, NEW answer, monCalls[s].op # "idle", Respond(s, answer) PROVE MonFlags'
  <2>1. monCalls' = [monCalls EXCEPT ![s] = [monCalls[s] EXCEPT !.get = Served(answer)]] /\ UNCHANGED monPage
    BY <1>15 DEF Respond
  <2>2. Served(answer).at # "unsent"
    BY RequestStages
  <2> QED BY <1>0, <1>14, <1>15, <2>1, <2>2
<1>16. ASSUME NEW s \in Slots, \/ fetchDashboardSummary(s) \/ fetchDashboardTrends(s) \/ fetchLinkMonitor(s)
                               \/ fetchSecurityState(s) \/ fetchLatestLinkTest(s) \/ fetchLoadtestJobs(s)
       PROVE  MonFlags'
  <2>1. monCalls[s].op # "idle"
    BY <1>16 DEF fetchDashboardSummary, fetchDashboardTrends, fetchLinkMonitor, fetchSecurityState,
       fetchLatestLinkTest, fetchLoadtestJobs
  <2>2. PICK answer : Respond(s, answer)
    BY <1>16, Zenon DEF fetchDashboardSummary, fetchDashboardTrends, fetchLinkMonitor, fetchSecurityState,
       fetchLatestLinkTest, fetchLoadtestJobs
  <2> QED BY <1>15, <2>1, <2>2
<1>17. ASSUME NEW s \in Slots, NEW op, op # "idle", NEW after, Perform(s, op, after) PROVE MonFlags'
  <2> DEFINE call == [monCalls[s] EXCEPT !.act = Served(after)]
  <2>1. monCalls' = [monCalls EXCEPT ![s] = call] /\ UNCHANGED monPage /\ monCalls[s].op = op
    BY <1>17 DEF Perform
  <2>2. HasKind(call) /\ MonRequests(call) /\ call.op = monCalls[s].op /\ call.get = monCalls[s].get
    BY <1>0, <1>17, <2>1, MonRequested
  <2> HIDE DEF call
  <2>3. MonLoader(monCalls[s]) => MonLoader(call)
    BY <2>2 DEF MonLoader
  <2> QED BY <1>0, <1>13, <1>17, <2>1, <2>2, <2>3
<1>18. ASSUME NEW s \in Slots, \/ triggerTunnelSessionAction(s) \/ updateLicense(s) \/ handleLinkTest(s)
                               \/ startLoadtest(s) \/ exportDiagnostics(s)
       PROVE  MonFlags'
  BY <1>17, <1>18 DEF triggerTunnelSessionAction, updateLicense, handleLinkTest, startLoadtest,
     exportDiagnostics
\* The page goes on with the answer.
<1>19. ASSUME NEW s \in Slots, LinkActed(s) \/ LicenseImported(s) PROVE MonFlags'
  <2>1. monCalls' = [monCalls EXCEPT ![s] = [monCalls[s] EXCEPT !.get = Sent(Nothing)]]
        /\ monCalls[s].op \in {"action", "import"}
    BY <1>19 DEF LinkActed, LicenseImported
  <2>2. /\ MonFlagged(monPage') /\ monPage'.acting = monPage.acting
        /\ monPage'.exporting = monPage.exporting /\ monPage'.starting = monPage.starting
    BY <1>0, <1>19 DEF LinkActed, LicenseImported, MonFlagged
  <2>3. Sent(Nothing).at # "unsent"
    BY RequestStages
  <2> QED BY <1>14, <2>1, <2>2, <2>3
<1>20. ASSUME NEW s \in Slots, LoadtestCreated(s) PROVE MonFlags'
  <2>1. monCalls' = [monCalls EXCEPT ![s] = [monCalls[s] EXCEPT !.get = Sent(Nothing)]]
        /\ monCalls[s].op = "loadtest"
    BY <1>20 DEF LoadtestCreated
  <2>2. SameMonFlags(monPage, monPage')
    BY <1>0, <1>20 DEF LoadtestCreated, MonFlagged, SameMonFlags
  <2>3. Sent(Nothing).at # "unsent"
    BY RequestStages
  <2> QED BY <1>14, <2>1, <2>2, <2>3 DEF SameMonFlags
\* A handler ends.
<1>21. ASSUME NEW s \in Slots, monCalls' = [monCalls EXCEPT ![s] = Idle], MonFlagged(monPage'),
              monPage'.loading = TRUE => (monPage.loading = TRUE /\ ~MonLoader(monCalls[s])),
              monPage'.acting = TRUE => (monPage.acting = TRUE /\ monCalls[s].op \notin Acting),
              monPage'.exporting = TRUE => (monPage.exporting = TRUE /\ monCalls[s].op # "export"),
              monPage'.starting = TRUE => (monPage.starting = TRUE /\ monCalls[s].op # "loadtest")
       PROVE  MonFlags'
  <2>1. MonPassed(monPage, monPage', monCalls[s], Idle)
    BY <1>21 DEF MonPassed, AnyPassed, Passed
  <2> QED BY <1>21, <2>1, IdleKind, IdleMonHandler, MonTurn
<1>22. ASSUME NEW s \in Slots, DashboardTrends(s) \/ DashboardTrendsFail(s) PROVE MonFlags'
  <2>1. monCalls' = [monCalls EXCEPT ![s] = Idle] /\ monCalls[s].op = "trends"
    BY <1>22 DEF DashboardTrends, DashboardTrendsFail, Put
  <2>2. SameMonFlags(monPage, monPage')
    BY <1>0, <1>22 DEF DashboardTrends, DashboardTrendsFail, MonFlagged, SameMonFlags
  <2>3. ~MonLoader(monCalls[s]) /\ monCalls[s].op \notin Acting
    BY <2>1 DEF MonLoader, Acting
  <2> QED BY <1>21, <2>1, <2>2, <2>3 DEF SameMonFlags
<1>23. ASSUME NEW s \in Slots, MonLoaded(s) \/ MonLoadFails(s) \/ LatestLoaded(s) PROVE MonFlags'
  <2>1. monCalls' = [monCalls EXCEPT ![s] = Idle] /\ monCalls[s].op \in {"load", "latest"}
    BY <1>23 DEF MonLoaded, MonLoadFails, LatestLoaded, Put
  <2>3. /\ MonFlagged(monPage') /\ monPage'.loading = FALSE /\ monPage'.acting = monPage.acting
        /\ monPage'.exporting = monPage.exporting /\ monPage'.starting = monPage.starting
    <3>1. CASE MonLoaded(s)
      BY <1>0, <3>1 DEF MonLoaded, MonFlagged
    <3>2. CASE MonLoadFails(s)
      BY <1>0, <3>2 DEF MonLoadFails, MonFlagged
    <3>3. CASE LatestLoaded(s)
      <4>1. PICK shown : monPage' = [monPage EXCEPT !.shown = shown, !.loading = FALSE]
        BY <3>3, Zenon DEF LatestLoaded
      <4> QED BY <1>0, <4>1 DEF MonFlagged
    <3> QED BY <1>23, <3>1, <3>2, <3>3
  <2>4. monCalls[s].op \notin Acting
    BY <2>1 DEF Acting
  <2> QED BY <1>21, <2>1, <2>3, <2>4
<1>24. ASSUME NEW s \in Slots, LinkReloaded(s) \/ LicenseReloaded(s) PROVE MonFlags'
  <2>1. monCalls' = [monCalls EXCEPT ![s] = Idle] /\ monCalls[s].op \in {"action", "import"}
    BY <1>24 DEF LinkReloaded, LicenseReloaded, Put
  <2>2. /\ MonFlagged(monPage') /\ monPage'.loading = FALSE /\ monPage'.acting = FALSE
        /\ monPage'.exporting = monPage.exporting /\ monPage'.starting = monPage.starting
    BY <1>0, <1>24 DEF LinkReloaded, LicenseReloaded, MonFlagged
  <2> QED BY <1>21, <2>1, <2>2
<1>25. ASSUME NEW s \in Slots, LinkTested(s) PROVE MonFlags'
  <2>1. monCalls' = [monCalls EXCEPT ![s] = Idle] /\ monCalls[s].op = "test" /\ ~MonLoader(monCalls[s])
    BY <1>25 DEF LinkTested, Put, MonLoader
  <2>2. /\ MonFlagged(monPage') /\ monPage'.loading = monPage.loading /\ monPage'.acting = FALSE
        /\ monPage'.exporting = monPage.exporting /\ monPage'.starting = monPage.starting
    BY <1>0, <1>25 DEF LinkTested, MonFlagged
  <2> QED BY <1>21, <2>1, <2>2
<1>26. ASSUME NEW s \in Slots, Exported(s) PROVE MonFlags'
  <2>1. monCalls' = [monCalls EXCEPT ![s] = Idle] /\ monCalls[s].op = "export" /\ ~MonLoader(monCalls[s])
        /\ monCalls[s].op \notin Acting
    BY <1>26 DEF Exported, Put, MonLoader, Acting
  <2>2. /\ MonFlagged(monPage') /\ monPage'.loading = monPage.loading /\ monPage'.acting = monPage.acting
        /\ monPage'.exporting = FALSE /\ monPage'.starting = monPage.starting
    BY <1>0, <1>26 DEF Exported, MonFlagged
  <2> QED BY <1>21, <2>1, <2>2
<1>27. ASSUME NEW s \in Slots, LoadtestListed(s) PROVE MonFlags'
  <2>1. monCalls' = [monCalls EXCEPT ![s] = Idle] /\ monCalls[s].op = "loadtest" /\ ~MonLoader(monCalls[s])
        /\ monCalls[s].op \notin Acting
    BY <1>27 DEF LoadtestListed, Put, MonLoader, Acting
  <2>2. /\ MonFlagged(monPage') /\ monPage'.loading = monPage.loading /\ monPage'.acting = monPage.acting
        /\ monPage'.exporting = monPage.exporting /\ monPage'.starting = FALSE
    BY <1>0, <1>27 DEF LoadtestListed, MonFlagged
  <2> QED BY <1>21, <2>1, <2>2
<1>28. ASSUME NEW s \in Slots, MonActFails(s) PROVE MonFlags'
  <2> DEFINE op == monCalls[s].op
  <2>1. monCalls' = [monCalls EXCEPT ![s] = Idle]
    BY <1>28 DEF MonActFails, Put
  <2>2. \/ op \in {"action", "test", "export", "loadtest"}
        \/ op = "import" /\ monCalls[s].get.at = "unsent"
    BY <1>28 DEF MonActFails
  <2>3. /\ MonFlagged(monPage')
        /\ monPage'.loading = TRUE =>
             (monPage.loading = TRUE /\ ~(op = "action" /\ monCalls[s].get.at # "unsent"))
        /\ monPage'.acting = TRUE => (monPage.acting = TRUE /\ op \in {"export", "loadtest"})
        /\ monPage'.exporting = TRUE => (monPage.exporting = TRUE /\ op # "export")
        /\ monPage'.starting = TRUE => (monPage.starting = TRUE /\ op # "loadtest")
    BY <1>0, <1>28 DEF MonActFails, MonFlagged
  <2>4. monPage'.loading = TRUE => (monPage.loading = TRUE /\ ~MonLoader(monCalls[s]))
    BY <2>2, <2>3 DEF MonLoader
  <2>5. monPage'.acting = TRUE => (monPage.acting = TRUE /\ monCalls[s].op \notin Acting)
    BY <2>3 DEF Acting
  <2> QED BY <1>21, <2>1, <2>3, <2>4, <2>5
<1> QED BY <1>1, <1>2, <1>3, <1>4, <1>5, <1>6, <1>7, <1>8, <1>10, <1>11, <1>12, <1>16, <1>18, <1>19, <1>20,
        <1>22, <1>23, <1>24, <1>25, <1>26, <1>27, <1>28 DEF MonitorNext

-----------------------------------------------------------------------------
Flags ==
  /\ SettingsFlags /\ NodesFlags /\ ProtFlags /\ MapFlags /\ ResFlags /\ ListFlags /\ MonFlags
  /\ CfgFlags

LEMMA FlagsHonest == Flags => SpinnersHonest
<1> SUFFICES ASSUME Flags PROVE SpinnersHonest
  OBVIOUS
<1>1. SettingsSpinner
  BY DEF Flags, SettingsFlags, SettingsFlagged, SettingsSpinner, Tended, Single
<1>2. NodesSpinner
  BY DEF Flags, NodesFlags, NodesFlagged, NodesSpinner, Tended, Single
<1>3. ProtectionSpinner
  BY DEF Flags, ProtFlags, ProtectionSpinner, Tended
<1>4. MappingSpinner
  <2>1. AnyOf(mapCalls, {"save", "remove"}) = Waiting(mapCalls, "save") \cup Waiting(mapCalls, "remove")
    BY DEF AnyOf, Waiting
  <2>2. AnyOf(mapCalls, {"catalog", "test"}) = Waiting(mapCalls, "catalog") \cup Waiting(mapCalls, "test")
    BY DEF AnyOf, Waiting
  <2>3. mapPage.loading = TRUE => \E s \in Slots : mapCalls[s] # Idle /\ mapCalls[s].rows.at # "unsent"
    BY DEF Flags, MapFlags, Tended, MapLoaders, MapLoader
  <2> QED BY <2>1, <2>2, <2>3 DEF Flags, MapFlags, MappingSpinner, Tended
<1>5. ResourceSpinner
  <2>1. resPage.loading = TRUE => \E s \in Slots : resCalls[s] # Idle /\ resCalls[s].get.at # "unsent"
    BY DEF Flags, ResFlags, Tended, ResLoaders
  <2> QED BY <2>1 DEF Flags, ResFlags, ResourceSpinner, Tended
<1>6. ListSpinner
  BY DEF Flags, ListFlags, ListSpinner, Tended
<1>7. MonitorSpinner
  <2>1. monPage.loading = TRUE => UnderWay # {}
    <3>1. \A s \in Slots : MonLoader(monCalls[s]) => monCalls[s] # Idle
      BY IdleMonHandler
    <3> QED BY <3>1 DEF Flags, MonFlags, Tended, MonLoaders, UnderWay
  <2>2. monPage.acting = TRUE => \E s \in Slots : monCalls[s].op \in {"action", "import", "test"}
    BY DEF Flags, MonFlags, Tended, AnyOf, Acting
  <2> QED BY <2>1, <2>2 DEF Flags, MonFlags, MonitorSpinner, Tended
<1>8. ConfigSpinner
  BY DEF Flags, CfgFlags, ConfigSpinner, Tended
<1> QED BY <1>1, <1>2, <1>3, <1>4, <1>5, <1>6, <1>7, <1>8 DEF SpinnersHonest

(***************************************************************************)
(* No spinner of the console is left behind: a flag of a page is up only   *)
(* while a handler is under way whose finally block takes it down, and a   *)
(* save or restart under way on the settings and nodes pages has its flag  *)
(* up, which keeps the button dead (SystemSettingsView.vue,                *)
(* NodesAndTunnelsView.vue, AlertsAndRateLimitView.vue,                    *)
(* TunnelMappingsView.vue, LocalResourcesView.vue, the lists, monitors and *)
(* configuration pages).                                                   *)
(***************************************************************************)
THEOREM SpinnersFall == Spec => []SpinnersHonest
<1>1. Init => Flags
  BY SettingsFlagsInit, NodesFlagsInit, ProtFlagsInit, MapFlagsInit, ResFlagsInit, ListFlagsInit,
     MonFlagsInit, CfgFlagsInit DEF Flags
<1>2. Flags /\ [Next]_vars => Flags'
  BY SettingsFlagsStep, NodesFlagsStep, ProtFlagsStep, MapFlagsStep, ResFlagsStep, ListFlagsStep,
     MonFlagsStep, CfgFlagsStep DEF Flags
<1> QED BY <1>1, <1>2, FlagsHonest, PTL DEF Spec
=============================================================================
