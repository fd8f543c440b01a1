----------------------------- MODULE PagesProofs -----------------------------
(***************************************************************************)
(* What the protection, list and monitor pages show, with handlers that    *)
(* overlap, fail and answer late.                                          *)
(***************************************************************************)
EXTENDS Console, TLAPS

LEMMA PageTurns ==
  ASSUME [Next]_vars
  PROVE  /\ ProtectionNext \/ UNCHANGED <<protPage, protCalls>>
         /\ ListNext \/ UNCHANGED listVars
         /\ MonitorNext \/ UNCHANGED monitorVars
<1>1. CASE UNCHANGED vars
  BY <1>1 DEF vars, protectionVars, listVars, monitorVars
<1>2. CASE OnSettings \/ OnNodes \/ OnProtection \/ OnMapping \/ OnResource \/ OnList \/ OnMonitor \/ OnMock
  BY <1>2 DEF OnSettings, OnNodes, OnProtection, OnMapping, OnResource, OnList, OnMonitor, OnMock,
     protectionVars
<1>3. CASE OnLimits
  <2>1. UNCHANGED <<protPage, protCalls>>
    BY <1>3 DEF OnLimits, PolicyNext, loadLimits, openEdit, PolicyType, savePolicy, PolicyServe,
       PolicyAnswered, PolicyFails, PolicyQuiet
  <2> QED BY <1>3, <2>1 DEF OnLimits
<1> QED BY <1>1, <1>2, <1>3 DEF Next

-----------------------------------------------------------------------------
(* The protection page.  While a restriction is asked for, the spinner     *)
(* keeps the target input as it was sent: there is one such handler, and   *)
(* its target, or what its answer says was done, is in the input.          *)

ProtFields ==
  {"state", "form", "editing", "loading", "saving", "recovering", "restricting", "removing",
   "error", "notice", "target"}

ProtHandler(call) ==
  call = Idle \/ DOMAIN call = {"op", "kind", "act", "get", "usage"}

\* The handler of a restriction with this target.
Restricts(call, target) ==
  /\ call.kind = "restrict"
  /\ call.act.at = "sent" => call.act.with = target
  /\ call.act.at = "served" => call.act.with.did = target

Restricting == {s \in Slots : protCalls[s].op = "restrict"}

ProtInv ==
  /\ DOMAIN protPage = ProtFields
  /\ protCalls = [s \in Slots |-> protCalls[s]]
  /\ \A s \in Slots : ProtHandler(protCalls[s])
  /\ \A s \in Restricting :
       /\ protPage.restricting = TRUE
       /\ Restricts(protCalls[s], protPage.target)
       /\ \A t \in Restricting : s = t
  /\ protPage.notice.target = protPage.notice.did
  /\ ClosedFormIsState

LEMMA NoticeOfNothing == NoNotice.target = NoNotice.did
BY DEF NoNotice

LEMMA ProtInitially == Init => ProtInv
<1> SUFFICES ASSUME Init PROVE ProtInv
  OBVIOUS
<1>1. protCalls = [s \in Slots |-> Idle]
  BY DEF Init, ProtectionInit, NoCalls
<1>2. Restricting = {}
  BY <1>1 DEF Restricting, Idle
<1>3. DOMAIN protPage = ProtFields /\ protPage.notice = NoNotice /\ protPage.state = Nothing
  BY DEF Init, ProtectionInit, ProtFields
<1>4. protPage.notice.target = protPage.notice.did
  BY <1>3, NoticeOfNothing
<1>5. ClosedFormIsState
  BY <1>3 DEF ClosedFormIsState
<1> QED BY <1>1, <1>2, <1>3, <1>4, <1>5 DEF ProtInv, ProtHandler

\* The closed form: what drops an error or the edits raises a flag, and what drops a flag
\* fills the form in or shows an error.
LEMMA ClosedStep ==
  ASSUME ProtInv, ProtectionNext
  PROVE  ClosedFormIsState'
<1>0. DOMAIN protPage = ProtFields /\ ClosedFormIsState
  BY DEF ProtInv
<1> USE DEF ProtFields
<1>1. ASSUME protPage'.loading = TRUE \/ protPage'.saving = TRUE \/ protPage'.recovering = TRUE
               \/ protPage'.restricting = TRUE \/ protPage'.removing = TRUE \/ protPage'.error = TRUE
               \/ protPage'.editing = TRUE
      PROVE  ClosedFormIsState'
  BY <1>1 DEF ClosedFormIsState, Spinning
<1>2. ASSUME protPage'.form = syncForm(protPage'.state) PROVE ClosedFormIsState'
  BY <1>2 DEF ClosedFormIsState
<1>3. CASE ProtLoad \/ cancelEdit \/ saveAll \/ recoverCircuit \/ removeRestriction \/ ProtStartEdit
  <2>1. protPage'.loading = TRUE \/ protPage'.saving = TRUE \/ protPage'.recovering = TRUE
          \/ protPage'.removing = TRUE \/ protPage'.editing = TRUE
    BY <1>0, <1>3 DEF ProtLoad, cancelEdit, saveAll, recoverCircuit, removeRestriction, ProtStartEdit
  <2> QED BY <1>1, <2>1
<1>4. CASE ProtType
  <2>1. protPage.editing /\ protPage'.editing = protPage.editing
    BY <1>0, <1>4 DEF ProtType
  <2> QED BY <2>1 DEF ClosedFormIsState
<1>5. CASE ProtTypeTarget
  <2>1. \E t : protPage' = [protPage EXCEPT !.target = t]
    BY <1>5 DEF ProtTypeTarget
  <2> QED BY <1>0, <2>1 DEF ClosedFormIsState, Spinning
<1>6. CASE submitRestriction \/ quickRestrict
  <2>1. protPage'.restricting = TRUE \/ protPage'.error = TRUE
    BY <1>0, <1>6 DEF submitRestriction, quickRestrict, AskRestriction
  <2> QED BY <1>1, <2>1
<1>7. CASE RestrictionExpires
  BY <1>0, <1>7 DEF RestrictionExpires, ClosedFormIsState, Spinning
<1>8. ASSUME NEW s \in Slots, ProtLoaded(s) PROVE ClosedFormIsState'
  <2>1. protPage'.form = syncForm(protPage'.state)
    BY <1>0, <1>8 DEF ProtLoaded
  <2> QED BY <1>2, <2>1
<1>9. ASSUME NEW s \in Slots, ProtAnswered(s) PROVE ClosedFormIsState'
  <2>1. protPage'.form = syncForm(protPage'.state)
    BY <1>0, <1>9 DEF ProtAnswered, Finished, resetRestrictionForm
  <2> QED BY <1>2, <2>1
<1>10. ASSUME NEW s \in Slots, ProtFails(s) PROVE ClosedFormIsState'
  <2>1. protPage'.error = TRUE
    BY <1>0, <1>10 DEF ProtFails, Finished
  <2> QED BY <1>1, <2>1
<1>11. ASSUME NEW s \in Slots, ProtLeft(s) \/ ProtServeGet(s) \/ ProtServeUsage(s) \/ ProtServeAct(s)
       PROVE  ClosedFormIsState'
  <2>1. UNCHANGED protPage
    BY <1>11 DEF ProtLeft, ProtServeGet, ProtServeUsage, ProtServeAct
  <2> QED BY <1>0, <2>1 DEF ClosedFormIsState, Spinning
<1> QED BY <1>3, <1>4, <1>5, <1>6, <1>7, <1>8, <1>9, <1>10, <1>11 DEF ProtectionNext

\* A step that changes one slot to a handler that is of no restriction and leaves the input
\* as it is, or the only handler of one.
LEMMA ProtSlot ==
  ASSUME ProtInv, NEW s \in Slots, NEW call, ProtHandler(call),
         protCalls' = [protCalls EXCEPT ![s] = call],
         DOMAIN protPage' = ProtFields, protPage'.notice.target = protPage'.notice.did,
         ClosedFormIsState',
         \/ /\ call.op # "restrict"
            /\ \/ protPage'.restricting = protPage.restricting /\ protPage'.target = protPage.target
               \/ protCalls[s].op = "restrict"
         \/ /\ call.op = "restrict" /\ Restricts(call, protPage'.target) /\ protPage'.restricting = TRUE
            /\ Restricting \subseteq {s}
  PROVE  ProtInv'
<1>1. /\ protCalls' = [t \in Slots |-> protCalls'[t]]
      /\ \A t \in Slots : protCalls'[t] = IF t = s THEN call ELSE protCalls[t]
  BY DEF ProtInv
<1>2. \A t \in Slots : ProtHandler(protCalls'[t])
  BY <1>1 DEF ProtInv
<1>3. ASSUME NEW t \in Restricting'
      PROVE  /\ protPage'.restricting = TRUE
             /\ Restricts(protCalls'[t], protPage'.target)
             /\ \A u \in Restricting' : t = u
  <2>1. CASE call.op = "restrict"
    <3>1. Restricting' \subseteq {s}
      BY <1>1, <2>1 DEF Restricting
    <3> QED BY <1>1, <2>1, <3>1 DEF Restricting
  <2>2. CASE call.op # "restrict"
    <3>1. t \in Restricting /\ t # s /\ protCalls'[t] = protCalls[t] /\ Restricting' \subseteq Restricting
      BY <1>1, <2>2 DEF Restricting
    <3>2. /\ protPage.restricting = TRUE /\ Restricts(protCalls[t], protPage.target)
          /\ \A u \in Restricting : t = u
      BY <3>1 DEF ProtInv
    <3>3. s \notin Restricting /\ protCalls[s].op # "restrict"
      BY <3>1, <3>2 DEF Restricting
    <3>4. protPage'.restricting = protPage.restricting /\ protPage'.target = protPage.target
      BY <2>2, <3>3
    <3> QED BY <3>1, <3>2, <3>4
  <2> QED BY <2>1, <2>2
<1> QED BY <1>1, <1>2, <1>3 DEF ProtInv

LEMMA ProtStep == ProtInv /\ [Next]_vars => ProtInv'
<1> SUFFICES ASSUME ProtInv, [Next]_vars PROVE ProtInv'
  OBVIOUS
<1>0. DOMAIN protPage = ProtFields /\ protPage.notice.target = protPage.notice.did
  BY DEF ProtInv
<1>1. CASE UNCHANGED <<protPage, protCalls>>
  BY <1>1 DEF ProtInv, Restricting, ClosedFormIsState, Spinning
<1>2. ASSUME ProtectionNext PROVE ProtInv'
  <2>0. ClosedFormIsState'
    BY <1>2, ClosedStep
  <2> USE DEF ProtFields
  <2>1. ASSUME NEW op, NEW act, NEW get, Begin(ProtCall(op, act, get)), op # "restrict",
               DOMAIN protPage' = ProtFields, protPage'.notice.target = protPage'.notice.did,
               protPage'.restricting = protPage.restricting, protPage'.target = protPage.target
        PROVE  ProtInv'
    <3> DEFINE call == ProtCall(op, act, get)
    <3>1. PICK s \in Slots : protCalls' = [protCalls EXCEPT ![s] = call]
      BY <2>1 DEF Begin, Free, Put
    <3>2. ProtHandler(call) /\ call.op = op
      BY DEF ProtCall, ProtHandler
    <3> HIDE DEF call
    <3> QED BY <2>0, <2>1, <3>1, <3>2, ProtSlot
  <2>2. ASSUME UNCHANGED protCalls, DOMAIN protPage' = ProtFields,
               protPage'.notice.target = protPage'.notice.did,
               Restricting = {} \/ (protPage'.restricting = protPage.restricting
                                    /\ protPage'.target = protPage.target)
        PROVE  ProtInv'
    <3>1. Restricting' = Restricting
      BY <2>2 DEF Restricting
    <3> QED BY <2>0, <2>2, <3>1 DEF ProtInv
  <2>3. ~Spinning => Restricting = {}
    BY DEF ProtInv, Spinning
  <2>4. CASE ProtLoad \/ cancelEdit \/ saveAll \/ recoverCircuit
    <3>1. /\ DOMAIN protPage' = ProtFields /\ protPage'.notice = NoNotice
          /\ protPage'.restricting = protPage.restricting /\ protPage'.target = protPage.target
      BY <1>0, <2>4 DEF ProtLoad, cancelEdit, saveAll, recoverCircuit
    <3>2. protPage'.notice.target = protPage'.notice.did
      BY <3>1, NoticeOfNothing
    <3> QED BY <2>1, <2>4, <3>1, <3>2 DEF ProtLoad, cancelEdit, saveAll, recoverCircuit
  <2>5. CASE removeRestriction
    <3>1. /\ DOMAIN protPage' = ProtFields /\ protPage'.notice = NoNotice
          /\ protPage'.restricting = protPage.restricting /\ protPage'.target = protPage.target
      BY <1>0, <2>5 DEF removeRestriction
    <3>2. protPage'.notice.target = protPage'.notice.did
      BY <3>1, NoticeOfNothing
    <3>3. PICK target : Begin(ProtCall("remove", Sent(target), Unsent))
      BY <2>5 DEF removeRestriction
    <3> QED BY <2>1, <3>1, <3>2, <3>3
  <2>6. CASE ProtStartEdit \/ ProtType \/ ProtTypeTarget
    <3>1. /\ UNCHANGED protCalls /\ DOMAIN protPage' = ProtFields /\ protPage'.notice = protPage.notice
          /\ protPage'.restricting = protPage.restricting
          /\ ~Spinning \/ protPage'.target = protPage.target
      BY <1>0, <2>6 DEF ProtStartEdit, ProtType, ProtTypeTarget
    <3> QED BY <1>0, <2>2, <2>3, <3>1
  <2>7. ASSUME NEW target, AskRestriction(target), ~Spinning PROVE ProtInv'
    <3>1. CASE target = Nothing
      <4>1. /\ UNCHANGED protCalls /\ DOMAIN protPage' = ProtFields /\ protPage'.notice = protPage.notice
        BY <1>0, <2>7, <3>1 DEF AskRestriction
      <4> QED BY <1>0, <2>2, <2>3, <2>7, <4>1
    <3>2. CASE target # Nothing
      <4> DEFINE call == ProtCall("restrict", Sent(target), Unsent)
      <4>1. PICK s \in Slots : protCalls' = [protCalls EXCEPT ![s] = call]
        BY <2>7, <3>2 DEF AskRestriction, Begin, Free, Put
      <4>2. ProtHandler(call) /\ call.op = "restrict" /\ Restricts(call, target)
        BY DEF ProtCall, ProtHandler, Restricts, Sent
      <4>3. /\ DOMAIN protPage' = ProtFields /\ protPage'.notice = NoNotice
            /\ protPage'.restricting = TRUE /\ protPage'.target = target
        BY <1>0, <2>7, <3>2 DEF AskRestriction
      <4>4. protPage'.notice.target = protPage'.notice.did
        BY <4>3, NoticeOfNothing
      <4> HIDE DEF call
      <4>5. Restricts(call, protPage'.target) /\ Restricting \subseteq {s}
        BY <2>3, <2>7, <4>2, <4>3
      <4> QED BY <2>0, <4>1, <4>2, <4>3, <4>4, <4>5, ProtSlot
    <3> QED BY <3>1, <3>2
  <2>8. CASE submitRestriction \/ quickRestrict
    BY <2>7, <2>8 DEF submitRestriction, quickRestrict
  <2>9. CASE RestrictionExpires
    BY <1>1, <2>9 DEF RestrictionExpires
  <2>10. ProtHandler(Idle) /\ Idle.op = "idle"
    BY DEF ProtHandler, Idle
  <2>11. ASSUME NEW s \in Slots, protCalls[s].op # "idle"
         PROVE  DOMAIN protCalls[s] = {"op", "kind", "act", "get", "usage"}
    BY <2>11 DEF ProtInv, ProtHandler, Idle
  <2>12. ASSUME NEW s \in Slots, ProtLoaded(s) PROVE ProtInv'
    <3>1. /\ DOMAIN protPage' = ProtFields /\ protPage'.notice = protPage.notice
          /\ protPage'.restricting = protPage.restricting /\ protPage'.target = protPage.target
      BY <1>0, <2>12 DEF ProtLoaded
    <3>2. protCalls' = [protCalls EXCEPT ![s] = Idle]
      BY <2>12 DEF ProtLoaded, Put
    <3> QED BY <1>0, <2>0, <2>10, <3>1, <3>2, ProtSlot
  <2>13. ASSUME NEW s \in Slots, ProtAnswered(s) PROVE ProtInv'
    <3> DEFINE call == protCalls[s]
    <3>1. /\ call.act.at = "served" /\ protCalls' = [protCalls EXCEPT ![s] = Idle]
      BY <2>13 DEF ProtAnswered, Put
    <3>2. /\ DOMAIN protPage' = ProtFields
          /\ protPage'.notice = [kind |-> call.op, did |-> call.act.with.did,
                                 target |-> IF call.op = "restrict" THEN protPage.target
                                            ELSE call.act.with.did]
          /\ call.op # "restrict" => protPage'.target = protPage.target
          /\ protPage'.restricting = (protPage.restricting /\ call.op # "restrict")
      BY <1>0, <2>13 DEF ProtAnswered, Finished, resetRestrictionForm
    <3>3. call.op = "restrict" => call.act.with.did = protPage.target
      BY <3>1 DEF ProtInv, Restricting, Restricts
    <3>4. protPage'.notice.target = protPage'.notice.did
      BY <3>2, <3>3
    <3>5. CASE call.op = "restrict"
      BY <2>0, <2>10, <3>1, <3>2, <3>4, <3>5, ProtSlot
    <3>6. CASE call.op # "restrict"
      <4>1. Restricting' = Restricting
        BY <2>10, <3>1, <3>6 DEF ProtInv, Restricting
      <4>2. /\ protCalls' = [t \in Slots |-> protCalls'[t]]
            /\ \A t \in Slots : protCalls'[t] = IF t = s THEN Idle ELSE protCalls[t]
        BY <3>1 DEF ProtInv
      <4>3. ASSUME NEW t \in Restricting'
            PROVE  /\ protPage'.restricting = TRUE
                   /\ Restricts(protCalls'[t], protPage'.target)
                   /\ \A u \in Restricting' : t = u
        <5>1. t # s /\ t \in Slots
          BY <3>6, <4>1 DEF Restricting
        <5>2. protPage.restricting = TRUE /\ Restricts(protCalls[t], protPage.target)
              /\ \A u \in Restricting : t = u
          BY <4>1 DEF ProtInv
        <5>3. protPage'.restricting = TRUE
          BY <3>2, <3>6, <5>2
        <5> QED BY <3>2, <3>6, <4>1, <4>2, <5>1, <5>2, <5>3
      <4>4. \A t \in Slots : ProtHandler(protCalls'[t])
        BY <2>10, <4>2 DEF ProtInv
      <4> QED BY <2>0, <3>2, <3>4, <4>2, <4>3, <4>4 DEF ProtInv
    <3> QED BY <3>5, <3>6
  <2>14. ASSUME NEW s \in Slots, ProtFails(s) PROVE ProtInv'
    <3> DEFINE left == [protCalls[s] EXCEPT !.op = "left"]
    <3>1. /\ protCalls[s].op \notin {"idle", "left"}
          /\ protCalls' = [protCalls EXCEPT ![s] = left] \/ protCalls' = [protCalls EXCEPT ![s] = Idle]
      BY <2>14 DEF ProtFails, Leave, Put
    <3>2. ProtHandler(left) /\ left.op = "left"
      BY <2>11, <3>1 DEF ProtHandler
    <3>3. /\ DOMAIN protPage' = ProtFields /\ protPage'.notice = protPage.notice
          /\ protPage'.target = protPage.target
          /\ protPage'.restricting = (protPage.restricting /\ protCalls[s].op # "restrict")
      BY <1>0, <2>14 DEF ProtFails, Finished
    <3> HIDE DEF left
    <3>4. PICK call \in {left, Idle} : protCalls' = [protCalls EXCEPT ![s] = call]
      BY <3>1
    <3>5. ProtHandler(call) /\ call.op # "restrict"
      BY <2>10, <3>2
    <3>6. CASE protCalls[s].op = "restrict"
      BY <1>0, <2>0, <3>3, <3>4, <3>5, <3>6, ProtSlot
    <3>7. CASE protCalls[s].op # "restrict"
      <4>1. CASE Restricting = {}
        <5>1. /\ protCalls' = [t \in Slots |-> protCalls'[t]]
              /\ \A t \in Slots : protCalls'[t] = IF t = s THEN call ELSE protCalls[t]
          BY <3>4 DEF ProtInv
        <5>2. Restricting' = {} /\ \A t \in Slots : ProtHandler(protCalls'[t])
          BY <3>5, <4>1, <5>1 DEF Restricting, ProtInv
        <5> QED BY <1>0, <2>0, <3>3, <5>1, <5>2 DEF ProtInv
      <4>2. CASE Restricting # {}
        <5>1. protPage.restricting = TRUE
          BY <4>2 DEF ProtInv
        <5>2. protPage'.restricting = TRUE
          BY <3>3, <3>7, <5>1
        <5> QED BY <1>0, <2>0, <3>3, <3>4, <3>5, <5>1, <5>2, ProtSlot
      <4> QED BY <4>1, <4>2
    <3> QED BY <3>6, <3>7
  <2>15. ASSUME NEW s \in Slots, ProtLeft(s) PROVE ProtInv'
    <3>1. UNCHANGED protPage /\ protCalls' = [protCalls EXCEPT ![s] = Idle]
      BY <2>15 DEF ProtLeft, Put
    <3> QED BY <1>0, <2>0, <2>10, <3>1, ProtSlot
  <2>16. ASSUME NEW s \in Slots, NEW call, protCalls[s].op # "idle", UNCHANGED protPage,
                protCalls' = [protCalls EXCEPT ![s] = call], ProtHandler(call),
                call.op = protCalls[s].op,
                call.op = "restrict" => Restricts(call, protPage.target)
         PROVE  ProtInv'
    <3>1. CASE call.op = "restrict"
      <4>1. protPage.restricting = TRUE /\ Restricting \subseteq {s}
        BY <2>16, <3>1 DEF ProtInv, Restricting
      <4> QED BY <1>0, <2>0, <2>16, <3>1, <4>1, ProtSlot
    <3>2. CASE call.op # "restrict"
      BY <1>0, <2>0, <2>16, <3>2, ProtSlot
    <3> QED BY <3>1, <3>2
  <2>17. ASSUME NEW s \in Slots, ProtServeGet(s) PROVE ProtInv'
    <3> DEFINE call == [protCalls[s] EXCEPT !.get = Served(currentProtectionState)]
    <3>1. UNCHANGED protPage /\ protCalls' = [protCalls EXCEPT ![s] = call] /\ protCalls[s].op = "load"
      BY <2>17 DEF ProtServeGet
    <3>2. ProtHandler(call) /\ call.op = protCalls[s].op
      BY <2>11, <3>1 DEF ProtHandler
    <3> HIDE DEF call
    <3> QED BY <2>16, <3>1, <3>2
  <2>18. ASSUME NEW s \in Slots, ProtServeUsage(s) PROVE ProtInv'
    <3>1. protCalls[s].op # "idle" \/ DOMAIN protCalls[s] = {"op", "kind", "act", "get", "usage"}
      BY <2>18 DEF ProtServeUsage, ProtInv, ProtHandler
    <3>2. PICK usage : protCalls' = [protCalls EXCEPT ![s] = [protCalls[s] EXCEPT !.usage = usage]]
      BY <2>18 DEF ProtServeUsage
    <3> DEFINE call == [protCalls[s] EXCEPT !.usage = usage]
    <3>3. DOMAIN protCalls[s] = {"op", "kind", "act", "get", "usage"} /\ UNCHANGED protPage
      BY <2>11, <2>18, <3>1 DEF ProtServeUsage
    <3>4. /\ ProtHandler(call) /\ call.op = protCalls[s].op
          /\ call.kind = protCalls[s].kind /\ call.act = protCalls[s].act
      BY <3>3 DEF ProtHandler
    <3>5. protCalls' = [protCalls EXCEPT ![s] = call]
      BY <3>2
    <3> HIDE DEF call
    <3>6. call.op = "restrict" => Restricts(call, protPage.target)
      BY <3>4 DEF ProtInv, Restricting, Restricts
    <3>7. CASE call.op = "restrict"
      <4>1. protPage.restricting = TRUE /\ Restricting \subseteq {s}
        BY <3>4, <3>7 DEF ProtInv, Restricting
      <4> QED BY <1>0, <2>0, <3>3, <3>4, <3>5, <3>6, <3>7, <4>1, ProtSlot
    <3>8. CASE call.op # "restrict"
      BY <1>0, <2>0, <3>3, <3>4, <3>5, <3>8, ProtSlot
    <3> QED BY <3>7, <3>8
  <2>19. ASSUME NEW s \in Slots, ProtServeAct(s) PROVE ProtInv'
    <3> DEFINE did == IF protCalls[s].kind \in {"restrict", "remove"} THEN protCalls[s].act.with ELSE Nothing
               state == currentProtectionState'
               act == Served([did |-> did, state |-> state])
               call == [protCalls[s] EXCEPT !.act = act]
    <3>1. /\ protCalls[s] # Idle /\ protCalls[s].act.at = "sent" /\ UNCHANGED protPage
          /\ protCalls' = [protCalls EXCEPT ![s] = call]
      BY <2>19 DEF ProtServeAct
    <3>2. DOMAIN protCalls[s] = {"op", "kind", "act", "get", "usage"}
      BY <3>1 DEF ProtInv, ProtHandler
    <3> HIDE DEF state
    <3>3. act.at = "served" /\ act.with.did = did
      BY DEF Served
    <3> HIDE DEF act
    <3>4. /\ ProtHandler(call) /\ call.op = protCalls[s].op
          /\ call.kind = protCalls[s].kind /\ call.act = act
      BY <3>2 DEF ProtHandler
    <3> HIDE DEF call
    <3>5. ASSUME call.op = "restrict" PROVE Restricts(call, protPage.target)
      <4>1. protCalls[s].kind = "restrict" /\ protCalls[s].act.with = protPage.target
        BY <3>1, <3>4, <3>5 DEF ProtInv, Restricting, Restricts
      <4> QED BY <3>3, <3>4, <4>1 DEF Restricts
    <3>6. CASE call.op = "restrict"
      <4>1. protPage.restricting = TRUE /\ Restricting \subseteq {s}
        BY <3>4, <3>6 DEF ProtInv, Restricting
      <4> QED BY <1>0, <2>0, <3>1, <3>4, <3>5, <3>6, <4>1, ProtSlot
    <3>7. CASE call.op # "restrict"
      BY <1>0, <2>0, <3>1, <3>4, <3>7, ProtSlot
    <3> QED BY <3>6, <3>7
  <2> QED BY <1>2, <2>4, <2>5, <2>6, <2>8, <2>9, <2>12, <2>13, <2>14, <2>15, <2>17, <2>18, <2>19
       DEF ProtectionNext
<1> QED BY <1>1, <1>2, PageTurns

LEMMA ProtAlways == Spec => []ProtInv
BY ProtInitially, ProtStep, PTL DEF Spec

\* The closed inputs show the state on the screen once nothing is under way: the edits of a
\* cancelled form do not linger, whichever handlers overlap and fail.
THEOREM ClosedFormShowsState == Spec => []ClosedFormIsState
<1>1. ProtInv => ClosedFormIsState
  BY DEF ProtInv
<1> QED BY <1>1, ProtAlways, PTL

\* The notice of a restriction names the target that was restricted, although it is read
\* from the input when the answer arrives.
THEOREM NoticeIsOfRestriction == Spec => []NoticeNamesRestriction
<1>1. ProtInv => NoticeNamesRestriction
  BY DEF ProtInv, NoticeNamesRestriction
<1> QED BY <1>1, ProtAlways, PTL

-----------------------------------------------------------------------------
(* The list pages.  An answer carries the query it is of; the rows, the    *)
(* label and the total of a pager are taken from one answer.               *)

ListFields ==
  {"kind", "mounted", "loading", "error", "filter", "range", "picker", "edited", "shown",
   "current", "total", "size"}

QueryFields == {"filter", "range", "page", "size"}

\* What an answer carries is what its query selects of the entries stored when it was served.
Selected(answer) == filterByCommon(SubSeq(Entries, 1, answer.n), answer.of.filter)

TrueAnswer(answer) == answer.page = paginate(Selected(answer), answer.of.page, answer.of.size)

ListHandler(call) ==
  \/ call = Idle
  \/ /\ DOMAIN call = {"op", "get"}
     /\ call.get.at = "sent" => DOMAIN call.get.with = QueryFields
     /\ call.get.at = "served" => TrueAnswer(call.get.with)

Labelled(page) ==
  page.kind \in Pagers /\ page.shown # Nothing =>
    /\ TrueAnswer(page.shown)
    /\ page.total = page.shown.page.total
    /\ page.current = page.shown.of.page /\ page.size = page.shown.of.size

ListInv ==
  /\ DOMAIN listPage = ListFields /\ Labelled(listPage)
  /\ listCalls = [s \in Slots |-> listCalls[s]]
  /\ \A s \in Slots : ListHandler(listCalls[s])

LEMMA AnswerIsTrue ==
  ASSUME NEW ask, NEW filter, NEW n, DOMAIN ask = QueryFields
  PROVE  TrueAnswer(Answer(ask, filter, n))
<1> DEFINE answer == Answer(ask, filter, n)
<1>1. /\ answer.n = n /\ answer.of = [ask EXCEPT !.filter = filter]
      /\ answer.page = paginate(filterByCommon(SubSeq(Entries, 1, n), filter), ask.page, ask.size)
  BY DEF Answer
<1>2. answer.of.filter = filter /\ answer.of.page = ask.page /\ answer.of.size = ask.size
  BY <1>1 DEF QueryFields
<1> HIDE DEF answer
<1>3. TrueAnswer(answer)
  BY <1>1, <1>2 DEF TrueAnswer, Selected
<1> QED BY <1>3 DEF answer

LEMMA ListSlot ==
  ASSUME ListInv, NEW s \in Slots, NEW call, ListHandler(call),
         listCalls' = [listCalls EXCEPT ![s] = call],
         DOMAIN listPage' = ListFields, Labelled(listPage')
  PROVE  ListInv'
<1>1. /\ listCalls' = [t \in Slots |-> listCalls'[t]]
      /\ \A t \in Slots : listCalls'[t] = IF t = s THEN call ELSE listCalls[t]
  BY DEF ListInv
<1> QED BY <1>1 DEF ListInv

\* The fields a pager is labelled with.
SameLabel ==
  /\ DOMAIN listPage' = ListFields /\ listPage'.kind = listPage.kind
  /\ listPage'.shown = listPage.shown /\ listPage'.total = listPage.total
  /\ listPage'.current = listPage.current /\ listPage'.size = listPage.size

\* What each step does to the page and its handlers.
LEMMA ListKinds ==
  ASSUME ListInv, ListNext
  PROVE  \/ SameLabel /\ UNCHANGED listCalls
         \/ SameLabel /\ \E filter, range, page, size : ListAsk(Ask(filter, range, page, size))
         \/ \E s \in Slots : ListServe(s) \/ ListAnswered(s) \/ ListFails(s)
<1>0. DOMAIN listPage = ListFields
  BY DEF ListInv
<1> USE DEF SameLabel, ListFields
<1>1. CASE AccessLoad \/ AccessReset \/ AccessMount
  <2>1. SameLabel
    BY <1>0, <1>1 DEF AccessLoad, AccessReset, AccessMount, LastHour
  <2>2. \E filter, range, page, size : ListAsk(Ask(filter, range, page, size))
    BY <1>1 DEF AccessLoad, AccessReset, AccessMount
  <2> QED BY <2>1, <2>2
<1>2. ASSUME NEW filter, LoadRows(filter)
      PROVE  SameLabel /\ \E f, range, page, size : ListAsk(Ask(f, range, page, size))
  <2>1. SameLabel
    BY <1>0, <1>2 DEF LoadRows
  <2> QED BY <1>2, <2>1 DEF LoadRows
<1>3. ASSUME NEW filter, NEW page, NEW size, LoadPage(filter, page, size)
      PROVE  SameLabel /\ \E f, range, p, z : ListAsk(Ask(f, range, p, z))
  <2>1. SameLabel
    BY <1>0, <1>3 DEF LoadPage
  <2> QED BY <1>3, <2>1 DEF LoadPage
<1>4. CASE AuditsLoad \/ AuditsReset \/ EventsLoad
  BY <1>2, <1>4 DEF AuditsLoad, AuditsReset, EventsLoad
<1>5. CASE CommandLoad \/ CommandTurn \/ CommandReset \/ FileLoad \/ FileTurn \/ FileReset
           \/ AuditLogLoad \/ AuditLogTurn
  <2>1. \E filter, page, size : LoadPage(filter, page, size)
    BY <1>5 DEF CommandLoad, CommandTurn, CommandReset, FileLoad, FileTurn, FileReset, AuditLogLoad,
       AuditLogTurn, TurnPage
  <2> QED BY <1>3, <2>1
<1>6. CASE AccessFilter \/ AuditsFilter \/ CommandFilter \/ FileFilter \/ AuditLogFilter
  <2>1. TypeFilter
    BY <1>6 DEF AccessFilter, AuditsFilter, CommandFilter, FileFilter, AuditLogFilter
  <2> QED BY <1>0, <2>1 DEF TypeFilter
<1>7. CASE AccessPick \/ EntryArrives
  BY <1>0, <1>7 DEF AccessPick, EntryArrives
<1> QED BY <1>1, <1>4, <1>5, <1>6, <1>7 DEF ListNext

LEMMA ListStep == ListInv /\ [Next]_vars => ListInv'
<1> SUFFICES ASSUME ListInv, [Next]_vars PROVE ListInv'
  OBVIOUS
<1>0. DOMAIN listPage = ListFields /\ Labelled(listPage)
  BY DEF ListInv
<1>1. CASE UNCHANGED listVars
  BY <1>1 DEF ListInv, listVars
<1>2. ASSUME SameLabel PROVE DOMAIN listPage' = ListFields /\ Labelled(listPage')
  BY <1>0, <1>2 DEF SameLabel, Labelled
<1>3. CASE SameLabel /\ UNCHANGED listCalls
  BY <1>2, <1>3 DEF ListInv
<1>4. CASE SameLabel /\ \E filter, range, page, size : ListAsk(Ask(filter, range, page, size))
  <2>1. PICK filter, range, page, size : ListAsk(Ask(filter, range, page, size))
    BY <1>4
  <2> DEFINE call == [op |-> "load", get |-> Sent(Ask(filter, range, page, size))]
  <2>2. PICK s \in Slots : listCalls' = [listCalls EXCEPT ![s] = call]
    BY <2>1 DEF ListAsk, Free, Put
  <2>3. ListHandler(call)
    BY DEF ListHandler, Sent, Ask, QueryFields
  <2> HIDE DEF call
  <2> QED BY <1>2, <1>4, <2>2, <2>3, ListSlot
<1>5. ASSUME NEW s \in Slots, listCalls[s].op = "load"
      PROVE  DOMAIN listCalls[s] = {"op", "get"} /\ ListHandler(listCalls[s]) /\ listCalls[s] # Idle
  BY <1>5 DEF ListInv, ListHandler, Idle
<1>6. ASSUME NEW s \in Slots, ListServe(s) PROVE ListInv'
  <2> DEFINE ask == listCalls[s].get.with
             filter == IF mock THEN listPage.filter ELSE ask.filter
             answer == Answer(ask, filter, stored)
             call == [listCalls[s] EXCEPT !.get = Served(answer)]
  <2>1. /\ listCalls[s].op = "load" /\ listCalls[s].get.at = "sent" /\ UNCHANGED listPage
        /\ listCalls' = [listCalls EXCEPT ![s] = call]
    BY <1>6 DEF ListServe
  <2>2. DOMAIN ask = QueryFields
    BY <1>5, <2>1 DEF ListHandler
  <2> HIDE DEF filter
  <2>3. TrueAnswer(answer)
    BY <2>2, AnswerIsTrue
  <2> HIDE DEF answer
  <2>4. ListHandler(call)
    BY <1>5, <2>1, <2>3 DEF ListHandler, Served
  <2> HIDE DEF call
  <2> QED BY <1>0, <2>1, <2>4, ListSlot
<1>7. ASSUME NEW s \in Slots, ListAnswered(s) PROVE ListInv'
  <2> DEFINE got == listCalls[s].get.with
  <2>1. /\ listCalls[s].op = "load" /\ listCalls[s].get.at = "served"
        /\ listCalls' = [listCalls EXCEPT ![s] = Idle]
    BY <1>7 DEF ListAnswered, Put
  <2>2. TrueAnswer(got)
    BY <1>5, <2>1 DEF ListHandler
  <2>3. /\ DOMAIN listPage' = ListFields /\ listPage'.kind = listPage.kind /\ listPage'.shown = got
        /\ listPage'.total = got.page.total
        /\ listPage.kind \in Pagers => listPage'.current = got.of.page /\ listPage'.size = got.of.size
    BY <1>0, <1>7 DEF ListAnswered, ListFields
  <2>4. Labelled(listPage')
    BY <2>2, <2>3 DEF Labelled
  <2>5. ListHandler(Idle)
    BY DEF ListHandler
  <2> QED BY <2>1, <2>3, <2>4, <2>5, ListSlot
<1>8. ASSUME NEW s \in Slots, ListFails(s) PROVE ListInv'
  <2>1. SameLabel /\ listCalls' = [listCalls EXCEPT ![s] = Idle]
    BY <1>0, <1>8 DEF ListFails, SameLabel, ListFields, Put
  <2>2. ListHandler(Idle)
    BY DEF ListHandler
  <2> QED BY <1>2, <2>1, <2>2, ListSlot
<1>9. CASE ListNext
  BY <1>3, <1>4, <1>6, <1>7, <1>8, <1>9, ListKinds
<1> QED BY <1>1, <1>9, PageTurns

LEMMA ListInitially == Init => ListInv
<1> SUFFICES ASSUME Init PROVE ListInv
  OBVIOUS
<1>1. listCalls = [s \in Slots |-> Idle]
  BY DEF Init, ListInit, NoCalls
<1>2. DOMAIN listPage = ListFields /\ listPage.shown = Nothing
  BY DEF Init, ListInit, ListFields
<1> QED BY <1>1, <1>2 DEF ListInv, ListHandler, Labelled

\* The rows of a pager, its label and its total are of one query, however page clicks,
\* queries, resets and failures overlap.
THEOREM PagerShowsOneAnswer == Spec => []PagerHonest
<1>1. ASSUME ListInv PROVE PagerHonest
  <2> SUFFICES ASSUME listPage.kind \in Pagers, listPage.shown # Nothing
               PROVE  /\ listPage.total = Len(Selected(listPage.shown))
                      /\ listPage.shown.page.list
                           = paginate(Selected(listPage.shown), listPage.current, listPage.size).list
    BY DEF PagerHonest, Selected
  <2>1. /\ listPage.shown.page
             = paginate(Selected(listPage.shown), listPage.shown.of.page, listPage.shown.of.size)
        /\ listPage.total = listPage.shown.page.total
        /\ listPage.current = listPage.shown.of.page /\ listPage.size = listPage.shown.of.size
    BY <1>1 DEF ListInv, Labelled, TrueAnswer
  <2>2. \A list, page, size : paginate(list, page, size).total = Len(list)
    BY DEF paginate
  <2> QED BY <2>1, <2>2
<1> QED BY <1>1, ListInitially, ListStep, PTL DEF Spec

-----------------------------------------------------------------------------
(* The monitor pages.  What is shown at rest comes from the last handler,  *)
(* if it started alone: while it runs nothing else touches the page.       *)

MonFields ==
  {"kind", "mounted", "loading", "acting", "exporting", "starting", "error", "notice", "shown",
   "choice", "chart", "raced"}

\* The gateway's count is n.
MonPageOK(page, n) ==
  /\ DOMAIN page = MonFields /\ DOMAIN page.shown = {"state", "jobs"}
  /\ page.error \in BOOLEAN /\ page.raced \in BOOLEAN /\ page.mounted \in BOOLEAN
  /\ page.notice.did \in Nat /\ page.notice.did <= n
  /\ page.kind = "dashboard" => page.notice.what = ""
  /\ page.kind = "link" => page.notice.what # "jobs"

\* The handlers of each page.
Fits(op, kind) ==
  \/ kind = "dashboard" /\ op \in {"load", "trends"}
  \/ kind = "link" /\ op \in {"load", "action"}
  \/ kind = "security" /\ op \in {"load", "import"}
  \/ kind = "diag" /\ op \in {"latest", "test", "export", "loadtest"}

\* A handler that acts reads again only once the action was answered, so what it reads
\* then is no older.
MonHandler(call, kind, n) ==
  \/ call = Idle
  \/ /\ DOMAIN call = {"op", "act", "get"} /\ Fits(call.op, kind)
     /\ call.op \notin {"load", "trends", "latest"} => call.act.at \in {"sent", "served"}
     /\ call.act.at = "sent" => call.get.at = "unsent"
     /\ call.act.at = "served" => call.act.with \in Nat /\ call.act.with <= n
     /\ call.get.at = "served" => /\ call.get.with.n \in Nat
                                  /\ call.act.at = "served" => call.act.with <= call.get.with.n

\* A handler with the page to itself.
Alone(page, call) ==
  /\ page.kind = "dashboard" => /\ call.get.at = "sent" => call.get.with = page.choice
                                /\ call.get.at = "served" => call.get.with.chart = page.choice
  /\ page.notice.what = "state" =>
       page.kind = "link" /\ (call.get.at = "served" => page.notice.did <= call.get.with.n)
  /\ page.notice.what = "jobs" =>
       /\ call.op = "loadtest" /\ call.get.at # "unsent"
       /\ call.get.at = "served" => page.notice.did <= call.get.with.n

\* A page at rest.
Rested(page) ==
  /\ page.kind = "dashboard" /\ page.chart # Nothing => page.chart = page.choice
  /\ page.notice.what = "state" => page.shown.state \in Nat /\ page.notice.did <= page.shown.state
  /\ page.notice.what = "jobs" => page.shown.jobs \in Nat /\ page.notice.did <= page.shown.jobs

MonInv ==
  /\ facts \in Nat /\ MonPageOK(monPage, facts)
  /\ monCalls = [s \in Slots |-> monCalls[s]]
  /\ \A s \in Slots : MonHandler(monCalls[s], monPage.kind, facts)
  /\ monPage.mounted = FALSE => UnderWay = {} /\ monPage.notice = NothingDone
  /\ monPage.raced = FALSE =>
       /\ \A s, t \in UnderWay : s = t
       /\ \A s \in UnderWay : Alone(monPage, monCalls[s])
       /\ UnderWay = {} /\ monPage.error = FALSE => Rested(monPage)

LEMMA MonInitially == Init => MonInv
<1> SUFFICES ASSUME Init PROVE MonInv
  OBVIOUS
<1>1. monCalls = [s \in Slots |-> Idle] /\ facts = 0
  BY DEF Init, MonitorInit, NoCalls
<1>2. UnderWay = {}
  BY <1>1 DEF UnderWay
<1>3. /\ DOMAIN monPage = MonFields /\ monPage.chart = Nothing
      /\ DOMAIN monPage.shown = {"state", "jobs"}
      /\ monPage.error = FALSE /\ monPage.raced = FALSE /\ monPage.mounted = FALSE
  BY DEF Init, MonitorInit, MonFields
<1>4. monPage.notice = NothingDone
  BY DEF Init, MonitorInit
<1>5. NothingDone.what = "" /\ NothingDone.did = 0
  BY DEF NothingDone
<1>6. monPage.notice.what = "" /\ monPage.notice.did = 0
  BY <1>4, <1>5
<1>7. MonPageOK(monPage, 0)
  <2>1. monPage.error \in BOOLEAN /\ monPage.raced \in BOOLEAN /\ monPage.mounted \in BOOLEAN
    BY <1>3
  <2>2. monPage.notice.did \in Nat /\ monPage.notice.did <= 0
    <3>1. monPage.notice.did = 0
      BY <1>6
    <3> QED BY <3>1
  <2>3. DOMAIN monPage = MonFields /\ DOMAIN monPage.shown = {"state", "jobs"}
    BY <1>3
  <2>4. monPage.notice.what = ""
    BY <1>6
  <2> QED BY <2>1, <2>2, <2>3, <2>4 DEF MonPageOK
<1>8. Rested(monPage)
  BY <1>3, <1>6 DEF Rested
<1> QED BY <1>1, <1>2, <1>3, <1>4, <1>7, <1>8 DEF MonInv, MonHandler

LEMMA OlderHandler ==
  ASSUME NEW call, NEW kind, NEW n \in Nat, NEW m \in Nat, n <= m, MonHandler(call, kind, n)
  PROVE  MonHandler(call, kind, m)
BY DEF MonHandler

LEMMA OlderPage ==
  ASSUME NEW page, NEW n \in Nat, NEW m \in Nat, n <= m, MonPageOK(page, n)
  PROVE  MonPageOK(page, m)
<1>1. page.notice.did \in Nat /\ page.notice.did <= n
  BY DEF MonPageOK
<1>2. page.notice.did <= m
  BY <1>1
<1> QED BY <1>1, <1>2 DEF MonPageOK

\* A handler goes on or ends.
LEMMA MonSlot ==
  ASSUME MonInv, facts' \in Nat, facts <= facts', MonPageOK(monPage', facts'),
         monPage'.kind = monPage.kind, monPage'.raced = monPage.raced, monPage'.mounted = monPage.mounted,
         NEW s \in Slots, monCalls[s] # Idle, NEW call, MonHandler(call, monPage.kind, facts'),
         monCalls' = [monCalls EXCEPT ![s] = call],
         Alone(monPage, monCalls[s]) /\ call # Idle => Alone(monPage', call),
         Alone(monPage, monCalls[s]) /\ call = Idle /\ monPage'.error = FALSE => Rested(monPage')
  PROVE  MonInv'
<1>1. /\ monCalls' = [t \in Slots |-> monCalls'[t]]
      /\ \A t \in Slots : monCalls'[t] = IF t = s THEN call ELSE monCalls[t]
  BY DEF MonInv
<1>2. ASSUME NEW t \in Slots PROVE MonHandler(monCalls'[t], monPage'.kind, facts')
  <2>1. CASE t = s
    BY <1>1, <2>1
  <2>2. CASE t # s
    <3>1. MonHandler(monCalls[t], monPage.kind, facts) /\ facts \in Nat
      BY DEF MonInv
    <3>2. MonHandler(monCalls[t], monPage.kind, facts')
      BY <3>1, OlderHandler
    <3> QED BY <1>1, <2>2, <3>2
  <2> QED BY <2>1, <2>2
<1>3. s \in UnderWay /\ monPage.mounted # FALSE
  BY DEF UnderWay, MonInv
<1>4. ASSUME monPage'.raced = FALSE
      PROVE  /\ \A t, u \in UnderWay' : t = u
             /\ \A t \in UnderWay' : Alone(monPage', monCalls'[t])
             /\ UnderWay' = {} /\ monPage'.error = FALSE => Rested(monPage')
  <2>1. (\A t \in UnderWay : t = s) /\ Alone(monPage, monCalls[s])
    BY <1>3, <1>4 DEF MonInv
  <2>2. UnderWay' \subseteq {s} /\ (s \in UnderWay' <=> call # Idle)
    BY <1>1, <2>1 DEF UnderWay
  <2> QED BY <1>1, <2>1, <2>2
<1> QED BY <1>1, <1>2, <1>3, <1>4 DEF MonInv

\* A handler starts.
LEMMA MonStarts ==
  ASSUME MonInv, NEW page, NEW op, NEW act, NEW get, MonBegin(page, op, act, get),
         DOMAIN page = MonFields, MonPageOK(monPage', facts), monPage'.kind = monPage.kind,
         MonHandler([op |-> op, act |-> act, get |-> get], monPage.kind, facts),
         op # "idle",
         Alone(monPage', [op |-> op, act |-> act, get |-> get])
  PROVE  MonInv'
<1> DEFINE call == [op |-> op, act |-> act, get |-> get]
<1>1. /\ UNCHANGED facts /\ monPage'.mounted = TRUE /\ monPage'.raced = (UnderWay # {})
  BY DEF MonBegin, MonFields
<1>2. PICK s \in Slots : monCalls' = [monCalls EXCEPT ![s] = call]
  BY DEF MonBegin, Free, Put
<1>3. MonHandler(call, monPage.kind, facts) /\ Alone(monPage', call) /\ call # Idle
  BY DEF Idle
<1> HIDE DEF call
<1>4. /\ monCalls' = [t \in Slots |-> monCalls'[t]]
      /\ \A t \in Slots : monCalls'[t] = IF t = s THEN call ELSE monCalls[t]
  BY <1>2 DEF MonInv
<1>5. \A t \in Slots : MonHandler(monCalls'[t], monPage'.kind, facts')
  BY <1>1, <1>3, <1>4 DEF MonInv
<1>6. ASSUME monPage'.raced = FALSE
      PROVE  /\ \A t, u \in UnderWay' : t = u
             /\ \A t \in UnderWay' : Alone(monPage', monCalls'[t])
             /\ UnderWay' # {}
  <2>1. UnderWay = {}
    BY <1>1, <1>6
  <2>2. UnderWay' = {s}
    BY <1>3, <1>4, <2>1 DEF UnderWay
  <2> QED BY <1>3, <1>4, <2>2
<1> QED BY <1>1, <1>4, <1>5, <1>6 DEF MonInv

LEMMA NothingIsDone ==
  /\ NothingDone.what = ""
  /\ NothingDone.did \in Nat /\ \A n \in Nat : NothingDone.did <= n
<1>1. NothingDone.did = 0
  BY DEF NothingDone
<1>2. NothingDone.did \in Nat /\ \A n \in Nat : NothingDone.did <= n
  BY <1>1
<1>3. NothingDone.what = ""
  BY DEF NothingDone
<1> QED BY <1>2, <1>3

\* The page but for its notice, its rows and its flags.
Framed ==
  /\ DOMAIN monPage' = MonFields /\ DOMAIN monPage'.shown = {"state", "jobs"}
  /\ monPage'.kind = monPage.kind /\ monPage'.raced = monPage.raced
  /\ monPage'.mounted = monPage.mounted /\ monPage'.choice = monPage.choice
  /\ monPage'.error \in BOOLEAN

\* The steps of the gateway.
LEMMA MonResponds ==
  ASSUME MonInv, NEW s \in Slots, NEW answer, monCalls[s].op # "idle", Respond(s, answer),
         answer.n = facts, monPage.kind = "dashboard" => answer.chart = monCalls[s].get.with
  PROVE  MonInv'
<1> DEFINE call == [monCalls[s] EXCEPT !.get = Served(answer)]
<1>1. /\ monCalls[s].get.at = "sent" /\ UNCHANGED <<facts, monPage>>
      /\ monCalls' = [monCalls EXCEPT ![s] = call] /\ monCalls[s] # Idle
  BY DEF Respond, Idle
<1>2. /\ facts \in Nat /\ MonPageOK(monPage, facts) /\ MonHandler(monCalls[s], monPage.kind, facts)
      /\ DOMAIN monCalls[s] = {"op", "act", "get"}
  BY <1>1 DEF MonInv, MonHandler
<1>3. /\ call.op = monCalls[s].op /\ call.act = monCalls[s].act /\ call.get.at = "served"
      /\ call.get.with = answer /\ DOMAIN call = {"op", "act", "get"}
  BY <1>2 DEF Served
<1> HIDE DEF call
<1>4. call # Idle
  BY <1>3 DEF Idle
<1>5. MonHandler(call, monPage.kind, facts)
  BY <1>1, <1>2, <1>3 DEF MonHandler
<1>6. Alone(monPage, monCalls[s]) => Alone(monPage, call)
  BY <1>1, <1>2, <1>3 DEF Alone, MonPageOK
<1>7. /\ facts' \in Nat /\ facts <= facts' /\ MonPageOK(monPage', facts')
      /\ MonHandler(call, monPage.kind, facts')
  BY <1>1, <1>2, <1>5
<1>8. /\ monPage'.kind = monPage.kind /\ monPage'.raced = monPage.raced
      /\ monPage'.mounted = monPage.mounted /\ (Alone(monPage, monCalls[s]) => Alone(monPage', call))
  BY <1>1, <1>6
<1> QED BY <1>1, <1>4, <1>7, <1>8, MonSlot

LEMMA MonPerforms ==
  ASSUME MonInv, NEW s \in Slots, NEW op, op # "idle", NEW after \in Nat, facts <= after,
         Perform(s, op, after)
  PROVE  MonInv'
<1> DEFINE call == [monCalls[s] EXCEPT !.act = Served(after)]
<1>1. /\ monCalls[s].op = op /\ monCalls[s].act.at = "sent" /\ facts' = after /\ UNCHANGED monPage
      /\ monCalls' = [monCalls EXCEPT ![s] = call] /\ monCalls[s] # Idle
  BY DEF Perform, Idle
<1>2. /\ facts \in Nat /\ MonPageOK(monPage, facts) /\ MonHandler(monCalls[s], monPage.kind, facts)
      /\ DOMAIN monCalls[s] = {"op", "act", "get"}
  BY <1>1 DEF MonInv, MonHandler
<1>3. /\ call.op = monCalls[s].op /\ call.get = monCalls[s].get /\ call.act.at = "served"
      /\ call.act.with = after /\ DOMAIN call = {"op", "act", "get"}
  BY <1>2 DEF Served
<1> HIDE DEF call
<1>4. call # Idle
  BY <1>1, <1>3 DEF Idle
<1>5. MonHandler(call, monPage.kind, facts')
  <2>1. monCalls[s].get.at = "unsent" /\ Fits(call.op, monPage.kind)
    BY <1>1, <1>2, <1>3 DEF MonHandler
  <2> QED BY <1>1, <1>3, <2>1 DEF MonHandler
<1>6. MonPageOK(monPage', facts')
  <2>1. MonPageOK(monPage, after)
    BY <1>2, OlderPage
  <2> QED BY <1>1, <2>1
<1>7. Alone(monPage, monCalls[s]) => Alone(monPage', call)
  BY <1>1, <1>3 DEF Alone
<1> QED BY <1>1, <1>2, <1>4, <1>5, <1>6, <1>7, MonSlot

\* A handler ends, with the notice as it was.
LEMMA MonEnds ==
  ASSUME MonInv, NEW s \in Slots, monCalls[s].op # "idle", UNCHANGED facts, Framed,
         monCalls' = [monCalls EXCEPT ![s] = Idle],
         MonPageOK(monPage', facts),
         Alone(monPage, monCalls[s]) /\ monPage'.error = FALSE => Rested(monPage')
  PROVE  MonInv'
<1>1. monCalls[s] # Idle /\ MonHandler(Idle, monPage.kind, facts') /\ facts \in Nat
  BY DEF Idle, MonHandler, MonInv
<1>2. MonPageOK(monPage', facts') /\ facts' \in Nat /\ facts <= facts'
  BY <1>1
<1> QED BY <1>1, <1>2, MonSlot DEF Framed

LEMMA FramedOK ==
  ASSUME MonInv, Framed, monPage'.notice = monPage.notice
  PROVE  MonPageOK(monPage', facts)
BY DEF MonInv, MonPageOK, Framed

Note(what, did) == [what |-> what, did |-> did]

LEMMA Told == \A what, did : Note(what, did).what = what /\ Note(what, did).did = did
BY DEF Note

\* A notice about what a handler did.
LEMMA NoticeOK ==
  ASSUME MonInv, Framed, NEW what, NEW did \in Nat, did <= facts,
         monPage'.notice = Note(what, did),
         monPage.kind = "dashboard" => what = "", monPage.kind = "link" => what # "jobs"
  PROVE  MonPageOK(monPage', facts)
<1>1. monPage'.notice.what = what /\ monPage'.notice.did = did
  BY Told, ZenonT(60)
<1>2. monPage'.notice.did \in Nat /\ monPage'.notice.did <= facts
  BY <1>1
<1> QED BY <1>1, <1>2 DEF MonInv, MonPageOK, Framed

\* The page as a handler starts: only the first step changes whether it is mounted.
LEMMA MonOpens ==
  ASSUME MonInv, NEW page, NEW op, NEW act, NEW get, MonBegin(page, op, act, get),
         DOMAIN page = MonFields, page.shown = monPage.shown, page.kind = monPage.kind,
         page.error \in BOOLEAN, page.notice = monPage.notice \/ page.notice = NothingDone
  PROVE  /\ MonPageOK(monPage', facts) /\ monPage'.kind = monPage.kind
         /\ monPage'.notice = page.notice /\ monPage'.choice = page.choice
<1>1. /\ DOMAIN monPage' = MonFields /\ monPage'.shown = monPage.shown /\ monPage'.kind = monPage.kind
      /\ monPage'.error = page.error /\ monPage'.notice = page.notice /\ monPage'.choice = page.choice
      /\ monPage'.mounted = TRUE /\ monPage'.raced = (UnderWay # {})
  BY DEF MonBegin, MonFields
<1>2. monPage'.raced \in BOOLEAN /\ monPage'.mounted \in BOOLEAN /\ monPage'.error \in BOOLEAN
  BY <1>1
<1>3. MonPageOK(monPage, facts) /\ facts \in Nat
  BY DEF MonInv
<1>4. /\ monPage'.notice.did \in Nat /\ monPage'.notice.did <= facts
      /\ monPage'.notice.what = monPage.notice.what \/ monPage'.notice.what = ""
  <2>1. CASE page.notice = monPage.notice
    BY <1>1, <1>3, <2>1 DEF MonPageOK
  <2>2. CASE page.notice = NothingDone
    BY <1>1, <1>3, <2>2, NothingIsDone
  <2> QED BY <2>1, <2>2
<1>5. MonPageOK(monPage', facts)
  BY <1>1, <1>2, <1>3, <1>4 DEF MonPageOK
<1> QED BY <1>1, <1>5

\* What a handler starts with.
LEMMA FirstAsked ==
  ASSUME NEW op, NEW kind, NEW n, Fits(op, kind), NEW with
  PROVE  /\ op \in {"load", "trends", "latest"}
              => MonHandler([op |-> op, act |-> Unsent, get |-> Sent(with)], kind, n)
         /\ MonHandler([op |-> op, act |-> Sent(with), get |-> Unsent], kind, n)
         /\ op # "idle"
<1>1. Unsent.at = "unsent" /\ Sent(with).at = "sent" /\ Sent(with).with = with
  BY DEF Unsent, Sent
<1> DEFINE load == [op |-> op, act |-> Unsent, get |-> Sent(with)]
           do == [op |-> op, act |-> Sent(with), get |-> Unsent]
<1>2. /\ DOMAIN load = {"op", "act", "get"} /\ load.op = op /\ load.act = Unsent /\ load.get = Sent(with)
      /\ DOMAIN do = {"op", "act", "get"} /\ do.op = op /\ do.act = Sent(with) /\ do.get = Unsent
  OBVIOUS
<1> HIDE DEF load, do
<1>3. op \in {"load", "trends", "latest"} => MonHandler(load, kind, n)
  BY <1>1, <1>2 DEF MonHandler
<1>4. MonHandler(do, kind, n)
  BY <1>1, <1>2 DEF MonHandler
<1> QED BY <1>3, <1>4 DEF load, do, Fits

LEMMA MonBegins ==
  ASSUME MonInv,
         DashboardLoad \/ DashboardSelect \/ LinkLoad \/ LinkAction \/ SecurityLoad \/ saveLicense
           \/ loadLatest \/ runLinkTest \/ runExport \/ runLoadtest
  PROVE  MonInv'
<1>0. MonPageOK(monPage, facts) /\ DOMAIN monPage = MonFields /\ monPage.error \in BOOLEAN
  BY DEF MonInv, MonPageOK
<1>1. Unsent.at = "unsent" /\ \A with : Sent(with).at = "sent" /\ Sent(with).with = with
  BY DEF Unsent, Sent
<1>2. ASSUME NEW page, NEW op \in {"load", "trends", "latest"}, NEW with,
             MonBegin(page, op, Unsent, Sent(with)), Fits(op, monPage.kind),
             DOMAIN page = MonFields, page.shown = monPage.shown, page.kind = monPage.kind,
             page.error \in BOOLEAN, page.notice = monPage.notice \/ page.notice = NothingDone,
             page.kind = "dashboard" => page.choice = with,
             page.notice.what = "state" => page.kind = "link", page.notice.what # "jobs"
      PROVE  MonInv'
  <2> DEFINE call == [op |-> op, act |-> Unsent, get |-> Sent(with)]
  <2>1. /\ MonPageOK(monPage', facts) /\ monPage'.kind = monPage.kind
        /\ monPage'.notice = page.notice /\ monPage'.choice = page.choice
    BY <1>2, MonOpens
  <2>2. MonHandler(call, monPage.kind, facts) /\ op # "idle"
    BY <1>2, FirstAsked
  <2>3. call.get.at = "sent" /\ call.get.with = with
    BY <1>1
  <2>4. Alone(monPage', call)
    <3> HIDE DEF call
    <3> QED BY <1>2, <2>1, <2>3 DEF Alone
  <2> QED BY <1>2, <2>1, <2>2, <2>4, MonStarts
<1>3. ASSUME NEW page, NEW op, NEW with, MonBegin(page, op, Sent(with), Unsent), Fits(op, monPage.kind),
             DOMAIN page = MonFields, page.shown = monPage.shown, page.kind = monPage.kind,
             page.error \in BOOLEAN, page.notice = monPage.notice \/ page.notice = NothingDone,
             page.notice.what = "state" => page.kind = "link", page.notice.what # "jobs"
      PROVE  MonInv'
  <2> DEFINE call == [op |-> op, act |-> Sent(with), get |-> Unsent]
  <2>1. /\ MonPageOK(monPage', facts) /\ monPage'.kind = monPage.kind
        /\ monPage'.notice = page.notice /\ monPage'.choice = page.choice
    BY <1>3, MonOpens
  <2>2. MonHandler(call, monPage.kind, facts) /\ op # "idle"
    BY <1>3, FirstAsked
  <2>3. call.get.at = "unsent"
    BY <1>1
  <2>4. Alone(monPage', call)
    <3> HIDE DEF call
    <3> QED BY <1>3, <2>1, <2>3 DEF Alone
  <2> QED BY <1>3, <2>1, <2>2, <2>4, MonStarts
<1>4. /\ monPage.kind = "dashboard" => monPage.notice.what = ""
      /\ monPage.kind = "link" => monPage.notice.what # "jobs"
      /\ monPage.mounted = FALSE => monPage.notice = NothingDone
      /\ monPage.mounted \in BOOLEAN /\ NothingDone.what = ""
  BY <1>0, NothingIsDone DEF MonPageOK, MonInv
<1>5. CASE DashboardLoad \/ LinkLoad
  <2> DEFINE page == [monPage EXCEPT !.loading = TRUE, !.error = FALSE]
  <2>1. /\ DOMAIN page = MonFields /\ page.shown = monPage.shown /\ page.kind = monPage.kind
        /\ page.choice = monPage.choice /\ page.notice = monPage.notice /\ page.error = FALSE
    BY <1>0 DEF MonFields
  <2>2. PICK with : /\ MonBegin(page, "load", Unsent, Sent(with)) /\ monPage.kind \in {"dashboard", "link"}
                    /\ monPage.kind = "dashboard" => with = monPage.choice
    BY <1>5 DEF DashboardLoad, LinkLoad
  <2>3. Fits("load", monPage.kind)
    BY <2>2 DEF Fits
  <2> HIDE DEF page
  <2>4. page.error \in BOOLEAN
    BY <2>1
  <2>5. (page.notice.what = "state" => page.kind = "link") /\ page.notice.what # "jobs"
    BY <1>4, <2>1, <2>2
  <2> QED BY <1>2, <2>1, <2>2, <2>3, <2>4, <2>5
<1>6. CASE DashboardSelect
  <2>1. PICK choice : MonBegin([monPage EXCEPT !.choice = choice], "trends", Unsent, Sent(choice))
    BY <1>6 DEF DashboardSelect
  <2> DEFINE page == [monPage EXCEPT !.choice = choice]
  <2>2. /\ DOMAIN page = MonFields /\ page.shown = monPage.shown /\ page.kind = monPage.kind
        /\ page.choice = choice /\ page.notice = monPage.notice /\ page.error = monPage.error
    BY <1>0 DEF MonFields
  <2>3. Fits("trends", monPage.kind) /\ monPage.kind = "dashboard"
    BY <1>6 DEF Fits, DashboardSelect
  <2>4. MonBegin(page, "trends", Unsent, Sent(choice))
    BY <2>1
  <2> HIDE DEF page
  <2>5. page.error \in BOOLEAN
    BY <1>0, <2>2
  <2>6. (page.notice.what = "state" => page.kind = "link") /\ page.notice.what # "jobs"
    BY <1>4, <2>2, <2>3
  <2> QED BY <1>2, <2>2, <2>3, <2>4, <2>5, <2>6
<1>7. CASE LinkAction
  <2> DEFINE page == [monPage EXCEPT !.acting = TRUE, !.error = FALSE]
  <2>1. /\ DOMAIN page = MonFields /\ page.shown = monPage.shown /\ page.kind = monPage.kind
        /\ page.notice = monPage.notice /\ page.error = FALSE
    BY <1>0 DEF MonFields
  <2>2. /\ MonBegin(page, "action", Sent(Nothing), Unsent) /\ Fits("action", monPage.kind)
        /\ monPage.kind = "link"
    BY <1>7 DEF LinkAction, Fits
  <2> HIDE DEF page
  <2>3. page.error \in BOOLEAN
    BY <2>1
  <2>4. (page.notice.what = "state" => page.kind = "link") /\ page.notice.what # "jobs"
    BY <1>4, <2>1, <2>2
  <2> QED BY <1>3, <2>1, <2>2, <2>3, <2>4
<1>8. CASE SecurityLoad
  <2> DEFINE page == [monPage EXCEPT !.loading = TRUE, !.error = FALSE, !.notice = NothingDone]
  <2>1. /\ DOMAIN page = MonFields /\ page.shown = monPage.shown /\ page.kind = monPage.kind
        /\ page.notice = NothingDone /\ page.error = FALSE
    BY <1>0 DEF MonFields
  <2>2. /\ MonBegin(page, "load", Unsent, Sent(Nothing)) /\ Fits("load", monPage.kind)
        /\ monPage.kind = "security"
    BY <1>8 DEF SecurityLoad, Fits
  <2> HIDE DEF page
  <2>3. page.error \in BOOLEAN
    BY <2>1
  <2>4. page.notice.what # "state" /\ page.notice.what # "jobs"
    BY <1>4, <2>1
  <2> QED BY <1>2, <2>1, <2>2, <2>3, <2>4
<1>9. CASE saveLicense
  <2> DEFINE page == [monPage EXCEPT !.acting = TRUE, !.error = FALSE, !.notice = NothingDone]
  <2>1. /\ DOMAIN page = MonFields /\ page.shown = monPage.shown /\ page.kind = monPage.kind
        /\ page.notice = NothingDone /\ page.error = FALSE
    BY <1>0 DEF MonFields
  <2>2. MonBegin(page, "import", Sent(Nothing), Unsent) /\ Fits("import", monPage.kind)
    BY <1>9 DEF saveLicense, Fits
  <2> HIDE DEF page
  <2>3. page.error \in BOOLEAN
    BY <2>1
  <2>4. page.notice.what # "state" /\ page.notice.what # "jobs"
    BY <1>4, <2>1
  <2> QED BY <1>3, <2>1, <2>2, <2>3, <2>4
<1>10. CASE loadLatest
  <2> DEFINE page == [monPage EXCEPT !.loading = TRUE, !.error = FALSE]
  <2>1. /\ DOMAIN page = MonFields /\ page.shown = monPage.shown /\ page.kind = monPage.kind
        /\ page.notice = monPage.notice /\ page.error = FALSE
    BY <1>0 DEF MonFields
  <2>2. /\ MonBegin(page, "latest", Unsent, Sent(Nothing)) /\ Fits("latest", monPage.kind)
        /\ monPage.kind = "diag" /\ ~monPage.mounted
    BY <1>10 DEF loadLatest, Fits
  <2> HIDE DEF page
  <2>3. page.error \in BOOLEAN
    BY <2>1
  <2>4. monPage.mounted = FALSE
    BY <1>4, <2>2
  <2>5. page.notice.what # "state" /\ page.notice.what # "jobs"
    BY <1>4, <2>1, <2>4
  <2> QED BY <1>2, <2>1, <2>2, <2>3, <2>5
<1>11. ASSUME NEW page, NEW op \in {"test", "export", "loadtest"}, NEW with, monPage.kind = "diag",
              MonBegin(page, op, Sent(with), Unsent), DOMAIN page = MonFields,
              page.shown = monPage.shown, page.kind = monPage.kind, page.notice = NothingDone,
              page.error = FALSE
       PROVE  MonInv'
  <2>1. Fits(op, monPage.kind) /\ page.error \in BOOLEAN
    BY <1>11 DEF Fits
  <2>2. page.notice.what # "state" /\ page.notice.what # "jobs"
    BY <1>4, <1>11
  <2> QED BY <1>3, <1>11, <2>1, <2>2
<1>12. CASE runLinkTest
  <2> DEFINE page == [Cleared EXCEPT !.acting = TRUE]
  <2>1. /\ DOMAIN page = MonFields /\ page.shown = monPage.shown /\ page.kind = monPage.kind
        /\ page.notice = NothingDone /\ page.error = FALSE
    BY <1>0 DEF MonFields, Cleared
  <2>2. MonBegin(page, "test", Sent(Nothing), Unsent) /\ monPage.kind = "diag"
    BY <1>12 DEF runLinkTest
  <2> HIDE DEF page
  <2> QED BY <1>11, <2>1, <2>2
<1>13. CASE runExport
  <2> DEFINE page == [Cleared EXCEPT !.exporting = TRUE]
  <2>1. /\ DOMAIN page = MonFields /\ page.shown = monPage.shown /\ page.kind = monPage.kind
        /\ page.notice = NothingDone /\ page.error = FALSE
    BY <1>0 DEF MonFields, Cleared
  <2>2. MonBegin(page, "export", Sent(monPage.shown.state), Unsent) /\ monPage.kind = "diag"
    BY <1>13 DEF runExport
  <2> HIDE DEF page
  <2> QED BY <1>11, <2>1, <2>2
<1>14. CASE runLoadtest
  <2> DEFINE page == [Cleared EXCEPT !.starting = TRUE]
  <2>1. /\ DOMAIN page = MonFields /\ page.shown = monPage.shown /\ page.kind = monPage.kind
        /\ page.notice = NothingDone /\ page.error = FALSE
    BY <1>0 DEF MonFields, Cleared
  <2>2. MonBegin(page, "loadtest", Sent(Nothing), Unsent) /\ monPage.kind = "diag"
    BY <1>14 DEF runLoadtest
  <2> HIDE DEF page
  <2> QED BY <1>11, <2>1, <2>2
<1> QED BY <1>5, <1>6, <1>7, <1>8, <1>9, <1>10, <1>12, <1>13, <1>14

LEMMA MonStep == MonInv /\ [Next]_vars => MonInv'
<1> SUFFICES ASSUME MonInv, [Next]_vars PROVE MonInv'
  OBVIOUS
<1>0. /\ facts \in Nat /\ MonPageOK(monPage, facts) /\ DOMAIN monPage = MonFields
      /\ DOMAIN monPage.shown = {"state", "jobs"} /\ monPage.error \in BOOLEAN
  BY DEF MonInv, MonPageOK
<1>1. CASE UNCHANGED monitorVars
  BY <1>1 DEF MonInv, monitorVars, UnderWay
<1>2. CASE OtherFact
  <2>1. facts' = facts + 1 /\ UNCHANGED <<monPage, monCalls>>
    BY <1>2 DEF OtherFact
  <2>2. facts' \in Nat /\ facts <= facts'
    BY <1>0, <2>1
  <2>3. MonPageOK(monPage, facts') /\ \A s \in Slots : MonHandler(monCalls[s], monPage.kind, facts')
    BY <1>0, <2>2, OlderPage, OlderHandler DEF MonInv
  <2>4. UnderWay' = UnderWay
    BY <2>1 DEF UnderWay
  <2> QED BY <2>1, <2>2, <2>3, <2>4 DEF MonInv
<1>3. ASSUME NEW s \in Slots,
             fetchDashboardSummary(s) \/ fetchDashboardTrends(s) \/ fetchLinkMonitor(s)
               \/ fetchSecurityState(s) \/ fetchLatestLinkTest(s) \/ fetchLoadtestJobs(s)
      PROVE  MonInv'
  <2>1. ASSUME NEW with, monCalls[s].op # "idle", Respond(s, DashboardAnswer(with)),
               with = monCalls[s].get.with
        PROVE  MonInv'
    <3>1. DashboardAnswer(with).n = facts /\ DashboardAnswer(with).chart = with
      BY DEF DashboardAnswer
    <3> QED BY <2>1, <3>1, MonResponds
  <2>2. ASSUME monCalls[s].op # "idle", monPage.kind # "dashboard", Respond(s, StateAnswer) PROVE MonInv'
    <3>1. StateAnswer.n = facts
      BY DEF StateAnswer
    <3> QED BY <2>2, <3>1, MonResponds
  <2>3. CASE fetchDashboardSummary(s) \/ fetchDashboardTrends(s)
    BY <2>1, <2>3 DEF fetchDashboardSummary, fetchDashboardTrends
  <2>4. CASE fetchLinkMonitor(s) \/ fetchSecurityState(s)
    BY <2>2, <2>4 DEF fetchLinkMonitor, fetchSecurityState
  <2>5. CASE fetchLatestLinkTest(s) \/ fetchLoadtestJobs(s)
    <3>1. monCalls[s].op \in {"latest", "loadtest"} /\ Respond(s, StateAnswer)
      BY <2>5 DEF fetchLatestLinkTest, fetchLoadtestJobs
    <3>2. monPage.kind # "dashboard"
      BY <3>1 DEF MonInv, MonHandler, Idle, Fits
    <3> QED BY <2>2, <3>1, <3>2
  <2> QED BY <1>3, <2>3, <2>4, <2>5
<1>4. ASSUME NEW s \in Slots,
             triggerTunnelSessionAction(s) \/ updateLicense(s) \/ handleLinkTest(s) \/ startLoadtest(s)
               \/ exportDiagnostics(s)
      PROVE  MonInv'
  <2>1. facts \in Nat /\ facts + 1 \in Nat /\ facts <= facts + 1 /\ facts <= facts
    BY <1>0
  <2>2. CASE triggerTunnelSessionAction(s)
    <3>1. "action" # "idle" /\ Perform(s, "action", facts + 1)
      BY <2>2 DEF triggerTunnelSessionAction
    <3> QED BY <2>1, <3>1, MonPerforms
  <2>3. CASE updateLicense(s)
    <3>1. "import" # "idle" /\ Perform(s, "import", facts + 1)
      BY <2>3 DEF updateLicense
    <3> QED BY <2>1, <3>1, MonPerforms
  <2>4. CASE handleLinkTest(s)
    <3>1. "test" # "idle" /\ Perform(s, "test", facts + 1)
      BY <2>4 DEF handleLinkTest
    <3> QED BY <2>1, <3>1, MonPerforms
  <2>5. CASE startLoadtest(s)
    <3>1. "loadtest" # "idle" /\ Perform(s, "loadtest", facts + 1)
      BY <2>5 DEF startLoadtest
    <3> QED BY <2>1, <3>1, MonPerforms
  <2>6. CASE exportDiagnostics(s)
    <3>1. "export" # "idle" /\ Perform(s, "export", facts)
      BY <2>6 DEF exportDiagnostics
    <3> QED BY <2>1, <3>1, MonPerforms
  <2> QED BY <1>4, <2>2, <2>3, <2>4, <2>5, <2>6
<1>5. ASSUME NEW s \in Slots, monCalls[s].op # "idle"
      PROVE  /\ DOMAIN monCalls[s] = {"op", "act", "get"} /\ Fits(monCalls[s].op, monPage.kind)
             /\ MonHandler(monCalls[s], monPage.kind, facts) /\ monCalls[s] # Idle
             /\ monCalls[s].op \notin {"load", "trends", "latest"} => monCalls[s].act.at \in {"sent", "served"}
             /\ monCalls[s].act.at = "sent" => monCalls[s].get.at = "unsent"
             /\ monCalls[s].act.at = "served" => monCalls[s].act.with \in Nat /\ monCalls[s].act.with <= facts
             /\ monCalls[s].get.at = "served" =>
                  /\ monCalls[s].get.with.n \in Nat
                  /\ monCalls[s].act.at = "served" => monCalls[s].act.with <= monCalls[s].get.with.n
  BY <1>5 DEF MonInv, MonHandler, Idle
<1>6. ASSUME NEW s \in Slots,
             DashboardTrendsFail(s) \/ MonLoadFails(s) \/ MonActFails(s)
      PROVE  MonInv'
  <2>1. /\ monCalls[s].op # "idle" /\ UNCHANGED facts /\ monCalls' = [monCalls EXCEPT ![s] = Idle]
        /\ Framed /\ monPage'.notice = monPage.notice /\ monPage'.error = TRUE
    BY <1>0, <1>6, ZenonT(60) DEF DashboardTrendsFail, MonLoadFails, MonActFails, Put, Framed, MonFields
  <2>2. MonPageOK(monPage', facts) /\ monPage'.error # FALSE
    BY <2>1, FramedOK
  <2> QED BY <2>1, <2>2, MonEnds
<1>7. ASSUME NEW s \in Slots, DashboardTrends(s) PROVE MonInv'
  <2>1. /\ monCalls[s].op = "trends" /\ monCalls[s].get.at = "served"
        /\ UNCHANGED facts /\ monCalls' = [monCalls EXCEPT ![s] = Idle]
    BY <1>7 DEF DashboardTrends, Put
  <2>2. Framed /\ monPage'.notice = monPage.notice /\ monPage'.chart = monCalls[s].get.with.chart
    BY <1>0, <1>7 DEF DashboardTrends, Framed, MonFields
  <2>3. monPage.kind = "dashboard" /\ MonPageOK(monPage', facts)
    BY <1>5, <2>1, <2>2, FramedOK DEF Fits
  <2>4. monPage'.notice.what = ""
    BY <1>0, <2>2, <2>3 DEF MonPageOK
  <2>5. Alone(monPage, monCalls[s]) => Rested(monPage')
    BY <2>1, <2>2, <2>3, <2>4 DEF Alone, Rested, Framed
  <2> QED BY <2>1, <2>2, <2>3, <2>5, MonEnds
<1>8. ASSUME NEW s \in Slots, MonLoaded(s) PROVE MonInv'
  <2>1. /\ monCalls[s].op = "load" /\ monCalls[s].get.at = "served"
        /\ UNCHANGED facts /\ monCalls' = [monCalls EXCEPT ![s] = Idle]
    BY <1>8 DEF MonLoaded, Put
  <2>2. /\ Framed /\ monPage'.notice = monPage.notice /\ monPage'.chart = monCalls[s].get.with.chart
        /\ monPage'.shown.state = monCalls[s].get.with.n
    BY <1>0, <1>8 DEF MonLoaded, Framed, MonFields
  <2>3. MonPageOK(monPage', facts) /\ monCalls[s].get.with.n \in Nat
    BY <1>5, <2>1, <2>2, FramedOK
  <2>4. Alone(monPage, monCalls[s]) => Rested(monPage')
    BY <2>1, <2>2, <2>3 DEF Alone, Rested, Framed
  <2> QED BY <2>1, <2>2, <2>3, <2>4, MonEnds
<1>9. ASSUME NEW s \in Slots, NEW call, monCalls[s].op # "idle", monCalls[s].act.at = "served",
             UNCHANGED facts, Framed, MonPageOK(monPage', facts),
             call = [monCalls[s] EXCEPT !.get = Sent(Nothing)],
             monCalls' = [monCalls EXCEPT ![s] = call], monPage.kind # "dashboard",
             monPage'.notice.what = "state" => monPage.kind = "link",
             monPage'.notice.what = "jobs" => monCalls[s].op = "loadtest"
      PROVE  MonInv'
  <2>1. /\ call.op = monCalls[s].op /\ call.act = monCalls[s].act /\ call.get.at = "sent"
        /\ DOMAIN call = {"op", "act", "get"}
    BY <1>5, <1>9 DEF Sent
  <2>2. MonHandler(call, monPage.kind, facts) /\ call # Idle /\ monCalls[s] # Idle
    BY <1>5, <1>9, <2>1 DEF MonHandler, Idle
  <2>3. Alone(monPage', call)
    BY <1>9, <2>1 DEF Alone, Framed
  <2>4. /\ facts' \in Nat /\ facts <= facts' /\ MonPageOK(monPage', facts')
        /\ MonHandler(call, monPage.kind, facts')
    BY <1>0, <1>9, <2>2
  <2> QED BY <1>9, <2>2, <2>3, <2>4, MonSlot DEF Framed
<1>10. ASSUME NEW s \in Slots, LinkActed(s) PROVE MonInv'
  <2> DEFINE call == [monCalls[s] EXCEPT !.get = Sent(Nothing)]
  <2>1. /\ monCalls[s].op = "action" /\ monCalls[s].act.at = "served"
        /\ UNCHANGED facts /\ monCalls' = [monCalls EXCEPT ![s] = call]
    BY <1>10 DEF LinkActed
  <2>2. Framed /\ monPage'.notice = Note("state", monCalls[s].act.with)
    BY <1>0, <1>10 DEF LinkActed, Framed, MonFields, Note
  <2>3. monPage.kind = "link" /\ monCalls[s].act.with \in Nat /\ monCalls[s].act.with <= facts
    BY <1>5, <2>1 DEF Fits
  <2>4. MonPageOK(monPage', facts) /\ monPage'.notice.what = "state"
    BY <2>2, <2>3, NoticeOK, Told
  <2> HIDE DEF call
  <2>5. call = [monCalls[s] EXCEPT !.get = Sent(Nothing)]
    BY DEF call
  <2> QED BY <1>9, <2>1, <2>2, <2>3, <2>4, <2>5
<1>11. ASSUME NEW s \in Slots, LicenseImported(s) PROVE MonInv'
  <2> DEFINE call == [monCalls[s] EXCEPT !.get = Sent(Nothing)]
  <2>1. /\ monCalls[s].op = "import" /\ monCalls[s].act.at = "served"
        /\ UNCHANGED facts /\ monCalls' = [monCalls EXCEPT ![s] = call]
    BY <1>11 DEF LicenseImported
  <2>2. Framed /\ monPage'.notice = NothingDone
    BY <1>0, <1>11 DEF LicenseImported, Framed, MonFields
  <2>3. monPage.kind = "security" /\ monPage'.notice.what = ""
    BY <1>5, <2>1, <2>2, NothingIsDone DEF Fits
  <2>4. monPage'.notice.did \in Nat /\ monPage'.notice.did <= facts
    BY <1>0, <2>2, NothingIsDone
  <2>5. MonPageOK(monPage', facts)
    BY <1>0, <2>2, <2>3, <2>4 DEF MonPageOK, Framed
  <2> HIDE DEF call
  <2>6. call = [monCalls[s] EXCEPT !.get = Sent(Nothing)]
    BY DEF call
  <2> QED BY <1>9, <2>1, <2>2, <2>3, <2>5, <2>6
<1>12. ASSUME NEW s \in Slots, LoadtestCreated(s) PROVE MonInv'
  <2> DEFINE call == [monCalls[s] EXCEPT !.get = Sent(Nothing)]
  <2>1. /\ monCalls[s].op = "loadtest" /\ monCalls[s].act.at = "served"
        /\ UNCHANGED facts /\ monCalls' = [monCalls EXCEPT ![s] = call]
    BY <1>12 DEF LoadtestCreated
  <2>2. Framed /\ monPage'.notice = Note("jobs", monCalls[s].act.with)
    BY <1>0, <1>12 DEF LoadtestCreated, Framed, MonFields, Note
  <2>3. monPage.kind = "diag" /\ monCalls[s].act.with \in Nat /\ monCalls[s].act.with <= facts
    BY <1>5, <2>1 DEF Fits
  <2>4. MonPageOK(monPage', facts) /\ monPage'.notice.what = "jobs"
    BY <2>2, <2>3, NoticeOK, Told
  <2> HIDE DEF call
  <2>5. call = [monCalls[s] EXCEPT !.get = Sent(Nothing)]
    BY DEF call
  <2> QED BY <1>9, <2>1, <2>2, <2>3, <2>4, <2>5
<1>13. ASSUME NEW s \in Slots, LinkReloaded(s) PROVE MonInv'
  <2>1. /\ monCalls[s].op = "action" /\ monCalls[s].get.at = "served"
        /\ UNCHANGED facts /\ monCalls' = [monCalls EXCEPT ![s] = Idle]
    BY <1>13 DEF LinkReloaded, Put
  <2>2. /\ Framed /\ monPage'.notice = monPage.notice
        /\ monPage'.shown.state = monCalls[s].get.with.n
    BY <1>0, <1>13 DEF LinkReloaded, Framed, MonFields
  <2>3. MonPageOK(monPage', facts) /\ monCalls[s].get.with.n \in Nat /\ monPage.kind = "link"
    BY <1>5, <2>1, <2>2, FramedOK DEF Fits
  <2>4. Alone(monPage, monCalls[s]) => Rested(monPage')
    BY <2>1, <2>2, <2>3 DEF Alone, Rested, Framed
  <2> QED BY <2>1, <2>2, <2>3, <2>4, MonEnds
<1>14. ASSUME NEW s \in Slots, LicenseReloaded(s) PROVE MonInv'
  <2>1. /\ monCalls[s].op = "import" /\ monCalls[s].get.at # "unsent"
        /\ UNCHANGED facts /\ monCalls' = [monCalls EXCEPT ![s] = Idle]
    BY <1>14 DEF LicenseReloaded, Put
  <2>2. /\ Framed /\ monPage'.notice = Note("state", monCalls[s].act.with)
        /\ \/ monPage'.error = TRUE
           \/ monCalls[s].get.at = "served" /\ monPage'.shown.state = monCalls[s].get.with.n
    <3>1. CASE /\ monCalls[s].get.at = "served"
               /\ monPage' = [monPage EXCEPT !.shown.state = monCalls[s].get.with.n,
                                !.notice = [what |-> "state", did |-> monCalls[s].act.with],
                                !.loading = FALSE, !.acting = FALSE]
      <4>1. /\ Framed
            /\ monPage'.shown.state = monCalls[s].get.with.n
        BY <1>0, <3>1 DEF Framed, MonFields
      <4>2. monPage'.notice = Note("state", monCalls[s].act.with)
        BY <1>0, <3>1 DEF MonFields, Note
      <4> QED BY <3>1, <4>1, <4>2
    <3>2. CASE monPage' = [monPage EXCEPT !.error = TRUE,
                             !.notice = [what |-> "state", did |-> monCalls[s].act.with],
                             !.loading = FALSE, !.acting = FALSE]
      <4>1. Framed /\ monPage'.error = TRUE
        BY <1>0, <3>2 DEF Framed, MonFields
      <4>2. monPage'.notice = Note("state", monCalls[s].act.with)
        BY <1>0, <3>2 DEF MonFields, Note
      <4> QED BY <4>1, <4>2
    <3> QED BY <1>14, <3>1, <3>2 DEF LicenseReloaded
  <2>3. /\ monPage.kind = "security" /\ monCalls[s].act.at = "served"
        /\ monCalls[s].act.with \in Nat /\ monCalls[s].act.with <= facts
    BY <1>5, <2>1 DEF Fits
  <2>4. /\ MonPageOK(monPage', facts) /\ monPage'.notice.what = "state"
        /\ monPage'.notice.did = monCalls[s].act.with
    BY <2>2, <2>3, NoticeOK, Told
  <2>5. CASE monPage'.error = TRUE
    <3>1. monPage'.error # FALSE
      BY <2>5
    <3> QED BY <2>1, <2>2, <2>4, <3>1, MonEnds
  <2>6. CASE monCalls[s].get.at = "served" /\ monPage'.shown.state = monCalls[s].get.with.n
    <3>1. monPage'.shown.state \in Nat /\ monPage'.notice.did <= monPage'.shown.state
      BY <1>5, <2>1, <2>3, <2>4, <2>6
    <3>2. Rested(monPage')
      BY <2>2, <2>3, <2>4, <3>1 DEF Rested, Framed
    <3> QED BY <2>1, <2>2, <2>4, <3>2, MonEnds
  <2> QED BY <2>2, <2>5, <2>6
<1>15. ASSUME NEW s \in Slots, LatestLoaded(s) PROVE MonInv'
  <2>1. /\ monCalls[s].op = "latest"
        /\ UNCHANGED facts /\ monCalls' = [monCalls EXCEPT ![s] = Idle]
    BY <1>15 DEF LatestLoaded, Put
  <2>2. Framed /\ monPage'.notice = monPage.notice
    BY <1>0, <1>15 DEF LatestLoaded, Framed, MonFields
  <2>3. MonPageOK(monPage', facts) /\ monPage.kind = "diag"
    BY <1>5, <2>1, <2>2, FramedOK DEF Fits
  <2>4. Alone(monPage, monCalls[s]) => Rested(monPage')
    BY <2>1, <2>2, <2>3 DEF Alone, Rested, Framed
  <2> QED BY <2>1, <2>2, <2>3, <2>4, MonEnds
<1>16. ASSUME NEW s \in Slots, LinkTested(s) PROVE MonInv'
  <2>1. /\ monCalls[s].op = "test" /\ monCalls[s].act.at = "served"
        /\ UNCHANGED facts /\ monCalls' = [monCalls EXCEPT ![s] = Idle]
    BY <1>16 DEF LinkTested, Put
  <2>2. /\ Framed /\ monPage'.notice = Note("state", monCalls[s].act.with)
        /\ monPage'.shown.state = monCalls[s].act.with
    BY <1>0, <1>16 DEF LinkTested, Framed, MonFields, Note
  <2>3. monPage.kind = "diag" /\ monCalls[s].act.with \in Nat /\ monCalls[s].act.with <= facts
    BY <1>5, <2>1 DEF Fits
  <2>4. /\ MonPageOK(monPage', facts) /\ monPage'.notice.what = "state"
        /\ monPage'.notice.did = monCalls[s].act.with
    BY <2>2, <2>3, NoticeOK, Told
  <2>5. monPage'.shown.state \in Nat /\ monPage'.notice.did <= monPage'.shown.state
    BY <2>2, <2>3, <2>4
  <2>6. Rested(monPage')
    BY <2>2, <2>3, <2>4, <2>5 DEF Rested, Framed
  <2> QED BY <2>1, <2>2, <2>4, <2>6, MonEnds
<1>17. ASSUME NEW s \in Slots, Exported(s) PROVE MonInv'
  <2>1. /\ monCalls[s].op = "export"
        /\ UNCHANGED facts /\ monCalls' = [monCalls EXCEPT ![s] = Idle]
    BY <1>17 DEF Exported, Put
  <2>2. Framed /\ monPage'.notice = Note("export", 0)
    BY <1>0, <1>17 DEF Exported, Framed, MonFields, Note
  <2>3. monPage.kind = "diag"
    BY <1>5, <2>1 DEF Fits
  <2>4. 0 \in Nat /\ 0 <= facts
    BY <1>0
  <2>5. MonPageOK(monPage', facts) /\ monPage'.notice.what = "export"
    BY <2>2, <2>3, <2>4, NoticeOK, Told
  <2>6. Rested(monPage')
    BY <2>2, <2>3, <2>5 DEF Rested, Framed
  <2> QED BY <2>1, <2>2, <2>5, <2>6, MonEnds
<1>18. ASSUME NEW s \in Slots, LoadtestListed(s) PROVE MonInv'
  <2>1. /\ monCalls[s].op = "loadtest" /\ monCalls[s].get.at = "served"
        /\ UNCHANGED facts /\ monCalls' = [monCalls EXCEPT ![s] = Idle]
    BY <1>18 DEF LoadtestListed, Put
  <2>2. /\ Framed /\ monPage'.notice = monPage.notice
        /\ monPage'.shown.jobs = monCalls[s].get.with.n
    BY <1>0, <1>18 DEF LoadtestListed, Framed, MonFields
  <2>3. MonPageOK(monPage', facts) /\ monCalls[s].get.with.n \in Nat /\ monPage.kind = "diag"
    BY <1>5, <2>1, <2>2, FramedOK DEF Fits
  <2>4. Alone(monPage, monCalls[s]) => Rested(monPage')
    BY <2>1, <2>2, <2>3 DEF Alone, Rested, Framed
  <2> QED BY <2>1, <2>2, <2>3, <2>4, MonEnds
<1>19. CASE MonitorNext
  BY <1>2, <1>3, <1>4, <1>6, <1>7, <1>8, <1>10, <1>11, <1>12, <1>13, <1>14, <1>15, <1>16, <1>17, <1>18,
     <1>19, MonBegins DEF MonitorNext
<1> QED BY <1>1, <1>19, PageTurns

LEMMA MonAlways == Spec => []MonInv
BY MonInitially, MonStep, PTL DEF Spec

LEMMA AtRest == MonInv /\ Settled => Rested(monPage)
<1> SUFFICES ASSUME MonInv, Settled PROVE Rested(monPage)
  OBVIOUS
<1>1. monPage.error \in BOOLEAN /\ monPage.raced \in BOOLEAN
  BY DEF MonInv, MonPageOK
<1>2. UnderWay = {} /\ monPage.error = FALSE /\ monPage.raced = FALSE
  BY <1>1 DEF Settled
<1> QED BY <1>2 DEF MonInv

\* The trend chart is of the selection on the screen once all is answered, for any number of
\* selections and reloads of which the last did not overlap another.
THEOREM ChartFollowsSelection == Spec => []ChartIsOfSelection
<1>1. MonInv => ChartIsOfSelection
  BY AtRest DEF ChartIsOfSelection, Rested
<1> QED BY <1>1, MonAlways, PTL

\* A page that says "done" of an action shows what the gateway had after it, if it shows no
\* error.
THEOREM ActionsAreShown == Spec => []ActionIsShown
<1>1. ASSUME MonInv PROVE ActionIsShown
  <2> SUFFICES ASSUME Settled, NEW what \in {"state", "jobs"}, monPage.notice.what = what
               PROVE  monPage.shown[what] # Nothing /\ monPage.shown[what] >= monPage.notice.did
    BY DEF ActionIsShown
  <2>1. Rested(monPage) /\ monPage.notice.did \in Nat
    BY <1>1, AtRest DEF MonInv, MonPageOK
  <2>2. monPage.shown[what] \in Nat /\ monPage.notice.did <= monPage.shown[what]
    BY <2>1 DEF Rested
  <2>3. monPage.shown[what] # Nothing
    BY <2>2, CountAssumption
  <2> QED BY <2>1, <2>2, <2>3
<1> QED BY <1>1, MonAlways, PTL

-----------------------------------------------------------------------------
(* The nodes and cascade page.                                             *)

LEMMA NodesSteps ==
  ASSUME [Next]_vars
  PROVE  NodesNext \/ UNCHANGED nodesVars
BY DEF Next, vars, OnSettings, OnNodes, OnProtection, OnLimits, OnMapping, OnResource, OnList,
   OnMonitor, OnMock

-----------------------------------------------------------------------------
(* The invariant.                                                          *)

NodeOK(n) ==
  /\ DOMAIN n = {"range", "mode", "relay", "auth", "secret", "torn"}
  /\ n.mode \in Modes /\ n.relay \in RelayModes /\ n.torn \in BOOLEAN

WorkspaceOK(ws) ==
  /\ DOMAIN ws = {"range", "mode", "relay", "code", "channel", "matrix", "auth", "configured", "access"}
  /\ ws.mode \in Modes /\ ws.relay \in RelayModes

\* What the gateway derives from the two modes.
Derived(ws) ==
  /\ ws.channel = normalizeTunnelConfigPayload(ws.mode, ws.relay)
  /\ ws.matrix = DeriveCapability(ws.mode)

\* A reason to think that there is a password holds as long as no password was lost.
Secured(n, reason) == n.torn = FALSE /\ reason => n.secret # Nothing

PageSound(n, page) ==
  /\ DOMAIN page = {"ws", "input", "loading", "saving", "error", "notice"}
  /\ page.ws # Nothing => /\ WorkspaceOK(page.ws) /\ Derived(page.ws)
                          /\ Secured(n, page.ws.configured)

\* A POST that was read holds the secret it will store: one if authentication is to be
\* on, and one if there was one.
PostSound(n, post) ==
  /\ DOMAIN post = {"at", "with"}
  /\ post.at = "sent" => /\ WorkspaceOK(post.with.ws)
                         /\ Secured(n, post.with.ws.auth /\ post.with.password = Nothing)
  /\ post.at = "read" => /\ WorkspaceOK(post.with.ws)
                         /\ n.torn = FALSE /\ post.with.ws.auth => post.with.secret # Nothing
                         /\ post.with.secret = Nothing => post.with.was = Nothing

GetSound(n, get) ==
  /\ DOMAIN get = {"at", "with"}
  /\ get.at = "served" => WorkspaceOK(get.with) /\ Secured(n, get.with.configured)

CallSound(n, call) ==
  \/ call = Idle
  \/ /\ DOMAIN call = {"op", "post", "get"} /\ call.op \in {"load", "save", "left"}
     /\ PostSound(n, call.post) /\ GetSound(n, call.get)

NodesInv ==
  /\ NodeOK(node) /\ Secured(node, node.auth)
  /\ PageSound(node, nodesPage)
  /\ nodesCalls = [s \in Slots |-> nodesCalls[s]]
  /\ \A s \in Slots : CallSound(node, nodesCalls[s])

\* A store that is not torn was not torn before, and has lost no password.
SecretKept(n, m) == m.torn = FALSE => n.torn = FALSE /\ (n.secret # Nothing => m.secret # Nothing)

LEMMA StaysSound ==
  ASSUME NEW n, NEW m, SecretKept(n, m)
  PROVE  /\ \A page : PageSound(n, page) => PageSound(m, page)
         /\ \A post : PostSound(n, post) => PostSound(m, post)
         /\ \A get : GetSound(n, get) => GetSound(m, get)
         /\ \A call : CallSound(n, call) => CallSound(m, call)
<1>1. ASSUME NEW reason, Secured(n, reason) PROVE Secured(m, reason)
  BY <1>1 DEF Secured, SecretKept
<1>2. ASSUME NEW page, PageSound(n, page) PROVE PageSound(m, page)
  BY <1>2 DEF PageSound, Secured, SecretKept
<1>3. ASSUME NEW post, PostSound(n, post) PROVE PostSound(m, post)
  BY <1>3 DEF PostSound, Secured, SecretKept
<1>4. ASSUME NEW get, GetSound(n, get) PROVE GetSound(m, get)
  BY <1>4 DEF GetSound, Secured, SecretKept
<1>5. ASSUME NEW call, CallSound(n, call) PROVE CallSound(m, call)
  BY <1>3, <1>4, <1>5 DEF CallSound
<1> QED BY <1>2, <1>3, <1>4, <1>5

\* A step that changes one slot.
LEMMA SlotSound ==
  ASSUME NodesInv, NodeOK(node'), Secured(node', node'.auth), SecretKept(node, node'),
         PageSound(node', nodesPage'),
         NEW s \in Slots, NEW call, CallSound(node', call),
         nodesCalls' = [nodesCalls EXCEPT ![s] = call]
  PROVE  NodesInv'
<1>1. nodesCalls' = [t \in Slots |-> nodesCalls'[t]]
  BY DEF NodesInv
<1>2. ASSUME NEW t \in Slots PROVE CallSound(node', nodesCalls'[t])
  <2>1. CASE t = s
    BY <2>1 DEF NodesInv
  <2>2. CASE t # s
    <3>1. nodesCalls'[t] = nodesCalls[t] /\ CallSound(node, nodesCalls[t])
      BY <2>2 DEF NodesInv
    <3> QED BY <3>1, StaysSound
  <2> QED BY <2>1, <2>2
<1> QED BY <1>1, <1>2 DEF NodesInv

\* The same when the store stays as it is.
LEMMA SlotOnly ==
  ASSUME NodesInv, UNCHANGED node, PageSound(node, nodesPage'),
         NEW s \in Slots, NEW call, CallSound(node, call),
         nodesCalls' = [nodesCalls EXCEPT ![s] = call]
  PROVE  NodesInv'
<1>1. NodeOK(node') /\ Secured(node', node'.auth) /\ SecretKept(node, node')
  BY DEF NodesInv, SecretKept
<1>2. PageSound(node', nodesPage') /\ CallSound(node', call)
  OBVIOUS
<1> QED BY <1>1, <1>2, SlotSound

\* An edit.
LEMMA PageOnly ==
  ASSUME NodesInv, UNCHANGED <<node, nodesCalls>>, PageSound(node, nodesPage')
  PROVE  NodesInv'
BY DEF NodesInv

\* The two derivations of the page are those of the gateway, for every mode it knows.
LEMMA LinkageDerives ==
  ASSUME NEW ws, WorkspaceOK(ws)
  PROVE  LET new == applyNetworkModeLinkage(ws) IN
         WorkspaceOK(new) /\ Derived(new) /\ new.configured = ws.configured
<1> DEFINE new == applyNetworkModeLinkage(ws)
<1>1. /\ DOMAIN new = DOMAIN ws /\ new.mode = ws.mode /\ new.relay = ws.relay
      /\ new.configured = ws.configured
      /\ new.matrix = deriveCapabilityMatrix(ws.mode)
      /\ new.channel = IF ws.mode = "SENDER_SIP__RECEIVER_SIP" \/ ws.relay = "SIP_ONLY" THEN "SIP"
                       ELSE IF ws.mode = "SENDER_SIP__RECEIVER_RTP" THEN "RTP" ELSE "SIP/RTP"
  BY DEF WorkspaceOK, applyNetworkModeLinkage
<1> HIDE DEF new
<1>2. deriveCapabilityMatrix(ws.mode) = DeriveCapability(ws.mode)
  BY NodeValues DEF WorkspaceOK, deriveCapabilityMatrix, DeriveCapability
<1>3. new.channel = normalizeTunnelConfigPayload(ws.mode, ws.relay)
  BY <1>1 DEF WorkspaceOK, normalizeTunnelConfigPayload, RelayModes
<1>4. WorkspaceOK(new) /\ Derived(new)
  BY <1>1, <1>2, <1>3 DEF WorkspaceOK, Derived
<1> QED BY <1>1, <1>4 DEF new

\* The gateway's answer.
LEMMA WorkspaceAnswer ==
  ASSUME NodeOK(node)
  PROVE  /\ WorkspaceOK(handleNodeTunnelWorkspaceGet)
         /\ Secured(node, handleNodeTunnelWorkspaceGet.configured)
BY DEF NodeOK, WorkspaceOK, handleNodeTunnelWorkspaceGet, Secured

-----------------------------------------------------------------------------
LEMMA NodesInitially == Init => NodesInv
<1> SUFFICES ASSUME Init PROVE NodesInv
  OBVIOUS
<1>1. NodeStores # {}
  <2>1. PICK range \in Ranges, mode \in Modes : TRUE
    BY NodeValues
  <2> DEFINE n == [range |-> range, mode |-> mode, relay |-> "AUTO", auth |-> FALSE,
                   secret |-> Nothing, torn |-> FALSE]
  <2>2. n \in NodeStores
    BY DEF NodeStores, TunnelConfigPayload, RelayModes, Maybe
  <2> QED BY <2>2
<1>2. node \in NodeStores
  BY <1>1 DEF Init, NodesInit, On
<1>3. NodeOK(node) /\ Secured(node, node.auth)
  BY <1>2 DEF NodeStores, TunnelConfigPayload, NodeOK, Secured
<1>4. PageSound(node, nodesPage)
  BY DEF Init, NodesInit, PageSound
<1>5. nodesCalls = [s \in Slots |-> Idle]
  BY DEF Init, NodesInit, NoCalls
<1> QED BY <1>3, <1>4, <1>5 DEF NodesInv, CallSound

-----------------------------------------------------------------------------
(* The steps.                                                              *)

\* The handler in a slot that waits or was left.
LEMMA IsCall ==
  ASSUME NodesInv, NEW s \in Slots, nodesCalls[s].op \in {"load", "save", "left"} \/ nodesCalls[s] # Idle
  PROVE  /\ DOMAIN nodesCalls[s] = {"op", "post", "get"} /\ nodesCalls[s].op \in {"load", "save", "left"}
         /\ PostSound(node, nodesCalls[s].post) /\ GetSound(node, nodesCalls[s].get)
BY DEF NodesInv, CallSound, Idle

LEMMA FirstRequests ==
  ASSUME NEW n
  PROVE  /\ PostSound(n, Unsent) /\ GetSound(n, Unsent) /\ GetSound(n, Sent(Nothing))
         /\ \A ws, password : WorkspaceOK(ws) /\ Secured(n, ws.auth /\ password = Nothing)
              => PostSound(n, Sent([ws |-> ws, password |-> password]))
<1>1. PostSound(n, Unsent) /\ GetSound(n, Unsent) /\ GetSound(n, Sent(Nothing))
  BY DEF PostSound, GetSound, Unsent, Sent
<1>2. ASSUME NEW ws, NEW password, WorkspaceOK(ws), Secured(n, ws.auth /\ password = Nothing)
      PROVE  PostSound(n, Sent([ws |-> ws, password |-> password]))
  BY <1>2 DEF PostSound, Sent
<1> QED BY <1>1, <1>2

LEMMA NodesStep == NodesInv /\ [Next]_vars => NodesInv'
<1> SUFFICES ASSUME NodesInv, [Next]_vars PROVE NodesInv'
  OBVIOUS
<1>0. NodeOK(node) /\ PageSound(node, nodesPage)
  BY DEF NodesInv
<1>1. CASE UNCHANGED nodesVars
  BY <1>1 DEF NodesInv, nodesVars
<1>2. CallSound(node, Idle)
  BY DEF CallSound
<1>3. CASE NodesLoad
  <2> DEFINE call == [op |-> "load", post |-> Unsent, get |-> Sent(Nothing)]
  <2>1. PICK s \in Slots : nodesCalls' = [nodesCalls EXCEPT ![s] = call]
    BY <1>3 DEF NodesLoad, Free, Put
  <2>2. CallSound(node, call)
    BY FirstRequests DEF CallSound
  <2>3. PageSound(node, nodesPage') /\ UNCHANGED node
    BY <1>0, <1>3 DEF NodesLoad, PageSound
  <2> HIDE DEF call
  <2> QED BY <2>1, <2>2, <2>3, SlotOnly
<1>4. CASE NodesSave
  <2> DEFINE ws == generateNodeCodes(nodesPage.ws)
             call == [op |-> "save", get |-> Unsent,
                      post |-> Sent([ws |-> ws, password |-> nodesPage.input])]
  <2>1. /\ WorkspaceOK(nodesPage.ws) /\ Derived(nodesPage.ws) /\ Secured(node, nodesPage.ws.configured)
        /\ nodesPage.ws # Nothing
    BY <1>0, <1>4 DEF NodesSave, PageSound
  <2>2. /\ WorkspaceOK(ws) /\ Derived(ws) /\ ws.configured = nodesPage.ws.configured
        /\ ws.auth = nodesPage.ws.auth
    BY <2>1 DEF generateNodeCodes, WorkspaceOK, Derived
  <2>3. UNCHANGED node
    BY <1>4 DEF NodesSave
  <2>4. PageSound(node, nodesPage')
    <3>1. nodesPage'.ws = ws /\ DOMAIN nodesPage' = DOMAIN nodesPage
      BY <1>0, <1>4 DEF NodesSave, PageSound
    <3> HIDE DEF ws
    <3>2. Secured(node, ws.configured)
      BY <2>1, <2>2
    <3> QED BY <1>0, <2>2, <3>1, <3>2 DEF PageSound
  <2>5. CASE NodesValidate(ws, nodesPage.input)
    <3>1. PICK s \in Slots : nodesCalls' = [nodesCalls EXCEPT ![s] = call]
      BY <1>4, <2>5 DEF NodesSave, Free, Put
    <3> HIDE DEF ws
    <3>2. Secured(node, ws.auth /\ nodesPage.input = Nothing)
      BY <2>1, <2>2, <2>5 DEF NodesValidate, Secured
    <3>3. PostSound(node, Sent([ws |-> ws, password |-> nodesPage.input]))
      BY <2>2, <3>2, FirstRequests
    <3>4. CallSound(node, call)
      BY <3>3, FirstRequests DEF CallSound
    <3> HIDE DEF call
    <3> QED BY <2>3, <2>4, <3>1, <3>4, SlotOnly
  <2>6. CASE ~NodesValidate(ws, nodesPage.input)
    <3>1. UNCHANGED nodesCalls
      BY <1>4, <2>6 DEF NodesSave
    <3> QED BY <2>3, <2>4, <3>1, PageOnly
  <2> QED BY <2>5, <2>6
<1>5. CASE OtherWorkspaceSave
  <2> DEFINE got == handleNodeTunnelWorkspaceGet
             Ws(range, auth) == [got EXCEPT !.range = range, !.auth = auth]
             Call(ws) == [op |-> "left", get |-> Unsent, post |-> Sent([ws |-> ws, password |-> Nothing])]
  <2>1. PICK range \in Ranges, auth \in BOOLEAN, s \in Slots :
          /\ NodesValidate(Ws(range, auth), Nothing)
          /\ nodesCalls' = [nodesCalls EXCEPT ![s] = Call(Ws(range, auth))]
    BY <1>5 DEF OtherWorkspaceSave, Free, Put
  <2> DEFINE ws == Ws(range, auth)
  <2>2. WorkspaceOK(got) /\ Secured(node, got.configured)
    BY <1>0, WorkspaceAnswer
  <2> HIDE DEF got
  <2>3. WorkspaceOK(ws) /\ ws.configured = got.configured
    BY <2>2 DEF WorkspaceOK
  <2>4. NodesValidate(ws, Nothing) /\ nodesCalls' = [nodesCalls EXCEPT ![s] = Call(ws)]
    BY <2>1
  <2> HIDE DEF ws
  <2>5. Secured(node, ws.auth /\ Nothing = Nothing)
    BY <2>2, <2>3, <2>4 DEF NodesValidate, Secured
  <2>6. PostSound(node, Sent([ws |-> ws, password |-> Nothing]))
    BY <2>3, <2>5, FirstRequests
  <2>7. CallSound(node, Call(ws))
    BY <2>6, FirstRequests DEF CallSound
  <2>8. UNCHANGED <<node, nodesPage>>
    BY <1>5 DEF OtherWorkspaceSave
  <2> HIDE DEF Call
  <2> QED BY <1>0, <2>4, <2>7, <2>8, SlotOnly
<1>6. CASE NodesEdit
  <2>1. /\ nodesPage.ws # Nothing /\ WorkspaceOK(nodesPage.ws) /\ Derived(nodesPage.ws)
        /\ Secured(node, nodesPage.ws.configured) /\ UNCHANGED <<node, nodesCalls>>
    BY <1>0, <1>6 DEF NodesEdit, PageSound
  <2>2. /\ DOMAIN nodesPage' = DOMAIN nodesPage
        /\ \/ nodesPage'.ws = nodesPage.ws
           \/ \E v : nodesPage'.ws = [nodesPage.ws EXCEPT !.range = v]
           \/ nodesPage'.ws = [nodesPage.ws EXCEPT !.code = ""]
           \/ nodesPage'.ws = [nodesPage.ws EXCEPT !.auth = ~@]
    BY <1>0, <1>6 DEF NodesEdit, PageSound
  <2>3. /\ WorkspaceOK(nodesPage'.ws) /\ Derived(nodesPage'.ws)
        /\ nodesPage'.ws.configured = nodesPage.ws.configured
    <3>1. CASE nodesPage'.ws = nodesPage.ws
      BY <2>1, <3>1
    <3>2. CASE \E v : nodesPage'.ws = [nodesPage.ws EXCEPT !.range = v]
      BY <2>1, <3>2 DEF WorkspaceOK, Derived
    <3>3. CASE nodesPage'.ws = [nodesPage.ws EXCEPT !.code = ""]
      BY <2>1, <3>3 DEF WorkspaceOK, Derived
    <3>4. CASE nodesPage'.ws = [nodesPage.ws EXCEPT !.auth = ~@]
      BY <2>1, <3>4 DEF WorkspaceOK, Derived
    <3> QED BY <2>2, <3>1, <3>2, <3>3, <3>4
  <2>4. PageSound(node, nodesPage')
    BY <1>0, <2>1, <2>2, <2>3 DEF PageSound
  <2> QED BY <2>1, <2>4, PageOnly
<1>7. ASSUME NEW ws, WorkspaceOK(ws), Secured(node, ws.configured), UNCHANGED <<node, nodesCalls>>,
             nodesPage' = [nodesPage EXCEPT !.ws = applyNetworkModeLinkage(ws)]
      PROVE  NodesInv'
  <2> DEFINE new == applyNetworkModeLinkage(ws)
  <2>1. WorkspaceOK(new) /\ Derived(new) /\ new.configured = ws.configured
    BY <1>7, LinkageDerives
  <2>2. nodesPage'.ws = new /\ DOMAIN nodesPage' = DOMAIN nodesPage
    BY <1>0, <1>7 DEF PageSound
  <2> HIDE DEF new
  <2>3. PageSound(node, nodesPage')
    BY <1>0, <1>7, <2>1, <2>2 DEF PageSound
  <2> QED BY <1>7, <2>3, PageOnly
<1>8. CASE NodesEditMode
  <2>1. PICK mode \in Modes :
          nodesPage' = [nodesPage EXCEPT !.ws = applyNetworkModeLinkage([nodesPage.ws EXCEPT !.mode = mode])]
    BY <1>8 DEF NodesEditMode
  <2> DEFINE ws == [nodesPage.ws EXCEPT !.mode = mode]
  <2>2. WorkspaceOK(nodesPage.ws) /\ Secured(node, nodesPage.ws.configured) /\ UNCHANGED <<node, nodesCalls>>
    BY <1>0, <1>8 DEF NodesEditMode, PageSound
  <2>3. WorkspaceOK(ws) /\ ws.configured = nodesPage.ws.configured
    BY <2>2 DEF WorkspaceOK
  <2>4. nodesPage' = [nodesPage EXCEPT !.ws = applyNetworkModeLinkage(ws)]
    BY <2>1
  <2> HIDE DEF ws
  <2> QED BY <1>7, <2>2, <2>3, <2>4
<1>9. CASE NodesEditRelay
  <2>1. PICK relay \in RelayModes :
          nodesPage' = [nodesPage EXCEPT !.ws = applyNetworkModeLinkage([nodesPage.ws EXCEPT !.relay = relay])]
    BY <1>9 DEF NodesEditRelay
  <2> DEFINE ws == [nodesPage.ws EXCEPT !.relay = relay]
  <2>2. WorkspaceOK(nodesPage.ws) /\ Secured(node, nodesPage.ws.configured) /\ UNCHANGED <<node, nodesCalls>>
    BY <1>0, <1>9 DEF NodesEditRelay, PageSound
  <2>3. WorkspaceOK(ws) /\ ws.configured = nodesPage.ws.configured
    BY <2>2 DEF WorkspaceOK
  <2>4. nodesPage' = [nodesPage EXCEPT !.ws = applyNetworkModeLinkage(ws)]
    BY <2>1
  <2> HIDE DEF ws
  <2> QED BY <1>7, <2>2, <2>3, <2>4
<1>10. ASSUME NEW s \in Slots, NodesLoaded(s) \/ NodesApplied(s) PROVE NodesInv'
  <2> DEFINE new == applyNetworkModeLinkage(nodesCalls[s].get.with)
  <2>1. /\ nodesCalls[s].op \in {"load", "save"} /\ nodesCalls[s].get.at = "served" /\ UNCHANGED node
        /\ nodesCalls' = [nodesCalls EXCEPT ![s] = Idle]
    BY <1>10 DEF NodesLoaded, NodesApplied, Put
  <2>2. WorkspaceOK(nodesCalls[s].get.with) /\ Secured(node, nodesCalls[s].get.with.configured)
    BY <2>1, IsCall DEF GetSound
  <2>3. WorkspaceOK(new) /\ Derived(new) /\ new.configured = nodesCalls[s].get.with.configured
    BY <2>2, LinkageDerives
  <2>4. nodesPage'.ws = new /\ DOMAIN nodesPage' = DOMAIN nodesPage
    BY <1>0, <1>10 DEF NodesLoaded, NodesApplied, PageSound
  <2> HIDE DEF new
  <2>5. PageSound(node, nodesPage')
    BY <1>0, <2>2, <2>3, <2>4 DEF PageSound
  <2> QED BY <1>2, <2>1, <2>5, SlotOnly
<1>11. ASSUME NEW s \in Slots, NodesReread(s) PROVE NodesInv'
  <2> DEFINE call == [nodesCalls[s] EXCEPT !.get = Sent(Nothing)]
  <2>1. /\ nodesCalls[s].op = "save" /\ UNCHANGED <<node, nodesPage>>
        /\ nodesCalls' = [nodesCalls EXCEPT ![s] = call]
    BY <1>11 DEF NodesReread
  <2>2. CallSound(node, call)
    BY <2>1, IsCall, FirstRequests DEF CallSound
  <2> HIDE DEF call
  <2> QED BY <1>0, <2>1, <2>2, SlotOnly
<1>12. ASSUME NEW s \in Slots, NodesFails(s) PROVE NodesInv'
  <2> DEFINE call == [nodesCalls[s] EXCEPT !.op = "left"]
  <2>1. /\ nodesCalls[s].op \in {"load", "save"} /\ UNCHANGED node
        /\ \/ nodesCalls' = [nodesCalls EXCEPT ![s] = call]
           \/ nodesCalls' = [nodesCalls EXCEPT ![s] = Idle]
    BY <1>12 DEF NodesFails, Leave, Put
  <2>2. CallSound(node, call)
    BY <2>1, IsCall DEF CallSound
  <2>3. PageSound(node, nodesPage')
    BY <1>0, <1>12 DEF NodesFails, PageSound
  <2> HIDE DEF call
  <2> QED BY <1>2, <2>1, <2>2, <2>3, SlotOnly
<1>13. ASSUME NEW s \in Slots, NodesLeft(s) PROVE NodesInv'
  <2>1. UNCHANGED <<node, nodesPage>> /\ nodesCalls' = [nodesCalls EXCEPT ![s] = Idle]
    BY <1>13 DEF NodesLeft, Put
  <2> QED BY <1>0, <1>2, <2>1, SlotOnly
<1>14. ASSUME NEW s \in Slots, NodesServeGet(s) PROVE NodesInv'
  <2> DEFINE got == handleNodeTunnelWorkspaceGet
             call == [nodesCalls[s] EXCEPT !.get = Served(got)]
  <2>1. /\ nodesCalls[s].op \in {"load", "save"} /\ UNCHANGED <<node, nodesPage>>
        /\ nodesCalls' = [nodesCalls EXCEPT ![s] = call]
    BY <1>14 DEF NodesServeGet
  <2>2. WorkspaceOK(got) /\ Secured(node, got.configured)
    BY <1>0, WorkspaceAnswer
  <2> HIDE DEF got
  <2>3. GetSound(node, Served(got))
    BY <2>2 DEF GetSound, Served
  <2>4. CallSound(node, call)
    BY <2>1, <2>3, IsCall DEF CallSound
  <2> HIDE DEF call
  <2> QED BY <1>0, <2>1, <2>4, SlotOnly
<1>15. ASSUME NEW s \in Slots, NodesServePost(s), nodesCalls[s].post.at = "sent" PROVE NodesInv'
  <2> DEFINE sent == nodesCalls[s].post.with
             found == [ws |-> sent.ws, secret |-> SecretToStore(sent.password), was |-> node.secret]
             call == [nodesCalls[s] EXCEPT !.post = Read(found)]
  <2>1. /\ nodesCalls[s] # Idle /\ UNCHANGED nodesPage
        /\ node' = [node EXCEPT !.range = sent.ws.range, !.mode = sent.ws.mode]
        /\ nodesCalls' = [nodesCalls EXCEPT ![s] = call]
    BY <1>15 DEF NodesServePost, ApplyWorkspace
  <2>2. WorkspaceOK(sent.ws) /\ Secured(node, sent.ws.auth /\ sent.password = Nothing)
    BY <1>15, <2>1, IsCall DEF PostSound
  <2>3. /\ node'.auth = node.auth /\ node'.secret = node.secret /\ node'.torn = node.torn
        /\ node'.relay = node.relay /\ node'.mode = sent.ws.mode /\ DOMAIN node' = DOMAIN node
    BY <1>0, <2>1 DEF NodeOK
  <2>4. NodeOK(node') /\ Secured(node', node'.auth) /\ SecretKept(node, node')
    BY <1>0, <2>2, <2>3 DEF NodeOK, WorkspaceOK, Secured, SecretKept, NodesInv
  <2>5. /\ found.ws = sent.ws /\ found.was = node.secret
        /\ found.secret = IF sent.password = Nothing THEN node.secret ELSE sent.password
    BY DEF SecretToStore
  <2> HIDE DEF found
  <2>6. Read(found).at = "read" /\ Read(found).with = found /\ DOMAIN Read(found) = {"at", "with"}
    BY DEF Read
  <2>7. PostSound(node', Read(found))
    BY <2>2, <2>3, <2>5, <2>6 DEF PostSound, Secured
  <2>8. GetSound(node', nodesCalls[s].get) /\ PageSound(node', nodesPage')
    BY <1>0, <2>1, <2>4, IsCall, StaysSound, ZenonT(60)
  <2>9. CallSound(node', call)
    BY <2>1, <2>7, <2>8, IsCall DEF CallSound
  <2> HIDE DEF call
  <2> QED BY <2>1, <2>4, <2>8, <2>9, SlotSound
<1>16. ASSUME NEW s \in Slots, NodesServePost(s), nodesCalls[s].post.at # "sent" PROVE NodesInv'
  <2> DEFINE sent == nodesCalls[s].post.with
             call == [nodesCalls[s] EXCEPT !.post = Served(sent.ws.range)]
  <2>1. /\ nodesCalls[s] # Idle /\ UNCHANGED nodesPage /\ nodesCalls[s].post.at = "read"
        /\ node' = [node EXCEPT !.relay = sent.ws.relay, !.auth = sent.ws.auth, !.secret = sent.secret,
                                !.torn = node.torn \/ sent.was # node.secret]
        /\ nodesCalls' = [nodesCalls EXCEPT ![s] = call]
    BY <1>16 DEF NodesServePost, handleNodeTunnelWorkspacePost
  <2>2. /\ WorkspaceOK(sent.ws)
        /\ node.torn = FALSE /\ sent.ws.auth => sent.secret # Nothing
        /\ sent.secret = Nothing => sent.was = Nothing
    BY <2>1, IsCall DEF PostSound
  <2>3. /\ node'.auth = sent.ws.auth /\ node'.secret = sent.secret
        /\ node'.torn = (node.torn \/ sent.was # node.secret)
        /\ node'.relay = sent.ws.relay /\ node'.mode = node.mode /\ DOMAIN node' = DOMAIN node
    BY <1>0, <2>1 DEF NodeOK
  <2>4. node'.torn \in BOOLEAN /\ (node'.torn = FALSE => node.torn = FALSE /\ sent.was = node.secret)
    BY <1>0, <2>3 DEF NodeOK
  <2>5. NodeOK(node') /\ Secured(node', node'.auth) /\ SecretKept(node, node')
    BY <1>0, <2>2, <2>3, <2>4 DEF NodeOK, WorkspaceOK, Secured, SecretKept
  <2>6. PostSound(node', Served(sent.ws.range))
    BY DEF PostSound, Served
  <2>7. GetSound(node', nodesCalls[s].get) /\ PageSound(node', nodesPage')
    BY <1>0, <2>1, <2>5, IsCall, StaysSound, ZenonT(60)
  <2>8. CallSound(node', call)
    BY <2>1, <2>6, <2>7, IsCall DEF CallSound
  <2> HIDE DEF call
  <2> QED BY <2>1, <2>5, <2>7, <2>8, SlotSound
<1>17. CASE NodesNext
  BY <1>3, <1>4, <1>5, <1>6, <1>8, <1>9, <1>10, <1>11, <1>12, <1>13, <1>14, <1>15, <1>16, <1>17
     DEF NodesNext
<1> QED BY <1>1, <1>17, NodesSteps

LEMMA NodesAlways == Spec => []NodesInv
BY NodesInitially, NodesStep, PTL DEF Spec

\* The response channel and the capabilities on the screen are those the gateway will derive
\* for the modes on the screen, for any number of overlapping loads, saves and edits.
THEOREM LinkageIsDerived == Spec => []LinkageHolds
<1>1. NodesInv => LinkageHolds
  BY DEF NodesInv, PageSound, Derived, LinkageHolds
<1> QED BY <1>1, NodesAlways, PTL

\* Digest authentication is on only with a password stored, although only the page checks it,
\* against a flag that may be old: no POST that was read whole takes a password away.
THEOREM AuthKeepsSecret == Spec => []AuthHasSecret
<1>1. NodesInv => AuthHasSecret
  BY DEF NodesInv, NodeOK, Secured, AuthHasSecret
<1> QED BY <1>1, NodesAlways, PTL
=============================================================================
