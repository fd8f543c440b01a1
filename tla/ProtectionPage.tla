--------------------------- MODULE ProtectionPage ---------------------------
(***************************************************************************)
(* The alerts and protection page (AlertsAndRateLimitView.vue) and the     *)
(* small rate limit dialog (RateLimitPoliciesView.vue) against the         *)
(* protection endpoints of the gateway.                                    *)
(*                                                                         *)
(* The protection page shows the gateway's state and, in inputs that are   *)
(* open only while `editing`, a form filled from it (syncForm).  Every     *)
(* action of the page is answered with the whole state, which replaces     *)
(* both.  A spinner lies over everything but the header while any of the   *)
(* five flags is set; the header's buttons (refresh, recover, edit,        *)
(* cancel, save) can always be pressed, except one that is itself loading. *)
(***************************************************************************)
EXTENDS GatewaySettings

CONSTANTS
  Rules,       \* alert and circuit rules with their thresholds
  Targets      \* source addresses or mappings a restriction can name

VARIABLES
  protection,  \* the gateway: rules, restrictions in force, a circuit open
  protPage,
  protCalls,
  policyPage,  \* RateLimitPoliciesView
  policyCalls

protectionVars == <<protection, protPage, protCalls, policyPage, policyCalls>>

NoNotice == [kind |-> "", target |-> Nothing, did |-> Nothing]

ProtectionStores == [rules : Rules, restrictions : {{}}, open : BOOLEAN]

ProtectionInit(stores) ==
  /\ protection \in stores
  /\ protPage = [state |-> Nothing, form |-> Nothing, editing |-> FALSE, loading |-> FALSE,
                 saving |-> FALSE, recovering |-> FALSE, restricting |-> FALSE,
                 removing |-> FALSE, error |-> FALSE, notice |-> NoNotice, target |-> Nothing]
  /\ protCalls = NoCalls
  /\ policyPage = [limit |-> 0, form |-> 0, open |-> FALSE]
  /\ policyCalls = NoCalls

(***************************************************************************)
(* The gateway.  An action is a record [kind, body]; each answers with the *)
(* state that holds after it.                                              *)
(***************************************************************************)
currentProtectionState ==
  [rules |-> protection.rules, limit |-> running.limit,
   restrictions |-> protection.restrictions, open |-> protection.open]

\* An empty rule or limit keeps the one in force; so the limit that was tuned
\* last becomes the baseline.
handleProtectionStatePut(form) ==
  /\ settings.writes < MaxWrites
  /\ protection' = [protection EXCEPT !.rules = IF form.rules = Nothing THEN @ ELSE form.rules]
  /\ LET limit == IF form.limit > 0 THEN form.limit ELSE running.limit IN
     /\ settings' = [settings EXCEPT !.limit = limit, !.writes = @ + 1]
     /\ running' = [running EXCEPT !.limit = limit]
  /\ UNCHANGED disk

handleProtectionRestrictions(kind, target) ==
  /\ protection' = [protection EXCEPT
       !.restrictions = IF kind = "restrict" THEN @ \cup {target} ELSE @ \ {target}]
  /\ UNCHANGED gatewayVars

handleProtectionCircuitRecover ==
  /\ protection' = [protection EXCEPT !.open = FALSE]
  /\ UNCHANGED gatewayVars

handleLimitsPut(limit) ==
  /\ settings.writes < MaxWrites
  /\ limit > 0
  /\ settings' = [settings EXCEPT !.limit = limit, !.writes = @ + 1]
  /\ running' = [running EXCEPT !.limit = limit]
  /\ UNCHANGED <<disk, protection>>

RestrictionExpires ==
  /\ \E t \in protection.restrictions :
       protection' = [protection EXCEPT !.restrictions = @ \ {t}]
  /\ UNCHANGED <<protPage, protCalls, policyPage, policyCalls, clicks, gatewayVars>>

(***************************************************************************)
(* The protection page.                                                    *)
(***************************************************************************)
\* Mutant of syncForm: the limits are not filled in.
syncFormRules(state) == [rules |-> state.rules]

syncForm(state) == [rules |-> state.rules, limit |-> state.limit]

\* Mutant of Spinning: the spinner does not watch `restricting`.
SpinningForOthers ==
  protPage.loading \/ protPage.saving \/ protPage.recovering \/ protPage.removing

Spinning ==
  protPage.loading \/ protPage.saving \/ protPage.recovering
    \/ protPage.restricting \/ protPage.removing

\* `kind` outlives a handler that gave up (op "left").
ProtCall(op, act, get) == [op |-> op, kind |-> op, act |-> act, get |-> get, usage |-> get]

Begin(call) == \E s \in Free(protCalls) : protCalls' = Put(protCalls, s, call)

Quiet == UNCHANGED <<protection, policyPage, policyCalls, gatewayVars>>

ProtLoad ==
  /\ Click
  /\ Begin(ProtCall("load", Unsent, Sent(Nothing)))
  /\ protPage' = [protPage EXCEPT !.loading = TRUE, !.error = FALSE, !.notice = NoNotice]
  /\ Quiet

\* Promise.all of the state and the resource usage.
ProtLoaded(s) ==
  LET call == protCalls[s] IN
  /\ call.op = "load" /\ call.get.at = "served" /\ call.usage.at = "served"
  /\ protPage' = [protPage EXCEPT !.state = call.get.with, !.form = syncForm(call.get.with),
                                  !.loading = FALSE]
  /\ protCalls' = Put(protCalls, s, Idle)
  /\ UNCHANGED clicks
  /\ Quiet

ProtStartEdit ==
  /\ Click
  /\ ~protPage.editing
  /\ protPage' = [protPage EXCEPT !.editing = TRUE]
  /\ UNCHANGED protCalls
  /\ Quiet

\* Mutant of cancelEdit: the inputs close and nothing is loaded.
cancelEditInPlace ==
  /\ Click
  /\ protPage.editing
  /\ protPage' = [protPage EXCEPT !.editing = FALSE, !.error = FALSE, !.notice = NoNotice]
  /\ UNCHANGED protCalls
  /\ Quiet

\* The edits are dropped by the load that follows, not before.
cancelEdit ==
  /\ Click
  /\ protPage.editing
  /\ Begin(ProtCall("load", Unsent, Sent(Nothing)))
  /\ protPage' = [protPage EXCEPT !.editing = FALSE, !.loading = TRUE, !.error = FALSE,
                                  !.notice = NoNotice]
  /\ Quiet

\* An input that is cleared: Nothing for the rules, 0 for the limit.
ProtType ==
  /\ Click
  /\ protPage.editing /\ protPage.state # Nothing /\ ~Spinning
  /\ \/ \E r \in Maybe(Rules) : protPage' = [protPage EXCEPT !.form.rules = r]
     \/ \E v \in Limits \cup {0} : protPage' = [protPage EXCEPT !.form.limit = v]
  /\ UNCHANGED protCalls
  /\ Quiet

ProtTypeTarget ==
  /\ Click
  /\ protPage.state # Nothing /\ ~Spinning
  /\ \E t \in Targets \cup {Nothing} : protPage' = [protPage EXCEPT !.target = t]
  /\ UNCHANGED protCalls
  /\ Quiet

saveAll ==
  /\ Click
  /\ protPage.editing /\ protPage.form # Nothing /\ ~protPage.saving
  /\ Begin(ProtCall("save", Sent(protPage.form), Unsent))
  /\ protPage' = [protPage EXCEPT !.saving = TRUE, !.error = FALSE, !.notice = NoNotice]
  /\ Quiet

recoverCircuit ==
  /\ Click
  /\ ~protPage.recovering
  /\ Begin(ProtCall("recover", Sent(Nothing), Unsent))
  /\ protPage' = [protPage EXCEPT !.recovering = TRUE, !.error = FALSE, !.notice = NoNotice]
  /\ Quiet

\* submitRestriction with what the target input holds once it starts.
AskRestriction(target) ==
  IF target = Nothing
  THEN protPage' = [protPage EXCEPT !.error = TRUE] /\ UNCHANGED protCalls
  ELSE /\ Begin(ProtCall("restrict", Sent(target), Unsent))
       /\ protPage' = [protPage EXCEPT !.target = target, !.restricting = TRUE,
                                       !.error = FALSE, !.notice = NoNotice]

submitRestriction ==
  /\ Click
  /\ protPage.state # Nothing /\ ~Spinning
  /\ AskRestriction(protPage.target)
  /\ Quiet

\* The button beside a hot target fills the input in first.
quickRestrict ==
  /\ Click
  /\ protPage.state # Nothing /\ ~Spinning
  /\ \E target \in Targets : AskRestriction(target)
  /\ Quiet

removeRestriction ==
  /\ Click
  /\ protPage.state # Nothing /\ ~Spinning
  /\ \E target \in protPage.state.restrictions :
       Begin(ProtCall("remove", Sent(target), Unsent))
  /\ protPage' = [protPage EXCEPT !.removing = TRUE, !.error = FALSE, !.notice = NoNotice]
  /\ Quiet

resetRestrictionForm(page) == [page EXCEPT !.target = Nothing]

\* finally: the flag of the handler that ends.
Finished(page, op) ==
  [page EXCEPT !.loading = @ /\ op # "load", !.saving = @ /\ op # "save",
               !.recovering = @ /\ op # "recover", !.restricting = @ /\ op # "restrict",
               !.removing = @ /\ op # "remove"]

\* The answer of an action: the state it carries, its notice, its flag.
\* The notice of a restriction reads the target input when the answer is in.
ProtAnswered(s) ==
  LET call == protCalls[s]
      shown == [Finished(protPage, call.op) EXCEPT
                  !.state = call.act.with.state, !.form = syncForm(call.act.with.state),
                  !.notice = [kind |-> call.op, did |-> call.act.with.did,
                              target |-> IF call.op = "restrict" THEN protPage.target
                                         ELSE call.act.with.did]] IN
  /\ call.op \in {"save", "recover", "restrict", "remove"} /\ call.act.at = "served"
  /\ protPage' = IF call.op = "restrict" THEN resetRestrictionForm(shown)
                 ELSE [shown EXCEPT !.editing = @ /\ call.op # "save"]
  /\ protCalls' = Put(protCalls, s, Idle)
  /\ UNCHANGED clicks
  /\ Quiet

ProtFails(s) ==
  LET call == protCalls[s] IN
  /\ call.op \notin {"idle", "left"}
  /\ protPage' = [Finished(protPage, call.op) EXCEPT !.error = TRUE]
  /\ protCalls' = IF call.act.at = "sent" \/ call.usage.at \in {"sent", "read"}
                  THEN Leave(protCalls, s) ELSE Put(protCalls, s, Idle)
  /\ UNCHANGED clicks
  /\ Quiet

ProtLeft(s) ==
  /\ protCalls[s].op = "left" /\ protCalls[s].usage.at # "read"
  /\ protCalls' = Put(protCalls, s, Idle)
  /\ UNCHANGED <<protPage, clicks>>
  /\ Quiet

ProtServeGet(s) ==
  /\ protCalls[s].op = "load" /\ protCalls[s].get.at = "sent"
  /\ protCalls' = [protCalls EXCEPT ![s].get = Served(currentProtectionState)]
  /\ UNCHANGED <<protPage, clicks>>
  /\ Quiet

ProtServeUsage(s) ==
  /\ protCalls[s] # Idle
  /\ \/ /\ protCalls[s].usage.at = "sent"
        /\ \E profile \in Profiles :
             /\ recommendedProfile(profile)
             /\ protCalls' = [protCalls EXCEPT ![s].usage = UsageRead(profile)]
        /\ UNCHANGED gatewayVars
     \/ /\ protCalls[s].usage.at = "read"
        /\ applyRecommendedRuntimeProfile(protCalls[s].usage)
        /\ protCalls' = [protCalls EXCEPT ![s].usage = Served(Nothing)]
  /\ UNCHANGED <<protection, protPage, policyPage, policyCalls, clicks>>

ProtServeAct(s) ==
  LET call == protCalls[s] IN
  /\ call # Idle /\ call.act.at = "sent"
  /\ \/ call.kind = "save" /\ handleProtectionStatePut(call.act.with)
     \/ call.kind = "recover" /\ handleProtectionCircuitRecover
     \/ call.kind \in {"restrict", "remove"} /\ handleProtectionRestrictions(call.kind, call.act.with)
  /\ protCalls' = [protCalls EXCEPT ![s].act =
       Served([did |-> IF call.kind \in {"restrict", "remove"} THEN call.act.with ELSE Nothing,
               state |-> currentProtectionState'])]
  /\ UNCHANGED <<protPage, policyPage, policyCalls, clicks>>

(***************************************************************************)
(* The rate limit dialog: no flags, no catch blocks.                       *)
(***************************************************************************)
PolicyQuiet == UNCHANGED <<protection, protPage, protCalls>>

loadLimits ==
  /\ Click
  /\ \E s \in Free(policyCalls) :
       policyCalls' = Put(policyCalls, s, [op |-> "limits", put |-> Unsent, get |-> Sent(Nothing)])
  /\ UNCHANGED <<policyPage, gatewayVars>>
  /\ PolicyQuiet

openEdit ==
  /\ Click
  /\ policyPage' = [policyPage EXCEPT !.form = policyPage.limit, !.open = TRUE]
  /\ UNCHANGED <<policyCalls, gatewayVars>>
  /\ PolicyQuiet

PolicyType ==
  /\ Click
  /\ policyPage.open
  /\ \E v \in Limits \cup {0} : policyPage' = [policyPage EXCEPT !.form = v]
  /\ UNCHANGED <<policyCalls, gatewayVars>>
  /\ PolicyQuiet

savePolicy ==
  /\ Click
  /\ policyPage.open
  /\ \E s \in Free(policyCalls) :
       policyCalls' = Put(policyCalls, s,
                          [op |-> "policy", put |-> Sent(policyPage.form), get |-> Unsent])
  /\ UNCHANGED <<policyPage, gatewayVars>>
  /\ PolicyQuiet

PolicyServe(s) ==
  /\ \/ /\ policyCalls[s].op = "limits" /\ policyCalls[s].get.at = "sent"
        /\ policyCalls' = [policyCalls EXCEPT ![s].get = Served(running.limit)]
        /\ UNCHANGED <<protection, gatewayVars>>
     \/ /\ policyCalls[s].op = "policy" /\ policyCalls[s].put.at = "sent"
        /\ handleLimitsPut(policyCalls[s].put.with)
        /\ policyCalls' = [policyCalls EXCEPT ![s].put = Served(running'.limit)]
  /\ UNCHANGED <<protPage, protCalls, policyPage, clicks>>

PolicyAnswered(s) ==
  LET call == policyCalls[s] IN
  /\ \/ /\ call.op = "limits" /\ call.get.at = "served"
        /\ policyPage' = [policyPage EXCEPT !.limit = call.get.with]
     \/ /\ call.op = "policy" /\ call.put.at = "served"
        /\ policyPage' = [policyPage EXCEPT !.limit = call.put.with, !.open = FALSE]
  /\ policyCalls' = Put(policyCalls, s, Idle)
  /\ UNCHANGED <<clicks, gatewayVars>>
  /\ PolicyQuiet

\* The gateway refuses a limit of zero, or the connection breaks; the dialog stays.
PolicyFails(s) ==
  /\ policyCalls[s] # Idle
  /\ policyCalls' = Put(policyCalls, s, Idle)
  /\ UNCHANGED <<policyPage, clicks, gatewayVars>>
  /\ PolicyQuiet

ProtectionNext ==
  \/ ProtLoad \/ ProtStartEdit \/ cancelEdit \/ ProtType \/ ProtTypeTarget
  \/ saveAll \/ recoverCircuit \/ submitRestriction \/ quickRestrict \/ removeRestriction
  \/ RestrictionExpires
  \/ \E s \in Slots :
       \/ ProtLoaded(s) \/ ProtAnswered(s) \/ ProtFails(s) \/ ProtLeft(s)
       \/ ProtServeGet(s) \/ ProtServeUsage(s) \/ ProtServeAct(s)

PolicyNext ==
  \/ loadLimits \/ openEdit \/ PolicyType \/ savePolicy
  \/ \E s \in Slots : PolicyServe(s) \/ PolicyAnswered(s) \/ PolicyFails(s)

(***************************************************************************)
(* Outside editing, with nothing under way and no error on the screen, the *)
(* closed inputs show the state the page shows: the edits of a cancelled   *)
(* form never linger as if they were in force (cancelEdit, syncForm).      *)
(***************************************************************************)
ClosedFormIsState ==
  protPage.state # Nothing /\ ~protPage.editing /\ ~Spinning /\ ~protPage.error
    => protPage.form = syncForm(protPage.state)

(***************************************************************************)
(* The notice of a new restriction names the target that was restricted,   *)
(* although it reads the input when the answer arrives (submitRestriction):*)
(* the spinner has kept the input as it was sent.                          *)
(***************************************************************************)
NoticeNamesRestriction == protPage.notice.target = protPage.notice.did

\* Each flag of the page is set only while its handler is under way.
ProtectionSpinner ==
  /\ protPage.loading => Waiting(protCalls, "load") # {}
  /\ protPage.saving => Waiting(protCalls, "save") # {}
  /\ protPage.recovering => Waiting(protCalls, "recover") # {}
  /\ protPage.restricting => Waiting(protCalls, "restrict") # {}
  /\ protPage.removing => Waiting(protCalls, "remove") # {}

\* The types of the two pages.
AlertProtectionState ==
  [rules : Rules, limit : Nat, restrictions : SUBSET Targets, open : BOOLEAN]

ProtectionForms == [rules : Maybe(Rules), limit : Nat]

ProtectionResponses == [did : Maybe(Targets), state : AlertProtectionState]

ProtectionTypeOK ==
  /\ protection \in [rules : Rules, restrictions : SUBSET Targets, open : BOOLEAN]
  /\ protPage \in
       [state : Maybe(AlertProtectionState), form : Maybe(ProtectionForms), editing : BOOLEAN,
        loading : BOOLEAN, saving : BOOLEAN, recovering : BOOLEAN, restricting : BOOLEAN,
        removing : BOOLEAN, error : BOOLEAN, target : Maybe(Targets),
        notice : [kind : {"", "save", "recover", "restrict", "remove"}, target : Maybe(Targets), did : Maybe(Targets)]]
  /\ protCalls \in [Slots -> {Idle}
       \cup [op : {"load", "save", "recover", "restrict", "remove", "left"},
             kind : {"load", "save", "recover", "restrict", "remove"},
             act : Requests(Maybe(Targets \cup ProtectionForms), {}, ProtectionResponses),
             get : Requests({Nothing}, {}, AlertProtectionState),
             usage : Requests({Nothing}, SystemResourceUsage, {Nothing})]]
  /\ policyPage \in [limit : Nat, form : Nat, open : BOOLEAN]
  /\ policyCalls \in [Slots -> {Idle}
       \cup [op : {"limits", "policy"}, put : Requests(Nat, {}, Nat),
             get : Requests({Nothing}, {}, Nat)]]
=============================================================================
