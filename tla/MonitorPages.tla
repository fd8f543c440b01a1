---------------------------- MODULE MonitorPages ----------------------------
(***************************************************************************)
(* The pages that watch the gateway and trigger something in it: overview  *)
(* (DashboardView), link monitor, licence (SecurityCenterView), diagnosis  *)
(* and load tests.  One of them is open; `kind` says which.                *)
(*                                                                         *)
(* What the gateway has to show is a count of the facts so far: sessions   *)
(* registered, licences imported, tests run.  A page shows the count its   *)
(* last answer carried.                                                    *)
(***************************************************************************)
EXTENDS PageCalls

CONSTANT Selections      \* range and granularity of the trend chart

\* A page that shows no count can be told from one that shows a count.
ASSUME CountAssumption == Nothing \notin Nat

VARIABLES
  facts,       \* the gateway's count
  monPage,
  monCalls

monitorVars == <<facts, monPage, monCalls>>

NothingDone == [what |-> "", did |-> 0]

\* `raced`, kept for the properties: a handler started while another was under way.
MonitorStores == [kind : {"dashboard", "link", "security", "diag"}, choice : Selections]

MonitorInit(stores) ==
  /\ facts = 0
  /\ \E x \in stores :
       monPage = [kind |-> x.kind, mounted |-> FALSE, loading |-> FALSE, acting |-> FALSE,
                  exporting |-> FALSE, starting |-> FALSE, error |-> FALSE, notice |-> NothingDone,
                  shown |-> [state |-> Nothing, jobs |-> Nothing],
                  choice |-> x.choice, chart |-> Nothing, raced |-> FALSE]
  /\ monCalls = NoCalls

UnderWay == {s \in Slots : monCalls[s] # Idle}

MonBegin(page, op, act, get) ==
  /\ Click
  /\ \E s \in Free(monCalls) : monCalls' = Put(monCalls, s, [op |-> op, act |-> act, get |-> get])
  /\ monPage' = [page EXCEPT !.mounted = TRUE, !.raced = UnderWay # {}]
  /\ UNCHANGED facts

(***************************************************************************)
(* The gateway's side.                                                     *)
(***************************************************************************)
Respond(s, answer) ==
  /\ monCalls[s].get.at = "sent"
  /\ monCalls' = [monCalls EXCEPT ![s].get = Served(answer)]
  /\ UNCHANGED <<facts, monPage, clicks>>

\* What a page takes of an answer: the state of the gateway, and the selection
\* the trend series is of.
DashboardAnswer(choice) == [n |-> facts, chart |-> choice]

StateAnswer == [n |-> facts, chart |-> Nothing]

\* Summary, operations summary and trends are asked for at once.
fetchDashboardSummary(s) ==
  /\ monPage.kind = "dashboard" /\ monCalls[s].op = "load"
  /\ Respond(s, DashboardAnswer(monCalls[s].get.with))

fetchDashboardTrends(s) ==
  /\ monCalls[s].op = "trends"
  /\ Respond(s, DashboardAnswer(monCalls[s].get.with))

fetchLinkMonitor(s) ==
  /\ monPage.kind = "link" /\ monCalls[s].op \in {"load", "action"}
  /\ Respond(s, StateAnswer)

\* State, licence and machine code.
fetchSecurityState(s) ==
  /\ monPage.kind = "security" /\ monCalls[s].op \in {"load", "import"}
  /\ Respond(s, StateAnswer)

fetchLatestLinkTest(s) == monCalls[s].op = "latest" /\ Respond(s, StateAnswer)

fetchLoadtestJobs(s) == monCalls[s].op = "loadtest" /\ Respond(s, StateAnswer)

Perform(s, op, after) ==
  /\ monCalls[s].op = op /\ monCalls[s].act.at = "sent"
  /\ facts' = after
  /\ monCalls' = [monCalls EXCEPT ![s].act = Served(after)]
  /\ UNCHANGED <<monPage, clicks>>

triggerTunnelSessionAction(s) == Perform(s, "action", facts + 1)

updateLicense(s) == Perform(s, "import", facts + 1)

handleLinkTest(s) == Perform(s, "test", facts + 1)

startLoadtest(s) == Perform(s, "loadtest", facts + 1)

exportDiagnostics(s) == Perform(s, "export", facts)

\* A session changes state by itself, or another browser acts.
OtherFact == Click /\ facts' = facts + 1 /\ UNCHANGED <<monPage, monCalls>>

(***************************************************************************)
(* Overview.  The chart's radio buttons are under the spinner, the refresh *)
(* button is not; loadTrends raises no flag and clears no error.           *)
(***************************************************************************)
DashboardLoad ==
  /\ monPage.kind = "dashboard"
  /\ MonBegin([monPage EXCEPT !.loading = TRUE, !.error = FALSE], "load", Unsent, Sent(monPage.choice))

DashboardSelect ==
  /\ monPage.kind = "dashboard" /\ ~monPage.loading /\ monPage.shown.state # Nothing
  /\ \E choice \in Selections \ {monPage.choice} :
       MonBegin([monPage EXCEPT !.choice = choice], "trends", Unsent, Sent(choice))

DashboardTrends(s) ==
  /\ monCalls[s].op = "trends" /\ monCalls[s].get.at = "served"
  /\ monPage' = [monPage EXCEPT !.chart = monCalls[s].get.with.chart]
  /\ monCalls' = Put(monCalls, s, Idle)
  /\ UNCHANGED <<facts, clicks>>

\* Mutant of DashboardTrendsFail: the error is swallowed.
DashboardTrendsFailQuietly(s) ==
  /\ monCalls[s].op = "trends"
  /\ monCalls' = Put(monCalls, s, Idle)
  /\ UNCHANGED <<facts, monPage, clicks>>

\* The catch block of loadTrends.
DashboardTrendsFail(s) ==
  /\ monCalls[s].op = "trends"
  /\ monPage' = [monPage EXCEPT !.error = TRUE]
  /\ monCalls' = Put(monCalls, s, Idle)
  /\ UNCHANGED <<facts, clicks>>

\* The end of load on any page but the diagnosis page.
MonLoaded(s) ==
  LET got == monCalls[s].get.with IN
  /\ monCalls[s].op = "load" /\ monCalls[s].get.at = "served"
  /\ monPage' = [monPage EXCEPT !.shown.state = got.n, !.chart = got.chart, !.loading = FALSE]
  /\ monCalls' = Put(monCalls, s, Idle)
  /\ UNCHANGED <<facts, clicks>>

MonLoadFails(s) ==
  /\ monCalls[s].op = "load"
  /\ monPage' = [monPage EXCEPT !.error = TRUE, !.loading = FALSE]
  /\ monCalls' = Put(monCalls, s, Idle)
  /\ UNCHANGED <<facts, clicks>>

(***************************************************************************)
(* Link monitor: runAction, then load inside it.  A failure does not take  *)
(* the notice of an earlier action down.                                   *)
(***************************************************************************)
LinkLoad ==
  /\ monPage.kind = "link"
  /\ MonBegin([monPage EXCEPT !.loading = TRUE, !.error = FALSE], "load", Unsent, Sent(Nothing))

LinkAction ==
  /\ monPage.kind = "link" /\ ~monPage.acting
  /\ MonBegin([monPage EXCEPT !.acting = TRUE, !.error = FALSE], "action", Sent(Nothing), Unsent)

\* Mutant of LinkActed: the page is not loaded again.
LinkActedUnread(s) ==
  /\ monCalls[s].op = "action" /\ monCalls[s].act.at = "served"
  /\ monPage' = [monPage EXCEPT !.notice = [what |-> "state", did |-> monCalls[s].act.with],
                                !.acting = FALSE, !.error = FALSE]
  /\ monCalls' = Put(monCalls, s, Idle)
  /\ UNCHANGED <<facts, clicks>>

LinkActed(s) ==
  /\ monCalls[s].op = "action" /\ monCalls[s].act.at = "served" /\ monCalls[s].get.at = "unsent"
  /\ monPage' = [monPage EXCEPT !.notice = [what |-> "state", did |-> monCalls[s].act.with],
                                !.loading = TRUE, !.error = FALSE]
  /\ monCalls' = [monCalls EXCEPT ![s].get = Sent(Nothing)]
  /\ UNCHANGED <<facts, clicks>>

LinkReloaded(s) ==
  /\ monCalls[s].op = "action" /\ monCalls[s].get.at = "served"
  /\ monPage' = [monPage EXCEPT !.shown.state = monCalls[s].get.with.n,
                                !.loading = FALSE, !.acting = FALSE]
  /\ monCalls' = Put(monCalls, s, Idle)
  /\ UNCHANGED <<facts, clicks>>

(***************************************************************************)
(* Licence: the whole page is under the spinner.  load catches its own     *)
(* error, so the notice of the import follows even when the reload failed. *)
(***************************************************************************)
SecurityLoad ==
  /\ monPage.kind = "security" /\ ~monPage.mounted
  /\ MonBegin([monPage EXCEPT !.loading = TRUE, !.error = FALSE, !.notice = NothingDone],
              "load", Unsent, Sent(Nothing))

saveLicense ==
  /\ monPage.kind = "security" /\ monPage.mounted /\ ~monPage.loading /\ ~monPage.acting
  /\ MonBegin([monPage EXCEPT !.acting = TRUE, !.error = FALSE, !.notice = NothingDone],
              "import", Sent(Nothing), Unsent)

LicenseImported(s) ==
  /\ monCalls[s].op = "import" /\ monCalls[s].act.at = "served" /\ monCalls[s].get.at = "unsent"
  /\ monPage' = [monPage EXCEPT !.loading = TRUE, !.error = FALSE, !.notice = NothingDone]
  /\ monCalls' = [monCalls EXCEPT ![s].get = Sent(Nothing)]
  /\ UNCHANGED <<facts, clicks>>

LicenseReloaded(s) ==
  /\ monCalls[s].op = "import"
  /\ \/ /\ monCalls[s].get.at = "served"
        /\ monPage' = [monPage EXCEPT !.shown.state = monCalls[s].get.with.n,
                         !.notice = [what |-> "state", did |-> monCalls[s].act.with],
                         !.loading = FALSE, !.acting = FALSE]
     \/ /\ monCalls[s].get.at # "unsent"
        /\ monPage' = [monPage EXCEPT !.error = TRUE,
                         !.notice = [what |-> "state", did |-> monCalls[s].act.with],
                         !.loading = FALSE, !.acting = FALSE]
  /\ monCalls' = Put(monCalls, s, Idle)
  /\ UNCHANGED <<facts, clicks>>

(***************************************************************************)
(* Diagnosis and load tests.  loadLatest runs once; each of its requests   *)
(* that fails counts as an empty answer.                                   *)
(***************************************************************************)
loadLatest ==
  /\ monPage.kind = "diag" /\ ~monPage.mounted
  /\ MonBegin([monPage EXCEPT !.loading = TRUE, !.error = FALSE], "latest", Unsent, Sent(Nothing))

LatestLoaded(s) ==
  /\ monCalls[s].op = "latest" /\ monCalls[s].get.at = "served"
  /\ \E state, jobs \in {Nothing, monCalls[s].get.with.n} :
       monPage' = [monPage EXCEPT !.shown = [state |-> state, jobs |-> jobs], !.loading = FALSE]
  /\ monCalls' = Put(monCalls, s, Idle)
  /\ UNCHANGED <<facts, clicks>>

Cleared == [monPage EXCEPT !.error = FALSE, !.notice = NothingDone]

\* runLinkTest and runPeerLinkTest share the flag and the report.
runLinkTest ==
  /\ monPage.kind = "diag" /\ monPage.mounted /\ ~monPage.acting
  /\ MonBegin([Cleared EXCEPT !.acting = TRUE], "test", Sent(Nothing), Unsent)

LinkTested(s) ==
  LET n == monCalls[s].act.with IN
  /\ monCalls[s].op = "test" /\ monCalls[s].act.at = "served"
  /\ monPage' = [monPage EXCEPT !.shown.state = n, !.notice = [what |-> "state", did |-> n],
                                !.acting = FALSE]
  /\ monCalls' = Put(monCalls, s, Idle)
  /\ UNCHANGED <<facts, clicks>>

runExport ==
  /\ monPage.kind = "diag" /\ monPage.mounted /\ ~monPage.exporting
  /\ MonBegin([Cleared EXCEPT !.exporting = TRUE], "export", Sent(monPage.shown.state), Unsent)

Exported(s) ==
  /\ monCalls[s].op = "export" /\ monCalls[s].act.at = "served"
  /\ monPage' = [monPage EXCEPT !.notice = [what |-> "export", did |-> 0], !.exporting = FALSE]
  /\ monCalls' = Put(monCalls, s, Idle)
  /\ UNCHANGED <<facts, clicks>>

runLoadtest ==
  /\ monPage.kind = "diag" /\ monPage.mounted /\ ~monPage.starting
  /\ MonBegin([Cleared EXCEPT !.starting = TRUE], "loadtest", Sent(Nothing), Unsent)

LoadtestCreated(s) ==
  /\ monCalls[s].op = "loadtest" /\ monCalls[s].act.at = "served" /\ monCalls[s].get.at = "unsent"
  /\ monPage' = [monPage EXCEPT !.notice = [what |-> "jobs", did |-> monCalls[s].act.with]]
  /\ monCalls' = [monCalls EXCEPT ![s].get = Sent(Nothing)]
  /\ UNCHANGED <<facts, clicks>>

LoadtestListed(s) ==
  /\ monCalls[s].op = "loadtest" /\ monCalls[s].get.at = "served"
  /\ monPage' = [monPage EXCEPT !.shown.jobs = monCalls[s].get.with.n, !.starting = FALSE]
  /\ monCalls' = Put(monCalls, s, Idle)
  /\ UNCHANGED <<facts, clicks>>

(***************************************************************************)
(* The catch and finally blocks of the handlers that act.  (An action that *)
(* is served after the page gave up is one OtherFact.)                     *)
(***************************************************************************)
MonActFails(s) ==
  LET op == monCalls[s].op IN
  /\ \/ op \in {"action", "test", "export", "loadtest"}
     \/ op = "import" /\ monCalls[s].get.at = "unsent"
  /\ monPage' = [monPage EXCEPT !.error = TRUE,
                   !.loading = @ /\ ~(op = "action" /\ monCalls[s].get.at # "unsent"),
                   !.acting = @ /\ op \in {"export", "loadtest"},
                   !.exporting = @ /\ op # "export", !.starting = @ /\ op # "loadtest"]
  /\ monCalls' = Put(monCalls, s, Idle)
  /\ UNCHANGED <<facts, clicks>>

MonitorNext ==
  \/ DashboardLoad \/ DashboardSelect \/ LinkLoad \/ LinkAction \/ SecurityLoad \/ saveLicense
  \/ loadLatest \/ runLinkTest \/ runExport \/ runLoadtest \/ OtherFact
  \/ \E s \in Slots :
       \/ fetchDashboardSummary(s) \/ fetchDashboardTrends(s) \/ fetchLinkMonitor(s)
       \/ fetchSecurityState(s) \/ fetchLatestLinkTest(s) \/ fetchLoadtestJobs(s)
       \/ triggerTunnelSessionAction(s) \/ updateLicense(s) \/ handleLinkTest(s)
       \/ startLoadtest(s) \/ exportDiagnostics(s)
       \/ DashboardTrends(s) \/ DashboardTrendsFail(s) \/ MonLoaded(s) \/ MonLoadFails(s)
       \/ LinkActed(s) \/ LinkReloaded(s) \/ LicenseImported(s) \/ LicenseReloaded(s)
       \/ LatestLoaded(s) \/ LinkTested(s) \/ Exported(s)
       \/ LoadtestCreated(s) \/ LoadtestListed(s) \/ MonActFails(s)

Settled == UnderWay = {} /\ ~monPage.error /\ ~monPage.raced

(***************************************************************************)
(* The trend chart is of the range and granularity selected, once all is   *)
(* answered without an error and no two requests overlapped (load and      *)
(* loadTrends of DashboardView.vue).                                       *)
(***************************************************************************)
ChartIsOfSelection ==
  monPage.kind = "dashboard" /\ monPage.chart # Nothing /\ Settled => monPage.chart = monPage.choice

(***************************************************************************)
(* A page that says "done" of an action, and shows no error, shows what    *)
(* the gateway had after the action: runAction, saveLicense and            *)
(* runLoadtest read again after the action was answered.                   *)
(***************************************************************************)
ActionIsShown ==
  Settled /\ monPage.notice.what \in {"state", "jobs"}
    => /\ monPage.shown[monPage.notice.what] # Nothing
       /\ monPage.shown[monPage.notice.what] >= monPage.notice.did

\* A flag of a monitor page is set only while a handler that clears it is under way.
MonitorSpinner ==
  /\ monPage.loading => UnderWay # {}
  /\ monPage.acting => \E s \in Slots : monCalls[s].op \in {"action", "import", "test"}
  /\ monPage.exporting => Waiting(monCalls, "export") # {}
  /\ monPage.starting => Waiting(monCalls, "loadtest") # {}

\* The types of the pages.
MonitorAnswers == [n : Nat, chart : Maybe(Selections)]

MonitorTypeOK ==
  /\ facts \in Nat
  /\ monPage \in
       [kind : {"dashboard", "link", "security", "diag"}, mounted : BOOLEAN, loading : BOOLEAN,
        acting : BOOLEAN, exporting : BOOLEAN, starting : BOOLEAN, error : BOOLEAN,
        notice : [what : {"", "state", "jobs", "export"}, did : Nat],
        shown : [state : Maybe(Nat), jobs : Maybe(Nat)], choice : Selections,
        chart : Maybe(Selections), raced : BOOLEAN]
  /\ monCalls \in [Slots -> {Idle}
       \cup [op : {"load", "trends", "action", "import", "latest", "test", "export", "loadtest"},
             act : Requests(Maybe(Nat), {}, Nat), get : Requests(Maybe(Selections), {}, MonitorAnswers)]]
=============================================================================
