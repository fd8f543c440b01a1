---------------------------- MODULE ResourcePage ----------------------------
(***************************************************************************)
(* The local resources page (LocalResourcesView.vue) against the gateway's *)
(* file store of local resources.  A resource is known by its code, and    *)
(* the code itself can be edited: an update names the code the row had     *)
(* when the editor was opened.                                             *)
(***************************************************************************)
EXTENDS PageCalls

CONSTANTS
  Codes,       \* 20 digit resource codes
  Urls         \* target URLs

VARIABLES
  resources,   \* the store: records [code, url]
  resPage,
  resCalls

resourceVars == <<resources, resPage, resCalls>>

ResourceStores == [code : Codes, url : Urls]

ResourceInit(stores) ==
  /\ resources \in {{item} : item \in stores}
  /\ resPage = [rows |-> {}, loading |-> FALSE, saving |-> FALSE, syncing |-> FALSE,
                error |-> FALSE, notice |-> "", open |-> FALSE, id |-> Nothing,
                editor |-> [code |-> Nothing, url |-> Nothing]]
  /\ resCalls = NoCalls

(***************************************************************************)
(* The store, under its lock.                                              *)
(***************************************************************************)
RowsOf(code) == {x \in resources : x.code = code}

CreateLocalResource(item) ==
  /\ RowsOf(item.code) = {}
  /\ resources' = resources \cup {item}

\* Mutant of UpdateLocalResource: the new code is not compared with the others.
UpdateLocalResourceUnchecked(code, item) ==
  /\ RowsOf(code) # {}
  /\ resources' = (resources \ RowsOf(code)) \cup {item}

UpdateLocalResource(code, item) ==
  /\ RowsOf(code) # {}
  /\ \A x \in resources \ RowsOf(code) : x.code # item.code
  /\ resources' = (resources \ RowsOf(code)) \cup {item}

DeleteLocalResource(code) ==
  /\ RowsOf(code) # {}
  /\ resources' = resources \ RowsOf(code)

(***************************************************************************)
(* load, alone or at the end of another handler.                           *)
(***************************************************************************)
ResCall(op, act, get) == [op |-> op, act |-> act, get |-> get]

ResBegin(call) == \E s \in Free(resCalls) : resCalls' = Put(resCalls, s, call)

ResLoading(notice) ==
  [resPage EXCEPT !.loading = TRUE, !.error = FALSE, !.notice = notice]

ResLoad ==
  /\ Click
  /\ ResBegin(ResCall("load", Unsent, Sent(Nothing)))
  /\ resPage' = ResLoading("")
  /\ UNCHANGED resources

ResFlagsDown(op) ==
  [resPage EXCEPT !.loading = FALSE, !.saving = @ /\ op # "save", !.syncing = @ /\ op # "push"]

ResLoaded(s) ==
  /\ resCalls[s] # Idle /\ resCalls[s].get.at = "served"
  /\ resPage' = [ResFlagsDown(resCalls[s].op) EXCEPT !.rows = resCalls[s].get.with]
  /\ resCalls' = Put(resCalls, s, Idle)
  /\ UNCHANGED <<resources, clicks>>

ResLoadFails(s) ==
  /\ resCalls[s] # Idle /\ resCalls[s].get.at # "unsent"
  /\ resPage' = [ResFlagsDown(resCalls[s].op) EXCEPT !.error = TRUE]
  /\ resCalls' = Put(resCalls, s, Idle)
  /\ UNCHANGED <<resources, clicks>>

ResServe(s) ==
  /\ resCalls[s] # Idle /\ resCalls[s].get.at = "sent"
  /\ resCalls' = [resCalls EXCEPT ![s].get = Served(resources)]
  /\ UNCHANGED <<resources, resPage, clicks>>

(***************************************************************************)
(* The editor.  "New resource" is a button of the header, always live.     *)
(***************************************************************************)
EmptyEditor(url) == [code |-> Nothing, url |-> url]

openCreate ==
  /\ Click
  /\ ~resPage.open
  /\ \E url \in Urls :
       resPage' = [resPage EXCEPT !.open = TRUE, !.id = Nothing, !.editor = EmptyEditor(url)]
  /\ UNCHANGED <<resources, resCalls>>

openEditResource ==
  /\ Click
  /\ ~resPage.open /\ ~resPage.loading /\ ~resPage.saving
  /\ \E row \in resPage.rows :
       resPage' = [resPage EXCEPT !.open = TRUE, !.id = row.code, !.editor = row]
  /\ UNCHANGED <<resources, resCalls>>

ResType ==
  /\ Click
  /\ resPage.open
  /\ \E code \in Codes, url \in Urls :
       resPage' = [resPage EXCEPT !.editor = [code |-> code, url |-> url]]
  /\ UNCHANGED <<resources, resCalls>>

ResCancel ==
  /\ Click
  /\ resPage.open
  /\ resPage' = [resPage EXCEPT !.open = FALSE]
  /\ UNCHANGED <<resources, resCalls>>

\* editorToPayload's check looks at the rows the page loaded.
CodeFree(code) == \A row \in resPage.rows : row.code = code => row.code = resPage.id

\* An empty code is generated first and stays in the editor.
saveResource ==
  /\ Click
  /\ resPage.open /\ ~resPage.saving
  /\ \E code \in IF resPage.editor.code = Nothing THEN Codes ELSE {resPage.editor.code} :
       LET item == [resPage.editor EXCEPT !.code = code] IN
       IF ~CodeFree(code)
       THEN /\ resPage' = [resPage EXCEPT !.editor = item, !.error = TRUE]
            /\ UNCHANGED resCalls
       ELSE /\ resPage' = [resPage EXCEPT !.editor = item, !.saving = TRUE, !.error = FALSE]
            /\ ResBegin(ResCall("save", Sent([id |-> resPage.id, item |-> item]), Unsent))
  /\ UNCHANGED resources

\* The confirmation dialog raises no flag.
removeResource ==
  /\ Click
  /\ ~resPage.open /\ ~resPage.loading /\ ~resPage.saving
  /\ \E row \in resPage.rows :
       ResBegin(ResCall("remove", Sent([id |-> row.code, item |-> row]), Unsent))
  /\ UNCHANGED <<resources, resPage>>

pushLocalCatalog ==
  /\ Click
  /\ ~resPage.syncing
  /\ resPage' = [resPage EXCEPT !.syncing = TRUE, !.error = FALSE]
  /\ ResBegin(ResCall("push", Sent(Nothing), Unsent))
  /\ UNCHANGED resources

ResServeAct(s) ==
  LET call == resCalls[s] IN
  /\ call # Idle /\ call.act.at = "sent"
  /\ \/ /\ call.op = "save"
        /\ IF call.act.with.id = Nothing THEN CreateLocalResource(call.act.with.item)
           ELSE UpdateLocalResource(call.act.with.id, call.act.with.item)
     \/ call.op = "remove" /\ DeleteLocalResource(call.act.with.id)
     \/ call.op = "push" /\ UNCHANGED resources
  /\ resCalls' = [resCalls EXCEPT ![s].act = Served(Nothing)]
  /\ UNCHANGED <<resPage, clicks>>

\* The open editor closes (after a save), and load() wipes the notice just set.
ResActed(s) ==
  LET call == resCalls[s] IN
  /\ call # Idle /\ call.act.at = "served" /\ call.get.at = "unsent"
  /\ resPage' = [ResLoading(IF call.op = "push" THEN "pushed" ELSE "") EXCEPT
                   !.open = @ /\ call.op # "save"]
  /\ resCalls' = [resCalls EXCEPT ![s].get = Sent(Nothing)]
  /\ UNCHANGED <<resources, clicks>>

ResActFails(s) ==
  LET call == resCalls[s] IN
  /\ call # Idle /\ call.act.at # "unsent" /\ call.get.at = "unsent"
  /\ resPage' = [resPage EXCEPT !.error = TRUE, !.saving = @ /\ call.op # "save",
                                !.syncing = @ /\ call.op # "push"]
  /\ resCalls' = Put(resCalls, s, Idle)
  /\ UNCHANGED <<resources, clicks>>

\* The same page in another browser; or a save served after this page gave up.
OtherBrowserSavesResource ==
  /\ Click
  /\ \E code, was \in Codes, url \in Urls :
       LET item == [code |-> code, url |-> url] IN
       CreateLocalResource(item) \/ UpdateLocalResource(was, item) \/ DeleteLocalResource(was)
  /\ UNCHANGED <<resPage, resCalls>>

ResourceNext ==
  \/ ResLoad \/ openCreate \/ openEditResource \/ ResType \/ ResCancel
  \/ saveResource \/ removeResource \/ pushLocalCatalog \/ OtherBrowserSavesResource
  \/ \E s \in Slots :
       \/ ResLoaded(s) \/ ResLoadFails(s) \/ ResServe(s)
       \/ ResServeAct(s) \/ ResActed(s) \/ ResActFails(s)

(***************************************************************************)
(* A code names one resource, although a code can be edited, generated,    *)
(* and is checked by each browser against rows it loaded earlier           *)
(* (editorToPayload, the store's Create and Update).                       *)
(***************************************************************************)
CodesUnique == \A x, y \in resources : x.code = y.code => x = y

\* A flag of the resources page is set only while a handler that clears it is under way.
ResourceSpinner ==
  /\ resPage.loading => \E s \in Slots : resCalls[s] # Idle /\ resCalls[s].get.at # "unsent"
  /\ resPage.saving => Waiting(resCalls, "save") # {}
  /\ resPage.syncing => Waiting(resCalls, "push") # {}

\* The types of the page.
LocalResourceSavePayload ==
  [id : Maybe(Codes), item : ResourceStores]

ResourceTypeOK ==
  /\ resources \subseteq ResourceStores
  /\ resPage \in
       [rows : SUBSET ResourceStores, loading : BOOLEAN, saving : BOOLEAN, syncing : BOOLEAN,
        error : BOOLEAN, notice : {"", "pushed"}, open : BOOLEAN, id : Maybe(Codes),
        editor : [code : Maybe(Codes), url : Maybe(Urls)]]
  /\ resCalls \in [Slots -> {Idle}
       \cup [op : {"load", "save", "remove", "push"},
             act : Requests(Maybe(LocalResourceSavePayload), {}, {Nothing}),
             get : Requests({Nothing}, {}, SUBSET ResourceStores)]]
=============================================================================
