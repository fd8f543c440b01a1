---------------------------- MODULE SettingsPage ----------------------------
(***************************************************************************)
(* The system settings page (SystemSettingsView.vue) against the gateway.  *)
(* load sends two requests at once; save posts the form, reads it back and *)
(* reads the resource usage.  A flag (loading, saving) is set when a       *)
(* handler starts and cleared when one ends; no handler looks whether a    *)
(* newer one has started.  The spinner over the form keeps the operator    *)
(* from typing while a flag is set; the buttons of the header stay live,   *)
(* the one of the layout that restarts the gateway (AdminLayout.vue) among *)
(* them.  The gateway may also crash and be started again at any time.     *)
(***************************************************************************)
EXTENDS GatewaySettings

CONSTANT Invalid      \* a retention value the checks refuse

VARIABLES
  settingsPage,
  settingsCalls

settingsPageVars == <<settingsPage, settingsCalls>>

\* `wrote`, `raced` and `read` of a form are kept for the properties: the
\* gateway's write count when the last save was served, whether a load
\* overlapped that save, the write count when the form was read.  So are
\* `stored`, the body of the last POST if it was answered, its file was written
\* and it met no other one half way, and `crossed`.
SettingsInit ==
  /\ settingsPage = [form |-> Nothing, loading |-> FALSE, saving |-> FALSE,
                     error |-> FALSE, notice |-> "", wrote |-> 0, raced |-> FALSE,
                     stored |-> Nothing, crossed |-> FALSE, restarting |-> FALSE, scheduled |-> 0]
  /\ settingsCalls = NoCalls

validateSettings(form) == form.keep # Invalid

SettingsRequests(op, post, get, usage) ==
  [op |-> op, post |-> post, get |-> get, usage |-> usage]

(***************************************************************************)
(* load                                                                    *)
(***************************************************************************)
SettingsLoad ==
  /\ \E s \in Free(settingsCalls) :
       settingsCalls' = Put(settingsCalls, s,
         SettingsRequests("load", Unsent, Sent(Nothing), Sent(Nothing)))
  /\ settingsPage' = [settingsPage EXCEPT !.loading = TRUE, !.error = FALSE, !.notice = "",
                        !.raced = @ \/ Waiting(settingsCalls, "save") # {}]
  /\ Click
  /\ UNCHANGED gatewayVars

\* Promise.all: both answers are in.
SettingsLoaded(s) ==
  LET call == settingsCalls[s] IN
  /\ call.op = "load" /\ call.get.at = "served" /\ call.usage.at = "served"
  /\ settingsPage' = [settingsPage EXCEPT !.form = call.get.with, !.loading = FALSE]
  /\ settingsCalls' = Put(settingsCalls, s, Idle)
  /\ UNCHANGED <<clicks, gatewayVars>>

(***************************************************************************)
(* save: POST, GET, GET usage, one after the other.                        *)
(***************************************************************************)
\* Mutant of SettingsSave: the settings are read back while the POST is under way.
SettingsSaveAtOnce ==
  /\ settingsPage.form # Nothing /\ ~settingsPage.saving /\ validateSettings(settingsPage.form)
  /\ Click
  /\ \E s \in Free(settingsCalls) :
       settingsCalls' = Put(settingsCalls, s,
         SettingsRequests("save", Sent(settingsPage.form), Sent(Nothing), Unsent))
  /\ settingsPage' = [settingsPage EXCEPT !.saving = TRUE, !.error = FALSE,
                        !.notice = "", !.raced = Waiting(settingsCalls, "load") # {}]
  /\ UNCHANGED gatewayVars

SettingsSave ==
  /\ settingsPage.form # Nothing
  /\ ~settingsPage.saving
  /\ Click
  /\ IF ~validateSettings(settingsPage.form)
     THEN /\ settingsPage' = [settingsPage EXCEPT !.error = TRUE]
          /\ UNCHANGED settingsCalls
     ELSE /\ \E s \in Free(settingsCalls) :
               settingsCalls' = Put(settingsCalls, s,
                 SettingsRequests("save", Sent(settingsPage.form), Unsent, Unsent))
          /\ settingsPage' = [settingsPage EXCEPT !.saving = TRUE, !.error = FALSE,
                                !.notice = "", !.raced = Waiting(settingsCalls, "load") # {}]
  /\ UNCHANGED gatewayVars

\* updateSystemSettings: the POST was answered, the settings are read back.
SettingsReread(s) ==
  LET call == settingsCalls[s] IN
  /\ call.op = "save" /\ call.post.at = "served" /\ call.get.at = "unsent"
  /\ settingsCalls' = [settingsCalls EXCEPT ![s].get = Sent(Nothing)]
  /\ UNCHANGED <<settingsPage, clicks, gatewayVars>>

SettingsTakeForm(s) ==
  LET call == settingsCalls[s] IN
  /\ call.op = "save" /\ call.get.at = "served" /\ call.usage.at = "unsent"
  /\ settingsPage' = [settingsPage EXCEPT !.form = call.get.with]
  /\ settingsCalls' = [settingsCalls EXCEPT ![s].usage = Sent(Nothing)]
  /\ UNCHANGED <<clicks, gatewayVars>>

SettingsSaved(s) ==
  /\ settingsCalls[s].op = "save" /\ settingsCalls[s].usage.at = "served"
  /\ settingsPage' = [settingsPage EXCEPT !.notice = "saved", !.saving = FALSE]
  /\ settingsCalls' = Put(settingsCalls, s, Idle)
  /\ UNCHANGED <<clicks, gatewayVars>>

\* Mutant of SettingsFails: the flags fall in the try block, not in finally.
SettingsFailsSpinning(s) ==
  /\ settingsCalls[s].op \in {"load", "save"}
  /\ settingsPage' = [settingsPage EXCEPT !.error = TRUE]
  /\ settingsCalls' = Put(settingsCalls, s, Idle)
  /\ UNCHANGED <<clicks, gatewayVars>>

\* The catch and finally blocks, at any point a request is under way.
SettingsFails(s) ==
  /\ settingsCalls[s].op \in {"load", "save"}
  /\ settingsPage' = [settingsPage EXCEPT !.error = TRUE,
                        !.loading = @ /\ settingsCalls[s].op # "load",
                        !.saving = @ /\ settingsCalls[s].op # "save"]
  /\ settingsCalls' = IF \/ settingsCalls[s].post.at \in {"sent", "tuned", "read", "open"}
                         \/ settingsCalls[s].usage.at \in {"sent", "read"}
                      THEN Leave(settingsCalls, s) ELSE Put(settingsCalls, s, Idle)
  /\ UNCHANGED <<clicks, gatewayVars>>

SettingsLeft(s) ==
  /\ settingsCalls[s].op = "left"
  /\ settingsCalls[s].post.at \notin {"tuned", "read", "open"} /\ settingsCalls[s].usage.at # "read"
  /\ settingsCalls' = Put(settingsCalls, s, Idle)
  /\ UNCHANGED <<settingsPage, clicks, gatewayVars>>

(***************************************************************************)
(* The gateway serves what the page sent.                                  *)
(***************************************************************************)
SettingsServeGet(s) ==
  /\ settingsCalls[s].op \in {"load", "save"} /\ settingsCalls[s].get.at = "sent"
  /\ settingsCalls' = [settingsCalls EXCEPT ![s].get = Served(handleSystemSettingsGet)]
  /\ UNCHANGED <<settingsPage, clicks, gatewayVars>>

\* The POSTs that have replaced the settings and not yet written the file.
HalfWay ==
  {s \in Slots : settingsCalls[s].op \in {"save", "left"}
                   /\ settingsCalls[s].post.at \in {"read", "open"}}

Opened == {s \in HalfWay : settingsCalls[s].post.at = "open"}

SettingsTune(s) ==
  /\ settingsCalls[s].op \in {"save", "left"} /\ settingsCalls[s].post.at = "sent"
  /\ ApplyTransportTuning(settingsCalls[s].post.with)
  /\ settingsCalls' = [settingsCalls EXCEPT ![s].post.at = "tuned"]
  /\ UNCHANGED <<settingsPage, clicks>>

SettingsServePost(s) ==
  /\ settingsCalls[s].op \in {"save", "left"} /\ settingsCalls[s].post.at = "tuned"
  /\ handleSystemSettingsPost(settingsCalls[s].post.with)
  /\ settingsCalls' = [settingsCalls EXCEPT ![s].post =
                         Read([body |-> settingsCalls[s].post.with, write |-> settings'.writes])]
  /\ settingsPage' = [settingsPage EXCEPT !.stored = Nothing, !.crossed = HalfWay # {}]
  /\ UNCHANGED clicks

SettingsOpenFile(s) ==
  /\ s \in HalfWay \ Opened
  /\ TruncateFile
  /\ settingsCalls' = [settingsCalls EXCEPT ![s].post.at = "open"]
  /\ UNCHANGED <<settingsPage, clicks>>

\* The file is written, or saveJSON fails before or after it cut the file; its
\* error is dropped.
SettingsWriteFile(s) ==
  LET body == settingsCalls[s].post.with.body
      file == [keep |-> body.keep, access |-> body.access, mbps |-> body.mbps] IN
  /\ \/ s \in Opened /\ WriteFile(file)
     \/ s \in HalfWay \ Opened /\ UNCHANGED gatewayVars
  /\ settingsPage' = [settingsPage EXCEPT
                        !.stored = IF ~settingsPage.crossed /\ disk' = file THEN file ELSE Nothing,
                        !.wrote = IF settingsCalls[s].op = "save"
                                  THEN settingsCalls[s].post.with.write ELSE @]
  /\ settingsCalls' = [settingsCalls EXCEPT ![s].post = Served(Nothing)]
  /\ UNCHANGED clicks

SettingsServeUsage(s) ==
  /\ settingsCalls[s].op \in {"load", "save", "left"}
  /\ \/ /\ settingsCalls[s].usage.at = "sent"
        /\ \E profile \in Profiles :
             /\ recommendedProfile(profile)
             /\ settingsCalls' = [settingsCalls EXCEPT ![s].usage = UsageRead(profile)]
        /\ UNCHANGED gatewayVars
     \/ /\ settingsCalls[s].usage.at = "read"
        /\ applyRecommendedRuntimeProfile(settingsCalls[s].usage)
        /\ settingsCalls' = [settingsCalls EXCEPT ![s].usage = Served(Nothing)]
  /\ UNCHANGED <<settingsPage, clicks>>

(***************************************************************************)
(* Restart.  A request that is half served dies with the process; one that *)
(* has not reached the gateway is served by the next one, or fails.        *)
(***************************************************************************)
Broken(request) ==
  IF request.at \in {"tuned", "read", "open"} THEN [at |-> "lost", with |-> Nothing] ELSE request

RestartedGateway ==
  /\ StartGateway
  /\ settingsCalls' = [s \in Slots |->
       IF settingsCalls[s].op \in {"load", "save", "left"}
       THEN [settingsCalls[s] EXCEPT !.post = Broken(@), !.usage = Broken(@)]
       ELSE settingsCalls[s]]

Crash == Click /\ RestartedGateway /\ UNCHANGED settingsPage

\* The button and its confirmation.
confirmRestart ==
  /\ ~settingsPage.restarting /\ Click
  /\ \E s \in Free(settingsCalls) :
       settingsCalls' = Put(settingsCalls, s, [op |-> "restart", post |-> Sent(Nothing)])
  /\ settingsPage' = [settingsPage EXCEPT !.restarting = TRUE]
  /\ UNCHANGED gatewayVars

\* The command sleeps for a second: the answer is on its way before it runs.
handleGatewayRestart(s) ==
  /\ settingsCalls[s].op = "restart" /\ settingsCalls[s].post.at = "sent"
  /\ settingsCalls' = [settingsCalls EXCEPT ![s].post = Served(Nothing)]
  /\ settingsPage' = [settingsPage EXCEPT !.scheduled = @ + 1]
  /\ UNCHANGED <<clicks, gatewayVars>>

RestartCommandRuns ==
  /\ settingsPage.scheduled > 0
  /\ RestartedGateway
  /\ settingsPage' = [settingsPage EXCEPT !.scheduled = @ - 1]
  /\ UNCHANGED clicks

\* Success, catch and finally of onOk; a request that broke may have been served.
RestartEnds(s) ==
  /\ settingsCalls[s].op = "restart"
  /\ \E late \in IF settingsCalls[s].post.at = "sent" THEN {0, 1} ELSE {0} :
       settingsPage' = [settingsPage EXCEPT !.restarting = FALSE, !.scheduled = @ + late]
  /\ settingsCalls' = Put(settingsCalls, s, Idle)
  /\ UNCHANGED <<clicks, gatewayVars>>

(***************************************************************************)
(* The operator types: into a retention field or the clean-up plan, or     *)
(* into a field of the tuning.  No input shows the access policy; the form *)
(* carries it from the GET to the POST.                                    *)
(***************************************************************************)
Typeable == settingsPage.form # Nothing /\ ~settingsPage.loading /\ ~settingsPage.saving

TypeKeep ==
  /\ Typeable /\ Click
  /\ \E v \in Keeps \cup {Invalid} : settingsPage' = [settingsPage EXCEPT !.form.keep = v]
  /\ UNCHANGED <<settingsCalls, gatewayVars>>

TypeTuning ==
  /\ Typeable /\ Click
  /\ \E v \in Bandwidths : settingsPage' = [settingsPage EXCEPT !.form.mbps = v]
  /\ UNCHANGED <<settingsCalls, gatewayVars>>

SettingsNext ==
  \/ SettingsLoad \/ SettingsSave \/ TypeKeep \/ TypeTuning
  \/ confirmRestart \/ RestartCommandRuns \/ Crash
  \/ \E s \in Slots :
       \/ SettingsLoaded(s) \/ SettingsReread(s) \/ SettingsTakeForm(s) \/ SettingsSaved(s)
       \/ SettingsFails(s) \/ SettingsLeft(s)
       \/ SettingsServeGet(s) \/ SettingsTune(s) \/ SettingsServePost(s) \/ SettingsServeUsage(s)
       \/ SettingsOpenFile(s) \/ SettingsWriteFile(s)
       \/ handleGatewayRestart(s) \/ RestartEnds(s)

(***************************************************************************)
(* A save that no load overlapped ends with a form the gateway gave after  *)
(* it had stored the save: the notice "saved and re-read" is true of what  *)
(* is on the screen (save in SystemSettingsView.vue).                      *)
(***************************************************************************)
SoloSaveRereads ==
  settingsPage.notice = "saved" /\ ~settingsPage.raced
    => settingsPage.form.read >= settingsPage.wrote

(***************************************************************************)
(* What a POST has got into the file is what the gateway has, in memory    *)
(* and in the file, until the next POST: through any number of crashes and *)
(* restarts, also one while the form is read back.  The answer does not    *)
(* say so much: saveJSON's error is dropped (ops_system_settings_http.go), *)
(* and a save whose write failed is answered with success and lost by the  *)
(* next start, with the access policy if the file was cut.  Nor is it said *)
(* of two POSTs that meet half way, which may leave memory and file with   *)
(* one of them each.                                                       *)
(***************************************************************************)
StoredSurvives ==
  settingsPage.stored # Nothing
    => /\ disk = settingsPage.stored
       /\ disk = [keep |-> settings.keep, access |-> settings.access, mbps |-> settings.base]

(***************************************************************************)
(* The settings spinner is honest: it turns only while a handler that will *)
(* stop it is under way, however loads, saves and failures overlap.        *)
(***************************************************************************)
SettingsSpinner ==
  /\ settingsPage.loading => Waiting(settingsCalls, "load") # {}
  /\ settingsPage.saving <=> Waiting(settingsCalls, "save") # {}
  /\ settingsPage.restarting <=> Waiting(settingsCalls, "restart") # {}

\* The types of the page: a form, and a handler's three requests.
SystemSettingsState ==
  [keep : StoredKeeps \cup {Invalid}, access : StoredAccesses, mbps : Nat, read : 0 .. MaxWrites]

SettingsTypeOK ==
  /\ settingsPage \in
       [form : Maybe(SystemSettingsState), loading : BOOLEAN, saving : BOOLEAN, error : BOOLEAN,
        notice : {"", "saved"}, wrote : 0 .. MaxWrites, raced : BOOLEAN,
        stored : Maybe(SettingsFiles), crossed : BOOLEAN, restarting : BOOLEAN,
        scheduled : 0 .. MaxClicks]
  /\ settingsCalls \in [Slots -> {Idle}
       \cup [op : {"restart"}, post : Requests({Nothing}, {}, {Nothing})]
       \cup [op : {"load", "save", "left"},
             post : Requests(SystemSettingsState,
                             [body : SystemSettingsState, write : 0 .. MaxWrites], {Nothing}),
             get : Requests({Nothing}, {}, SystemSettingsState),
             usage : Requests({Nothing}, SystemResourceUsage, {Nothing})]]
=============================================================================
