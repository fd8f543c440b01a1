----------------------------- MODULE TypeProofs -----------------------------
(***************************************************************************)
(* The gateway's stores and the mounted page have their types, for every   *)
(* number of handlers under way and every set of values.  The types alone  *)
(* are not inductive: an answer is taken over what was typed, and a        *)
(* request carries what the page held when it was sent.  The invariant of  *)
(* each page says what the requests of each kind of handler carry, find    *)
(* half way and are answered with, and what an open editor holds.          *)
(***************************************************************************)
EXTENDS StoreProofs

-----------------------------------------------------------------------------
(* Requests and slots.                                                     *)

LEMMA RequestMade ==
  ASSUME NEW B, NEW F, NEW A
  PROVE  /\ Unsent \in Requests(B, F, A)
         /\ \A x \in B : Sent(x) \in Requests(B, F, A)
         /\ \A x \in F : Read(x) \in Requests(B, F, A)
         /\ \A x \in A : Served(x) \in Requests(B, F, A)
BY DEF Requests, Unsent, Sent, Read, Served

LEMMA RequestCarries ==
  ASSUME NEW B, NEW F, NEW A, NEW r \in Requests(B, F, A)
  PROVE  /\ r.at \in {"sent", "tuned"} => r.with \in B
         /\ r.at \in {"read", "open"} => r.with \in F
         /\ r.at = "served" => r.with \in A
BY DEF Requests, Unsent

LEMMA RequestsWiden ==
  ASSUME NEW B, NEW F, NEW A, NEW B2, NEW F2, NEW A2,
         B \subseteq B2, F \subseteq F2, A \subseteq A2
  PROVE  Requests(B, F, A) \subseteq Requests(B2, F2, A2)
BY DEF Requests

LEMMA SlotTyped ==
  ASSUME NEW T, NEW calls \in [Slots -> T], NEW s \in Slots, NEW c \in T
  PROVE  [calls EXCEPT ![s] = c] \in [Slots -> T]
OBVIOUS

LEMMA NoneTyped == \A T : Idle \in T => NoCalls \in [Slots -> T]
BY DEF NoCalls

\* The operator's steps are counted up to the bound.
ClicksTyped == clicks \in 0 .. MaxClicks

LEMMA ClickTyped == ClicksTyped /\ Click => ClicksTyped' /\ clicks' = clicks + 1
BY ClicksAssumption DEF ClicksTyped, Click

-----------------------------------------------------------------------------
(* The gateway's settings.                                                 *)

LEMMA TunedTyped ==
  ASSUME GatewayTypeOK, NEW profile
  PROVE  [mbps  |-> tuneTransportForProfile(settings.base, profile),
          limit |-> limitsForProfile(settings.limit, profile)] \in SystemResourceUsage
<1>1. settings.base \in Nat /\ settings.limit \in Nat
  BY DEF GatewayTypeOK, SystemSettingsPayload
<1>2. tuneTransportForProfile(settings.base, profile) \in Nat
  BY <1>1 DEF tuneTransportForProfile, clampFloat
<1>3. \A percent \in {60, 85, 100} : scaleInt(settings.limit, percent) \in Nat
  BY <1>1 DEF scaleInt
<1>4. limitsForProfile(settings.limit, profile) \in Nat
  BY <1>3 DEF limitsForProfile
<1> QED BY <1>2, <1>4 DEF SystemResourceUsage

LEMMA FileTyped ==
  ASSUME GatewayTypeOK
  PROVE  /\ FileOrDefaults.keep \in StoredKeeps /\ FileOrDefaults.access \in StoredAccesses
         /\ FileOrDefaults.mbps \in Nat /\ Defaults.limit \in Nat
<1>1. Defaults.keep \in StoredKeeps /\ Defaults.access \in StoredAccesses
      /\ Defaults.mbps \in Nat /\ Defaults.limit \in Nat
  BY EnteredValues DEF StoredKeeps, StoredAccesses
<1>2. disk # Nothing => disk \in SettingsFiles
  BY DEF GatewayTypeOK, Maybe
<1> QED BY <1>1, <1>2 DEF FileOrDefaults, SettingsFiles

LEMMA StartTyped == GatewayTypeOK /\ StartGateway => GatewayTypeOK'
<1> SUFFICES ASSUME GatewayTypeOK, StartGateway PROVE GatewayTypeOK'
  OBVIOUS
<1> DEFINE file == FileOrDefaults
<1>1. /\ file.keep \in StoredKeeps /\ file.access \in StoredAccesses
      /\ file.mbps \in Nat /\ Defaults.limit \in Nat
  BY FileTyped
<1> HIDE DEF file
<1>2. /\ settings' = [settings EXCEPT !.keep = file.keep, !.access = file.access,
                                      !.base = file.mbps, !.limit = Defaults.limit]
      /\ running' = [mbps |-> file.mbps, limit |-> Defaults.limit] /\ disk' = disk
  BY DEF StartGateway, file
<1>3. settings \in SystemSettingsPayload /\ disk \in Maybe(SettingsFiles)
  BY DEF GatewayTypeOK
<1>4. settings' \in SystemSettingsPayload
  BY <1>1, <1>2, <1>3 DEF SystemSettingsPayload
<1>5. running' \in SystemResourceUsage
  BY <1>1, <1>2 DEF SystemResourceUsage
<1> QED BY <1>2, <1>3, <1>4, <1>5 DEF GatewayTypeOK

LEMMA AppliedTyped ==
  ASSUME GatewayTypeOK, NEW usage, usage.with \in SystemResourceUsage,
         applyRecommendedRuntimeProfile(usage)
  PROVE  GatewayTypeOK'
BY DEF GatewayTypeOK, applyRecommendedRuntimeProfile

LEMMA WriteCounted ==
  ASSUME GatewayTypeOK, settings.writes < MaxWrites PROVE settings.writes + 1 \in 0 .. MaxWrites
BY WritesAssumption DEF GatewayTypeOK, SystemSettingsPayload

LEMMA GatewayStill == GatewayTypeOK /\ UNCHANGED gatewayVars => GatewayTypeOK'
BY DEF GatewayTypeOK, gatewayVars

-----------------------------------------------------------------------------
(* The settings page.  A POST carries a form that passed the page's check, *)
(* without which the store would have no type.  One restart at a time is   *)
(* under way, and each has cost the operator a step: as many as there are  *)
(* steps can be scheduled.                                                 *)

SettingsBodies ==
  [keep : StoredKeeps, access : StoredAccesses, mbps : Nat, read : 0 .. MaxWrites]

SettingsHalves == [body : SettingsBodies, write : 0 .. MaxWrites]

SettingsPosts == Requests(SettingsBodies, SettingsHalves, {Nothing})

SettingsGets == Requests({Nothing}, {}, SystemSettingsState)

UsageGets == Requests({Nothing}, SystemResourceUsage, {Nothing})

SettingsHandlers ==
  [op : {"load", "save", "left"}, post : SettingsPosts, get : SettingsGets, usage : UsageGets]

RestartCalls == [op : {"restart"}, post : Requests({Nothing}, {}, {Nothing})]

SettingsCallSet == {Idle} \cup RestartCalls \cup SettingsHandlers

SettingsPages ==
  [form : Maybe(SystemSettingsState), loading : BOOLEAN, saving : BOOLEAN, error : BOOLEAN,
   notice : {"", "saved"}, wrote : 0 .. MaxWrites, raced : BOOLEAN,
   stored : Maybe(SettingsFiles), crossed : BOOLEAN, restarting : BOOLEAN, scheduled : Nat]

SettingsShaped ==
  settingsPage \in SettingsPages /\ settingsCalls \in [Slots -> SettingsCallSet]

RestartAsked(call) == call.op = "restart" /\ call.post.at = "sent"

RestartsCounted ==
  /\ \A s \in Slots : settingsCalls[s].op = "restart" => settingsPage.restarting = TRUE
  /\ \A s, t \in Slots : settingsCalls[s].op = "restart" /\ settingsCalls[t].op = "restart" => s = t
  /\ settingsPage.scheduled <= clicks
  /\ \A s \in Slots : RestartAsked(settingsCalls[s]) => settingsPage.scheduled < clicks

SettingsTyped == SettingsShaped /\ RestartsCounted

LEMMA SettingsHandlerKnown ==
  ASSUME NEW c \in SettingsCallSet
  PROVE  /\ c.op \in {"load", "save", "left"} => c \in SettingsHandlers
         /\ c.op = "restart" => c \in RestartCalls
BY DEF SettingsCallSet, SettingsHandlers, RestartCalls, Idle

LEMMA SettingsHandlerGoesOn ==
  ASSUME NEW c \in SettingsHandlers, NEW r
  PROVE  /\ r \in SettingsPosts => [c EXCEPT !.post = r] \in SettingsHandlers
         /\ r \in SettingsGets => [c EXCEPT !.get = r] \in SettingsHandlers
         /\ r \in UsageGets => [c EXCEPT !.usage = r] \in SettingsHandlers
         /\ [c EXCEPT !.op = "left"] \in SettingsHandlers
BY DEF SettingsHandlers

LEMMA SettingsHandlerServes ==
  ASSUME NEW c \in SettingsHandlers
  PROVE  /\ c.post.at \in {"sent", "tuned"} => c.post.with \in SettingsBodies
         /\ c.post.at \in {"read", "open"} => c.post.with \in SettingsHalves
         /\ c.get.at = "served" => c.get.with \in SystemSettingsState
         /\ c.usage.at = "read" => c.usage.with \in SystemResourceUsage
<1>1. c.post \in SettingsPosts /\ c.get \in SettingsGets /\ c.usage \in UsageGets
  BY DEF SettingsHandlers
<1>2. /\ c.post.at \in {"sent", "tuned"} => c.post.with \in SettingsBodies
      /\ c.post.at \in {"read", "open"} => c.post.with \in SettingsHalves
  BY <1>1, RequestCarries DEF SettingsPosts
<1>3. c.get.at = "served" => c.get.with \in SystemSettingsState
  BY <1>1, RequestCarries DEF SettingsGets
<1>4. c.usage.at = "read" => c.usage.with \in SystemResourceUsage
  BY <1>1, RequestCarries DEF UsageGets
<1> QED BY <1>2, <1>3, <1>4

LEMMA SettingsRequestsMade ==
  /\ Unsent \in SettingsPosts /\ Unsent \in SettingsGets /\ Unsent \in UsageGets
  /\ Served(Nothing) \in SettingsPosts /\ Served(Nothing) \in UsageGets
  /\ Sent(Nothing) \in SettingsGets /\ Sent(Nothing) \in UsageGets
  /\ \A x \in SettingsBodies : Sent(x) \in SettingsPosts
  /\ \A x \in SettingsHalves : Read(x) \in SettingsPosts
  /\ \A x \in SystemSettingsState : Served(x) \in SettingsGets
  /\ \A x \in SystemResourceUsage : Read(x) \in UsageGets
<1>1. /\ Unsent \in SettingsPosts /\ Served(Nothing) \in SettingsPosts
      /\ \A x \in SettingsBodies : Sent(x) \in SettingsPosts
      /\ \A x \in SettingsHalves : Read(x) \in SettingsPosts
  BY RequestMade DEF SettingsPosts
<1>2. /\ Unsent \in SettingsGets /\ Sent(Nothing) \in SettingsGets
      /\ \A x \in SystemSettingsState : Served(x) \in SettingsGets
  BY RequestMade DEF SettingsGets
<1>3. /\ Unsent \in UsageGets /\ Served(Nothing) \in UsageGets /\ Sent(Nothing) \in UsageGets
      /\ \A x \in SystemResourceUsage : Read(x) \in UsageGets
  BY RequestMade DEF UsageGets
<1> QED BY <1>1, <1>2, <1>3

\* What a step puts in a slot.
LEMMA SettingsSlot ==
  ASSUME SettingsShaped, NEW s \in Slots
  PROVE  /\ settingsCalls[s] \in SettingsCallSet
         /\ \A c \in SettingsCallSet : [settingsCalls EXCEPT ![s] = c] \in [Slots -> SettingsCallSet]
BY DEF SettingsShaped

LEMMA SettingsStarts ==
  ASSUME SettingsShaped, NEW c \in SettingsCallSet,
         \E s \in Free(settingsCalls) : settingsCalls' = Put(settingsCalls, s, c)
  PROVE  settingsCalls' \in [Slots -> SettingsCallSet]
BY DEF SettingsShaped, Put, Free

LEMMA SettingsEnds ==
  ASSUME SettingsShaped, NEW s \in Slots, settingsCalls' = Put(settingsCalls, s, Idle)
  PROVE  settingsCalls' \in [Slots -> SettingsCallSet]
BY DEF SettingsShaped, Put, SettingsCallSet

LEMMA SettingsShapedStep ==
  SettingsShaped /\ GatewayTypeOK /\ SettingsNext => SettingsShaped' /\ GatewayTypeOK'
<1> SUFFICES ASSUME SettingsShaped, GatewayTypeOK, SettingsNext
             PROVE  SettingsShaped' /\ GatewayTypeOK'
  OBVIOUS
<1>0. /\ settingsPage \in SettingsPages /\ settingsCalls \in [Slots -> SettingsCallSet]
      /\ \A s \in Slots : settingsCalls[s] \in SettingsCallSet
  BY DEF SettingsShaped
<1>a. SettingsHandlers \subseteq SettingsCallSet /\ RestartCalls \subseteq SettingsCallSet
  BY DEF SettingsCallSet
<1>1. CASE SettingsLoad
  <2> DEFINE call == SettingsRequests("load", Unsent, Sent(Nothing), Sent(Nothing))
  <2>1. call \in SettingsCallSet
    BY <1>a, SettingsRequestsMade DEF SettingsHandlers, SettingsRequests
  <2>2. settingsCalls' \in [Slots -> SettingsCallSet]
    BY <1>1, <2>1, SettingsStarts DEF SettingsLoad
  <2>3. settingsPage' \in SettingsPages
    BY <1>0, <1>1 DEF SettingsLoad, SettingsPages
  <2> QED BY <1>1, <2>2, <2>3, GatewayStill DEF SettingsLoad, SettingsShaped
<1>2. CASE SettingsSave
  <2>1. settingsPage' \in SettingsPages
    <3> DEFINE raced == Waiting(settingsCalls, "load") # {}
    <3>1. raced \in BOOLEAN
      OBVIOUS
    <3>2. \/ settingsPage' = [settingsPage EXCEPT !.error = TRUE]
          \/ settingsPage' = [settingsPage EXCEPT !.saving = TRUE, !.error = FALSE,
                                !.notice = "", !.raced = raced]
      BY <1>2 DEF SettingsSave
    <3> HIDE DEF raced
    <3>3. CASE settingsPage' = [settingsPage EXCEPT !.error = TRUE]
      BY <1>0, <3>3 DEF SettingsPages
    <3>4. CASE settingsPage' = [settingsPage EXCEPT !.saving = TRUE, !.error = FALSE,
                                 !.notice = "", !.raced = raced]
      BY <1>0, <3>1, <3>4 DEF SettingsPages
    <3> QED BY <3>2, <3>3, <3>4
  <2>2. CASE settingsCalls' = settingsCalls
    BY <1>0, <1>2, <2>1, <2>2, GatewayStill DEF SettingsSave, SettingsShaped
  <2>3. CASE settingsCalls' # settingsCalls
    <3> DEFINE call == SettingsRequests("save", Sent(settingsPage.form), Unsent, Unsent)
    <3>1. settingsPage.form \in SystemSettingsState /\ settingsPage.form.keep # Invalid
      BY <1>0, <1>2, <2>3 DEF SettingsSave, SettingsPages, Maybe, validateSettings
    <3>2. settingsPage.form \in SettingsBodies
      BY <3>1 DEF SystemSettingsState, SettingsBodies
    <3>3. call \in SettingsCallSet
      BY <1>a, <3>2, SettingsRequestsMade DEF SettingsHandlers, SettingsRequests
    <3>4. settingsCalls' \in [Slots -> SettingsCallSet]
      BY <1>2, <2>3, <3>3, SettingsStarts DEF SettingsSave
    <3> QED BY <1>2, <2>1, <3>4, GatewayStill DEF SettingsSave, SettingsShaped
  <2> QED BY <2>2, <2>3
<1>3. CASE TypeKeep \/ TypeTuning
  <2>1. settingsPage.form \in SystemSettingsState
    BY <1>0, <1>3 DEF TypeKeep, TypeTuning, Typeable, SettingsPages, Maybe
  <2>2. PICK form \in SystemSettingsState : settingsPage' = [settingsPage EXCEPT !.form = form]
    <3>1. CASE TypeKeep
      <4>1. PICK v \in Keeps \cup {Invalid} : settingsPage' = [settingsPage EXCEPT !.form.keep = v]
        BY <3>1 DEF TypeKeep
      <4>2. [settingsPage.form EXCEPT !.keep = v] \in SystemSettingsState
        BY <2>1 DEF SystemSettingsState, StoredKeeps
      <4> QED BY <4>1, <4>2
    <3>2. CASE TypeTuning
      <4>1. PICK v \in Bandwidths : settingsPage' = [settingsPage EXCEPT !.form.mbps = v]
        BY <3>2 DEF TypeTuning
      <4>2. [settingsPage.form EXCEPT !.mbps = v] \in SystemSettingsState
        BY <2>1, EnteredValues DEF SystemSettingsState
      <4> QED BY <4>1, <4>2
    <3> QED BY <1>3, <3>1, <3>2
  <2>3. settingsPage' \in SettingsPages
    BY <1>0, <2>2 DEF SettingsPages, Maybe
  <2> QED BY <1>0, <1>3, <2>3, GatewayStill DEF TypeKeep, TypeTuning, SettingsShaped
<1>4. CASE confirmRestart
  <2>1. [op |-> "restart", post |-> Sent(Nothing)] \in SettingsCallSet
    BY <1>a, RequestMade DEF RestartCalls
  <2>2. settingsCalls' \in [Slots -> SettingsCallSet]
    BY <1>4, <2>1, SettingsStarts DEF confirmRestart
  <2>3. settingsPage' \in SettingsPages
    BY <1>0, <1>4 DEF confirmRestart, SettingsPages
  <2> QED BY <1>4, <2>2, <2>3, GatewayStill DEF confirmRestart, SettingsShaped
<1>5. ASSUME RestartedGateway PROVE settingsCalls' \in [Slots -> SettingsCallSet]
  <2>1. ASSUME NEW s \in Slots, settingsCalls[s].op \in {"load", "save", "left"}
        PROVE  [settingsCalls[s] EXCEPT !.post = Broken(@), !.usage = Broken(@)] \in SettingsCallSet
    <3> DEFINE c == settingsCalls[s]
    <3>1. c \in SettingsHandlers
      BY <1>0, <2>1, SettingsHandlerKnown
    <3> HIDE DEF c
    <3>2. Broken(c.post) \in SettingsPosts /\ Broken(c.usage) \in UsageGets
      BY <3>1 DEF SettingsHandlers, Broken, SettingsPosts, UsageGets, Requests
    <3>3. [c EXCEPT !.post = Broken(@), !.usage = Broken(@)] \in SettingsHandlers
      BY <3>1, <3>2 DEF SettingsHandlers
    <3> QED BY <1>a, <3>3 DEF c
  <2> QED BY <1>0, <1>5, <2>1 DEF RestartedGateway
<1>6. CASE RestartCommandRuns \/ Crash
  <2>1. settingsPage' \in SettingsPages
    <3>1. CASE Crash
      BY <1>0, <3>1 DEF Crash
    <3>2. CASE RestartCommandRuns
      <4>1. settingsPage.scheduled \in Nat /\ settingsPage.scheduled > 0
        BY <1>0, <3>2 DEF RestartCommandRuns, SettingsPages
      <4>2. settingsPage.scheduled - 1 \in Nat
        BY <4>1
      <4> QED BY <1>0, <3>2, <4>2 DEF RestartCommandRuns, SettingsPages
    <3> QED BY <1>6, <3>1, <3>2
  <2>2. RestartedGateway /\ StartGateway
    BY <1>6 DEF RestartCommandRuns, Crash, RestartedGateway
  <2> QED BY <1>5, <2>1, <2>2, StartTyped DEF SettingsShaped
<1>7. ASSUME NEW s \in Slots, SettingsLoaded(s) \/ SettingsSaved(s)
      PROVE  SettingsShaped' /\ GatewayTypeOK'
  <2>1. settingsCalls[s] \in SettingsHandlers
    BY <1>0, <1>7, SettingsHandlerKnown DEF SettingsLoaded, SettingsSaved
  <2>2. settingsPage' \in SettingsPages
    <3>1. CASE SettingsLoaded(s)
      <4>1. settingsCalls[s].get.with \in SystemSettingsState
        BY <2>1, <3>1, SettingsHandlerServes DEF SettingsLoaded
      <4> QED BY <1>0, <3>1, <4>1 DEF SettingsLoaded, SettingsPages, Maybe
    <3>2. CASE SettingsSaved(s)
      BY <1>0, <3>2 DEF SettingsSaved, SettingsPages
    <3> QED BY <1>7, <3>1, <3>2
  <2>3. settingsCalls' \in [Slots -> SettingsCallSet]
    BY <1>7, SettingsEnds DEF SettingsLoaded, SettingsSaved
  <2> QED BY <1>7, <2>2, <2>3, GatewayStill DEF SettingsLoaded, SettingsSaved, SettingsShaped
<1>8. ASSUME NEW s \in Slots, SettingsReread(s) \/ SettingsTakeForm(s)
      PROVE  SettingsShaped' /\ GatewayTypeOK'
  <2>1. settingsCalls[s] \in SettingsHandlers
    BY <1>0, <1>8, SettingsHandlerKnown DEF SettingsReread, SettingsTakeForm
  <2>2. settingsPage' \in SettingsPages
    <3>1. CASE SettingsReread(s)
      BY <1>0, <3>1 DEF SettingsReread
    <3>2. CASE SettingsTakeForm(s)
      <4>1. settingsCalls[s].get.with \in SystemSettingsState
        BY <2>1, <3>2, SettingsHandlerServes DEF SettingsTakeForm
      <4> QED BY <1>0, <3>2, <4>1 DEF SettingsTakeForm, SettingsPages, Maybe
    <3> QED BY <1>8, <3>1, <3>2
  <2>3. /\ [settingsCalls[s] EXCEPT !.get = Sent(Nothing)] \in SettingsCallSet
        /\ [settingsCalls[s] EXCEPT !.usage = Sent(Nothing)] \in SettingsCallSet
    BY <1>a, <2>1, SettingsHandlerGoesOn, SettingsRequestsMade
  <2>4. settingsCalls' \in [Slots -> SettingsCallSet]
    BY <1>8, <2>3, SettingsSlot DEF SettingsReread, SettingsTakeForm
  <2> QED BY <1>8, <2>2, <2>4, GatewayStill DEF SettingsReread, SettingsTakeForm, SettingsShaped
<1>9. ASSUME NEW s \in Slots, SettingsFails(s) \/ SettingsLeft(s)
      PROVE  SettingsShaped' /\ GatewayTypeOK'
  <2>1. settingsCalls[s] \in SettingsHandlers
    BY <1>0, <1>9, SettingsHandlerKnown DEF SettingsFails, SettingsLeft
  <2>2. settingsPage' \in SettingsPages
    BY <1>0, <1>9 DEF SettingsFails, SettingsLeft, SettingsPages
  <2>3. [settingsCalls[s] EXCEPT !.op = "left"] \in SettingsCallSet
    BY <1>a, <2>1, SettingsHandlerGoesOn
  <2>4. Leave(settingsCalls, s) \in [Slots -> SettingsCallSet]
    BY <2>3, SettingsSlot DEF Leave
  <2>5. settingsCalls' = Put(settingsCalls, s, Idle) \/ settingsCalls' = Leave(settingsCalls, s)
    BY <1>9 DEF SettingsFails, SettingsLeft
  <2>6. settingsCalls' \in [Slots -> SettingsCallSet]
    BY <2>4, <2>5, SettingsEnds
  <2> QED BY <1>9, <2>2, <2>6, GatewayStill DEF SettingsFails, SettingsLeft, SettingsShaped
<1>10. ASSUME NEW s \in Slots, SettingsServeGet(s) PROVE SettingsShaped' /\ GatewayTypeOK'
  <2>1. settingsCalls[s] \in SettingsHandlers
    BY <1>0, <1>10, SettingsHandlerKnown DEF SettingsServeGet
  <2>2. handleSystemSettingsGet \in SystemSettingsState
    BY DEF handleSystemSettingsGet, SystemSettingsState, GatewayTypeOK, SystemSettingsPayload,
           SystemResourceUsage
  <2>3. [settingsCalls[s] EXCEPT !.get = Served(handleSystemSettingsGet)] \in SettingsCallSet
    BY <1>a, <2>1, <2>2, SettingsHandlerGoesOn, SettingsRequestsMade
  <2>4. settingsCalls' \in [Slots -> SettingsCallSet]
    BY <1>10, <2>3, SettingsSlot DEF SettingsServeGet
  <2> QED BY <1>0, <1>10, <2>4, GatewayStill DEF SettingsServeGet, SettingsShaped
<1>11. ASSUME NEW s \in Slots, SettingsServePost(s) PROVE SettingsShaped' /\ GatewayTypeOK'
  <2> DEFINE body == settingsCalls[s].post.with
  <2>1. settingsCalls[s] \in SettingsHandlers /\ settingsCalls[s].post.at = "tuned"
    BY <1>0, <1>11, SettingsHandlerKnown DEF SettingsServePost
  <2>2. body \in SettingsBodies
    BY <2>1, SettingsHandlerServes
  <2>3. /\ settings.writes < MaxWrites
        /\ settings' = [settings EXCEPT !.keep = body.keep, !.access = body.access,
                                        !.base = body.mbps, !.writes = @ + 1]
        /\ running' = running /\ disk' = disk
        /\ settingsCalls' = [settingsCalls EXCEPT ![s].post = Read([body |-> body, write |-> settings'.writes])]
    BY <1>11 DEF SettingsServePost, handleSystemSettingsPost
  <2>4. settingsPage' \in SettingsPages
    BY <1>0, <1>11 DEF SettingsServePost, SettingsPages, Maybe
  <2> HIDE DEF body
  <2>a. settings.writes + 1 \in 0 .. MaxWrites
    BY <2>3, WriteCounted
  <2>5. settings' \in SystemSettingsPayload
    BY <2>2, <2>3, <2>a DEF GatewayTypeOK, SystemSettingsPayload, SettingsBodies
  <2>6. running' \in SystemResourceUsage
    BY <2>3 DEF GatewayTypeOK
  <2>7. [body |-> body, write |-> settings'.writes] \in SettingsHalves
    BY <2>2, <2>5 DEF SettingsHalves, SystemSettingsPayload
  <2>8. [settingsCalls[s] EXCEPT !.post = Read([body |-> body, write |-> settings'.writes])]
          \in SettingsCallSet
    BY <1>a, <2>1, <2>7, SettingsHandlerGoesOn, SettingsRequestsMade
  <2>9. settingsCalls' \in [Slots -> SettingsCallSet]
    BY <2>3, <2>8, SettingsSlot
  <2> QED BY <2>3, <2>4, <2>5, <2>6, <2>9 DEF GatewayTypeOK, SettingsShaped
<1>12. ASSUME NEW s \in Slots, SettingsServeUsage(s) PROVE SettingsShaped' /\ GatewayTypeOK'
  <2>1. settingsCalls[s] \in SettingsHandlers
    BY <1>0, <1>12, SettingsHandlerKnown DEF SettingsServeUsage
  <2>2. CASE settingsCalls[s].usage.at = "sent"
    <3>1. PICK profile \in Profiles :
            settingsCalls' = [settingsCalls EXCEPT ![s].usage = UsageRead(profile)]
      BY <1>12, <2>2 DEF SettingsServeUsage
    <3>2. UsageRead(profile) \in UsageGets
      BY TunedTyped, SettingsRequestsMade DEF UsageRead
    <3>3. [settingsCalls[s] EXCEPT !.usage = UsageRead(profile)] \in SettingsCallSet
      BY <1>a, <2>1, <3>2, SettingsHandlerGoesOn
    <3>4. settingsCalls' \in [Slots -> SettingsCallSet]
      BY <3>1, <3>3, SettingsSlot
    <3>5. UNCHANGED gatewayVars /\ settingsPage' = settingsPage
      BY <1>12, <2>2 DEF SettingsServeUsage
    <3> QED BY <1>0, <3>4, <3>5, GatewayStill DEF SettingsShaped
  <2>3. CASE settingsCalls[s].usage.at # "sent"
    <3>1. /\ settingsCalls[s].usage.at = "read" /\ settingsPage' = settingsPage
          /\ applyRecommendedRuntimeProfile(settingsCalls[s].usage)
          /\ settingsCalls' = [settingsCalls EXCEPT ![s].usage = Served(Nothing)]
      BY <1>12, <2>3 DEF SettingsServeUsage
    <3>2. settingsCalls[s].usage.with \in SystemResourceUsage
      BY <2>1, <3>1, SettingsHandlerServes
    <3>3. GatewayTypeOK'
      BY <3>1, <3>2, AppliedTyped
    <3>4. [settingsCalls[s] EXCEPT !.usage = Served(Nothing)] \in SettingsCallSet
      BY <1>a, <2>1, SettingsHandlerGoesOn, SettingsRequestsMade
    <3>5. settingsCalls' \in [Slots -> SettingsCallSet]
      BY <3>1, <3>4, SettingsSlot
    <3> QED BY <1>0, <3>1, <3>3, <3>5 DEF SettingsShaped
  <2> QED BY <2>2, <2>3
<1>13. ASSUME NEW s \in Slots, SettingsOpenFile(s) PROVE SettingsShaped' /\ GatewayTypeOK'
  <2>1. /\ settingsCalls[s].op \in {"save", "left"} /\ settingsCalls[s].post.at = "read"
        /\ disk' = Nothing /\ UNCHANGED <<settings, running, settingsPage>>
        /\ settingsCalls' = [settingsCalls EXCEPT ![s].post.at = "open"]
    BY <1>13 DEF SettingsOpenFile, HalfWay, Opened, TruncateFile
  <2>2. settingsCalls[s] \in SettingsHandlers
    BY <1>0, <2>1, SettingsHandlerKnown
  <2>3. [settingsCalls[s].post EXCEPT !.at = "open"] \in SettingsPosts
    BY <2>1, <2>2 DEF SettingsHandlers, SettingsPosts, Requests, Unsent
  <2>4. [settingsCalls[s] EXCEPT !.post = [settingsCalls[s].post EXCEPT !.at = "open"]] \in SettingsCallSet
    BY <1>a, <2>2, <2>3, SettingsHandlerGoesOn
  <2>5. settingsCalls' = [settingsCalls EXCEPT ![s] =
          [settingsCalls[s] EXCEPT !.post = [settingsCalls[s].post EXCEPT !.at = "open"]]]
    BY <2>1
  <2>6. settingsCalls' \in [Slots -> SettingsCallSet]
    BY <2>4, <2>5, SettingsSlot
  <2>7. GatewayTypeOK'
    BY <2>1 DEF GatewayTypeOK, Maybe
  <2> QED BY <1>0, <2>1, <2>6, <2>7 DEF SettingsShaped
<1>14. ASSUME NEW s \in Slots, SettingsWriteFile(s) PROVE SettingsShaped' /\ GatewayTypeOK'
  <2> DEFINE half == settingsCalls[s].post.with
             file == [keep |-> half.body.keep, access |-> half.body.access, mbps |-> half.body.mbps]
  <2>1. /\ settingsCalls[s].op \in {"save", "left"} /\ settingsCalls[s].post.at \in {"read", "open"}
        /\ disk' \in {disk, file, Nothing} /\ UNCHANGED <<settings, running>>
        /\ settingsPage' = [settingsPage EXCEPT
                              !.stored = IF ~settingsPage.crossed /\ disk' = file THEN file ELSE Nothing,
                              !.wrote = IF settingsCalls[s].op = "save" THEN half.write ELSE @]
        /\ settingsCalls' = [settingsCalls EXCEPT ![s].post = Served(Nothing)]
    BY <1>14 DEF SettingsWriteFile, HalfWay, Opened, WriteFile, gatewayVars
  <2>2. settingsCalls[s] \in SettingsHandlers
    BY <1>0, <2>1, SettingsHandlerKnown
  <2>3. half \in SettingsHalves
    BY <2>1, <2>2, SettingsHandlerServes
  <2> HIDE DEF half
  <2>4. file \in SettingsFiles /\ half.write \in 0 .. MaxWrites
    BY <2>3 DEF SettingsHalves, SettingsBodies, SettingsFiles
  <2> HIDE DEF file
  <2>5. settingsPage' \in SettingsPages
    BY <1>0, <2>1, <2>4 DEF SettingsPages, Maybe
  <2>6. GatewayTypeOK'
    BY <2>1, <2>4 DEF GatewayTypeOK, Maybe
  <2>7. [settingsCalls[s] EXCEPT !.post = Served(Nothing)] \in SettingsCallSet
    BY <1>a, <2>2, SettingsHandlerGoesOn, SettingsRequestsMade
  <2>8. settingsCalls' \in [Slots -> SettingsCallSet]
    BY <2>1, <2>7, SettingsSlot
  <2> QED BY <2>5, <2>6, <2>8 DEF SettingsShaped
<1>15. ASSUME NEW s \in Slots, handleGatewayRestart(s) \/ RestartEnds(s)
       PROVE  SettingsShaped' /\ GatewayTypeOK'
  <2>1. settingsCalls[s] \in RestartCalls
    BY <1>0, <1>15, SettingsHandlerKnown DEF handleGatewayRestart, RestartEnds
  <2>2. settingsPage' \in SettingsPages
    <3>1. settingsPage.scheduled \in Nat
      BY <1>0 DEF SettingsPages
    <3>2. settingsPage.scheduled + 0 \in Nat /\ settingsPage.scheduled + 1 \in Nat
      BY <3>1
    <3>3. CASE handleGatewayRestart(s)
      BY <1>0, <3>2, <3>3 DEF handleGatewayRestart, SettingsPages
    <3>4. CASE RestartEnds(s)
      <4>1. PICK late \in {0, 1} :
              settingsPage' = [settingsPage EXCEPT !.restarting = FALSE, !.scheduled = @ + late]
        BY <3>4, Zenon DEF RestartEnds
      <4>2. settingsPage.scheduled + late \in Nat
        BY <3>2
      <4> QED BY <1>0, <4>1, <4>2 DEF SettingsPages
    <3> QED BY <1>15, <3>3, <3>4
  <2>3. [settingsCalls[s] EXCEPT !.post = Served(Nothing)] \in SettingsCallSet
    BY <1>a, <2>1, RequestMade DEF RestartCalls
  <2>4. settingsCalls' \in [Slots -> SettingsCallSet]
    BY <1>15, <2>3, SettingsSlot, SettingsEnds DEF handleGatewayRestart, RestartEnds
  <2> QED BY <1>15, <2>2, <2>4, GatewayStill DEF handleGatewayRestart, RestartEnds, SettingsShaped
<1>16. ASSUME NEW s \in Slots, SettingsTune(s) PROVE SettingsShaped' /\ GatewayTypeOK'
  <2> DEFINE body == settingsCalls[s].post.with
  <2>1. /\ settingsCalls[s].op \in {"save", "left"} /\ settingsCalls[s].post.at = "sent"
        /\ running' = [running EXCEPT !.mbps = body.mbps] /\ UNCHANGED <<settings, disk, settingsPage>>
        /\ settingsCalls' = [settingsCalls EXCEPT ![s].post.at = "tuned"]
    BY <1>16 DEF SettingsTune, ApplyTransportTuning
  <2>2. settingsCalls[s] \in SettingsHandlers
    BY <1>0, <2>1, SettingsHandlerKnown
  <2>3. body \in SettingsBodies
    BY <2>1, <2>2, SettingsHandlerServes
  <2>4. [settingsCalls[s].post EXCEPT !.at = "tuned"] \in SettingsPosts
    BY <2>1, <2>2 DEF SettingsHandlers, SettingsPosts, Requests, Unsent
  <2> HIDE DEF body
  <2>5. GatewayTypeOK'
    BY <2>1, <2>3 DEF GatewayTypeOK, SystemResourceUsage, SettingsBodies
  <2>6. [settingsCalls[s] EXCEPT !.post = [settingsCalls[s].post EXCEPT !.at = "tuned"]] \in SettingsCallSet
    BY <1>a, <2>2, <2>4, SettingsHandlerGoesOn
  <2>7. settingsCalls' = [settingsCalls EXCEPT ![s] =
          [settingsCalls[s] EXCEPT !.post = [settingsCalls[s].post EXCEPT !.at = "tuned"]]]
    BY <2>1
  <2>8. settingsCalls' \in [Slots -> SettingsCallSet]
    BY <2>6, <2>7, SettingsSlot
  <2> QED BY <1>0, <2>1, <2>5, <2>8 DEF SettingsShaped
<1> QED BY <1>1, <1>2, <1>3, <1>4, <1>6, <1>7, <1>8, <1>9, <1>10, <1>11, <1>12, <1>13, <1>14, <1>15,
           <1>16
        DEF SettingsNext

LEMMA ScheduledTyped ==
  ASSUME SettingsShaped, ClicksTyped PROVE settingsPage.scheduled \in Nat /\ clicks \in Nat
<1>1. settingsPage.scheduled \in Nat
  BY DEF SettingsShaped, SettingsPages
<1>2. clicks \in Nat
  BY ClicksAssumption DEF ClicksTyped
<1> QED BY <1>1, <1>2

LEMMA RestartsStill ==
  ASSUME RestartsCounted, SettingsShaped, ClicksTyped, NEW s \in Slots, NEW c,
         settingsCalls' = [settingsCalls EXCEPT ![s] = c] \/ settingsCalls' = settingsCalls,
         c.op # "restart", settingsCalls[s].op # "restart",
         settingsPage'.restarting = settingsPage.restarting,
         settingsPage'.scheduled = settingsPage.scheduled,
         clicks' \in {clicks, clicks + 1}
  PROVE  RestartsCounted'
<1>1. settingsPage.scheduled \in Nat /\ clicks \in Nat
  BY ScheduledTyped
<1>2. clicks <= clicks' /\ clicks' \in Nat
  BY <1>1
<1>3. \A t \in Slots : settingsCalls'[t].op = "restart"
                         => settingsCalls[t].op = "restart" /\ settingsCalls'[t] = settingsCalls[t]
  BY DEF SettingsShaped
<1>4. settingsPage.scheduled <= clicks'
  BY <1>1, <1>2 DEF RestartsCounted
<1>5. ASSUME NEW t \in Slots, RestartAsked(settingsCalls'[t]) PROVE settingsPage.scheduled < clicks'
  <2>1. RestartAsked(settingsCalls[t])
    BY <1>3, <1>5 DEF RestartAsked
  <2> QED BY <1>1, <1>2, <2>1 DEF RestartsCounted
<1> QED BY <1>3, <1>4, <1>5 DEF RestartsCounted, RestartAsked

LEMMA RestartsStep ==
  SettingsShaped /\ RestartsCounted /\ ClicksTyped /\ SettingsNext => RestartsCounted' /\ ClicksTyped'
<1> SUFFICES ASSUME SettingsShaped, RestartsCounted, ClicksTyped, SettingsNext
             PROVE  RestartsCounted' /\ ClicksTyped'
  OBVIOUS
<1>0. /\ settingsPage \in SettingsPages /\ settingsCalls \in [Slots -> SettingsCallSet]
      /\ settingsPage.scheduled \in Nat /\ clicks \in Nat
  BY ScheduledTyped DEF SettingsShaped
<1>a. Idle.op # "restart" /\ Idle.op = "idle"
  BY DEF Idle
\* A step that leaves the clicks alone.
<1>b. clicks' = clicks => ClicksTyped'
  BY DEF ClicksTyped
\* A handler other than a restart goes on.
<1>c. ASSUME NEW s \in Slots, NEW c, settingsCalls[s].op # "restart", c.op # "restart",
             settingsCalls' = [settingsCalls EXCEPT ![s] = c],
             settingsPage'.restarting = settingsPage.restarting,
             settingsPage'.scheduled = settingsPage.scheduled, clicks' = clicks
      PROVE  RestartsCounted' /\ ClicksTyped'
  BY <1>b, <1>c, RestartsStill
<1>1. CASE SettingsLoad \/ SettingsSave
  <2>1. ClicksTyped' /\ clicks' \in {clicks, clicks + 1}
    BY <1>1, ClickTyped DEF SettingsLoad, SettingsSave
  <2>2. /\ settingsPage'.restarting = settingsPage.restarting
        /\ settingsPage'.scheduled = settingsPage.scheduled
    BY <1>0, <1>1 DEF SettingsLoad, SettingsSave, SettingsPages
  <2>3. CASE settingsCalls' = settingsCalls
    BY <1>0, <2>1, <2>2, <2>3 DEF RestartsCounted
  <2>4. CASE settingsCalls' # settingsCalls
    <3>1. PICK s, c : /\ s \in Free(settingsCalls) /\ c.op \in {"load", "save"}
                      /\ settingsCalls' = [settingsCalls EXCEPT ![s] = c]
      <4>1. \A op, post, get, usage : SettingsRequests(op, post, get, usage).op = op
        BY DEF SettingsRequests
      <4>2. PICK s, op, post, get, usage :
              /\ s \in Free(settingsCalls) /\ op \in {"load", "save"}
              /\ settingsCalls' = [settingsCalls EXCEPT ![s] = SettingsRequests(op, post, get, usage)]
        BY <1>1, <2>4 DEF SettingsLoad, SettingsSave, Put
      <4> DEFINE call == SettingsRequests(op, post, get, usage)
      <4>3. call.op \in {"load", "save"}
        BY <4>1, <4>2
      <4> HIDE DEF call
      <4> QED BY <4>2, <4>3, Zenon DEF call
    <3>2. s \in Slots /\ settingsCalls[s].op = "idle"
      BY <1>a, <3>1 DEF Free
    <3> QED BY <2>1, <2>2, <3>1, <3>2, RestartsStill
  <2> QED BY <2>3, <2>4
<1>2. CASE TypeKeep \/ TypeTuning
  <2>1. ClicksTyped' /\ clicks' = clicks + 1 /\ settingsCalls' = settingsCalls
    BY <1>2, ClickTyped DEF TypeKeep, TypeTuning
  <2>2. /\ settingsPage'.restarting = settingsPage.restarting
        /\ settingsPage'.scheduled = settingsPage.scheduled
    BY <1>0, <1>2 DEF TypeKeep, TypeTuning, SettingsPages
  <2> QED BY <1>0, <2>1, <2>2 DEF RestartsCounted
<1>3. CASE confirmRestart
  <2>1. PICK s \in Free(settingsCalls) :
          settingsCalls' = [settingsCalls EXCEPT ![s] = [op |-> "restart", post |-> Sent(Nothing)]]
    BY <1>3 DEF confirmRestart, Put
  <2>2. /\ s \in Slots /\ settingsPage.restarting = FALSE
        /\ settingsPage'.restarting = TRUE /\ settingsPage'.scheduled = settingsPage.scheduled
    BY <1>0, <1>3 DEF confirmRestart, SettingsPages, Free
  <2>3. \A t \in Slots : settingsCalls[t].op # "restart"
    BY <2>2 DEF RestartsCounted
  <2>4. \A t \in Slots : settingsCalls'[t].op = "restart" => t = s
    BY <1>0, <2>1, <2>3
  <2>5. ClicksTyped' /\ clicks' = clicks + 1
    BY <1>3, ClickTyped DEF confirmRestart
  <2>6. settingsPage.scheduled <= clicks /\ settingsPage.scheduled < clicks'
    BY <1>0, <2>5 DEF RestartsCounted
  <2>7. settingsPage.scheduled <= clicks'
    BY <1>0, <2>5, <2>6
  <2> QED BY <2>2, <2>4, <2>5, <2>6, <2>7 DEF RestartsCounted
\* A start of the gateway loses no restart.
<1>4. ASSUME RestartedGateway
      PROVE  \A t \in Slots : settingsCalls'[t].op = "restart"
                                => settingsCalls[t].op = "restart" /\ settingsCalls'[t] = settingsCalls[t]
  <2>1. ASSUME NEW t \in Slots, settingsCalls[t].op \in {"load", "save", "left"}
        PROVE  settingsCalls'[t].op = settingsCalls[t].op
    <3>1. settingsCalls[t] \in SettingsHandlers
      BY <1>0, <2>1, SettingsHandlerKnown
    <3> QED BY <1>4, <2>1, <3>1 DEF RestartedGateway, SettingsHandlers
  <2> QED BY <1>4, <2>1 DEF RestartedGateway
<1>5. CASE RestartCommandRuns \/ Crash
  <2>1. /\ settingsPage'.restarting = settingsPage.restarting
        /\ settingsPage'.scheduled \in {settingsPage.scheduled, settingsPage.scheduled - 1}
    BY <1>0, <1>5 DEF RestartCommandRuns, Crash, SettingsPages
  <2>2. RestartedGateway
    BY <1>5 DEF RestartCommandRuns, Crash
  <2>3. ClicksTyped' /\ clicks' \in {clicks, clicks + 1}
    BY <1>5, <1>b, ClickTyped DEF RestartCommandRuns, Crash
  <2>4. clicks' \in Nat /\ clicks <= clicks' /\ settingsPage'.scheduled <= settingsPage.scheduled
    BY <1>0, <2>1, <2>3
  <2>5. settingsPage'.scheduled \in Int
    BY <1>0, <2>1
  <2>6. settingsPage'.scheduled <= clicks'
    BY <1>0, <2>4, <2>5 DEF RestartsCounted
  <2>7. ASSUME NEW t \in Slots, RestartAsked(settingsCalls'[t])
        PROVE  settingsPage'.scheduled < clicks'
    <3>1. RestartAsked(settingsCalls[t])
      BY <1>4, <2>2, <2>7 DEF RestartAsked
    <3> QED BY <1>0, <2>4, <2>5, <3>1 DEF RestartsCounted
  <2> QED BY <1>4, <2>1, <2>2, <2>3, <2>6, <2>7 DEF RestartsCounted, RestartAsked
<1>6. ASSUME NEW s \in Slots, SettingsLoaded(s) \/ SettingsSaved(s) PROVE RestartsCounted' /\ ClicksTyped'
  <2>1. /\ settingsPage'.restarting = settingsPage.restarting
        /\ settingsPage'.scheduled = settingsPage.scheduled
    BY <1>0, <1>6 DEF SettingsLoaded, SettingsSaved, SettingsPages
  <2> QED BY <1>6, <1>a, <1>c, <2>1 DEF SettingsLoaded, SettingsSaved, Put
<1>7. ASSUME NEW s \in Slots,
             \/ SettingsReread(s) \/ SettingsTakeForm(s) \/ SettingsServeGet(s) \/ SettingsServePost(s)
             \/ SettingsServeUsage(s) \/ SettingsOpenFile(s) \/ SettingsWriteFile(s)
             \/ SettingsTune(s)
      PROVE  RestartsCounted' /\ ClicksTyped'
  <2>1. settingsCalls[s].op \in {"load", "save", "left"}
    BY <1>7 DEF SettingsReread, SettingsTakeForm, SettingsServeGet, SettingsServePost,
       SettingsServeUsage, SettingsOpenFile, SettingsWriteFile, SettingsTune, HalfWay, Opened
  <2>2. /\ settingsPage'.restarting = settingsPage.restarting
        /\ settingsPage'.scheduled = settingsPage.scheduled /\ clicks' = clicks
    BY <1>0, <1>7 DEF SettingsReread, SettingsTakeForm, SettingsServeGet, SettingsServePost,
       SettingsServeUsage, SettingsOpenFile, SettingsWriteFile, SettingsTune, SettingsPages
  <2>3. settingsCalls[s] \in SettingsHandlers
    BY <1>0, <2>1, SettingsHandlerKnown
  <2>4. \A r : /\ [settingsCalls[s] EXCEPT !.get = r].op = settingsCalls[s].op
               /\ [settingsCalls[s] EXCEPT !.post = r].op = settingsCalls[s].op
               /\ [settingsCalls[s] EXCEPT !.usage = r].op = settingsCalls[s].op
    BY <2>3 DEF SettingsHandlers
  <2>5. \E r : \/ settingsCalls' = [settingsCalls EXCEPT ![s] = [settingsCalls[s] EXCEPT !.get = r]]
               \/ settingsCalls' = [settingsCalls EXCEPT ![s] = [settingsCalls[s] EXCEPT !.post = r]]
               \/ settingsCalls' = [settingsCalls EXCEPT ![s] = [settingsCalls[s] EXCEPT !.usage = r]]
    BY <1>7 DEF SettingsReread, SettingsTakeForm, SettingsServeGet, SettingsServePost,
       SettingsServeUsage, SettingsOpenFile, SettingsWriteFile, SettingsTune
  <2>6. PICK r : \/ settingsCalls' = [settingsCalls EXCEPT ![s] = [settingsCalls[s] EXCEPT !.get = r]]
                 \/ settingsCalls' = [settingsCalls EXCEPT ![s] = [settingsCalls[s] EXCEPT !.post = r]]
                 \/ settingsCalls' = [settingsCalls EXCEPT ![s] = [settingsCalls[s] EXCEPT !.usage = r]]
    BY <2>5
  <2>7. PICK c : settingsCalls' = [settingsCalls EXCEPT ![s] = c] /\ c.op = settingsCalls[s].op
    BY <2>4, <2>6
  <2>8. settingsCalls[s].op # "restart" /\ c.op # "restart"
    BY <2>1, <2>7
  <2> QED BY <1>c, <2>2, <2>7, <2>8
<1>8. ASSUME NEW s \in Slots, SettingsFails(s) \/ SettingsLeft(s) PROVE RestartsCounted' /\ ClicksTyped'
  <2>1. /\ settingsPage'.restarting = settingsPage.restarting
        /\ settingsPage'.scheduled = settingsPage.scheduled /\ clicks' = clicks
        /\ settingsCalls[s].op \in {"load", "save", "left"}
    BY <1>0, <1>8 DEF SettingsFails, SettingsLeft, SettingsPages
  <2>2. settingsCalls[s] \in SettingsHandlers
    BY <1>0, <2>1, SettingsHandlerKnown
  <2>3. [settingsCalls[s] EXCEPT !.op = "left"].op = "left"
    BY <2>2 DEF SettingsHandlers
  <2>4. \/ settingsCalls' = [settingsCalls EXCEPT ![s] = Idle]
        \/ settingsCalls' = [settingsCalls EXCEPT ![s] = [settingsCalls[s] EXCEPT !.op = "left"]]
    BY <1>8 DEF SettingsFails, SettingsLeft, Put, Leave
  <2> QED BY <1>a, <1>c, <2>1, <2>3, <2>4
<1>9. ASSUME NEW s \in Slots, handleGatewayRestart(s) \/ RestartEnds(s)
      PROVE  RestartsCounted' /\ ClicksTyped'
  <2>1. settingsCalls[s].op = "restart" /\ clicks' = clicks
    BY <1>9 DEF handleGatewayRestart, RestartEnds
  <2>2. \A t \in Slots : settingsCalls[t].op = "restart" => t = s
    BY <2>1 DEF RestartsCounted
  <2>3. settingsCalls[s] \in RestartCalls
    BY <1>0, <2>1, SettingsHandlerKnown
  <2>4. CASE handleGatewayRestart(s)
    <3>1. /\ settingsCalls[s].post.at = "sent"
          /\ settingsCalls' = [settingsCalls EXCEPT ![s] = [settingsCalls[s] EXCEPT !.post = Served(Nothing)]]
          /\ settingsPage' = [settingsPage EXCEPT !.scheduled = @ + 1]
      BY <2>4 DEF handleGatewayRestart
    <3>2. settingsPage.scheduled < clicks
      BY <2>1, <3>1 DEF RestartsCounted, RestartAsked
    <3>3. /\ settingsPage'.scheduled = settingsPage.scheduled + 1
          /\ settingsPage'.restarting = settingsPage.restarting
      BY <1>0, <3>1 DEF SettingsPages
    <3>4. settingsPage'.scheduled <= clicks
      BY <1>0, <3>2, <3>3
    <3>5. /\ settingsCalls'[s].op = "restart" /\ settingsCalls'[s].post.at # "sent"
          /\ \A t \in Slots : t # s => settingsCalls'[t] = settingsCalls[t]
      BY <1>0, <2>3, <3>1 DEF RestartCalls, Served
    <3>6. \A t \in Slots : settingsCalls'[t].op = "restart" => t = s
      BY <2>2, <3>5
    <3>7. settingsPage'.restarting = TRUE
      BY <2>1, <3>3 DEF RestartsCounted
    <3>8. \A t \in Slots : ~RestartAsked(settingsCalls'[t])
      BY <3>5, <3>6 DEF RestartAsked
    <3> QED BY <1>b, <2>1, <3>4, <3>6, <3>7, <3>8 DEF RestartsCounted
  <2>5. CASE RestartEnds(s)
    <3>1. PICK late \in IF settingsCalls[s].post.at = "sent" THEN {0, 1} ELSE {0} :
            settingsPage' = [settingsPage EXCEPT !.restarting = FALSE, !.scheduled = @ + late]
      BY <2>5 DEF RestartEnds
    <3>2. late = 0 \/ (late = 1 /\ settingsPage.scheduled < clicks)
      BY <2>1, <3>1 DEF RestartsCounted, RestartAsked
    <3>3. settingsPage'.scheduled = settingsPage.scheduled + late
      BY <1>0, <3>1 DEF SettingsPages
    <3>4. settingsPage'.scheduled <= clicks
      <4>1. settingsPage.scheduled <= clicks
        BY DEF RestartsCounted
      <4> QED BY <1>0, <3>2, <3>3, <4>1
    <3>5. \A t \in Slots : settingsCalls'[t].op # "restart"
      BY <1>0, <1>a, <2>2, <2>5 DEF RestartEnds, Put
    <3> QED BY <1>b, <2>1, <3>4, <3>5 DEF RestartsCounted, RestartAsked
  <2> QED BY <1>9, <2>4, <2>5
<1> QED BY <1>1, <1>2, <1>3, <1>5, <1>6, <1>7, <1>8, <1>9 DEF SettingsNext

LEMMA SettingsTypedInit == SettingsInit /\ ClicksTyped => SettingsTyped
<1> SUFFICES ASSUME SettingsInit, ClicksTyped PROVE SettingsTyped
  OBVIOUS
<1>1. settingsCalls \in [Slots -> SettingsCallSet] /\ \A s \in Slots : settingsCalls[s].op = "idle"
  BY DEF SettingsInit, NoCalls, SettingsCallSet, Idle
<1>2. settingsPage \in SettingsPages
  <2>1. 0 \in 0 .. MaxWrites /\ 0 \in Nat
    BY WritesAssumption
  <2>2. Nothing \in Maybe(SystemSettingsState) /\ Nothing \in Maybe(SettingsFiles)
    BY DEF Maybe
  <2> QED BY <2>1, <2>2 DEF SettingsInit, SettingsPages
<1>3. settingsPage.scheduled = 0
  BY DEF SettingsInit
<1>4. settingsPage.scheduled <= clicks
  BY <1>3, ClicksAssumption DEF ClicksTyped
<1> QED BY <1>1, <1>2, <1>4 DEF SettingsTyped, SettingsShaped, RestartsCounted, RestartAsked

LEMMA SettingsTypesHold == SettingsTyped /\ ClicksTyped => SettingsTypeOK
<1> SUFFICES ASSUME SettingsTyped, ClicksTyped PROVE SettingsTypeOK
  OBVIOUS
<1>1. settingsPage \in SettingsPages /\ settingsCalls \in [Slots -> SettingsCallSet]
  BY DEF SettingsTyped, SettingsShaped
<1>2. settingsPage.scheduled \in 0 .. MaxClicks
  BY ScheduledTyped, ClicksAssumption DEF SettingsTyped, RestartsCounted, ClicksTyped
<1>3. settingsPage \in
       [form : Maybe(SystemSettingsState), loading : BOOLEAN, saving : BOOLEAN, error : BOOLEAN,
        notice : {"", "saved"}, wrote : 0 .. MaxWrites, raced : BOOLEAN,
        stored : Maybe(SettingsFiles), crossed : BOOLEAN, restarting : BOOLEAN,
        scheduled : 0 .. MaxClicks]
  BY <1>1, <1>2 DEF SettingsPages
<1> DEFINE halves == [body : SystemSettingsState, write : 0 .. MaxWrites]
           posts == Requests(SystemSettingsState, halves, {Nothing})
           handlers == [op : {"load", "save", "left"}, post : posts, get : SettingsGets,
                        usage : UsageGets]
<1>4. SettingsPosts \subseteq posts
  <2>1. SettingsBodies \subseteq SystemSettingsState
    BY DEF SettingsBodies, SystemSettingsState
  <2>2. SettingsHalves \subseteq halves
    BY <2>1 DEF SettingsHalves
  <2> HIDE DEF halves
  <2> QED BY <2>1, <2>2, RequestsWiden DEF SettingsPosts
<1> HIDE DEF posts
<1>5. SettingsHandlers \subseteq handlers
  BY <1>4 DEF SettingsHandlers
<1> HIDE DEF handlers
<1>6. settingsCalls \in [Slots -> {Idle} \cup RestartCalls \cup handlers]
  BY <1>1, <1>5 DEF SettingsCallSet
<1> QED BY <1>3, <1>6 DEF SettingsTypeOK, handlers, posts, RestartCalls, SettingsGets, UsageGets

-----------------------------------------------------------------------------
(* The nodes page.  What is posted passed the check of the range.          *)

SavedWorkspaces ==
  [range : Ranges, mode : Modes, relay : RelayModes, code : {"", "set"},
   channel : {"SIP", "RTP", "SIP/RTP"}, matrix : TunnelConfigCapability,
   auth : BOOLEAN, configured : BOOLEAN, access : StoredAccesses]

NodesBodies == [ws : SavedWorkspaces, password : Maybe(Passwords)]

NodesHalves == [ws : SavedWorkspaces, secret : Maybe(Passwords), was : Maybe(Passwords)]

NodesPosts == Requests(NodesBodies, NodesHalves, Ranges)

NodesGets == Requests({Nothing}, {}, NodeTunnelWorkspace)

NodesHandlers == [op : {"load", "save", "left"}, post : NodesPosts, get : NodesGets]

NodesCallSet == {Idle} \cup NodesHandlers

NodesViews ==
  [ws : Maybe(NodeTunnelWorkspace), input : Maybe(Passwords), loading : BOOLEAN,
   saving : BOOLEAN, error : BOOLEAN, notice : {"", "applied"}]

NodesTyped ==
  /\ node \in TunnelConfigPayload
  /\ nodesPage \in NodesViews
  /\ nodesCalls \in [Slots -> NodesCallSet]

LEMMA NodesHandlerKnown ==
  ASSUME NEW c \in NodesCallSet, c.op # "idle" \/ c # Idle PROVE c \in NodesHandlers
BY DEF NodesCallSet, Idle

LEMMA NodesHandlerGoesOn ==
  ASSUME NEW c \in NodesHandlers, NEW r
  PROVE  /\ r \in NodesPosts => [c EXCEPT !.post = r] \in NodesCallSet
         /\ r \in NodesGets => [c EXCEPT !.get = r] \in NodesCallSet
         /\ [c EXCEPT !.op = "left"] \in NodesCallSet
BY DEF NodesHandlers, NodesCallSet

LEMMA NodesHandlerServes ==
  ASSUME NEW c \in NodesHandlers
  PROVE  /\ c.post.at = "sent" => c.post.with \in NodesBodies
         /\ c.post.at = "read" => c.post.with \in NodesHalves
         /\ c.get.at = "served" => c.get.with \in NodeTunnelWorkspace
<1>1. c.post \in NodesPosts /\ c.get \in NodesGets
  BY DEF NodesHandlers
<1>2. /\ c.post.at = "sent" => c.post.with \in NodesBodies
      /\ c.post.at = "read" => c.post.with \in NodesHalves
  BY <1>1, RequestCarries DEF NodesPosts
<1>3. c.get.at = "served" => c.get.with \in NodeTunnelWorkspace
  BY <1>1, RequestCarries DEF NodesGets
<1> QED BY <1>2, <1>3

LEMMA NodesRequestsMade ==
  /\ Unsent \in NodesPosts /\ Unsent \in NodesGets /\ Sent(Nothing) \in NodesGets
  /\ \A x \in NodesBodies : Sent(x) \in NodesPosts
  /\ \A x \in NodesHalves : Read(x) \in NodesPosts
  /\ \A x \in Ranges : Served(x) \in NodesPosts
  /\ \A x \in NodeTunnelWorkspace : Served(x) \in NodesGets
<1>1. /\ Unsent \in NodesPosts
      /\ \A x \in NodesBodies : Sent(x) \in NodesPosts
      /\ \A x \in NodesHalves : Read(x) \in NodesPosts
      /\ \A x \in Ranges : Served(x) \in NodesPosts
  BY RequestMade DEF NodesPosts
<1>2. /\ Unsent \in NodesGets /\ Sent(Nothing) \in NodesGets
      /\ \A x \in NodeTunnelWorkspace : Served(x) \in NodesGets
  BY RequestMade DEF NodesGets
<1> QED BY <1>1, <1>2

LEMMA NodesSlot ==
  ASSUME NodesTyped, NEW s \in Slots
  PROVE  /\ nodesCalls[s] \in NodesCallSet /\ Idle \in NodesCallSet
         /\ \A c \in NodesCallSet : [nodesCalls EXCEPT ![s] = c] \in [Slots -> NodesCallSet]
BY DEF NodesTyped, NodesCallSet

LEMMA NodesStarts ==
  ASSUME NodesTyped, NEW c \in NodesCallSet,
         \E s \in Free(nodesCalls) : nodesCalls' = Put(nodesCalls, s, c)
  PROVE  nodesCalls' \in [Slots -> NodesCallSet]
BY DEF NodesTyped, Put, Free

\* What the page and the gateway derive.
LEMMA LinkedTyped ==
  ASSUME NEW ws \in NodeTunnelWorkspace
  PROVE  /\ applyNetworkModeLinkage(ws) \in NodeTunnelWorkspace
         /\ generateNodeCodes(ws) \in NodeTunnelWorkspace
<1>1. deriveCapabilityMatrix(ws.mode) \in TunnelConfigCapability
  BY DEF deriveCapabilityMatrix, TunnelConfigCapability
<1>2. (IF ws.mode = "SENDER_SIP__RECEIVER_SIP" \/ ws.relay = "SIP_ONLY" THEN "SIP"
       ELSE IF ws.mode = "SENDER_SIP__RECEIVER_RTP" THEN "RTP" ELSE "SIP/RTP")
        \in {"SIP", "RTP", "SIP/RTP"}
  OBVIOUS
<1>3. applyNetworkModeLinkage(ws) \in NodeTunnelWorkspace
  BY <1>1, <1>2 DEF applyNetworkModeLinkage, NodeTunnelWorkspace
<1>4. generateNodeCodes(ws) \in NodeTunnelWorkspace
  BY DEF generateNodeCodes, NodeTunnelWorkspace
<1> QED BY <1>3, <1>4

LEMMA WorkspaceTyped ==
  ASSUME NodesTyped, GatewayTypeOK PROVE handleNodeTunnelWorkspaceGet \in SavedWorkspaces
<1>1. normalizeTunnelConfigPayload(node.mode, node.relay) \in {"SIP", "RTP", "SIP/RTP"}
  BY DEF normalizeTunnelConfigPayload
<1>2. DeriveCapability(node.mode) \in TunnelConfigCapability
  BY DEF DeriveCapability, TunnelConfigCapability
<1>3. node \in TunnelConfigPayload /\ settings.access \in StoredAccesses
  BY DEF NodesTyped, GatewayTypeOK, SystemSettingsPayload
<1> QED BY <1>1, <1>2, <1>3 DEF handleNodeTunnelWorkspaceGet, SavedWorkspaces, TunnelConfigPayload

LEMMA SavedIsWorkspace == SavedWorkspaces \subseteq NodeTunnelWorkspace
BY DEF SavedWorkspaces, NodeTunnelWorkspace

LEMMA CheckedIsSaved ==
  ASSUME NEW ws \in NodeTunnelWorkspace, NEW input, NodesValidate(ws, input)
  PROVE  ws \in SavedWorkspaces
BY DEF SavedWorkspaces, NodeTunnelWorkspace, NodesValidate

LEMMA NodesTypedStep ==
  NodesTyped /\ GatewayTypeOK /\ ClicksTyped /\ NodesNext => NodesTyped' /\ GatewayTypeOK' /\ ClicksTyped'
<1> SUFFICES ASSUME NodesTyped, GatewayTypeOK, ClicksTyped, NodesNext
             PROVE  NodesTyped' /\ GatewayTypeOK' /\ ClicksTyped'
  OBVIOUS
<1>0. /\ node \in TunnelConfigPayload /\ nodesPage \in NodesViews
      /\ nodesCalls \in [Slots -> NodesCallSet]
      /\ \A s \in Slots : nodesCalls[s] \in NodesCallSet
  BY DEF NodesTyped
<1>a. clicks' = clicks => ClicksTyped'
  BY DEF ClicksTyped
<1>1. CASE NodesLoad
  <2>1. [op |-> "load", post |-> Unsent, get |-> Sent(Nothing)] \in NodesCallSet
    BY NodesRequestsMade DEF NodesHandlers, NodesCallSet
  <2>2. nodesCalls' \in [Slots -> NodesCallSet]
    BY <1>1, <2>1, NodesStarts DEF NodesLoad
  <2>3. nodesPage' \in NodesViews
    BY <1>0, <1>1 DEF NodesLoad, NodesViews
  <2> QED BY <1>0, <1>1, <2>2, <2>3, GatewayStill, ClickTyped DEF NodesLoad, NodesTyped
<1>2. CASE NodesSave
  <2> DEFINE ws == generateNodeCodes(nodesPage.ws)
  <2>1. nodesPage.ws \in NodeTunnelWorkspace
    BY <1>0, <1>2 DEF NodesSave, NodesViews, Maybe
  <2>2. ws \in NodeTunnelWorkspace
    BY <2>1, LinkedTyped
  <2>3. /\ \/ nodesPage' = [nodesPage EXCEPT !.ws = ws] /\ nodesCalls' = nodesCalls
           \/ /\ nodesPage' = [nodesPage EXCEPT !.ws = ws, !.saving = TRUE, !.error = FALSE, !.notice = ""]
              /\ NodesValidate(ws, nodesPage.input)
              /\ \E s \in Free(nodesCalls) :
                   nodesCalls' = Put(nodesCalls, s, [op |-> "save", get |-> Unsent,
                                   post |-> Sent([ws |-> ws, password |-> nodesPage.input])])
        /\ Click /\ node' = node /\ UNCHANGED gatewayVars
    BY <1>2 DEF NodesSave
  <2> HIDE DEF ws
  <2>4. nodesPage' \in NodesViews
    BY <1>0, <2>2, <2>3 DEF NodesViews, Maybe
  <2>5. ASSUME NodesValidate(ws, nodesPage.input)
        PROVE  [op |-> "save", get |-> Unsent,
                post |-> Sent([ws |-> ws, password |-> nodesPage.input])] \in NodesCallSet
    <3>1. [ws |-> ws, password |-> nodesPage.input] \in NodesBodies
      BY <1>0, <2>2, <2>5, CheckedIsSaved DEF NodesViews, NodesBodies
    <3> QED BY <3>1, NodesRequestsMade DEF NodesHandlers, NodesCallSet
  <2>6. nodesCalls' \in [Slots -> NodesCallSet]
    BY <1>0, <2>3, <2>5, NodesStarts
  <2> QED BY <1>0, <2>3, <2>4, <2>6, GatewayStill, ClickTyped DEF NodesTyped
<1>3. CASE OtherWorkspaceSave
  <2>1. PICK range \in Ranges, auth \in BOOLEAN, s \in Free(nodesCalls) :
          nodesCalls' = Put(nodesCalls, s,
            [op |-> "left", get |-> Unsent,
             post |-> Sent([ws |-> [handleNodeTunnelWorkspaceGet EXCEPT !.range = range, !.auth = auth],
                            password |-> Nothing])])
    BY <1>3 DEF OtherWorkspaceSave
  <2> DEFINE ws == [handleNodeTunnelWorkspaceGet EXCEPT !.range = range, !.auth = auth]
  <2>2. ws \in SavedWorkspaces
    BY WorkspaceTyped DEF SavedWorkspaces
  <2> HIDE DEF ws
  <2>3. [ws |-> ws, password |-> Nothing] \in NodesBodies
    BY <2>2 DEF NodesBodies, Maybe
  <2>4. [op |-> "left", get |-> Unsent, post |-> Sent([ws |-> ws, password |-> Nothing])] \in NodesCallSet
    BY <2>3, NodesRequestsMade DEF NodesHandlers, NodesCallSet
  <2>5. nodesCalls' \in [Slots -> NodesCallSet]
    BY <2>1, <2>4, NodesStarts DEF ws
  <2> QED BY <1>0, <1>3, <2>5, GatewayStill, ClickTyped DEF OtherWorkspaceSave, NodesTyped
<1>4. CASE NodesEdit \/ NodesEditMode \/ NodesEditRelay
  <2>1. nodesPage.ws \in NodeTunnelWorkspace
    BY <1>0, <1>4 DEF NodesEdit, NodesEditMode, NodesEditRelay, NodesViews, Maybe
  <2>2. ASSUME NEW ws \in NodeTunnelWorkspace PROVE [nodesPage EXCEPT !.ws = ws] \in NodesViews
    BY <1>0 DEF NodesViews, Maybe
  <2>3. nodesPage' \in NodesViews
    <3>1. CASE NodesEdit
      <4>1. ASSUME NEW v \in Ranges \cup {BadRange}, nodesPage' = [nodesPage EXCEPT !.ws.range = v]
            PROVE  nodesPage' \in NodesViews
        <5>1. [nodesPage.ws EXCEPT !.range = v] \in NodeTunnelWorkspace
          BY <2>1 DEF NodeTunnelWorkspace
        <5> QED BY <2>2, <4>1, <5>1
      <4>2. ASSUME nodesPage' = [nodesPage EXCEPT !.ws.code = ""] PROVE nodesPage' \in NodesViews
        <5>1. [nodesPage.ws EXCEPT !.code = ""] \in NodeTunnelWorkspace
          BY <2>1 DEF NodeTunnelWorkspace
        <5> QED BY <2>2, <4>2, <5>1
      <4>3. ASSUME nodesPage' = [nodesPage EXCEPT !.ws.auth = ~@] PROVE nodesPage' \in NodesViews
        <5>1. [nodesPage.ws EXCEPT !.auth = ~@] \in NodeTunnelWorkspace
          BY <2>1 DEF NodeTunnelWorkspace
        <5> QED BY <2>2, <4>3, <5>1
      <4>4. ASSUME NEW p \in Passwords, nodesPage' = [nodesPage EXCEPT !.input = p]
            PROVE  nodesPage' \in NodesViews
        BY <1>0, <4>4 DEF NodesViews, Maybe
      <4> QED BY <3>1, <4>1, <4>2, <4>3, <4>4 DEF NodesEdit
    <3>2. CASE NodesEditMode
      <4>1. PICK mode \in Modes : nodesPage' = [nodesPage EXCEPT !.ws =
                applyNetworkModeLinkage([nodesPage.ws EXCEPT !.mode = mode])]
        BY <3>2 DEF NodesEditMode
      <4>2. [nodesPage.ws EXCEPT !.mode = mode] \in NodeTunnelWorkspace
        BY <2>1 DEF NodeTunnelWorkspace
      <4> QED BY <2>2, <4>1, <4>2, LinkedTyped
    <3>3. CASE NodesEditRelay
      <4>1. PICK relay \in RelayModes : nodesPage' = [nodesPage EXCEPT !.ws =
                applyNetworkModeLinkage([nodesPage.ws EXCEPT !.relay = relay])]
        BY <3>3 DEF NodesEditRelay
      <4>2. [nodesPage.ws EXCEPT !.relay = relay] \in NodeTunnelWorkspace
        BY <2>1 DEF NodeTunnelWorkspace
      <4> QED BY <2>2, <4>1, <4>2, LinkedTyped
    <3> QED BY <1>4, <3>1, <3>2, <3>3
  <2> QED BY <1>0, <1>4, <2>3, GatewayStill, ClickTyped
      DEF NodesEdit, NodesEditMode, NodesEditRelay, NodesTyped
<1>5. ASSUME NEW s \in Slots, NodesLoaded(s) \/ NodesApplied(s)
      PROVE  NodesTyped' /\ GatewayTypeOK' /\ ClicksTyped'
  <2> DEFINE ws == applyNetworkModeLinkage(nodesCalls[s].get.with)
  <2>1. nodesCalls[s] \in NodesHandlers /\ nodesCalls[s].get.at = "served"
    BY <1>0, <1>5, NodesHandlerKnown DEF NodesLoaded, NodesApplied
  <2>2. ws \in NodeTunnelWorkspace
    BY <2>1, NodesHandlerServes, LinkedTyped
  <2>3. \/ nodesPage' = [nodesPage EXCEPT !.ws = ws, !.input = Nothing, !.loading = FALSE]
        \/ \E same \in BOOLEAN :
             nodesPage' = [nodesPage EXCEPT !.ws = ws, !.input = Nothing, !.saving = FALSE,
                             !.error = ~same, !.notice = IF same THEN "applied" ELSE ""]
    BY <1>5 DEF NodesLoaded, NodesApplied
  <2> HIDE DEF ws
  <2>4. nodesPage' \in NodesViews
    BY <1>0, <2>2, <2>3 DEF NodesViews, Maybe
  <2>5. nodesCalls' \in [Slots -> NodesCallSet]
    BY <1>5, NodesSlot DEF NodesLoaded, NodesApplied, Put
  <2> QED BY <1>0, <1>5, <1>a, <2>4, <2>5, GatewayStill DEF NodesLoaded, NodesApplied, NodesTyped
<1>6. ASSUME NEW s \in Slots, NodesReread(s) \/ NodesServeGet(s)
      PROVE  NodesTyped' /\ GatewayTypeOK' /\ ClicksTyped'
  <2>1. nodesCalls[s] \in NodesHandlers
    BY <1>0, <1>6, NodesHandlerKnown DEF NodesReread, NodesServeGet
  <2>2. handleNodeTunnelWorkspaceGet \in NodeTunnelWorkspace
    BY WorkspaceTyped, SavedIsWorkspace
  <2>3. /\ [nodesCalls[s] EXCEPT !.get = Sent(Nothing)] \in NodesCallSet
        /\ [nodesCalls[s] EXCEPT !.get = Served(handleNodeTunnelWorkspaceGet)] \in NodesCallSet
    BY <2>1, <2>2, NodesHandlerGoesOn, NodesRequestsMade
  <2>4. nodesCalls' \in [Slots -> NodesCallSet]
    BY <1>6, <2>3, NodesSlot DEF NodesReread, NodesServeGet
  <2> QED BY <1>0, <1>6, <1>a, <2>4, GatewayStill DEF NodesReread, NodesServeGet, NodesTyped
<1>7. ASSUME NEW s \in Slots, NodesFails(s) \/ NodesLeft(s)
      PROVE  NodesTyped' /\ GatewayTypeOK' /\ ClicksTyped'
  <2>1. nodesCalls[s] \in NodesHandlers
    BY <1>0, <1>7, NodesHandlerKnown DEF NodesFails, NodesLeft
  <2>2. nodesPage' \in NodesViews
    BY <1>0, <1>7 DEF NodesFails, NodesLeft, NodesViews
  <2>3. [nodesCalls[s] EXCEPT !.op = "left"] \in NodesCallSet
    BY <2>1, NodesHandlerGoesOn
  <2>4. \/ nodesCalls' = [nodesCalls EXCEPT ![s] = Idle]
        \/ nodesCalls' = [nodesCalls EXCEPT ![s] = [nodesCalls[s] EXCEPT !.op = "left"]]
    BY <1>7 DEF NodesFails, NodesLeft, Put, Leave
  <2>5. nodesCalls' \in [Slots -> NodesCallSet]
    BY <2>3, <2>4, NodesSlot
  <2> QED BY <1>0, <1>7, <1>a, <2>2, <2>5, GatewayStill DEF NodesFails, NodesLeft, NodesTyped
<1>8. ASSUME NEW s \in Slots, NodesServePost(s) PROVE NodesTyped' /\ GatewayTypeOK' /\ ClicksTyped'
  <2> DEFINE sent == nodesCalls[s].post.with
  <2>1. nodesCalls[s] \in NodesHandlers /\ nodesPage' = nodesPage /\ clicks' = clicks
    BY <1>0, <1>8, NodesHandlerKnown DEF NodesServePost
  <2>2. CASE nodesCalls[s].post.at = "sent"
    <3>1. sent \in NodesBodies
      BY <2>1, <2>2, NodesHandlerServes
    <3>2. /\ node' = [node EXCEPT !.range = sent.ws.range, !.mode = sent.ws.mode] /\ UNCHANGED gatewayVars
          /\ nodesCalls' = [nodesCalls EXCEPT ![s].post =
               Read([ws |-> sent.ws, secret |-> SecretToStore(sent.password), was |-> node.secret])]
      BY <1>8, <2>2 DEF NodesServePost, ApplyWorkspace
    <3> HIDE DEF sent
    <3>3. node' \in TunnelConfigPayload
      BY <1>0, <3>1, <3>2 DEF TunnelConfigPayload, NodesBodies, SavedWorkspaces
    <3>4. [ws |-> sent.ws, secret |-> SecretToStore(sent.password), was |-> node.secret] \in NodesHalves
      BY <1>0, <3>1 DEF TunnelConfigPayload, NodesBodies, NodesHalves, SecretToStore
    <3>5. nodesCalls' \in [Slots -> NodesCallSet]
      BY <2>1, <3>2, <3>4, NodesHandlerGoesOn, NodesRequestsMade, NodesSlot
    <3> QED BY <1>0, <1>a, <2>1, <3>2, <3>3, <3>5, GatewayStill DEF NodesTyped
  <2>3. CASE nodesCalls[s].post.at = "read"
    <3>1. sent \in NodesHalves
      BY <2>1, <2>3, NodesHandlerServes
    <3>2. /\ handleNodeTunnelWorkspacePost(sent.ws, sent.secret, sent.was)
          /\ nodesCalls' = [nodesCalls EXCEPT ![s].post = Served(sent.ws.range)]
      BY <1>8, <2>3 DEF NodesServePost
    <3> HIDE DEF sent
    <3>3. /\ settings.writes < MaxWrites /\ running' = running
          /\ node' = [node EXCEPT !.relay = sent.ws.relay, !.auth = sent.ws.auth, !.secret = sent.secret,
                                  !.torn = @ \/ sent.was # node.secret]
          /\ settings' = [settings EXCEPT !.access = sent.ws.access, !.writes = @ + 1]
          /\ disk' \in {[keep |-> settings.keep, access |-> sent.ws.access, mbps |-> settings.base],
                        disk, Nothing}
      BY <3>2 DEF handleNodeTunnelWorkspacePost
    <3>4. /\ sent.ws.relay \in RelayModes /\ sent.ws.auth \in BOOLEAN /\ sent.secret \in Maybe(Passwords)
          /\ sent.ws.access \in StoredAccesses /\ sent.ws.range \in Ranges
      BY <3>1 DEF NodesHalves, SavedWorkspaces
    <3>5. node' \in TunnelConfigPayload
      BY <1>0, <3>3, <3>4 DEF TunnelConfigPayload
    <3>6. settings.writes + 1 \in 0 .. MaxWrites
      BY <3>3, WriteCounted
    <3>7. settings' \in SystemSettingsPayload
      BY <3>3, <3>4, <3>6 DEF GatewayTypeOK, SystemSettingsPayload
    <3>8. disk' \in Maybe(SettingsFiles)
      BY <3>3, <3>4 DEF GatewayTypeOK, SystemSettingsPayload, SettingsFiles, Maybe
    <3>9. GatewayTypeOK'
      BY <3>3, <3>7, <3>8 DEF GatewayTypeOK
    <3>10. nodesCalls' \in [Slots -> NodesCallSet]
      BY <2>1, <3>2, <3>4, NodesHandlerGoesOn, NodesRequestsMade, NodesSlot
    <3> QED BY <1>0, <1>a, <2>1, <3>5, <3>9, <3>10 DEF NodesTyped
  <2> QED BY <1>8, <2>2, <2>3 DEF NodesServePost
<1> QED BY <1>1, <1>2, <1>3, <1>4, <1>5, <1>6, <1>7, <1>8 DEF NodesNext

LEMMA NodesTypedInit == ASSUME NodesInit(NodeStores) PROVE NodesTyped
<1>1. node \in TunnelConfigPayload
  BY DEF NodesInit, NodeStores
<1>2. nodesCalls \in [Slots -> NodesCallSet]
  BY DEF NodesInit, NoCalls, NodesCallSet
<1>3. nodesPage \in NodesViews
  BY DEF NodesInit, NodesViews, Maybe
<1> QED BY <1>1, <1>2, <1>3 DEF NodesTyped

LEMMA NodesTypesHold == NodesTyped => NodesTypeOK
<1> SUFFICES ASSUME NodesTyped PROVE NodesTypeOK
  OBVIOUS
<1> DEFINE bodies == [ws : NodeTunnelWorkspace, password : Maybe(Passwords)]
           halves == [ws : NodeTunnelWorkspace, secret : Maybe(Passwords), was : Maybe(Passwords)]
           posts == Requests(bodies, halves, Ranges)
           handlers == [op : {"load", "save", "left"}, post : posts, get : NodesGets]
<1>1. NodesPosts \subseteq posts
  <2>1. NodesBodies \subseteq bodies /\ NodesHalves \subseteq halves
    BY SavedIsWorkspace DEF NodesBodies, NodesHalves
  <2> HIDE DEF bodies, halves
  <2> QED BY <2>1, RequestsWiden DEF NodesPosts
<1> HIDE DEF posts
<1>2. NodesHandlers \subseteq handlers
  BY <1>1 DEF NodesHandlers
<1> HIDE DEF handlers
<1>3. nodesCalls \in [Slots -> {Idle} \cup handlers]
  BY <1>2 DEF NodesTyped, NodesCallSet
<1> QED BY <1>3 DEF NodesTyped, NodesTypeOK, NodesViews, handlers, posts, NodesGets

-----------------------------------------------------------------------------
(* The protection page and the rate limit dialog.  What a handler posts    *)
(* depends on its kind, and the form is filled as soon as there is a       *)
(* state.                                                                  *)

ProtKinds == {"load", "save", "recover", "restrict", "remove"}

ProtActs == Requests(Maybe(Targets \cup ProtectionForms), {}, ProtectionResponses)

ProtGets == Requests({Nothing}, {}, AlertProtectionState)

ProtShapes ==
  [op : ProtKinds \cup {"left"}, kind : ProtKinds, act : ProtActs, get : ProtGets, usage : UsageGets]

ProtPosts(kind, body) ==
  /\ kind = "save" => body \in ProtectionForms
  /\ kind \in {"restrict", "remove"} => body \in Targets

ProtHandlers == {c \in ProtShapes : c.act.at = "sent" => ProtPosts(c.kind, c.act.with)}

ProtCallSet == {Idle} \cup ProtHandlers

ProtNotices ==
  [kind : {"", "save", "recover", "restrict", "remove"}, target : Maybe(Targets), did : Maybe(Targets)]

ProtViews ==
  [state : Maybe(AlertProtectionState), form : Maybe(ProtectionForms), editing : BOOLEAN,
   loading : BOOLEAN, saving : BOOLEAN, recovering : BOOLEAN, restricting : BOOLEAN,
   removing : BOOLEAN, error : BOOLEAN, target : Maybe(Targets), notice : ProtNotices]

ProtRecords == [rules : Rules, restrictions : SUBSET Targets, open : BOOLEAN]

PolicyPuts == Requests(Nat, {}, Nat)

PolicyGets == Requests({Nothing}, {}, Nat)

PolicyHandlers == [op : {"limits", "policy"}, put : PolicyPuts, get : PolicyGets]

PolicyCallSet == {Idle} \cup PolicyHandlers

PolicyViews == [limit : Nat, form : Nat, open : BOOLEAN]

ProtShaped ==
  /\ protection \in ProtRecords
  /\ protPage \in ProtViews
  /\ protPage.state # Nothing => protPage.form \in ProtectionForms
  /\ protCalls \in [Slots -> ProtCallSet]

PolicyShaped ==
  /\ policyPage \in PolicyViews
  /\ policyCalls \in [Slots -> PolicyCallSet]

ProtectionTyped == ProtShaped /\ PolicyShaped

LEMMA ProtHandlerKnown ==
  ASSUME NEW c \in ProtCallSet, c.op # "idle" \/ c # Idle PROVE c \in ProtHandlers
BY DEF ProtCallSet, Idle

LEMMA ProtHandlerGoesOn ==
  ASSUME NEW c \in ProtHandlers, NEW r
  PROVE  /\ r \in ProtActs /\ r.at # "sent" => [c EXCEPT !.act = r] \in ProtCallSet
         /\ r \in ProtGets => [c EXCEPT !.get = r] \in ProtCallSet
         /\ r \in UsageGets => [c EXCEPT !.usage = r] \in ProtCallSet
         /\ [c EXCEPT !.op = "left"] \in ProtCallSet
BY DEF ProtHandlers, ProtShapes, ProtCallSet

LEMMA ProtHandlerServes ==
  ASSUME NEW c \in ProtHandlers
  PROVE  /\ c.act.at = "sent" => ProtPosts(c.kind, c.act.with)
         /\ c.act.at = "served" => c.act.with \in ProtectionResponses
         /\ c.get.at = "served" => c.get.with \in AlertProtectionState
         /\ c.usage.at = "read" => c.usage.with \in SystemResourceUsage
<1>1. c.act \in ProtActs /\ c.get \in ProtGets /\ c.usage \in UsageGets
  BY DEF ProtHandlers, ProtShapes
<1>2. c.act.at = "served" => c.act.with \in ProtectionResponses
  BY <1>1, RequestCarries DEF ProtActs
<1>3. c.get.at = "served" => c.get.with \in AlertProtectionState
  BY <1>1, RequestCarries DEF ProtGets
<1>4. c.usage.at = "read" => c.usage.with \in SystemResourceUsage
  BY <1>1, RequestCarries DEF UsageGets
<1> QED BY <1>2, <1>3, <1>4 DEF ProtHandlers

LEMMA ProtRequestsMade ==
  /\ Unsent \in ProtActs /\ Unsent \in ProtGets /\ Sent(Nothing) \in ProtGets
  /\ \A x \in Maybe(Targets \cup ProtectionForms) : Sent(x) \in ProtActs
  /\ \A x \in ProtectionResponses : Served(x) \in ProtActs
  /\ \A x \in AlertProtectionState : Served(x) \in ProtGets
<1>1. /\ Unsent \in ProtActs
      /\ \A x \in Maybe(Targets \cup ProtectionForms) : Sent(x) \in ProtActs
      /\ \A x \in ProtectionResponses : Served(x) \in ProtActs
  BY RequestMade DEF ProtActs
<1>2. /\ Unsent \in ProtGets /\ Sent(Nothing) \in ProtGets
      /\ \A x \in AlertProtectionState : Served(x) \in ProtGets
  BY RequestMade DEF ProtGets
<1> QED BY <1>1, <1>2

LEMMA ProtBegun ==
  ASSUME NEW op \in ProtKinds, NEW x, ProtPosts(op, x), x \in Maybe(Targets \cup ProtectionForms)
  PROVE  ProtCall(op, Sent(x), Unsent) \in ProtCallSet
<1>1. Sent(x) \in ProtActs /\ Unsent \in ProtGets /\ Unsent \in UsageGets
  BY ProtRequestsMade, SettingsRequestsMade
<1>2. ProtCall(op, Sent(x), Unsent) \in ProtShapes
  BY <1>1 DEF ProtCall, ProtShapes
<1> QED BY <1>2 DEF ProtCallSet, ProtHandlers, ProtCall, Sent

LEMMA ProtLoadBegun == ProtCall("load", Unsent, Sent(Nothing)) \in ProtCallSet
<1>1. Unsent \in ProtActs /\ Sent(Nothing) \in ProtGets /\ Sent(Nothing) \in UsageGets
  BY ProtRequestsMade, SettingsRequestsMade
<1>2. ProtCall("load", Unsent, Sent(Nothing)) \in ProtShapes
  BY <1>1 DEF ProtCall, ProtShapes, ProtKinds
<1> QED BY <1>2 DEF ProtCallSet, ProtHandlers, ProtCall, Unsent

LEMMA ProtSlot ==
  ASSUME ProtShaped, NEW s \in Slots
  PROVE  /\ protCalls[s] \in ProtCallSet /\ Idle \in ProtCallSet
         /\ \A c \in ProtCallSet : [protCalls EXCEPT ![s] = c] \in [Slots -> ProtCallSet]
BY DEF ProtShaped, ProtCallSet

LEMMA ProtStarts ==
  ASSUME ProtShaped, NEW c \in ProtCallSet, Begin(c)
  PROVE  protCalls' \in [Slots -> ProtCallSet]
BY DEF ProtShaped, Put, Free, Begin

LEMMA ProtEnds ==
  ASSUME ProtShaped, NEW s \in Slots, protCalls' = Put(protCalls, s, Idle)
  PROVE  protCalls' \in [Slots -> ProtCallSet]
BY ProtSlot DEF Put

\* A page that keeps its state and its form.
SameState(page) == page.state = protPage.state /\ page.form = protPage.form

LEMMA FinishedTyped ==
  ASSUME ProtShaped, NEW op
  PROVE  Finished(protPage, op) \in ProtViews /\ SameState(Finished(protPage, op))
         /\ Finished(protPage, op).target = protPage.target
         /\ Finished(protPage, op).editing = protPage.editing
<1>1. protPage \in ProtViews
  BY DEF ProtShaped
<1>2. PICK a \in BOOLEAN, b \in BOOLEAN, c \in BOOLEAN, d \in BOOLEAN, e \in BOOLEAN :
        Finished(protPage, op) = [protPage EXCEPT !.loading = a, !.saving = b, !.recovering = c,
                                                  !.restricting = d, !.removing = e]
  <2> DEFINE a == protPage.loading /\ op # "load"
             b == protPage.saving /\ op # "save"
             c == protPage.recovering /\ op # "recover"
             d == protPage.restricting /\ op # "restrict"
             e == protPage.removing /\ op # "remove"
  <2>1. a \in BOOLEAN /\ b \in BOOLEAN /\ c \in BOOLEAN /\ d \in BOOLEAN /\ e \in BOOLEAN
    OBVIOUS
  <2>2. Finished(protPage, op) = [protPage EXCEPT !.loading = a, !.saving = b, !.recovering = c,
                                                  !.restricting = d, !.removing = e]
    BY DEF Finished
  <2> HIDE DEF a, b, c, d, e
  <2> QED BY <2>1, <2>2
<1>3. Finished(protPage, op) \in ProtViews
  BY <1>1, <1>2 DEF ProtViews
<1> QED BY <1>1, <1>2, <1>3 DEF ProtViews, SameState

LEMMA StateSynced ==
  ASSUME NEW state \in AlertProtectionState PROVE syncForm(state) \in ProtectionForms
BY DEF syncForm, AlertProtectionState, ProtectionForms, Maybe

LEMMA ProtStateTyped ==
  ASSUME protection \in ProtRecords, GatewayTypeOK PROVE currentProtectionState \in AlertProtectionState
BY DEF currentProtectionState, ProtRecords, AlertProtectionState, GatewayTypeOK, SystemResourceUsage

LEMMA ProtStateTypedNext ==
  ASSUME protection' \in ProtRecords, GatewayTypeOK' PROVE currentProtectionState' \in AlertProtectionState
BY DEF currentProtectionState, ProtRecords, AlertProtectionState, GatewayTypeOK, SystemResourceUsage

LEMMA ProtShapedStep ==
  ProtShaped /\ GatewayTypeOK /\ ClicksTyped /\ ProtectionNext
    => ProtShaped' /\ GatewayTypeOK' /\ ClicksTyped'
<1> SUFFICES ASSUME ProtShaped, GatewayTypeOK, ClicksTyped, ProtectionNext
             PROVE  ProtShaped' /\ GatewayTypeOK' /\ ClicksTyped'
  OBVIOUS
<1>0. /\ protection \in ProtRecords /\ protPage \in ProtViews
      /\ protPage.state # Nothing => protPage.form \in ProtectionForms
      /\ protCalls \in [Slots -> ProtCallSet]
      /\ \A s \in Slots : protCalls[s] \in ProtCallSet
  BY DEF ProtShaped
<1>a. clicks' = clicks => ClicksTyped'
  BY DEF ClicksTyped
<1>b. NoNotice \in ProtNotices
  BY DEF NoNotice, ProtNotices, Maybe
<1>c. ASSUME protPage' \in ProtViews, SameState(protPage')
      PROVE  protPage'.state # Nothing => protPage'.form \in ProtectionForms
  BY <1>0, <1>c DEF SameState
\* The page's own steps.
<1>1. CASE ProtLoad \/ ProtStartEdit \/ cancelEdit \/ ProtTypeTarget \/ saveAll \/ recoverCircuit
           \/ submitRestriction \/ quickRestrict \/ removeRestriction
  <2>1. protPage' \in ProtViews /\ SameState(protPage')
    <3>1. CASE ProtLoad \/ ProtStartEdit \/ cancelEdit
      BY <1>0, <1>b, <3>1 DEF ProtLoad, ProtStartEdit, cancelEdit, ProtViews, SameState
    <3>2. CASE saveAll \/ recoverCircuit \/ removeRestriction
      BY <1>0, <1>b, <3>2 DEF saveAll, recoverCircuit, removeRestriction, ProtViews, SameState
    <3>3. ASSUME NEW t \in Maybe(Targets), protPage' = [protPage EXCEPT !.target = t]
          PROVE  protPage' \in ProtViews /\ SameState(protPage')
      BY <1>0, <3>3 DEF ProtViews, SameState
    <3>4. CASE ProtTypeTarget
      BY <3>3, <3>4 DEF ProtTypeTarget, Maybe
    <3>5. ASSUME NEW t \in Maybe(Targets), AskRestriction(t)
          PROVE  protPage' \in ProtViews /\ SameState(protPage')
      BY <1>0, <1>b, <3>5 DEF AskRestriction, ProtViews, SameState
    <3>6. CASE submitRestriction
      BY <1>0, <3>5, <3>6 DEF submitRestriction, ProtViews
    <3>7. CASE quickRestrict
      BY <3>5, <3>7 DEF quickRestrict, Maybe
    <3> QED BY <1>1, <3>1, <3>2, <3>4, <3>6, <3>7
  <2>2. protCalls' \in [Slots -> ProtCallSet]
    <3>1. CASE ProtLoad \/ cancelEdit
      BY <3>1, ProtLoadBegun, ProtStarts DEF ProtLoad, cancelEdit
    <3>2. CASE ProtStartEdit \/ ProtTypeTarget
      BY <1>0, <3>2 DEF ProtStartEdit, ProtTypeTarget
    <3>3. CASE saveAll
      <4>1. protPage.form \in ProtectionForms
        BY <1>0, <3>3 DEF saveAll, ProtViews, Maybe
      <4>2. ProtCall("save", Sent(protPage.form), Unsent) \in ProtCallSet
        BY <4>1, ProtBegun DEF ProtKinds, ProtPosts, Maybe
      <4> QED BY <3>3, <4>2, ProtStarts DEF saveAll
    <3>4. CASE recoverCircuit
      <4>1. ProtCall("recover", Sent(Nothing), Unsent) \in ProtCallSet
        BY ProtBegun DEF ProtKinds, ProtPosts, Maybe
      <4> QED BY <3>4, <4>1, ProtStarts DEF recoverCircuit
    <3>5. ASSUME NEW t \in Targets
          PROVE  /\ ProtCall("restrict", Sent(t), Unsent) \in ProtCallSet
                 /\ ProtCall("remove", Sent(t), Unsent) \in ProtCallSet
      BY ProtBegun DEF ProtKinds, ProtPosts, Maybe
    <3>6. ASSUME NEW t \in Maybe(Targets), AskRestriction(t)
          PROVE  protCalls' \in [Slots -> ProtCallSet]
      <4>1. CASE t = Nothing
        BY <1>0, <3>6, <4>1 DEF AskRestriction
      <4>2. CASE t # Nothing
        BY <3>5, <3>6, <4>2, ProtStarts DEF AskRestriction, Maybe
      <4> QED BY <4>1, <4>2
    <3>7. CASE submitRestriction
      BY <1>0, <3>6, <3>7 DEF submitRestriction, ProtViews
    <3>8. CASE quickRestrict
      BY <3>6, <3>8 DEF quickRestrict, Maybe
    <3>9. CASE removeRestriction
      <4>1. PICK t \in protPage.state.restrictions : Begin(ProtCall("remove", Sent(t), Unsent))
        BY <3>9 DEF removeRestriction
      <4>2. protPage.state \in AlertProtectionState
        BY <1>0, <3>9 DEF removeRestriction, ProtViews, Maybe
      <4>3. t \in Targets
        BY <4>1, <4>2 DEF AlertProtectionState
      <4> QED BY <3>5, <4>1, <4>3, ProtStarts
    <3> QED BY <1>1, <3>1, <3>2, <3>3, <3>4, <3>7, <3>8, <3>9
  <2>3. Click /\ Quiet
    BY <1>1 DEF ProtLoad, ProtStartEdit, cancelEdit, ProtTypeTarget, saveAll, recoverCircuit,
       submitRestriction, quickRestrict, removeRestriction
  <2> QED BY <1>0, <1>c, <2>1, <2>2, <2>3, GatewayStill, ClickTyped DEF Quiet, ProtShaped
<1>2. CASE ProtType
  <2>1. protPage.form \in ProtectionForms
    BY <1>0, <1>2 DEF ProtType
  <2>2. PICK form \in ProtectionForms : protPage' = [protPage EXCEPT !.form = form]
    <3>1. ASSUME NEW r \in Maybe(Rules), protPage' = [protPage EXCEPT !.form.rules = r]
          PROVE  \E form \in ProtectionForms : protPage' = [protPage EXCEPT !.form = form]
      <4>1. [protPage.form EXCEPT !.rules = r] \in ProtectionForms
        BY <2>1 DEF ProtectionForms
      <4> QED BY <3>1, <4>1
    <3>2. ASSUME NEW v \in Limits \cup {0}, protPage' = [protPage EXCEPT !.form.limit = v]
          PROVE  \E form \in ProtectionForms : protPage' = [protPage EXCEPT !.form = form]
      <4>1. [protPage.form EXCEPT !.limit = v] \in ProtectionForms
        BY <2>1, EnteredValues DEF ProtectionForms
      <4> QED BY <3>2, <4>1
    <3> QED BY <1>2, <3>1, <3>2 DEF ProtType
  <2>3. protPage' \in ProtViews /\ protPage'.form \in ProtectionForms
    BY <1>0, <2>2 DEF ProtViews, Maybe
  <2> QED BY <1>0, <1>2, <2>3, GatewayStill, ClickTyped DEF ProtType, Quiet, ProtShaped
<1>3. CASE RestrictionExpires
  <2>1. protection' \in ProtRecords
    BY <1>0, <1>3 DEF RestrictionExpires, ProtRecords
  <2> QED BY <1>0, <1>3, <1>a, <2>1, GatewayStill DEF RestrictionExpires, ProtShaped
<1>4. ASSUME NEW s \in Slots, ProtLoaded(s) PROVE ProtShaped' /\ GatewayTypeOK' /\ ClicksTyped'
  <2>1. protCalls[s] \in ProtHandlers /\ protCalls[s].get.at = "served"
    BY <1>0, <1>4, ProtHandlerKnown DEF ProtLoaded
  <2>2. protCalls[s].get.with \in AlertProtectionState
    BY <2>1, ProtHandlerServes
  <2>3. syncForm(protCalls[s].get.with) \in ProtectionForms
    BY <2>2, StateSynced
  <2>4. protPage' \in ProtViews /\ protPage'.form \in ProtectionForms
    BY <1>0, <1>4, <2>2, <2>3 DEF ProtLoaded, ProtViews, Maybe
  <2> QED BY <1>0, <1>4, <1>a, <2>4, ProtEnds, GatewayStill DEF ProtLoaded, Quiet, ProtShaped
<1>5. ASSUME NEW s \in Slots, ProtAnswered(s) PROVE ProtShaped' /\ GatewayTypeOK' /\ ClicksTyped'
  <2> DEFINE call == protCalls[s]
             done == Finished(protPage, call.op)
             notice == [kind |-> call.op, did |-> call.act.with.did,
                        target |-> IF call.op = "restrict" THEN protPage.target ELSE call.act.with.did]
             shown == [done EXCEPT !.state = call.act.with.state,
                                   !.form = syncForm(call.act.with.state), !.notice = notice]
  <2>1. /\ call \in ProtHandlers /\ call.op \in {"save", "recover", "restrict", "remove"}
        /\ call.act.at = "served"
    BY <1>0, <1>5, ProtHandlerKnown DEF ProtAnswered
  <2>2. protPage' = (IF call.op = "restrict" THEN resetRestrictionForm(shown)
                     ELSE [shown EXCEPT !.editing = @ /\ call.op # "save"])
        /\ protCalls' = Put(protCalls, s, Idle) /\ Quiet /\ clicks' = clicks
    BY <1>5 DEF ProtAnswered
  <2> HIDE DEF call
  <2>3. call.act.with \in ProtectionResponses
    BY <2>1, ProtHandlerServes
  <2>4. call.act.with.did \in Maybe(Targets) /\ call.act.with.state \in AlertProtectionState
    BY <2>3 DEF ProtectionResponses
  <2>5. notice \in ProtNotices
    BY <1>0, <2>1, <2>4 DEF ProtNotices, ProtViews
  <2>6. syncForm(call.act.with.state) \in ProtectionForms
    BY <2>4, StateSynced
  <2>7. done \in ProtViews
    BY FinishedTyped
  <2> HIDE DEF done, notice
  <2>8. shown \in ProtViews /\ shown.form \in ProtectionForms
    BY <2>4, <2>5, <2>6, <2>7 DEF ProtViews, Maybe
  <2> HIDE DEF shown
  <2>9. PICK e \in BOOLEAN : protPage' = (IF call.op = "restrict" THEN resetRestrictionForm(shown)
                                          ELSE [shown EXCEPT !.editing = e])
    <3> DEFINE e == shown.editing /\ call.op # "save"
    <3>1. e \in BOOLEAN
      OBVIOUS
    <3>2. protPage' = (IF call.op = "restrict" THEN resetRestrictionForm(shown)
                       ELSE [shown EXCEPT !.editing = e])
      BY <2>2
    <3> HIDE DEF e
    <3> QED BY <3>1, <3>2
  <2>10. protPage' \in ProtViews /\ protPage'.form \in ProtectionForms
    BY <2>8, <2>9 DEF ProtViews, resetRestrictionForm, Maybe
  <2> QED BY <1>0, <1>a, <2>2, <2>10, ProtEnds, GatewayStill DEF Quiet, ProtShaped
<1>6. ASSUME NEW s \in Slots, ProtFails(s) PROVE ProtShaped' /\ GatewayTypeOK' /\ ClicksTyped'
  <2> DEFINE done == Finished(protPage, protCalls[s].op)
  <2>1. protCalls[s] \in ProtHandlers
    BY <1>0, <1>6, ProtHandlerKnown DEF ProtFails
  <2>2. /\ protPage' = [done EXCEPT !.error = TRUE] /\ Quiet /\ clicks' = clicks
        /\ \/ protCalls' = [protCalls EXCEPT ![s] = Idle]
           \/ protCalls' = [protCalls EXCEPT ![s] = [protCalls[s] EXCEPT !.op = "left"]]
    BY <1>6 DEF ProtFails, Put, Leave
  <2>3. done \in ProtViews /\ SameState(done)
    BY FinishedTyped
  <2> HIDE DEF done
  <2>4. protPage' \in ProtViews /\ SameState(protPage')
    BY <2>2, <2>3 DEF ProtViews, SameState
  <2>5. protCalls' \in [Slots -> ProtCallSet]
    BY <2>1, <2>2, ProtHandlerGoesOn, ProtSlot
  <2> QED BY <1>0, <1>a, <1>c, <2>2, <2>4, <2>5, GatewayStill DEF Quiet, ProtShaped
<1>7. ASSUME NEW s \in Slots, ProtLeft(s) PROVE ProtShaped' /\ GatewayTypeOK' /\ ClicksTyped'
  BY <1>0, <1>7, <1>a, ProtEnds, GatewayStill DEF ProtLeft, Quiet, ProtShaped
<1>8. ASSUME NEW s \in Slots, ProtServeGet(s) PROVE ProtShaped' /\ GatewayTypeOK' /\ ClicksTyped'
  <2>1. protCalls[s] \in ProtHandlers
    BY <1>0, <1>8, ProtHandlerKnown DEF ProtServeGet
  <2>2. Served(currentProtectionState) \in ProtGets
    BY <1>0, ProtStateTyped, ProtRequestsMade
  <2>3. protCalls' \in [Slots -> ProtCallSet]
    BY <1>8, <2>1, <2>2, ProtHandlerGoesOn, ProtSlot DEF ProtServeGet
  <2> QED BY <1>0, <1>8, <1>a, <2>3, GatewayStill DEF ProtServeGet, Quiet, ProtShaped
<1>9. ASSUME NEW s \in Slots, ProtServeUsage(s) PROVE ProtShaped' /\ GatewayTypeOK' /\ ClicksTyped'
  <2>1. protCalls[s] \in ProtHandlers
    BY <1>0, <1>9, ProtHandlerKnown DEF ProtServeUsage
  <2>2. /\ protection' = protection /\ protPage' = protPage /\ clicks' = clicks
    BY <1>9 DEF ProtServeUsage
  <2>3. CASE protCalls[s].usage.at = "sent"
    <3>1. PICK profile \in Profiles : protCalls' = [protCalls EXCEPT ![s].usage = UsageRead(profile)]
      BY <1>9, <2>3 DEF ProtServeUsage
    <3>2. UsageRead(profile) \in UsageGets
      BY TunedTyped, SettingsRequestsMade DEF UsageRead
    <3>3. protCalls' \in [Slots -> ProtCallSet]
      BY <2>1, <3>1, <3>2, ProtHandlerGoesOn, ProtSlot
    <3>4. UNCHANGED gatewayVars
      BY <1>9, <2>3 DEF ProtServeUsage
    <3> QED BY <1>0, <1>a, <2>2, <3>3, <3>4, GatewayStill DEF ProtShaped
  <2>4. CASE protCalls[s].usage.at # "sent"
    <3>1. /\ protCalls[s].usage.at = "read" /\ applyRecommendedRuntimeProfile(protCalls[s].usage)
          /\ protCalls' = [protCalls EXCEPT ![s].usage = Served(Nothing)]
      BY <1>9, <2>4 DEF ProtServeUsage
    <3>2. GatewayTypeOK'
      BY <2>1, <3>1, ProtHandlerServes, AppliedTyped
    <3>3. protCalls' \in [Slots -> ProtCallSet]
      BY <2>1, <3>1, SettingsRequestsMade, ProtHandlerGoesOn, ProtSlot
    <3> QED BY <1>0, <1>a, <2>2, <3>2, <3>3 DEF ProtShaped
  <2> QED BY <2>3, <2>4
<1>10. ASSUME NEW s \in Slots, ProtServeAct(s) PROVE ProtShaped' /\ GatewayTypeOK' /\ ClicksTyped'
  <2> DEFINE call == protCalls[s]
             did == IF call.kind \in {"restrict", "remove"} THEN call.act.with ELSE Nothing
             answer == [did |-> did, state |-> currentProtectionState']
  <2>1. call \in ProtHandlers /\ call.act.at = "sent" /\ protPage' = protPage /\ clicks' = clicks
    BY <1>0, <1>10, ProtHandlerKnown DEF ProtServeAct
  <2>2. /\ \/ call.kind = "save" /\ handleProtectionStatePut(call.act.with)
           \/ call.kind = "recover" /\ handleProtectionCircuitRecover
           \/ call.kind \in {"restrict", "remove"} /\ handleProtectionRestrictions(call.kind, call.act.with)
        /\ protCalls' = [protCalls EXCEPT ![s].act = Served(answer)]
    BY <1>10 DEF ProtServeAct
  <2>a. protCalls' = [protCalls EXCEPT ![s] = [call EXCEPT !.act = Served(answer)]]
    BY <2>2
  <2> HIDE DEF call
  <2>3. ProtPosts(call.kind, call.act.with)
    BY <2>1, ProtHandlerServes
  <2>4. did \in Maybe(Targets)
    BY <2>3 DEF ProtPosts, Maybe
  <2>5. protection' \in ProtRecords /\ GatewayTypeOK'
    <3>1. ASSUME NEW form \in ProtectionForms, handleProtectionStatePut(form)
          PROVE  protection' \in ProtRecords /\ GatewayTypeOK'
      <4>0. /\ form.limit \in Nat /\ running.limit \in Nat /\ protection.rules \in Rules
            /\ form.rules # Nothing => form.rules \in Rules
        BY <1>0 DEF ProtectionForms, Maybe, GatewayTypeOK, SystemResourceUsage, ProtRecords
      <4>1. PICK limit \in Nat, rules \in Rules :
              /\ settings.writes < MaxWrites /\ protection' = [protection EXCEPT !.rules = rules]
              /\ settings' = [settings EXCEPT !.limit = limit, !.writes = @ + 1]
              /\ running' = [running EXCEPT !.limit = limit] /\ disk' = disk
        <5> DEFINE limit == IF form.limit > 0 THEN form.limit ELSE running.limit
                   rules == IF form.rules = Nothing THEN protection.rules ELSE form.rules
        <5>1. limit \in Nat /\ rules \in Rules
          BY <4>0
        <5>2. /\ settings.writes < MaxWrites /\ protection' = [protection EXCEPT !.rules = rules]
              /\ settings' = [settings EXCEPT !.limit = limit, !.writes = @ + 1]
              /\ running' = [running EXCEPT !.limit = limit] /\ disk' = disk
          BY <3>1 DEF handleProtectionStatePut
        <5> HIDE DEF limit, rules
        <5> QED BY <5>1, <5>2
      <4>2. settings.writes + 1 \in 0 .. MaxWrites
        BY <4>1, WriteCounted
      <4>3. protection' \in ProtRecords
        BY <1>0, <4>1 DEF ProtRecords
      <4>4. settings' \in SystemSettingsPayload
        BY <4>1, <4>2 DEF GatewayTypeOK, SystemSettingsPayload
      <4>5. running' \in SystemResourceUsage
        BY <4>1 DEF GatewayTypeOK, SystemResourceUsage
      <4> QED BY <4>1, <4>3, <4>4, <4>5 DEF GatewayTypeOK
    <3>2. ASSUME handleProtectionCircuitRecover PROVE protection' \in ProtRecords /\ GatewayTypeOK'
      BY <1>0, <3>2, GatewayStill DEF handleProtectionCircuitRecover, ProtRecords
    <3>3. ASSUME NEW kind, NEW t \in Targets, handleProtectionRestrictions(kind, t)
          PROVE  protection' \in ProtRecords /\ GatewayTypeOK'
      <4>1. PICK r \in SUBSET Targets : protection' = [protection EXCEPT !.restrictions = r]
        <5> DEFINE r == IF kind = "restrict" THEN protection.restrictions \cup {t}
                        ELSE protection.restrictions \ {t}
        <5>1. r \in SUBSET Targets
          BY <1>0 DEF ProtRecords
        <5>2. protection' = [protection EXCEPT !.restrictions = r]
          BY <3>3 DEF handleProtectionRestrictions
        <5> HIDE DEF r
        <5> QED BY <5>1, <5>2
      <4> QED BY <1>0, <3>3, <4>1, GatewayStill DEF handleProtectionRestrictions, ProtRecords
    <3> QED BY <2>2, <2>3, <3>1, <3>2, <3>3 DEF ProtPosts
  <2>6. currentProtectionState' \in AlertProtectionState
    BY <2>5, ProtStateTypedNext
  <2> HIDE DEF did
  <2>7. answer \in ProtectionResponses
    BY <2>4, <2>6 DEF ProtectionResponses
  <2> HIDE DEF answer
  <2>8. Served(answer) \in ProtActs /\ Served(answer).at # "sent"
    BY <2>7, ProtRequestsMade DEF Served
  <2>9. protCalls' \in [Slots -> ProtCallSet]
    BY <2>1, <2>8, <2>a, ProtHandlerGoesOn, ProtSlot
  <2> QED BY <1>0, <1>a, <2>1, <2>5, <2>9 DEF ProtShaped
<1> QED BY <1>1, <1>2, <1>3, <1>4, <1>5, <1>6, <1>7, <1>8, <1>9, <1>10 DEF ProtectionNext

LEMMA PolicyHandlerServes ==
  ASSUME NEW c \in PolicyHandlers
  PROVE  /\ c.put.at \in {"sent", "served"} => c.put.with \in Nat
         /\ c.get.at = "served" => c.get.with \in Nat
BY RequestCarries DEF PolicyHandlers, PolicyPuts, PolicyGets

LEMMA PolicyRequestsMade ==
  /\ Unsent \in PolicyPuts /\ Unsent \in PolicyGets /\ Sent(Nothing) \in PolicyGets
  /\ \A x \in Nat : Sent(x) \in PolicyPuts /\ Served(x) \in PolicyPuts /\ Served(x) \in PolicyGets
BY RequestMade DEF PolicyPuts, PolicyGets

LEMMA PolicySlot ==
  ASSUME PolicyShaped, NEW s \in Slots
  PROVE  /\ policyCalls[s] \in PolicyCallSet /\ Idle \in PolicyCallSet
         /\ \A c \in PolicyCallSet : [policyCalls EXCEPT ![s] = c] \in [Slots -> PolicyCallSet]
BY DEF PolicyShaped, PolicyCallSet

LEMMA PolicyShapedStep ==
  PolicyShaped /\ GatewayTypeOK /\ ClicksTyped /\ PolicyNext
    => PolicyShaped' /\ GatewayTypeOK' /\ ClicksTyped'
<1> SUFFICES ASSUME PolicyShaped, GatewayTypeOK, ClicksTyped, PolicyNext
             PROVE  PolicyShaped' /\ GatewayTypeOK' /\ ClicksTyped'
  OBVIOUS
<1>0. /\ policyPage \in PolicyViews
      /\ policyCalls \in [Slots -> PolicyCallSet]
      /\ \A s \in Slots : policyCalls[s] \in PolicyCallSet
  BY DEF PolicyShaped
<1>a. clicks' = clicks => ClicksTyped'
  BY DEF ClicksTyped
<1>b. running.limit \in Nat
  BY DEF GatewayTypeOK, SystemResourceUsage
<1>c. ASSUME NEW s \in Slots, policyCalls[s].op \in {"limits", "policy"}
      PROVE  policyCalls[s] \in PolicyHandlers
  BY <1>0, <1>c DEF PolicyCallSet, Idle
<1>1. CASE loadLimits \/ savePolicy
  <2>1. PICK s \in Slots, c \in PolicyCallSet : policyCalls' = [policyCalls EXCEPT ![s] = c]
    <3>1. CASE loadLimits
      <4>1. [op |-> "limits", put |-> Unsent, get |-> Sent(Nothing)] \in PolicyCallSet
        BY PolicyRequestsMade DEF PolicyCallSet, PolicyHandlers
      <4> QED BY <3>1, <4>1 DEF loadLimits, Put, Free
    <3>2. CASE savePolicy
      <4>1. policyPage.form \in Nat
        BY <1>0 DEF PolicyViews
      <4>2. [op |-> "policy", put |-> Sent(policyPage.form), get |-> Unsent] \in PolicyCallSet
        BY <4>1, PolicyRequestsMade DEF PolicyCallSet, PolicyHandlers
      <4> QED BY <3>2, <4>2 DEF savePolicy, Put, Free
    <3> QED BY <1>1, <3>1, <3>2
  <2>2. policyCalls' \in [Slots -> PolicyCallSet]
    BY <2>1, PolicySlot
  <2> QED BY <1>0, <1>1, <2>2, GatewayStill, ClickTyped DEF loadLimits, savePolicy, PolicyShaped
<1>2. CASE openEdit \/ PolicyType
  <2>1. PICK v \in Nat, open \in BOOLEAN : policyPage' = [policyPage EXCEPT !.form = v, !.open = open]
    <3>1. CASE openEdit
      <4>1. policyPage.limit \in Nat
        BY <1>0 DEF PolicyViews
      <4> QED BY <3>1, <4>1 DEF openEdit
    <3>2. CASE PolicyType
      <4>1. PICK v \in Limits \cup {0} : policyPage' = [policyPage EXCEPT !.form = v]
        BY <3>2 DEF PolicyType
      <4>a. v \in Nat
        BY <4>1, EnteredValues
      <4>2. policyPage' = [policyPage EXCEPT !.form = v, !.open = policyPage.open] /\ v \in Nat
        BY <1>0, <4>1, <4>a DEF PolicyViews
      <4>3. policyPage.open \in BOOLEAN
        BY <1>0 DEF PolicyViews
      <4> QED BY <4>2, <4>3
    <3> QED BY <1>2, <3>1, <3>2
  <2>2. policyPage' \in PolicyViews
    BY <1>0, <2>1 DEF PolicyViews
  <2> QED BY <1>0, <1>2, <2>2, GatewayStill, ClickTyped DEF openEdit, PolicyType, PolicyShaped
<1>3. ASSUME NEW s \in Slots, PolicyAnswered(s) PROVE PolicyShaped' /\ GatewayTypeOK' /\ ClicksTyped'
  <2>1. policyCalls[s] \in PolicyHandlers
    BY <1>3, <1>c DEF PolicyAnswered
  <2>2. PICK v \in Nat : \/ policyPage' = [policyPage EXCEPT !.limit = v]
                         \/ policyPage' = [policyPage EXCEPT !.limit = v, !.open = FALSE]
    BY <1>3, <2>1, PolicyHandlerServes DEF PolicyAnswered
  <2>3. policyPage' \in PolicyViews
    BY <1>0, <2>2 DEF PolicyViews
  <2>4. policyCalls' \in [Slots -> PolicyCallSet]
    BY <1>3, PolicySlot DEF PolicyAnswered, Put
  <2> QED BY <1>0, <1>3, <1>a, <2>3, <2>4, GatewayStill DEF PolicyAnswered, PolicyShaped
<1>4. ASSUME NEW s \in Slots, PolicyServe(s) PROVE PolicyShaped' /\ GatewayTypeOK' /\ ClicksTyped'
  <2>1. policyCalls[s] \in PolicyHandlers /\ policyPage' = policyPage /\ clicks' = clicks
    BY <1>4, <1>c DEF PolicyServe
  <2>2. CASE policyCalls[s].op = "limits"
    <3>1. policyCalls' = [policyCalls EXCEPT ![s] = [policyCalls[s] EXCEPT !.get = Served(running.limit)]]
          /\ UNCHANGED gatewayVars
      BY <1>4, <2>2 DEF PolicyServe
    <3>2. Served(running.limit) \in PolicyGets
      BY <1>b, PolicyRequestsMade
    <3>3. [policyCalls[s] EXCEPT !.get = Served(running.limit)] \in PolicyCallSet
      BY <2>1, <3>2 DEF PolicyHandlers, PolicyCallSet
    <3> QED BY <1>0, <1>a, <2>1, <3>1, <3>3, PolicySlot, GatewayStill DEF PolicyShaped
  <2>3. CASE policyCalls[s].op # "limits"
    <3> DEFINE limit == policyCalls[s].put.with
    <3>1. /\ policyCalls[s].put.at = "sent" /\ handleLimitsPut(limit)
          /\ policyCalls' = [policyCalls EXCEPT ![s] = [policyCalls[s] EXCEPT !.put = Served(running'.limit)]]
      BY <1>4, <2>3 DEF PolicyServe
    <3>2. limit \in Nat
      BY <2>1, <3>1, PolicyHandlerServes
    <3> HIDE DEF limit
    <3>3. /\ settings.writes < MaxWrites /\ disk' = disk
          /\ settings' = [settings EXCEPT !.limit = limit, !.writes = @ + 1]
          /\ running' = [running EXCEPT !.limit = limit]
      BY <3>1 DEF handleLimitsPut
    <3>4. settings.writes + 1 \in 0 .. MaxWrites
      BY <3>3, WriteCounted
    <3>5. settings' \in SystemSettingsPayload
      BY <3>2, <3>3, <3>4 DEF GatewayTypeOK, SystemSettingsPayload
    <3>6. running' \in SystemResourceUsage /\ running'.limit \in Nat
      BY <3>2, <3>3 DEF GatewayTypeOK, SystemResourceUsage
    <3>7. GatewayTypeOK'
      BY <3>3, <3>5, <3>6 DEF GatewayTypeOK
    <3>8. Served(running'.limit) \in PolicyPuts
      BY <3>6, PolicyRequestsMade
    <3>9. [policyCalls[s] EXCEPT !.put = Served(running'.limit)] \in PolicyCallSet
      BY <2>1, <3>8 DEF PolicyHandlers, PolicyCallSet
    <3> QED BY <1>0, <1>a, <2>1, <3>1, <3>7, <3>9, PolicySlot DEF PolicyShaped
  <2> QED BY <2>2, <2>3
<1>5. ASSUME NEW s \in Slots, PolicyFails(s) PROVE PolicyShaped' /\ GatewayTypeOK' /\ ClicksTyped'
  <2>1. policyCalls' \in [Slots -> PolicyCallSet]
    BY <1>5, PolicySlot DEF PolicyFails, Put
  <2> QED BY <1>0, <1>5, <1>a, <2>1, GatewayStill DEF PolicyFails, PolicyShaped
<1> QED BY <1>1, <1>2, <1>3, <1>4, <1>5 DEF PolicyNext

LEMMA ProtectionTypedStep ==
  ASSUME ProtectionTyped, GatewayTypeOK, ClicksTyped, ProtectionNext \/ PolicyNext
  PROVE  ProtectionTyped' /\ GatewayTypeOK' /\ ClicksTyped'
<1>1. CASE ProtectionNext
  <2>1. UNCHANGED <<policyPage, policyCalls>>
    BY <1>1 DEF ProtectionNext, ProtLoad, ProtStartEdit, cancelEdit, ProtType, ProtTypeTarget, saveAll,
       recoverCircuit, submitRestriction, quickRestrict, removeRestriction, RestrictionExpires,
       ProtLoaded, ProtAnswered, ProtFails, ProtLeft, ProtServeGet, ProtServeUsage, ProtServeAct, Quiet
  <2>2. PolicyShaped'
    BY <2>1 DEF ProtectionTyped, PolicyShaped
  <2> QED BY <1>1, <2>2, ProtShapedStep DEF ProtectionTyped
<1>2. CASE PolicyNext
  <2>1. UNCHANGED <<protPage, protCalls, protection>>
    BY <1>2 DEF PolicyNext, loadLimits, openEdit, PolicyType, savePolicy, PolicyServe, PolicyAnswered,
       PolicyFails, PolicyQuiet, handleLimitsPut
  <2>2. ProtShaped'
    BY <2>1 DEF ProtectionTyped, ProtShaped
  <2> QED BY <1>2, <2>2, PolicyShapedStep DEF ProtectionTyped
<1> QED BY <1>1, <1>2

LEMMA ProtectionTypedInit == ASSUME ProtectionInit(ProtectionStores) PROVE ProtectionTyped
<1>1. protection \in ProtRecords
  BY DEF ProtectionInit, ProtectionStores, ProtRecords
<1>2. protPage \in ProtViews /\ protPage.state = Nothing
  BY DEF ProtectionInit, ProtViews, ProtNotices, NoNotice, Maybe
<1>3. policyPage \in PolicyViews
  BY DEF ProtectionInit, PolicyViews
<1>4. protCalls \in [Slots -> ProtCallSet] /\ policyCalls \in [Slots -> PolicyCallSet]
  BY DEF ProtectionInit, NoCalls, ProtCallSet, PolicyCallSet
<1> QED BY <1>1, <1>2, <1>3, <1>4 DEF ProtectionTyped, ProtShaped, PolicyShaped

LEMMA ProtectionTypesHold == ProtectionTyped => ProtectionTypeOK
<1> SUFFICES ASSUME ProtectionTyped PROVE ProtectionTypeOK
  OBVIOUS
<1>1. protCalls \in [Slots -> {Idle} \cup ProtShapes]
  BY DEF ProtectionTyped, ProtShaped, ProtCallSet, ProtHandlers
<1>2. ProtShapes = [op : {"load", "save", "recover", "restrict", "remove", "left"},
                    kind : {"load", "save", "recover", "restrict", "remove"},
                    act : ProtActs, get : ProtGets, usage : UsageGets]
  <2>1. ProtKinds \cup {"left"} = {"load", "save", "recover", "restrict", "remove", "left"}
    BY DEF ProtKinds
  <2> QED BY <2>1 DEF ProtShapes, ProtKinds
<1> QED BY <1>1, <1>2 DEF ProtectionTyped, ProtShaped, PolicyShaped, ProtectionTypeOK, ProtRecords,
    ProtViews, ProtNotices, ProtActs, ProtGets, UsageGets, PolicyViews, PolicyCallSet, PolicyHandlers,
    PolicyPuts, PolicyGets

-----------------------------------------------------------------------------
(* The mappings page.  An open editor, and what is sent from it, names a   *)
(* resource.                                                               *)

MapEdits == [resource : Resources, editing : BOOLEAN, ip : ListenIPs, port : Maybe(Ports)]

MapActs == Requests(Maybe(MappingEditors), {}, BOOLEAN)

MapRowGets == Requests({Nothing}, {}, SUBSET MappingRows)

MapSpanGets == Requests({Nothing}, {}, Spans)

MapOps == {"load", "save", "remove", "catalog", "test"}

MapShapes == [op : MapOps, act : MapActs, rows : MapRowGets, raw : MapRowGets, span : MapSpanGets]

MapHandlers ==
  {c \in MapShapes : c.act.at = "sent" /\ c.op \in {"save", "remove"} => c.act.with \in MapEdits}

MapCallSet == {Idle} \cup MapHandlers

MapViews ==
  [rows : Maybe(SUBSET MappingRows), raw : SUBSET MappingRows, span : Spans \cup {{}},
   loading : BOOLEAN, saving : BOOLEAN, testing : BOOLEAN, error : BOOLEAN,
   notice : {"", "done"}, open : BOOLEAN, editor : MappingEditors]

MappingTyped ==
  /\ mappings \subseteq MappingRows /\ span \in Spans
  /\ mapPage \in MapViews
  /\ mapPage.open => mapPage.editor \in MapEdits
  /\ mapCalls \in [Slots -> MapCallSet]

LEMMA MapHandlerKnown == ASSUME NEW c \in MapCallSet, c.op # "idle" \/ c # Idle PROVE c \in MapHandlers
BY DEF MapCallSet, Idle

LEMMA MapHandlerGoesOn ==
  ASSUME NEW c \in MapHandlers, NEW r
  PROVE  /\ r \in MapActs /\ r.at # "sent" => [c EXCEPT !.act = r] \in MapCallSet
         /\ r \in MapRowGets => [c EXCEPT !.rows = r] \in MapCallSet /\ [c EXCEPT !.raw = r] \in MapCallSet
         /\ r \in MapSpanGets => [c EXCEPT !.span = r] \in MapCallSet
BY DEF MapHandlers, MapShapes, MapCallSet

LEMMA MapHandlerServes ==
  ASSUME NEW c \in MapHandlers
  PROVE  /\ c.act.at = "sent" /\ c.op \in {"save", "remove"} => c.act.with \in MapEdits
         /\ c.rows.at = "served" => c.rows.with \in SUBSET MappingRows
         /\ c.raw.at = "served" => c.raw.with \in SUBSET MappingRows
         /\ c.span.at = "served" => c.span.with \in Spans
<1>1. c.rows \in MapRowGets /\ c.raw \in MapRowGets /\ c.span \in MapSpanGets
  BY DEF MapHandlers, MapShapes
<1>2. /\ c.rows.at = "served" => c.rows.with \in SUBSET MappingRows
      /\ c.raw.at = "served" => c.raw.with \in SUBSET MappingRows
  BY <1>1, RequestCarries DEF MapRowGets
<1>3. c.span.at = "served" => c.span.with \in Spans
  BY <1>1, RequestCarries DEF MapSpanGets
<1> QED BY <1>2, <1>3 DEF MapHandlers

LEMMA MapRequestsMade ==
  /\ Unsent \in MapActs /\ Sent(Nothing) \in MapActs
  /\ \A persisted \in BOOLEAN : Served(persisted) \in MapActs
  /\ \A x \in MapEdits : Sent(x) \in MapActs
  /\ Unsent \in MapRowGets /\ Sent(Nothing) \in MapRowGets
  /\ \A x \in SUBSET MappingRows : Served(x) \in MapRowGets
  /\ Unsent \in MapSpanGets /\ Sent(Nothing) \in MapSpanGets
  /\ \A x \in Spans : Served(x) \in MapSpanGets
<1>1. /\ Unsent \in MapActs /\ \A persisted \in BOOLEAN : Served(persisted) \in MapActs
      /\ \A x \in Maybe(MappingEditors) : Sent(x) \in MapActs
  BY RequestMade DEF MapActs
<1>2. MapEdits \subseteq Maybe(MappingEditors) /\ Nothing \in Maybe(MappingEditors)
  BY DEF MapEdits, MappingEditors, Maybe
<1>3. /\ Unsent \in MapRowGets /\ Sent(Nothing) \in MapRowGets
      /\ \A x \in SUBSET MappingRows : Served(x) \in MapRowGets
  BY RequestMade DEF MapRowGets
<1>4. /\ Unsent \in MapSpanGets /\ Sent(Nothing) \in MapSpanGets
      /\ \A x \in Spans : Served(x) \in MapSpanGets
  BY RequestMade DEF MapSpanGets
<1> QED BY <1>1, <1>2, <1>3, <1>4

LEMMA MapBegun ==
  ASSUME NEW op \in MapOps, NEW act \in MapActs,
         act.at = "sent" /\ op \in {"save", "remove"} => act.with \in MapEdits
  PROVE  MapCall(op, act) \in MapHandlers
<1>1. MapCall(op, act) \in MapShapes
  BY MapRequestsMade DEF MapCall, MapShapes
<1> QED BY <1>1 DEF MapCall, MapHandlers

LEMMA MapReloads == ASSUME NEW c \in MapHandlers PROVE MapLoads(c) \in MapCallSet
BY MapRequestsMade DEF MapLoads, MapHandlers, MapShapes, MapCallSet

LEMMA MapSlot ==
  ASSUME MappingTyped, NEW s \in Slots
  PROVE  /\ mapCalls[s] \in MapCallSet /\ Idle \in MapCallSet
         /\ \A c \in MapCallSet : [mapCalls EXCEPT ![s] = c] \in [Slots -> MapCallSet]
BY DEF MappingTyped, MapCallSet

LEMMA MapStarts ==
  ASSUME MappingTyped, NEW c \in MapCallSet, MapBegin(c) PROVE mapCalls' \in [Slots -> MapCallSet]
BY DEF MappingTyped, Put, Free, MapBegin

LEMMA MapEnds ==
  ASSUME MappingTyped, NEW s \in Slots, mapCalls' = Put(mapCalls, s, Idle)
  PROVE  mapCalls' \in [Slots -> MapCallSet]
BY MapSlot DEF Put

\* A page whose editor is as it was, or shut.
SameEditor(page) == page.editor = mapPage.editor /\ (page.open => mapPage.open)

LEMMA MapFlagsTyped ==
  ASSUME MappingTyped, NEW op, NEW notice \in {"", "done"}
  PROVE  /\ MapFlagsDown(mapPage, op) \in MapViews /\ SameEditor(MapFlagsDown(mapPage, op))
         /\ Loading(mapPage, notice) \in MapViews /\ SameEditor(Loading(mapPage, notice))
<1>1. mapPage \in MapViews
  BY DEF MappingTyped
<1>2. PICK a \in BOOLEAN, b \in BOOLEAN :
        MapFlagsDown(mapPage, op) = [mapPage EXCEPT !.loading = FALSE, !.saving = a, !.testing = b]
  <2> DEFINE a == mapPage.saving /\ op \notin {"save", "remove"}
             b == mapPage.testing /\ op # "catalog"
  <2>1. a \in BOOLEAN /\ b \in BOOLEAN
    OBVIOUS
  <2>2. MapFlagsDown(mapPage, op) = [mapPage EXCEPT !.loading = FALSE, !.saving = a, !.testing = b]
    BY DEF MapFlagsDown
  <2> HIDE DEF a, b
  <2> QED BY <2>1, <2>2
<1>3. MapFlagsDown(mapPage, op) \in MapViews /\ SameEditor(MapFlagsDown(mapPage, op))
  BY <1>1, <1>2 DEF MapViews, SameEditor
<1>4. Loading(mapPage, notice) \in MapViews /\ SameEditor(Loading(mapPage, notice))
  BY <1>1 DEF Loading, MapViews, SameEditor
<1> QED BY <1>3, <1>4

LEMMA MapStored ==
  ASSUME MappingTyped, NEW r \in Resources, NEW a \in ListenIPs, NEW p,
         \/ Create([resource |-> r, ip |-> a, port |-> p])
         \/ Update([resource |-> r, ip |-> a, port |-> p]) \/ Delete(r)
  PROVE  mappings' \subseteq MappingRows
<1> DEFINE m == [resource |-> r, ip |-> a, port |-> p]
<1>1. mappings \subseteq MappingRows /\ span \in Spans
  BY DEF MappingTyped
<1>2. CASE Delete(r)
  BY <1>1, <1>2 DEF Delete
<1>3. CASE Create(m) \/ Update(m)
  <2>1. p \in Ports
    BY <1>1, <1>3 DEF Create, Update, Ports
  <2>2. m \in MappingRows
    BY <2>1 DEF MappingRows
  <2>3. m \in MappingRows /\ mappings' \subseteq mappings \cup {m}
    BY <1>3, <2>2 DEF Create, Update
  <2> QED BY <1>1, <2>3
<1> QED BY <1>2, <1>3

LEMMA MappingTypedStep ==
  MappingTyped /\ ClicksTyped /\ MappingNext => MappingTyped' /\ ClicksTyped'
<1> SUFFICES ASSUME MappingTyped, ClicksTyped, MappingNext PROVE MappingTyped' /\ ClicksTyped'
  OBVIOUS
<1>0. /\ mappings \subseteq MappingRows /\ span \in Spans /\ mapPage \in MapViews
      /\ (mapPage.open => mapPage.editor \in MapEdits)
      /\ mapCalls \in [Slots -> MapCallSet]
      /\ \A s \in Slots : mapCalls[s] \in MapCallSet
  BY DEF MappingTyped
<1>a. clicks' = clicks \/ Click => ClicksTyped'
  BY ClickTyped DEF ClicksTyped
<1>b. ASSUME mapPage' \in MapViews, SameEditor(mapPage')
      PROVE  mapPage'.open => mapPage'.editor \in MapEdits
  BY <1>0, <1>b DEF SameEditor
<1>c. MapHandlers \subseteq MapCallSet
  BY DEF MapCallSet
<1>1. CASE MapLoad
  <2>1. MapLoads(MapCall("load", Unsent)) \in MapCallSet
    BY MapBegun, MapRequestsMade, MapReloads DEF MapOps, Unsent
  <2>2. mapCalls' \in [Slots -> MapCallSet]
    BY <1>1, <2>1, MapStarts DEF MapLoad
  <2>3. mapPage' \in MapViews /\ SameEditor(mapPage')
    BY <1>1, MapFlagsTyped DEF MapLoad
  <2> QED BY <1>0, <1>1, <1>a, <1>b, <2>2, <2>3 DEF MapLoad, MappingTyped
<1>2. CASE MapType
  <2>1. mapPage.open /\ mapPage.editor \in MapEdits
    BY <1>0, <1>2 DEF MapType
  <2>2. PICK editor : /\ mapPage' = [mapPage EXCEPT !.editor = editor]
                      /\ \/ \E p \in Ports : editor = [mapPage.editor EXCEPT !.port = p]
                         \/ \E a \in ListenIPs : editor = [mapPage.editor EXCEPT !.ip = a]
    BY <1>2 DEF MapType
  <2>3. editor \in MapEdits
    BY <2>1, <2>2 DEF MapEdits, Maybe
  <2>4. MapEdits \subseteq MappingEditors
    BY DEF MapEdits, MappingEditors, Maybe
  <2>5. mapPage' \in MapViews /\ mapPage'.editor \in MapEdits
    BY <1>0, <2>2, <2>3, <2>4 DEF MapViews
  <2> QED BY <1>0, <1>2, <1>a, <2>5 DEF MapType, MappingTyped
<1>3. CASE MapCancel
  <2>1. mapPage' \in MapViews /\ SameEditor(mapPage')
    BY <1>0, <1>3 DEF MapCancel, MapViews, SameEditor
  <2> QED BY <1>0, <1>3, <1>a, <1>b, <2>1 DEF MapCancel, MappingTyped
<1>4. CASE saveMapping \/ removeMapping
  <2>1. mapPage.open /\ mapPage.editor \in MapEdits
    BY <1>0, <1>4 DEF saveMapping, removeMapping
  <2>2. mapPage' \in MapViews /\ SameEditor(mapPage')
    <3>1. \/ mapPage' = [mapPage EXCEPT !.error = TRUE, !.notice = ""]
          \/ mapPage' = [mapPage EXCEPT !.saving = TRUE, !.error = FALSE, !.notice = ""]
          \/ mapPage' = [mapPage EXCEPT !.saving = TRUE, !.error = FALSE]
      BY <1>4 DEF saveMapping, removeMapping
    <3> QED BY <1>0, <3>1 DEF MapViews, SameEditor
  <2>3. Sent(mapPage.editor) \in MapActs /\ Sent(mapPage.editor).with = mapPage.editor
    BY <2>1, MapRequestsMade DEF Sent
  <2>4. /\ MapCall("save", Sent(mapPage.editor)) \in MapCallSet
        /\ MapCall("remove", Sent(mapPage.editor)) \in MapCallSet
    BY <1>c, <2>1, <2>3, MapBegun DEF MapOps
  <2>5. mapCalls' = mapCalls \/ MapBegin(MapCall("save", Sent(mapPage.editor)))
          \/ MapBegin(MapCall("remove", Sent(mapPage.editor)))
    BY <1>4 DEF saveMapping, removeMapping
  <2>6. mapCalls' \in [Slots -> MapCallSet]
    BY <1>0, <2>4, <2>5, MapStarts
  <2> QED BY <1>0, <1>4, <1>a, <1>b, <2>2, <2>6 DEF saveMapping, removeMapping, MappingTyped
<1>5. CASE runCatalogAction
  <2>1. mapPage' \in MapViews /\ SameEditor(mapPage')
    BY <1>0, <1>5 DEF runCatalogAction, MapViews, SameEditor
  <2>2. \A op \in {"catalog", "test"} : MapCall(op, Sent(Nothing)) \in MapCallSet
    BY <1>c, MapBegun, MapRequestsMade DEF MapOps
  <2>3. mapCalls' \in [Slots -> MapCallSet]
    BY <1>5, <2>2, MapStarts DEF runCatalogAction
  <2> QED BY <1>0, <1>5, <1>a, <1>b, <2>1, <2>3 DEF runCatalogAction, MappingTyped
<1>6. CASE OtherBrowserSaves
  <2>1. PICK m \in MappingRows : Create(m) \/ Update(m) \/ Delete(m.resource)
    BY <1>6 DEF OtherBrowserSaves
  <2>2. m = [resource |-> m.resource, ip |-> m.ip, port |-> m.port]
        /\ m.resource \in Resources /\ m.ip \in ListenIPs
    BY DEF MappingRows
  <2>3. mappings' \subseteq MappingRows
    BY <2>1, <2>2, MapStored
  <2> QED BY <1>0, <1>6, <1>a, <2>3 DEF OtherBrowserSaves, MappingTyped
<1>7. CASE OtherBrowserMovesRange
  BY <1>0, <1>7, <1>a DEF OtherBrowserMovesRange, MappingTyped
<1>8. ASSUME NEW r \in Resources, openMapping(r) PROVE MappingTyped' /\ ClicksTyped'
  <2> DEFINE base == MappingOf(mapPage.raw, r)
             row == MappingOf(mapPage.rows, r)
             filled == IF base # {} THEN base ELSE row
             ip == IF filled = {} THEN AnyIP ELSE (CHOOSE m \in filled : TRUE).ip
             port == IF filled = {} THEN Nothing ELSE (CHOOSE m \in filled : TRUE).port
             editor == [resource |-> r, editing |-> base # {}, ip |-> ip, port |-> port]
  <2>1. /\ TableOpen /\ Click /\ UNCHANGED <<mappings, span, mapCalls>>
        /\ mapPage' = [mapPage EXCEPT !.open = TRUE, !.editor = editor]
    BY <1>8 DEF openMapping
  <2>2. mapPage.rows \in SUBSET MappingRows /\ mapPage.raw \in SUBSET MappingRows
    BY <1>0, <2>1 DEF TableOpen, MapViews, Maybe
  <2>3. filled \subseteq MappingRows
    BY <2>2 DEF MappingOf
  <2> HIDE DEF filled
  <2>4. ip \in ListenIPs /\ port \in Maybe(Ports)
    <3>1. filled # {} => (CHOOSE m \in filled : TRUE) \in MappingRows
      BY <2>3
    <3> QED BY <3>1 DEF Maybe, MappingRows, ListenIPs
  <2> HIDE DEF ip, port
  <2>5. editor \in MapEdits /\ editor \in MappingEditors
    BY <2>4 DEF MapEdits, MappingEditors, Maybe
  <2> HIDE DEF editor
  <2>6. mapPage' \in MapViews /\ mapPage'.editor \in MapEdits
    BY <1>0, <2>1, <2>5 DEF MapViews
  <2> QED BY <1>0, <1>a, <2>1, <2>6 DEF MappingTyped
<1>9. ASSUME NEW s \in Slots, MapLoaded(s) \/ MapLoadFails(s) PROVE MappingTyped' /\ ClicksTyped'
  <2> DEFINE call == mapCalls[s]
             down == MapFlagsDown(mapPage, call.op)
  <2>1. call \in MapHandlers
    BY <1>0, <1>9, MapHandlerKnown DEF MapLoaded, MapLoadFails
  <2>2. down \in MapViews /\ SameEditor(down)
    BY MapFlagsTyped
  <2>3. mapPage' \in MapViews /\ SameEditor(mapPage')
    <3>1. CASE MapLoaded(s)
      <4>1. /\ {call.rows.at, call.raw.at, call.span.at} = {"served"}
            /\ mapPage' = [down EXCEPT !.rows = call.rows.with, !.raw = call.raw.with, !.span = call.span.with]
        BY <3>1 DEF MapLoaded
      <4> HIDE DEF call
      <4>2. /\ call.rows.with \in SUBSET MappingRows /\ call.raw.with \in SUBSET MappingRows
            /\ call.span.with \in Spans
        BY <2>1, <4>1, MapHandlerServes
      <4> HIDE DEF down
      <4> QED BY <2>2, <4>1, <4>2 DEF MapViews, SameEditor, Maybe
    <3>2. CASE MapLoadFails(s)
      <4>1. mapPage' = [down EXCEPT !.error = TRUE]
        BY <3>2 DEF MapLoadFails
      <4> HIDE DEF down
      <4> QED BY <2>2, <4>1 DEF MapViews, SameEditor
    <3> QED BY <1>9, <3>1, <3>2
  <2> QED BY <1>0, <1>9, <1>a, <1>b, <2>3, MapEnds DEF MapLoaded, MapLoadFails, MappingTyped
<1>10. ASSUME NEW s \in Slots, MapServe(s) PROVE MappingTyped' /\ ClicksTyped'
  <2>1. mapCalls[s] \in MapHandlers
    BY <1>0, <1>10, MapHandlerKnown DEF MapServe
  <2>2. Served(mappings) \in MapRowGets /\ Served(span) \in MapSpanGets
    BY <1>0, MapRequestsMade
  <2>3. /\ [mapCalls[s] EXCEPT !.rows = Served(mappings)] \in MapCallSet
        /\ [mapCalls[s] EXCEPT !.raw = Served(mappings)] \in MapCallSet
        /\ [mapCalls[s] EXCEPT !.span = Served(span)] \in MapCallSet
    BY <2>1, <2>2, MapHandlerGoesOn
  <2>4. \/ mapCalls' = [mapCalls EXCEPT ![s] = [mapCalls[s] EXCEPT !.rows = Served(mappings)]]
        \/ mapCalls' = [mapCalls EXCEPT ![s] = [mapCalls[s] EXCEPT !.raw = Served(mappings)]]
        \/ mapCalls' = [mapCalls EXCEPT ![s] = [mapCalls[s] EXCEPT !.span = Served(span)]]
    BY <1>10 DEF MapServe
  <2>5. mapCalls' \in [Slots -> MapCallSet]
    BY <2>3, <2>4, MapSlot
  <2> QED BY <1>0, <1>10, <1>a, <2>5 DEF MapServe, MappingTyped
<1>11. ASSUME NEW s \in Slots, MapServeAct(s) PROVE MappingTyped' /\ ClicksTyped'
  <2> DEFINE call == mapCalls[s]
             m == [resource |-> call.act.with.resource, ip |-> call.act.with.ip,
                   port |-> call.act.with.port]
  <2>1. call \in MapHandlers /\ call.act.at = "sent"
    BY <1>0, <1>11, MapHandlerKnown DEF MapServeAct
  <2>2. \/ call.op = "save" /\ (Create(m) \/ Update(m))
        \/ call.op = "remove" /\ Delete(call.act.with.resource)
        \/ mappings' = mappings
    BY <1>11 DEF MapServeAct
  <2>3. PICK persisted \in BOOLEAN :
          mapCalls' = [mapCalls EXCEPT ![s] = [call EXCEPT !.act = Served(persisted)]]
    BY <1>11, Zenon DEF MapServeAct
  <2> HIDE DEF call
  <2>4. call.op \in {"save", "remove"}
          => call.act.with.resource \in Resources /\ call.act.with.ip \in ListenIPs
    BY <2>1, MapHandlerServes DEF MapEdits
  <2>5. mappings' \subseteq MappingRows
    <3>1. CASE call.op = "save" /\ (Create(m) \/ Update(m))
      BY <2>4, <3>1, MapStored
    <3>2. CASE call.op = "remove" /\ Delete(call.act.with.resource)
      BY <2>4, <3>2, MapStored
    <3> QED BY <1>0, <2>2, <3>1, <3>2
  <2>6. Served(persisted) \in MapActs /\ Served(persisted).at # "sent"
    BY MapRequestsMade DEF Served
  <2>7. mapCalls' \in [Slots -> MapCallSet]
    BY <2>1, <2>3, <2>6, MapHandlerGoesOn, MapSlot
  <2> QED BY <1>0, <1>11, <1>a, <2>5, <2>7 DEF MapServeAct, MappingTyped
<1>12. ASSUME NEW s \in Slots, MapActed(s) PROVE MappingTyped' /\ ClicksTyped'
  <2>1. mapCalls[s] \in MapHandlers
    BY <1>0, <1>12, MapHandlerKnown DEF MapActed
  <2>2. \/ mapPage' = Loading(mapPage, "done")
        \/ mapPage' = [Loading(mapPage, "") EXCEPT !.open = FALSE]
    BY <1>12 DEF MapActed
  <2>3. /\ Loading(mapPage, "done") \in MapViews /\ SameEditor(Loading(mapPage, "done"))
        /\ Loading(mapPage, "") \in MapViews /\ SameEditor(Loading(mapPage, ""))
    BY MapFlagsTyped
  <2>4. mapPage' \in MapViews /\ SameEditor(mapPage')
    BY <2>2, <2>3 DEF MapViews, SameEditor
  <2>5. mapCalls' \in [Slots -> MapCallSet]
    BY <1>12, <2>1, MapReloads, MapSlot DEF MapActed, Put
  <2> QED BY <1>0, <1>12, <1>a, <1>b, <2>4, <2>5 DEF MapActed, MappingTyped
<1>13. ASSUME NEW s \in Slots, MapTested(s) \/ MapActFails(s) PROVE MappingTyped' /\ ClicksTyped'
  <2>1. PICK a \in BOOLEAN, b \in BOOLEAN, c \in BOOLEAN, n \in {"", "done"} :
          mapPage' = [mapPage EXCEPT !.error = a, !.saving = b, !.testing = c, !.notice = n]
    <3>0. /\ mapPage.notice \in {"", "done"} /\ mapPage.saving \in BOOLEAN
          /\ mapPage = [mapPage EXCEPT !.saving = mapPage.saving]
          /\ mapPage = [mapPage EXCEPT !.notice = mapPage.notice]
      BY <1>0 DEF MapViews
    <3>1. CASE MapTested(s)
      <4>1. PICK passed \in BOOLEAN :
              mapPage' = [mapPage EXCEPT !.testing = FALSE, !.error = @ \/ ~passed,
                                         !.notice = IF passed THEN "done" ELSE @]
        BY <3>1 DEF MapTested
      <4> DEFINE a == mapPage.error \/ ~passed
                 n == IF passed THEN "done" ELSE mapPage.notice
      <4>2. a \in BOOLEAN /\ n \in {"", "done"}
        BY <3>0
      <4>3. mapPage' = [mapPage EXCEPT !.testing = FALSE, !.error = a, !.notice = n]
        BY <4>1
      <4> HIDE DEF a, n
      <4>4. mapPage' = [mapPage EXCEPT !.error = a, !.saving = mapPage.saving, !.testing = FALSE, !.notice = n]
        BY <1>0, <4>3 DEF MapViews
      <4> QED BY <3>0, <4>2, <4>4
    <3>2. CASE MapActFails(s)
      <4> DEFINE b == mapPage.saving /\ mapCalls[s].op \notin {"save", "remove"}
                 c == mapPage.testing /\ mapCalls[s].op \notin {"catalog", "test"}
      <4>1. b \in BOOLEAN /\ c \in BOOLEAN
        OBVIOUS
      <4>2. mapPage' = [mapPage EXCEPT !.error = TRUE, !.saving = b, !.testing = c]
        BY <3>2 DEF MapActFails
      <4> HIDE DEF b, c
      <4>3. mapPage' = [mapPage EXCEPT !.error = TRUE, !.saving = b, !.testing = c, !.notice = mapPage.notice]
        BY <1>0, <4>2 DEF MapViews
      <4> QED BY <3>0, <4>1, <4>3
    <3> QED BY <1>13, <3>1, <3>2
  <2>2. mapPage' \in MapViews /\ SameEditor(mapPage')
    BY <1>0, <2>1 DEF MapViews, SameEditor
  <2> QED BY <1>0, <1>13, <1>a, <1>b, <2>2, MapEnds DEF MapTested, MapActFails, MappingTyped
<1> QED BY <1>1, <1>2, <1>3, <1>4, <1>5, <1>6, <1>7, <1>8, <1>9, <1>10, <1>11, <1>12, <1>13
    DEF MappingNext

LEMMA MappingTypedInit == ASSUME MappingInit(Spans) PROVE MappingTyped
<1>1. mapPage \in MapViews /\ mapPage.open = FALSE
  BY DEF MappingInit, MapViews, MappingEditors, ListenIPs, Maybe
<1>2. mapCalls \in [Slots -> MapCallSet]
  BY DEF MappingInit, NoCalls, MapCallSet
<1> QED BY <1>1, <1>2 DEF MappingInit, MappingTyped

LEMMA MappingTypesHold == MappingTyped => MappingTypeOK
<1> SUFFICES ASSUME MappingTyped PROVE MappingTypeOK
  OBVIOUS
<1>1. mapCalls \in [Slots -> {Idle} \cup MapShapes]
  BY DEF MappingTyped, MapCallSet, MapHandlers
<1> QED BY <1>1 DEF MappingTyped, MappingTypeOK, MapShapes, MapOps, MapViews, MapActs, MapRowGets, MapSpanGets

-----------------------------------------------------------------------------
(* The resources page.  An open editor has a target; its code is there or  *)
(* is generated when it is sent.                                           *)

ResActs == Requests(Maybe(LocalResourceSavePayload), {}, {Nothing})

ResGets == Requests({Nothing}, {}, SUBSET ResourceStores)

ResOps == {"load", "save", "remove", "push"}

ResShapes == [op : ResOps, act : ResActs, get : ResGets]

ResHandlers ==
  {c \in ResShapes : c.act.at = "sent" /\ c.op \in {"save", "remove"}
                       => c.act.with \in LocalResourceSavePayload}

ResCallSet == {Idle} \cup ResHandlers

ResEditors == [code : Maybe(Codes), url : Maybe(Urls)]

ResViews ==
  [rows : SUBSET ResourceStores, loading : BOOLEAN, saving : BOOLEAN, syncing : BOOLEAN,
   error : BOOLEAN, notice : {"", "pushed"}, open : BOOLEAN, id : Maybe(Codes),
   editor : ResEditors]

ResourceTyped ==
  /\ resources \subseteq ResourceStores
  /\ resPage \in ResViews
  /\ resPage.open => resPage.editor.url \in Urls
  /\ resCalls \in [Slots -> ResCallSet]

LEMMA ResHandlerKnown == ASSUME NEW c \in ResCallSet, c # Idle PROVE c \in ResHandlers
BY DEF ResCallSet

LEMMA ResHandlerGoesOn ==
  ASSUME NEW c \in ResHandlers, NEW r
  PROVE  /\ r \in ResActs /\ r.at # "sent" => [c EXCEPT !.act = r] \in ResCallSet
         /\ r \in ResGets => [c EXCEPT !.get = r] \in ResCallSet
BY DEF ResHandlers, ResShapes, ResCallSet

LEMMA ResHandlerServes ==
  ASSUME NEW c \in ResHandlers
  PROVE  /\ c.act.at = "sent" /\ c.op \in {"save", "remove"} => c.act.with \in LocalResourceSavePayload
         /\ c.get.at = "served" => c.get.with \in SUBSET ResourceStores
<1>1. c.get \in ResGets
  BY DEF ResHandlers, ResShapes
<1>2. c.get.at = "served" => c.get.with \in SUBSET ResourceStores
  BY <1>1, RequestCarries DEF ResGets
<1> QED BY <1>2 DEF ResHandlers

LEMMA ResRequestsMade ==
  /\ Unsent \in ResActs /\ Served(Nothing) \in ResActs /\ Sent(Nothing) \in ResActs
  /\ \A x \in LocalResourceSavePayload : Sent(x) \in ResActs
  /\ Unsent \in ResGets /\ Sent(Nothing) \in ResGets
  /\ \A x \in SUBSET ResourceStores : Served(x) \in ResGets
<1>1. /\ Unsent \in ResActs /\ Served(Nothing) \in ResActs
      /\ \A x \in Maybe(LocalResourceSavePayload) : Sent(x) \in ResActs
  BY RequestMade DEF ResActs
<1>2. /\ Unsent \in ResGets /\ Sent(Nothing) \in ResGets
      /\ \A x \in SUBSET ResourceStores : Served(x) \in ResGets
  BY RequestMade DEF ResGets
<1> QED BY <1>1, <1>2 DEF Maybe

LEMMA ResBegun ==
  ASSUME NEW op \in ResOps, NEW act \in ResActs, NEW get \in ResGets,
         act.at = "sent" /\ op \in {"save", "remove"} => act.with \in LocalResourceSavePayload
  PROVE  ResCall(op, act, get) \in ResCallSet
<1>1. ResCall(op, act, get) \in ResShapes
  BY DEF ResCall, ResShapes
<1> QED BY <1>1 DEF ResCall, ResHandlers, ResCallSet

LEMMA ResSlot ==
  ASSUME ResourceTyped, NEW s \in Slots
  PROVE  /\ resCalls[s] \in ResCallSet /\ Idle \in ResCallSet
         /\ \A c \in ResCallSet : [resCalls EXCEPT ![s] = c] \in [Slots -> ResCallSet]
BY DEF ResourceTyped, ResCallSet

LEMMA ResStarts ==
  ASSUME ResourceTyped, NEW c \in ResCallSet, ResBegin(c) PROVE resCalls' \in [Slots -> ResCallSet]
BY DEF ResourceTyped, Put, Free, ResBegin

LEMMA ResEnds ==
  ASSUME ResourceTyped, NEW s \in Slots, resCalls' = Put(resCalls, s, Idle)
  PROVE  resCalls' \in [Slots -> ResCallSet]
BY ResSlot DEF Put

\* A page whose editor is as it was, or shut.
SameForm(page) == page.editor = resPage.editor /\ (page.open => resPage.open)

LEMMA ResFlagsTyped ==
  ASSUME ResourceTyped, NEW op, NEW notice \in {"", "pushed"}
  PROVE  /\ ResFlagsDown(op) \in ResViews /\ SameForm(ResFlagsDown(op))
         /\ ResLoading(notice) \in ResViews /\ SameForm(ResLoading(notice))
<1>1. resPage \in ResViews
  BY DEF ResourceTyped
<1>2. PICK a \in BOOLEAN, b \in BOOLEAN :
        ResFlagsDown(op) = [resPage EXCEPT !.loading = FALSE, !.saving = a, !.syncing = b]
  <2> DEFINE a == resPage.saving /\ op # "save"
             b == resPage.syncing /\ op # "push"
  <2>1. a \in BOOLEAN /\ b \in BOOLEAN
    OBVIOUS
  <2>2. ResFlagsDown(op) = [resPage EXCEPT !.loading = FALSE, !.saving = a, !.syncing = b]
    BY DEF ResFlagsDown
  <2> HIDE DEF a, b
  <2> QED BY <2>1, <2>2
<1>3. ResFlagsDown(op) \in ResViews /\ SameForm(ResFlagsDown(op))
  BY <1>1, <1>2 DEF ResViews, SameForm
<1>4. ResLoading(notice) \in ResViews /\ SameForm(ResLoading(notice))
  BY <1>1 DEF ResLoading, ResViews, SameForm
<1> QED BY <1>3, <1>4

LEMMA ResStored ==
  ASSUME ResourceTyped, NEW item \in ResourceStores, NEW code,
         \/ CreateLocalResource(item) \/ UpdateLocalResource(code, item) \/ DeleteLocalResource(code)
  PROVE  resources' \subseteq ResourceStores
BY DEF ResourceTyped, CreateLocalResource, UpdateLocalResource, DeleteLocalResource

LEMMA ResourceTypedStep ==
  ResourceTyped /\ ClicksTyped /\ ResourceNext => ResourceTyped' /\ ClicksTyped'
<1> SUFFICES ASSUME ResourceTyped, ClicksTyped, ResourceNext PROVE ResourceTyped' /\ ClicksTyped'
  OBVIOUS
<1>0. /\ resources \subseteq ResourceStores /\ resPage \in ResViews
      /\ (resPage.open => resPage.editor.url \in Urls)
      /\ resCalls \in [Slots -> ResCallSet]
      /\ \A s \in Slots : resCalls[s] \in ResCallSet
  BY DEF ResourceTyped
<1>a. clicks' = clicks \/ Click => ClicksTyped'
  BY ClickTyped DEF ClicksTyped
<1>b. ASSUME resPage' \in ResViews, SameForm(resPage')
      PROVE  resPage'.open => resPage'.editor.url \in Urls
  BY <1>0, <1>b DEF SameForm
<1>1. CASE ResLoad
  <2>1. ResCall("load", Unsent, Sent(Nothing)) \in ResCallSet
    BY ResBegun, ResRequestsMade DEF ResOps
  <2>2. resCalls' \in [Slots -> ResCallSet]
    BY <1>1, <2>1, ResStarts DEF ResLoad
  <2>3. resPage' \in ResViews /\ SameForm(resPage')
    BY <1>1, ResFlagsTyped DEF ResLoad
  <2> QED BY <1>0, <1>1, <1>a, <1>b, <2>2, <2>3 DEF ResLoad, ResourceTyped
<1>2. CASE openCreate \/ openEditResource \/ ResType
  <2>1. PICK open \in BOOLEAN, id \in Maybe(Codes), editor \in ResEditors :
          /\ resPage' = [resPage EXCEPT !.open = open, !.id = id, !.editor = editor]
          /\ editor.url \in Urls
    <3>1. CASE openCreate
      <4>1. PICK url \in Urls :
              resPage' = [resPage EXCEPT !.open = TRUE, !.id = Nothing, !.editor = EmptyEditor(url)]
        BY <3>1 DEF openCreate
      <4>2. EmptyEditor(url) \in ResEditors /\ EmptyEditor(url).url \in Urls /\ Nothing \in Maybe(Codes)
        BY DEF EmptyEditor, ResEditors, Maybe
      <4> QED BY <4>1, <4>2
    <3>2. CASE openEditResource
      <4>1. PICK row \in resPage.rows :
              resPage' = [resPage EXCEPT !.open = TRUE, !.id = row.code, !.editor = row]
        BY <3>2 DEF openEditResource
      <4>2. row \in ResourceStores
        BY <1>0, <4>1 DEF ResViews
      <4>3. row \in ResEditors /\ row.url \in Urls /\ row.code \in Maybe(Codes)
        BY <4>2 DEF ResourceStores, ResEditors, Maybe
      <4> QED BY <4>1, <4>3
    <3>3. CASE ResType
      <4>1. PICK code \in Codes, url \in Urls :
              resPage' = [resPage EXCEPT !.editor = [code |-> code, url |-> url]]
        BY <3>3 DEF ResType
      <4>2. [code |-> code, url |-> url] \in ResEditors
        BY DEF ResEditors, Maybe
      <4>3. resPage' = [resPage EXCEPT !.open = resPage.open, !.id = resPage.id,
                                       !.editor = [code |-> code, url |-> url]]
            /\ resPage.open \in BOOLEAN /\ resPage.id \in Maybe(Codes)
        BY <1>0, <4>1 DEF ResViews
      <4> QED BY <4>2, <4>3
    <3> QED BY <1>2, <3>1, <3>2, <3>3
  <2>2. resPage' \in ResViews /\ resPage'.editor.url \in Urls
    BY <1>0, <2>1 DEF ResViews
  <2> QED BY <1>0, <1>2, <1>a, <2>2 DEF openCreate, openEditResource, ResType, ResourceTyped
<1>3. CASE ResCancel
  <2>1. resPage' \in ResViews /\ SameForm(resPage')
    BY <1>0, <1>3 DEF ResCancel, ResViews, SameForm
  <2> QED BY <1>0, <1>3, <1>a, <1>b, <2>1 DEF ResCancel, ResourceTyped
<1>4. CASE saveResource
  <2>1. PICK code \in IF resPage.editor.code = Nothing THEN Codes ELSE {resPage.editor.code} :
          LET item == [resPage.editor EXCEPT !.code = code] IN
          \/ /\ resPage' = [resPage EXCEPT !.editor = item, !.error = TRUE]
             /\ resCalls' = resCalls
          \/ /\ resPage' = [resPage EXCEPT !.editor = item, !.saving = TRUE, !.error = FALSE]
             /\ ResBegin(ResCall("save", Sent([id |-> resPage.id, item |-> item]), Unsent))
    BY <1>4, Zenon DEF saveResource
  <2> DEFINE item == [resPage.editor EXCEPT !.code = code]
             body == [id |-> resPage.id, item |-> item]
  <2>2. resPage.editor \in ResEditors /\ resPage.editor.url \in Urls /\ resPage.id \in Maybe(Codes)
    BY <1>0, <1>4 DEF saveResource, ResViews
  <2>3. code \in Codes
    BY <2>1, <2>2 DEF ResEditors, Maybe
  <2>4. item \in ResourceStores
    BY <2>2, <2>3 DEF ResourceStores, ResEditors
  <2> HIDE DEF item
  <2>5. item \in ResEditors /\ item.url \in Urls
    BY <2>4 DEF ResourceStores, ResEditors, Maybe
  <2>6. body \in LocalResourceSavePayload
    BY <2>2, <2>4 DEF LocalResourceSavePayload
  <2> HIDE DEF body
  <2>7. Sent(body) \in ResActs /\ Sent(body).with = body
    BY <2>6, ResRequestsMade DEF Sent
  <2>8. ResCall("save", Sent(body), Unsent) \in ResCallSet
    BY <2>6, <2>7, ResBegun, ResRequestsMade DEF ResOps
  <2>9. resCalls' = resCalls \/ ResBegin(ResCall("save", Sent(body), Unsent))
    BY <2>1 DEF body, item
  <2>10. \/ resPage' = [resPage EXCEPT !.editor = item, !.error = TRUE]
         \/ resPage' = [resPage EXCEPT !.editor = item, !.saving = TRUE, !.error = FALSE]
    BY <2>1 DEF item
  <2>11. resPage' \in ResViews /\ resPage'.editor.url \in Urls
    BY <1>0, <2>5, <2>10 DEF ResViews
  <2>12. resCalls' \in [Slots -> ResCallSet]
    BY <1>0, <2>8, <2>9, ResStarts
  <2> QED BY <1>0, <1>4, <1>a, <2>11, <2>12 DEF saveResource, ResourceTyped
<1>5. CASE removeResource
  <2>1. PICK row \in resPage.rows :
          ResBegin(ResCall("remove", Sent([id |-> row.code, item |-> row]), Unsent))
    BY <1>5 DEF removeResource
  <2> DEFINE body == [id |-> row.code, item |-> row]
  <2>2. row \in ResourceStores
    BY <1>0, <2>1 DEF ResViews
  <2>3. body \in LocalResourceSavePayload
    BY <2>2 DEF LocalResourceSavePayload, ResourceStores, Maybe
  <2> HIDE DEF body
  <2>4. Sent(body) \in ResActs /\ Sent(body).with = body
    BY <2>3, ResRequestsMade DEF Sent
  <2>5. ResCall("remove", Sent(body), Unsent) \in ResCallSet
    BY <2>3, <2>4, ResBegun, ResRequestsMade DEF ResOps
  <2>6. resCalls' \in [Slots -> ResCallSet]
    BY <2>1, <2>5, ResStarts DEF body
  <2> QED BY <1>0, <1>5, <1>a, <2>6 DEF removeResource, ResourceTyped
<1>6. CASE pushLocalCatalog
  <2>1. ResCall("push", Sent(Nothing), Unsent) \in ResCallSet
    BY ResBegun, ResRequestsMade DEF ResOps
  <2>2. resCalls' \in [Slots -> ResCallSet]
    BY <1>6, <2>1, ResStarts DEF pushLocalCatalog
  <2>3. resPage' \in ResViews /\ SameForm(resPage')
    BY <1>0, <1>6 DEF pushLocalCatalog, ResViews, SameForm
  <2> QED BY <1>0, <1>6, <1>a, <1>b, <2>2, <2>3 DEF pushLocalCatalog, ResourceTyped
<1>7. CASE OtherBrowserSavesResource
  <2>1. PICK code \in Codes, was \in Codes, url \in Urls :
          LET item == [code |-> code, url |-> url] IN
          CreateLocalResource(item) \/ UpdateLocalResource(was, item) \/ DeleteLocalResource(was)
    BY <1>7 DEF OtherBrowserSavesResource
  <2>2. [code |-> code, url |-> url] \in ResourceStores
    BY DEF ResourceStores
  <2>3. resources' \subseteq ResourceStores
    BY <2>1, <2>2, ResStored
  <2> QED BY <1>0, <1>7, <1>a, <2>3 DEF OtherBrowserSavesResource, ResourceTyped
<1>8. ASSUME NEW s \in Slots, ResLoaded(s) \/ ResLoadFails(s) PROVE ResourceTyped' /\ ClicksTyped'
  <2> DEFINE down == ResFlagsDown(resCalls[s].op)
  <2>1. resCalls[s] \in ResHandlers
    BY <1>0, <1>8, ResHandlerKnown DEF ResLoaded, ResLoadFails
  <2>2. down \in ResViews /\ SameForm(down)
    BY ResFlagsTyped
  <2>3. \/ resPage' = [down EXCEPT !.error = TRUE]
        \/ resPage' = [down EXCEPT !.rows = resCalls[s].get.with] /\ resCalls[s].get.at = "served"
    BY <1>8 DEF ResLoaded, ResLoadFails
  <2> HIDE DEF down
  <2>4. resPage' \in ResViews /\ SameForm(resPage')
    BY <2>1, <2>2, <2>3, ResHandlerServes DEF ResViews, SameForm
  <2> QED BY <1>0, <1>8, <1>a, <1>b, <2>4, ResEnds DEF ResLoaded, ResLoadFails, ResourceTyped
<1>9. ASSUME NEW s \in Slots, ResServe(s) PROVE ResourceTyped' /\ ClicksTyped'
  <2>1. resCalls[s] \in ResHandlers
    BY <1>0, <1>9, ResHandlerKnown DEF ResServe
  <2>2. Served(resources) \in ResGets
    BY <1>0, ResRequestsMade
  <2>3. resCalls' \in [Slots -> ResCallSet]
    BY <1>9, <2>1, <2>2, ResHandlerGoesOn, ResSlot DEF ResServe
  <2> QED BY <1>0, <1>9, <1>a, <2>3 DEF ResServe, ResourceTyped
<1>10. ASSUME NEW s \in Slots, ResServeAct(s) PROVE ResourceTyped' /\ ClicksTyped'
  <2> DEFINE call == resCalls[s]
  <2>1. call \in ResHandlers /\ call.act.at = "sent"
    BY <1>0, <1>10, ResHandlerKnown DEF ResServeAct
  <2>2. /\ \/ /\ call.op = "save"
              /\ \/ CreateLocalResource(call.act.with.item)
                 \/ UpdateLocalResource(call.act.with.id, call.act.with.item)
           \/ call.op = "remove" /\ DeleteLocalResource(call.act.with.id)
           \/ resources' = resources
        /\ resCalls' = [resCalls EXCEPT ![s] = [call EXCEPT !.act = Served(Nothing)]]
    BY <1>10 DEF ResServeAct
  <2> HIDE DEF call
  <2>3. call.op \in {"save", "remove"} => call.act.with.item \in ResourceStores
    BY <2>1, ResHandlerServes DEF LocalResourceSavePayload
  <2>4. resources' \subseteq ResourceStores
    BY <1>0, <2>2, <2>3, ResStored
  <2>5. Served(Nothing) \in ResActs /\ Served(Nothing).at # "sent"
    BY ResRequestsMade DEF Served
  <2>6. resCalls' \in [Slots -> ResCallSet]
    BY <2>1, <2>2, <2>5, ResHandlerGoesOn, ResSlot
  <2> QED BY <1>0, <1>10, <1>a, <2>4, <2>6 DEF ResServeAct, ResourceTyped
<1>11. ASSUME NEW s \in Slots, ResActed(s) PROVE ResourceTyped' /\ ClicksTyped'
  <2>1. resCalls[s] \in ResHandlers
    BY <1>0, <1>11, ResHandlerKnown DEF ResActed
  <2>2. PICK notice \in {"", "pushed"}, open \in BOOLEAN :
          resPage' = [ResLoading(notice) EXCEPT !.open = open] /\ (open => ResLoading(notice).open)
    <3> DEFINE notice == IF resCalls[s].op = "push" THEN "pushed" ELSE ""
               open == ResLoading(notice).open /\ resCalls[s].op # "save"
    <3>1. notice \in {"", "pushed"} /\ open \in BOOLEAN /\ (open => ResLoading(notice).open)
      OBVIOUS
    <3>2. resPage' = [ResLoading(notice) EXCEPT !.open = open]
      BY <1>11 DEF ResActed
    <3> HIDE DEF notice, open
    <3> QED BY <3>1, <3>2
  <2>3. ResLoading(notice) \in ResViews /\ SameForm(ResLoading(notice))
    BY ResFlagsTyped
  <2>4. resPage' \in ResViews /\ SameForm(resPage')
    BY <2>2, <2>3 DEF ResViews, SameForm
  <2>5. [resCalls[s] EXCEPT !.get = Sent(Nothing)] \in ResCallSet
    BY <2>1, ResHandlerGoesOn, ResRequestsMade
  <2>6. resCalls' \in [Slots -> ResCallSet]
    BY <1>11, <2>5, ResSlot DEF ResActed
  <2> QED BY <1>0, <1>11, <1>a, <1>b, <2>4, <2>6 DEF ResActed, ResourceTyped
<1>12. ASSUME NEW s \in Slots, ResActFails(s) PROVE ResourceTyped' /\ ClicksTyped'
  <2> DEFINE a == resPage.saving /\ resCalls[s].op # "save"
             b == resPage.syncing /\ resCalls[s].op # "push"
  <2>1. a \in BOOLEAN /\ b \in BOOLEAN
    OBVIOUS
  <2>2. resPage' = [resPage EXCEPT !.error = TRUE, !.saving = a, !.syncing = b]
    BY <1>12 DEF ResActFails
  <2> HIDE DEF a, b
  <2>3. resPage' \in ResViews /\ SameForm(resPage')
    BY <1>0, <2>1, <2>2 DEF ResViews, SameForm
  <2> QED BY <1>0, <1>12, <1>a, <1>b, <2>3, ResEnds DEF ResActFails, ResourceTyped
<1> QED BY <1>1, <1>2, <1>3, <1>4, <1>5, <1>6, <1>7, <1>8, <1>9, <1>10, <1>11, <1>12
    DEF ResourceNext

LEMMA ResourceTypedInit == ASSUME ResourceInit(ResourceStores) PROVE ResourceTyped
<1>1. resPage \in ResViews /\ resPage.open = FALSE
  BY DEF ResourceInit, ResViews, ResEditors, Maybe
<1>2. resCalls \in [Slots -> ResCallSet]
  BY DEF ResourceInit, NoCalls, ResCallSet
<1>3. resources \subseteq ResourceStores
  BY DEF ResourceInit
<1> QED BY <1>1, <1>2, <1>3 DEF ResourceTyped

LEMMA ResourceTypesHold == ResourceTyped => ResourceTypeOK
<1> SUFFICES ASSUME ResourceTyped PROVE ResourceTypeOK
  OBVIOUS
<1>1. resCalls \in [Slots -> {Idle} \cup ResShapes]
  BY DEF ResourceTyped, ResCallSet, ResHandlers
<1> QED BY <1>1 DEF ResourceTyped, ResourceTypeOK, ResShapes, ResOps, ResViews, ResEditors, ResActs, ResGets

-----------------------------------------------------------------------------
(* Lists.  What a filter leaves of a list is such a list.  A query of a    *)
(* pager has a page size that the pager offers, and so has its answer.     *)

LEMMA FilteredPass ==
  ASSUME NEW list, Len(list) \in Nat, NEW wanted
  PROVE  \E g : Passes("wanted", wanted, g, list) /\ Filtered(list, wanted) = g[Len(list)]
<1> DEFINE L == Len(list)
           Body(g, n) == IF n = 0 THEN <<>> ELSE AddWanted(g[n - 1], list[n], wanted)
           w == CHOOSE g : g = [n \in 0 .. L |-> Body(g, n)]
<1>1. PICK g : Solves("wanted", wanted, g, list)
  BY PassExists
<1>2. g = [n \in 0 .. L |-> Body(g, n)]
  BY <1>1 DEF Solves, Step
<1>3. w = [n \in 0 .. L |-> Body(w, n)]
  BY <1>2
<1>4. Filtered(list, wanted) = w[L]
  BY DEF Filtered
<1> HIDE DEF w
<1>5. w[0] = <<>> /\ \A n \in 1 .. L : w[n] = AddWanted(w[n - 1], list[n], wanted)
  BY <1>3
<1> QED BY <1>4, <1>5 DEF Passes, Step

LEMMA FilteredTyped ==
  ASSUME NEW S, NEW list \in Seq(S), NEW wanted PROVE Filtered(list, wanted) \in Seq(S)
<1> DEFINE L == Len(list)
<1>1. L \in Nat
  OBVIOUS
<1>2. PICK g : Passes("wanted", wanted, g, list) /\ Filtered(list, wanted) = g[L]
  BY <1>1, FilteredPass
<1>3. g[0] = <<>> /\ \A n \in 1 .. L : g[n] = AddWanted(g[n - 1], list[n], wanted)
  BY <1>2 DEF Passes, Step
<1> DEFINE T == {n \in 0 .. L : g[n] \in Seq(S)}
<1>4. 0 \in T
  <2>1. <<>> \in Seq(S)
    OBVIOUS
  <2>2. g[0] \in Seq(S)
    BY <1>3, <2>1, Zenon
  <2> QED BY <1>1, <2>2
<1>5. ASSUME NEW n \in 1 .. L, n - 1 \in T PROVE n \in T
  <2>1. g[n - 1] \in Seq(S) /\ list[n] \in S
    BY <1>5
  <2>2. Append(g[n - 1], list[n]) \in Seq(S)
    BY <2>1
  <2>3. g[n] = AddWanted(g[n - 1], list[n], wanted)
    BY <1>3
  <2>4. g[n] = g[n - 1] \/ g[n] = Append(g[n - 1], list[n])
    BY <2>3, Zenon DEF AddWanted
  <2>5. g[n] \in Seq(S)
    BY <2>1, <2>2, <2>4, Zenon
  <2> QED BY <2>5
<1>6. L \in T
  <2> HIDE DEF T, L
  <2>1. \A n \in 0 .. L : n \in T
    BY <1>1, <1>4, <1>5, AllUpTo
  <2> QED BY <1>1, <2>1
<1> QED BY <1>2, <1>6

LEMMA CutTyped ==
  ASSUME NEW S, NEW list \in Seq(S), NEW start \in Nat, NEW end \in Nat, end <= Len(list)
  PROVE  SubSeq(list, start + 1, end) \in Seq(S)
OBVIOUS

LEMMA PaginateTyped ==
  ASSUME NEW S, NEW list \in Seq(S), NEW page \in Nat \ {0}, NEW size \in Nat
  PROVE  paginate(list, page, size) \in [list : Seq(S), total : Nat]
<1> DEFINE start == (page - 1) * size
           end == IF start + size > Len(list) THEN Len(list) ELSE start + size
<1>1. \A a, b \in Nat : a * b \in Nat
  OBVIOUS
<1>2. page - 1 \in Nat /\ Len(list) \in Nat
  OBVIOUS
<1>3. start \in Nat
  BY <1>1, <1>2
<1> HIDE DEF start
<1>4. end \in Nat /\ end <= Len(list)
  BY <1>2, <1>3
<1> HIDE DEF end
<1>5. SubSeq(list, start + 1, end) \in Seq(S)
  BY <1>3, <1>4, CutTyped
<1> QED BY <1>2, <1>5 DEF paginate, start, end

Windows == Maybe({"hour", "day"})

ListAsks(kind) ==
  {q \in ListQueries : q.page \in Nat \ {0} /\ (kind \in Pagers => q.size \in PageSizes)}

ListReplies(kind) == {a \in ListAnswers : a.of \in ListAsks(kind)}

ListGets(kind) == Requests(ListAsks(kind), {}, ListReplies(kind))

ListHandlers(kind) == [op : {"load"}, get : ListGets(kind)]

ListCallSet(kind) == {Idle} \cup ListHandlers(kind)

ListViews ==
  [kind : Kinds, mounted : BOOLEAN, loading : BOOLEAN, error : BOOLEAN, edited : BOOLEAN,
   filter : Maybe(Statuses), range : Windows, picker : Windows, shown : Maybe(ListAnswers),
   current : Nat \ {0}, total : Nat, size : PageSizes]

ListTyped ==
  /\ stored \in 1 .. Len(Entries) /\ mock \in BOOLEAN
  /\ listPage \in ListViews
  /\ listCalls \in [Slots -> ListCallSet(listPage.kind)]

LEMMA AnswerTyped ==
  ASSUME NEW kind, NEW ask \in ListAsks(kind), NEW filter \in Maybe(Statuses),
         NEW n \in 1 .. Len(Entries)
  PROVE  Answer(ask, filter, n) \in ListReplies(kind)
<1> DEFINE of == [ask EXCEPT !.filter = filter]
           all == filterByCommon(SubSeq(Entries, 1, n), filter)
           cut == paginate(all, ask.page, ask.size)
<1>1. ask \in ListQueries /\ ask.page \in Nat \ {0} /\ ask.size \in Nat
  BY DEF ListAsks, ListQueries
<1>2. of \in ListQueries /\ of.page = ask.page /\ of.size = ask.size
  BY <1>1 DEF ListQueries
<1>3. of \in ListAsks(kind)
  BY <1>2 DEF ListAsks
<1>4. SubSeq(Entries, 1, n) \in Seq(Statuses)
  <2>1. 0 \in Nat /\ n \in Nat /\ n <= Len(Entries) /\ 0 + 1 = 1
    BY ListAssumption
  <2>2. Entries \in Seq(Statuses)
    BY ListAssumption
  <2>3. SubSeq(Entries, 0 + 1, n) \in Seq(Statuses)
    BY <2>1, <2>2, CutTyped
  <2> QED BY <2>1, <2>3
<1>5. all \in Seq(Statuses)
  BY <1>4, FilteredTyped DEF filterByCommon
<1> HIDE DEF all
<1>6. cut \in [list : Seq(Statuses), total : Nat]
  BY <1>1, <1>5, PaginateTyped
<1> HIDE DEF of, cut
<1>7. Answer(ask, filter, n) = [of |-> of, n |-> n, page |-> cut]
  BY DEF Answer, of, all, cut
<1> HIDE DEF Answer
<1>8. Answer(ask, filter, n) \in ListAnswers /\ Answer(ask, filter, n).of = of
  BY <1>2, <1>6, <1>7 DEF ListAnswers
<1> QED BY <1>3, <1>8 DEF ListReplies

LEMMA AskTyped ==
  ASSUME NEW kind, NEW filter \in Maybe(Statuses), NEW range \in Windows, NEW page \in Nat \ {0},
         NEW size \in Nat, kind \in Pagers => size \in PageSizes
  PROVE  Ask(filter, range, page, size) \in ListAsks(kind)
<1>1. Ask(filter, range, page, size) \in ListQueries
  BY DEF Ask, ListQueries, Windows
<1> QED BY <1>1 DEF Ask, ListAsks

LEMMA ListRequestsMade ==
  ASSUME NEW kind
  PROVE  /\ \A ask \in ListAsks(kind) : [op |-> "load", get |-> Sent(ask)] \in ListCallSet(kind)
         /\ \A c \in ListHandlers(kind), a \in ListReplies(kind) :
              [c EXCEPT !.get = Served(a)] \in ListCallSet(kind)
         /\ \A c \in ListCallSet(kind) : c.op = "load" => c \in ListHandlers(kind)
         /\ \A c \in ListHandlers(kind) :
              /\ c.get.at = "sent" => c.get.with \in ListAsks(kind)
              /\ c.get.at = "served" => c.get.with \in ListReplies(kind)
<1>1. /\ \A x \in ListAsks(kind) : Sent(x) \in ListGets(kind)
      /\ \A x \in ListReplies(kind) : Served(x) \in ListGets(kind)
  BY RequestMade DEF ListGets
<1>2. \A r \in ListGets(kind) : /\ r.at = "sent" => r.with \in ListAsks(kind)
                                /\ r.at = "served" => r.with \in ListReplies(kind)
  BY RequestCarries DEF ListGets
<1>3. \A c \in ListHandlers(kind) : c.get \in ListGets(kind)
  BY DEF ListHandlers
<1>4. \A r \in ListGets(kind) : [op |-> "load", get |-> r] \in ListCallSet(kind)
  BY DEF ListHandlers, ListCallSet
<1>5. \A c \in ListHandlers(kind), r \in ListGets(kind) : [c EXCEPT !.get = r] \in ListCallSet(kind)
  BY DEF ListHandlers, ListCallSet
<1>6. \A c \in ListCallSet(kind) : c.op = "load" => c \in ListHandlers(kind)
  BY DEF ListCallSet, Idle
<1> HIDE DEF ListHandlers, ListCallSet
<1> QED BY <1>1, <1>2, <1>3, <1>4, <1>5, <1>6

LEMMA ListSends ==
  ASSUME ListTyped, NEW ask \in ListAsks(listPage.kind), ListAsk(ask),
         listPage' \in ListViews, listPage'.kind = listPage.kind
  PROVE  ListTyped'
<1>1. [op |-> "load", get |-> Sent(ask)] \in ListCallSet(listPage.kind)
  BY ListRequestsMade
<1>2. listCalls' \in [Slots -> ListCallSet(listPage.kind)]
  BY <1>1 DEF ListTyped, ListAsk, Put, Free
<1>3. listCalls' \in [Slots -> ListCallSet(listPage'.kind)]
  BY <1>2
<1> QED BY <1>3 DEF ListTyped, ListAsk

LEMMA ListStays ==
  ASSUME ListTyped, listCalls' \in [Slots -> ListCallSet(listPage.kind)],
         stored' \in 1 .. Len(Entries), mock' = mock,
         listPage' \in ListViews, listPage'.kind = listPage.kind
  PROVE  ListTyped'
<1>1. listCalls' \in [Slots -> ListCallSet(listPage'.kind)]
  OBVIOUS
<1> QED BY <1>1 DEF ListTyped

LEMMA LoadPageTyped ==
  ASSUME ListTyped, ClicksTyped, NEW filter \in Maybe(Statuses), NEW page \in Nat \ {0},
         NEW size \in PageSizes, LoadPage(filter, page, size)
  PROVE  ListTyped' /\ ClicksTyped'
<1>1. size \in Nat /\ Nothing \in Windows
  BY ListAssumption DEF Windows, Maybe
<1>2. Ask(filter, Nothing, page, size) \in ListAsks(listPage.kind)
  BY <1>1, AskTyped
<1>3. listPage' \in ListViews /\ listPage'.kind = listPage.kind
  BY DEF LoadPage, ListTyped, ListViews
<1> QED BY <1>2, <1>3, ListSends, ClickTyped DEF LoadPage

LEMMA LoadRowsTyped ==
  ASSUME ListTyped, listPage.kind \notin Pagers, NEW filter \in Maybe(Statuses), LoadRows(filter)
  PROVE  ListTyped'
<1>1. 1 \in Nat \ {0} /\ 100 \in Nat
  OBVIOUS
<1>2. Nothing \in Windows
  BY DEF Windows, Maybe
<1>3. Ask(filter, Nothing, 1, 100) \in ListAsks(listPage.kind)
  BY <1>1, <1>2, AskTyped
<1>4. listPage' \in ListViews /\ listPage'.kind = listPage.kind
  BY DEF LoadRows, ListTyped, ListViews
<1> QED BY <1>3, <1>4, ListSends DEF LoadRows

LEMMA ListTypedStep == ListTyped /\ ClicksTyped /\ ListNext => ListTyped' /\ ClicksTyped'
<1> SUFFICES ASSUME ListTyped, ClicksTyped, ListNext PROVE ListTyped' /\ ClicksTyped'
  OBVIOUS
<1>0. /\ stored \in 1 .. Len(Entries) /\ mock \in BOOLEAN /\ listPage \in ListViews
      /\ listCalls \in [Slots -> ListCallSet(listPage.kind)]
      /\ \A s \in Slots : listCalls[s] \in ListCallSet(listPage.kind)
      /\ Idle \in ListCallSet(listPage.kind)
  BY DEF ListTyped, ListCallSet
<1>a. clicks' = clicks \/ Click => ClicksTyped'
  BY ClickTyped DEF ClicksTyped
<1>b. 1 \in Nat \ {0} /\ 100 \in Nat
  OBVIOUS
<1>c. /\ Nothing \in Windows /\ Nothing \in Maybe(Statuses) /\ "hour" \in Windows /\ "day" \in Windows
      /\ Statuses \subseteq Maybe(Statuses)
  BY DEF Windows, Maybe
<1>d. listPage.filter \in Maybe(Statuses) /\ listPage.range \in Windows /\ listPage.size \in PageSizes
  BY <1>0 DEF ListViews
<1>1. CASE AccessLoad \/ AccessReset \/ AccessMount
  <2>1. listPage.kind \notin Pagers
    BY <1>1 DEF AccessLoad, AccessReset, AccessMount, Pagers
  <2>2. PICK filter \in Maybe(Statuses), range \in Windows : ListAsk(Ask(filter, range, 1, 100))
    BY <1>1, <1>c, <1>d, Zenon DEF AccessLoad, AccessReset, AccessMount
  <2>3. Ask(filter, range, 1, 100) \in ListAsks(listPage.kind)
    BY <1>b, <2>1, AskTyped
  <2>4. listPage' \in ListViews /\ listPage'.kind = listPage.kind
    <3>1. LastHour \in ListViews /\ LastHour.kind = listPage.kind
      BY <1>0, <1>c DEF LastHour, ListViews
    <3>2. AccessLoad => listPage' \in ListViews /\ listPage'.kind = listPage.kind
      BY <1>0 DEF AccessLoad, ListViews
    <3> QED BY <1>1, <3>1, <3>2 DEF AccessReset, AccessMount
  <2>5. ClicksTyped'
    BY <1>1, <1>a DEF AccessLoad, AccessReset, AccessMount
  <2> QED BY <2>2, <2>3, <2>4, <2>5, ListSends
<1>2. CASE AccessPick
  <2>1. PICK range \in Windows : listPage' = [listPage EXCEPT !.picker = range, !.range = range, !.edited = TRUE]
    BY <1>2, <1>c DEF AccessPick
  <2>2. listPage' \in ListViews /\ listPage'.kind = listPage.kind
    BY <1>0, <2>1 DEF ListViews
  <2> QED BY <1>0, <1>2, <1>a, <2>2, ListStays DEF AccessPick
<1>3. CASE AuditsLoad \/ AuditsReset \/ EventsLoad
  <2>1. listPage.kind \notin Pagers
    BY <1>3 DEF AuditsLoad, AuditsReset, EventsLoad, Pagers
  <2>2. PICK filter \in Maybe(Statuses) : LoadRows(filter)
    BY <1>3, <1>c, <1>d, Zenon DEF AuditsLoad, AuditsReset, EventsLoad
  <2> QED BY <1>3, <1>a, <2>1, <2>2, LoadRowsTyped DEF AuditsLoad, AuditsReset, EventsLoad
<1>4. CASE CommandLoad \/ CommandReset \/ FileLoad \/ FileReset \/ AuditLogLoad
  <2>1. PICK filter \in Maybe(Statuses) : LoadPage(filter, 1, listPage.size)
    BY <1>4, <1>c, <1>d, Zenon DEF CommandLoad, CommandReset, FileLoad, FileReset, AuditLogLoad
  <2> QED BY <1>b, <1>d, <2>1, LoadPageTyped
<1>5. CASE CommandTurn \/ FileTurn \/ AuditLogTurn
  <2>1. PICK size \in PageSizes :
          \E page \in 1 .. (listPage.total + size - 1) \div size : LoadPage(listPage.filter, page, size)
    BY <1>5 DEF CommandTurn, FileTurn, AuditLogTurn, TurnPage
  <2>2. PICK page \in 1 .. (listPage.total + size - 1) \div size : LoadPage(listPage.filter, page, size)
    BY <2>1
  <2>3. page \in Nat \ {0}
    OBVIOUS
  <2> QED BY <1>d, <2>2, <2>3, LoadPageTyped
<1>6. CASE AccessFilter \/ AuditsFilter \/ CommandFilter \/ FileFilter \/ AuditLogFilter
  <2>1. TypeFilter
    BY <1>6 DEF AccessFilter, AuditsFilter, CommandFilter, FileFilter, AuditLogFilter
  <2>2. PICK filter \in Statuses : listPage' = [listPage EXCEPT !.filter = filter, !.edited = TRUE]
    BY <2>1 DEF TypeFilter
  <2>3. listPage' \in ListViews /\ listPage'.kind = listPage.kind
    BY <1>0, <1>c, <2>2 DEF ListViews
  <2> QED BY <1>0, <1>a, <2>1, <2>3, ListStays DEF TypeFilter
<1>7. CASE EntryArrives
  <2>1. stored' \in 1 .. Len(Entries)
    BY <1>0, <1>7, ListAssumption DEF EntryArrives
  <2> QED BY <1>0, <1>7, <1>a, <2>1, ListStays DEF EntryArrives
<1>8. ASSUME NEW s \in Slots, ListServe(s) PROVE ListTyped' /\ ClicksTyped'
  <2> DEFINE call == listCalls[s]
             filter == IF mock THEN listPage.filter ELSE call.get.with.filter
             reply == Answer(call.get.with, filter, stored)
  <2>1. call \in ListHandlers(listPage.kind) /\ call.get.at = "sent"
    BY <1>0, <1>8, ListRequestsMade DEF ListServe
  <2>2. call.get.with \in ListAsks(listPage.kind)
    BY <2>1, ListRequestsMade
  <2>3. call.get.with.filter \in Maybe(Statuses)
    BY <2>2 DEF ListAsks, ListQueries
  <2>4. filter \in Maybe(Statuses)
    BY <1>d, <2>3
  <2>5. listCalls' = [listCalls EXCEPT ![s] = [call EXCEPT !.get = Served(reply)]]
    BY <1>8 DEF ListServe
  <2> HIDE DEF filter
  <2>6. reply \in ListReplies(listPage.kind)
    BY <1>0, <2>2, <2>4, AnswerTyped
  <2> HIDE DEF reply, call
  <2>7. [call EXCEPT !.get = Served(reply)] \in ListCallSet(listPage.kind)
    BY <2>1, <2>6, ListRequestsMade
  <2>8. listCalls' \in [Slots -> ListCallSet(listPage.kind)]
    BY <1>0, <2>5, <2>7, SlotTyped
  <2> QED BY <1>0, <1>8, <1>a, <2>8, ListStays DEF ListServe
<1>9. ASSUME NEW s \in Slots, ListAnswered(s) \/ ListFails(s) PROVE ListTyped' /\ ClicksTyped'
  <2>1. listCalls' \in [Slots -> ListCallSet(listPage.kind)]
    BY <1>0, <1>9, SlotTyped DEF ListAnswered, ListFails, Put
  <2>2. listPage' \in ListViews /\ listPage'.kind = listPage.kind
    <3>1. CASE ListAnswered(s)
      <4> DEFINE got == listCalls[s].get.with
                 current == IF listPage.kind \in Pagers THEN got.of.page ELSE listPage.current
                 size == IF listPage.kind \in Pagers THEN got.of.size ELSE listPage.size
      <4>1. listCalls[s] \in ListHandlers(listPage.kind) /\ listCalls[s].get.at = "served"
        BY <1>0, <3>1, ListRequestsMade DEF ListAnswered
      <4>2. got \in ListReplies(listPage.kind)
        BY <4>1, ListRequestsMade
      <4>3. got \in ListAnswers /\ got.of \in ListAsks(listPage.kind)
        BY <4>2 DEF ListReplies
      <4>4. listPage' = [listPage EXCEPT !.shown = got, !.loading = FALSE, !.current = current,
                                         !.size = size, !.total = got.page.total]
        BY <3>1 DEF ListAnswered
      <4> HIDE DEF got
      <4>5. got.of.page \in Nat \ {0} /\ (listPage.kind \in Pagers => got.of.size \in PageSizes)
        BY <4>3 DEF ListAsks
      <4>6. got.page.total \in Nat /\ got \in Maybe(ListAnswers)
        BY <4>3 DEF ListAnswers, Maybe
      <4>7. current \in Nat \ {0} /\ size \in PageSizes
        BY <1>0, <4>5 DEF ListViews
      <4> HIDE DEF current, size
      <4> QED BY <1>0, <4>4, <4>6, <4>7 DEF ListViews
    <3>2. CASE ListFails(s)
      <4> DEFINE e == listPage.kind \notin Pagers
      <4>1. e \in BOOLEAN
        OBVIOUS
      <4>2. listPage' = [listPage EXCEPT !.loading = FALSE, !.error = e]
        BY <3>2 DEF ListFails
      <4> HIDE DEF e
      <4> QED BY <1>0, <4>1, <4>2 DEF ListViews
    <3> QED BY <1>9, <3>1, <3>2
  <2> QED BY <1>0, <1>9, <1>a, <2>1, <2>2, ListStays DEF ListAnswered, ListFails
<1> QED BY <1>1, <1>2, <1>3, <1>4, <1>5, <1>6, <1>7, <1>8, <1>9 DEF ListNext

LEMMA ListTypedInit == ASSUME ListInit(ListStores) PROVE ListTyped
<1>1. PICK x \in ListStores :
        /\ stored = x.n /\ mock = x.mock
        /\ listPage = [kind |-> x.kind, mounted |-> FALSE, loading |-> FALSE, error |-> FALSE,
                       filter |-> Nothing, range |-> Nothing, picker |-> Nothing, edited |-> FALSE,
                       shown |-> Nothing, current |-> 1, total |-> 0, size |-> x.size]
  BY DEF ListInit
<1>2. x.kind \in Kinds /\ x.size \in PageSizes /\ x.mock \in BOOLEAN /\ x.n \in 1 .. Len(Entries)
  BY DEF ListStores
<1>3. 1 \in Nat \ {0} /\ 0 \in Nat
  OBVIOUS
<1>4. /\ Nothing \in Maybe(Statuses) /\ Nothing \in Windows /\ Nothing \in Maybe(ListAnswers)
  BY DEF Maybe, Windows
<1>5. listPage \in ListViews
  BY <1>1, <1>2, <1>3, <1>4 DEF ListViews
<1>6. listCalls \in [Slots -> ListCallSet(listPage.kind)]
  BY DEF ListInit, NoCalls, ListCallSet
<1> QED BY <1>1, <1>2, <1>5, <1>6 DEF ListTyped

LEMMA ListTypesHold == ListTyped => ListTypeOK
<1> SUFFICES ASSUME ListTyped PROVE ListTypeOK
  OBVIOUS
<1> DEFINE kind == listPage.kind
           Wide == Requests(ListQueries, {}, ListAnswers)
<1>1. ListAsks(kind) \subseteq ListQueries /\ ListReplies(kind) \subseteq ListAnswers
  BY DEF ListAsks, ListReplies
<1>2. ListGets(kind) \subseteq Wide
  BY <1>1, RequestsWiden DEF ListGets
<1>3. listCalls \in [Slots -> ListCallSet(kind)]
  BY DEF ListTyped
<1> HIDE DEF kind, Wide
<1>4. ListCallSet(kind) \subseteq {Idle} \cup [op : {"load"}, get : Wide]
  BY <1>2 DEF ListCallSet, ListHandlers
<1>5. listCalls \in [Slots -> {Idle} \cup [op : {"load"}, get : Wide]]
  BY <1>3, <1>4
<1> QED BY <1>5 DEF ListTyped, ListTypeOK, ListViews, Windows, Wide

-----------------------------------------------------------------------------
(* Monitoring.  The licence page reads again only after the import was     *)
(* answered, so that its notice always has a count to show.                *)

MonActs == Requests(Maybe(Nat), {}, Nat)

MonGets == Requests(Maybe(Selections), {}, MonitorAnswers)

MonOps == {"load", "trends", "action", "import", "latest", "test", "export", "loadtest"}

MonShapes == [op : MonOps, act : MonActs, get : MonGets]

MonHandlers == {c \in MonShapes : c.op = "import" /\ c.get.at # "unsent" => c.act.at = "served"}

MonCallSet == {Idle} \cup MonHandlers

MonNotices == [what : {"", "state", "jobs", "export"}, did : Nat]

MonShown == [state : Maybe(Nat), jobs : Maybe(Nat)]

MonKinds == {"dashboard", "link", "security", "diag"}

MonViews ==
  [kind : MonKinds, mounted : BOOLEAN, loading : BOOLEAN, acting : BOOLEAN, exporting : BOOLEAN,
   starting : BOOLEAN, error : BOOLEAN, notice : MonNotices, shown : MonShown,
   choice : Selections, chart : Maybe(Selections), raced : BOOLEAN]

MonitorTyped ==
  facts \in Nat /\ monPage \in MonViews /\ monCalls \in [Slots -> MonCallSet]

LEMMA MonHandlerKnown ==
  ASSUME NEW c \in MonCallSet, c.op # "idle"
  PROVE  c \in MonHandlers /\ c.op \in MonOps /\ c.act \in MonActs /\ c.get \in MonGets
BY DEF MonCallSet, MonHandlers, MonShapes, Idle

LEMMA MonRequestsMade ==
  /\ Unsent \in MonActs /\ Sent(Nothing) \in MonActs /\ \A n \in Maybe(Nat) : Sent(n) \in MonActs
  /\ \A n \in Nat : Served(n) \in MonActs
  /\ Unsent \in MonGets /\ Sent(Nothing) \in MonGets
  /\ \A x \in Maybe(Selections) : Sent(x) \in MonGets
  /\ \A a \in MonitorAnswers : Served(a) \in MonGets
<1>1. /\ Unsent \in MonActs /\ \A n \in Maybe(Nat) : Sent(n) \in MonActs
      /\ \A n \in Nat : Served(n) \in MonActs
  BY RequestMade DEF MonActs
<1>2. /\ Unsent \in MonGets /\ \A x \in Maybe(Selections) : Sent(x) \in MonGets
      /\ \A a \in MonitorAnswers : Served(a) \in MonGets
  BY RequestMade DEF MonGets
<1>3. Nothing \in Maybe(Nat) /\ Nothing \in Maybe(Selections)
  BY DEF Maybe
<1> QED BY <1>1, <1>2, <1>3

LEMMA MonRequestsCarry ==
  /\ \A r \in MonActs : r.at = "served" => r.with \in Nat
  /\ \A r \in MonGets : /\ r.at = "sent" => r.with \in Maybe(Selections)
                        /\ r.at = "served" => r.with \in MonitorAnswers
<1>1. \A r \in MonActs : r.at = "served" => r.with \in Nat
  BY RequestCarries DEF MonActs
<1>2. \A r \in MonGets : /\ r.at = "sent" => r.with \in Maybe(Selections)
                         /\ r.at = "served" => r.with \in MonitorAnswers
  BY RequestCarries DEF MonGets
<1> QED BY <1>1, <1>2

LEMMA MonBegun ==
  ASSUME MonitorTyped, ClicksTyped, NEW page \in MonViews, NEW op \in MonOps, NEW act \in MonActs,
         NEW get \in MonGets, op = "import" => get = Unsent, MonBegin(page, op, act, get)
  PROVE  MonitorTyped' /\ ClicksTyped'
<1> DEFINE call == [op |-> op, act |-> act, get |-> get]
           r == UnderWay # {}
<1>1. call \in MonShapes
  BY DEF MonShapes
<1>2. call \in MonCallSet
  BY <1>1 DEF MonCallSet, MonHandlers, Unsent
<1>3. PICK s \in Slots : monCalls' = [monCalls EXCEPT ![s] = call]
  BY DEF MonBegin, Free, Put
<1> HIDE DEF call
<1>4. monCalls' \in [Slots -> MonCallSet]
  BY <1>2, <1>3, SlotTyped DEF MonitorTyped
<1>5. r \in BOOLEAN /\ monPage' = [page EXCEPT !.mounted = TRUE, !.raced = r]
  BY DEF MonBegin
<1> HIDE DEF r
<1>6. monPage' \in MonViews
  BY <1>5 DEF MonViews
<1> QED BY <1>4, <1>6, ClickTyped DEF MonBegin, MonitorTyped

LEMMA MonGoesOn ==
  ASSUME MonitorTyped, NEW s \in Slots, monCalls[s].op # "idle",
         facts' \in Nat, monPage' \in MonViews,
         \/ monCalls' = Put(monCalls, s, Idle)
         \/ \E n \in Nat : monCalls' = [monCalls EXCEPT ![s].act = Served(n)]
         \/ \E r \in MonGets : /\ monCalls' = [monCalls EXCEPT ![s].get = r]
                               /\ monCalls[s].get.at # "unsent" \/ monCalls[s].act.at = "served"
  PROVE  MonitorTyped'
<1>1. monCalls \in [Slots -> MonCallSet] /\ monCalls[s] \in MonCallSet
  BY DEF MonitorTyped
<1>2. monCalls[s] \in MonHandlers
  BY <1>1, MonHandlerKnown
<1>3. Idle \in MonCallSet
  BY DEF MonCallSet
<1>4. ASSUME NEW n \in Nat PROVE [monCalls[s] EXCEPT !.act = Served(n)] \in MonCallSet
  <2>1. Served(n) \in MonActs /\ Served(n).at = "served"
    BY MonRequestsMade DEF Served
  <2> QED BY <1>2, <2>1 DEF MonHandlers, MonShapes, MonCallSet
<1>5. ASSUME NEW r \in MonGets, monCalls[s].get.at # "unsent" \/ monCalls[s].act.at = "served"
      PROVE  [monCalls[s] EXCEPT !.get = r] \in MonCallSet
  BY <1>2, <1>5 DEF MonHandlers, MonShapes, MonCallSet
<1>6. \E c \in MonCallSet : monCalls' = [monCalls EXCEPT ![s] = c]
  <2>1. CASE monCalls' = Put(monCalls, s, Idle)
    BY <1>3, <2>1 DEF Put
  <2>2. ASSUME NEW n \in Nat, monCalls' = [monCalls EXCEPT ![s].act = Served(n)]
        PROVE  \E c \in MonCallSet : monCalls' = [monCalls EXCEPT ![s] = c]
    <3>1. monCalls' = [monCalls EXCEPT ![s] = [monCalls[s] EXCEPT !.act = Served(n)]]
      BY <2>2
    <3> QED BY <1>4, <3>1
  <2>3. ASSUME NEW r \in MonGets, monCalls' = [monCalls EXCEPT ![s].get = r],
               monCalls[s].get.at # "unsent" \/ monCalls[s].act.at = "served"
        PROVE  \E c \in MonCallSet : monCalls' = [monCalls EXCEPT ![s] = c]
    <3>1. monCalls' = [monCalls EXCEPT ![s] = [monCalls[s] EXCEPT !.get = r]]
      BY <2>3
    <3> QED BY <1>5, <2>3, <3>1
  <2> QED BY <2>1, <2>2, <2>3
<1>7. monCalls' \in [Slots -> MonCallSet]
  BY <1>1, <1>6, SlotTyped
<1> QED BY <1>7 DEF MonitorTyped

LEMMA MonResponds ==
  ASSUME MonitorTyped, NEW s \in Slots, monCalls[s].op # "idle", NEW a \in MonitorAnswers, Respond(s, a)
  PROVE  MonitorTyped' /\ clicks' = clicks
<1>1. Served(a) \in MonGets
  BY MonRequestsMade
<1>2. monCalls[s].get.at # "unsent" /\ monCalls' = [monCalls EXCEPT ![s].get = Served(a)]
  BY DEF Respond
<1> QED BY <1>1, <1>2, MonGoesOn DEF Respond, MonitorTyped

LEMMA MonPerforms ==
  ASSUME MonitorTyped, NEW s \in Slots, NEW op \in MonOps, NEW n \in Nat, Perform(s, op, n)
  PROVE  MonitorTyped' /\ clicks' = clicks
<1>1. monCalls[s].op # "idle"
  BY DEF Perform, MonOps
<1> QED BY <1>1, MonGoesOn DEF Perform, MonitorTyped

LEMMA NoticeTyped ==
  /\ NothingDone \in MonNotices
  /\ \A w \in {"", "state", "jobs", "export"}, n \in Nat : [what |-> w, did |-> n] \in MonNotices
BY DEF NothingDone, MonNotices

LEMMA MonitorTypedStep ==
  MonitorTyped /\ ClicksTyped /\ MonitorNext => MonitorTyped' /\ ClicksTyped'
<1> SUFFICES ASSUME MonitorTyped, ClicksTyped, MonitorNext PROVE MonitorTyped' /\ ClicksTyped'
  OBVIOUS
<1>0. /\ facts \in Nat /\ monPage \in MonViews /\ monCalls \in [Slots -> MonCallSet]
      /\ \A s \in Slots : monCalls[s] \in MonCallSet
  BY DEF MonitorTyped
<1>a. clicks' = clicks \/ Click => ClicksTyped'
  BY ClickTyped DEF ClicksTyped
<1>b. /\ monPage.choice \in Selections /\ Selections \subseteq Maybe(Selections)
      /\ Nothing \in Maybe(Selections) /\ Nothing \in Maybe(Nat) /\ Nat \subseteq Maybe(Nat)
      /\ monPage.shown \in MonShown
  BY <1>0 DEF MonViews, Maybe
<1>c. ASSUME NEW s \in Slots, monCalls[s].op # "idle"
      PROVE  /\ monCalls[s].act.at = "served" => monCalls[s].act.with \in Nat
             /\ monCalls[s].get.at = "sent" => monCalls[s].get.with \in Maybe(Selections)
             /\ monCalls[s].get.at = "served" =>
                  monCalls[s].get.with.n \in Nat /\ monCalls[s].get.with.chart \in Maybe(Selections)
  <2>1. monCalls[s].act \in MonActs /\ monCalls[s].get \in MonGets
    BY <1>0, <1>c, MonHandlerKnown
  <2>2. \A a \in MonitorAnswers : a.n \in Nat /\ a.chart \in Maybe(Selections)
    BY DEF MonitorAnswers
  <2> QED BY <2>1, <2>2, MonRequestsCarry
<1>1. CASE DashboardLoad \/ DashboardSelect
  <2>1. PICK page \in MonViews, op \in {"load", "trends"}, choice \in Selections :
          MonBegin(page, op, Unsent, Sent(choice))
    <3>1. CASE DashboardLoad
      <4>1. [monPage EXCEPT !.loading = TRUE, !.error = FALSE] \in MonViews
        BY <1>0 DEF MonViews
      <4> QED BY <1>b, <3>1, <4>1, Zenon DEF DashboardLoad
    <3>2. CASE DashboardSelect
      <4>1. \A choice \in Selections : [monPage EXCEPT !.choice = choice] \in MonViews
        BY <1>0 DEF MonViews
      <4>2. PICK choice \in Selections :
              MonBegin([monPage EXCEPT !.choice = choice], "trends", Unsent, Sent(choice))
        BY <3>2 DEF DashboardSelect
      <4> QED BY <4>1, <4>2, Zenon
    <3> QED BY <1>1, <3>1, <3>2
  <2>2. op \in MonOps /\ op # "import" /\ Unsent \in MonActs /\ Sent(choice) \in MonGets
    BY <1>b, MonRequestsMade DEF MonOps
  <2> QED BY <2>1, <2>2, MonBegun
<1>2. CASE LinkLoad \/ SecurityLoad \/ loadLatest
  <2>1. PICK page \in MonViews, op \in {"load", "latest"} : MonBegin(page, op, Unsent, Sent(Nothing))
    <3>1. /\ [monPage EXCEPT !.loading = TRUE, !.error = FALSE] \in MonViews
          /\ [monPage EXCEPT !.loading = TRUE, !.error = FALSE, !.notice = NothingDone] \in MonViews
      BY <1>0, NoticeTyped DEF MonViews
    <3> QED BY <1>2, <3>1, Zenon DEF LinkLoad, SecurityLoad, loadLatest
  <2>2. op \in MonOps /\ op # "import" /\ Unsent \in MonActs /\ Sent(Nothing) \in MonGets
    BY MonRequestsMade DEF MonOps
  <2> QED BY <2>1, <2>2, MonBegun
<1>3. CASE LinkAction \/ saveLicense \/ runLinkTest \/ runExport \/ runLoadtest
  <2>1. PICK page \in MonViews, op \in {"action", "import", "test", "export", "loadtest"}, body \in Maybe(Nat) :
          MonBegin(page, op, Sent(body), Unsent)
    <3>1. /\ [monPage EXCEPT !.acting = TRUE, !.error = FALSE] \in MonViews
          /\ [monPage EXCEPT !.acting = TRUE, !.error = FALSE, !.notice = NothingDone] \in MonViews
          /\ Cleared \in MonViews
      BY <1>0, NoticeTyped DEF MonViews, Cleared
    <3>2. /\ [Cleared EXCEPT !.acting = TRUE] \in MonViews
          /\ [Cleared EXCEPT !.exporting = TRUE] \in MonViews
          /\ [Cleared EXCEPT !.starting = TRUE] \in MonViews
      BY <3>1 DEF MonViews
    <3>3. monPage.shown.state \in Maybe(Nat)
      BY <1>b DEF MonShown
    <3>4. CASE LinkAction
      BY <1>b, <3>1, <3>4, Zenon DEF LinkAction
    <3>5. CASE saveLicense
      BY <1>b, <3>1, <3>5, Zenon DEF saveLicense
    <3>6. CASE runLinkTest
      BY <1>b, <3>2, <3>6, Zenon DEF runLinkTest
    <3>7. CASE runExport
      BY <3>2, <3>3, <3>7, Zenon DEF runExport
    <3>8. CASE runLoadtest
      BY <1>b, <3>2, <3>8, Zenon DEF runLoadtest
    <3> QED BY <1>3, <3>4, <3>5, <3>6, <3>7, <3>8
  <2>2. op \in MonOps /\ Sent(body) \in MonActs /\ Unsent \in MonGets
    BY MonRequestsMade DEF MonOps
  <2> QED BY <2>1, <2>2, MonBegun
<1>4. CASE OtherFact
  BY <1>0, <1>4, <1>a DEF OtherFact, MonitorTyped
<1>5. ASSUME NEW s \in Slots,
             \/ fetchDashboardSummary(s) \/ fetchDashboardTrends(s) \/ fetchLinkMonitor(s)
             \/ fetchSecurityState(s) \/ fetchLatestLinkTest(s) \/ fetchLoadtestJobs(s)
      PROVE  MonitorTyped' /\ ClicksTyped'
  <2>1. monCalls[s].op # "idle" /\ monCalls[s].get.at = "sent"
    BY <1>5 DEF fetchDashboardSummary, fetchDashboardTrends, fetchLinkMonitor, fetchSecurityState,
                fetchLatestLinkTest, fetchLoadtestJobs, Respond
  <2>2. StateAnswer \in MonitorAnswers /\ DashboardAnswer(monCalls[s].get.with) \in MonitorAnswers
    BY <1>0, <1>b, <1>c, <2>1 DEF StateAnswer, DashboardAnswer, MonitorAnswers
  <2>3. PICK a \in MonitorAnswers : Respond(s, a)
    BY <1>5, <2>2, Zenon
       DEF fetchDashboardSummary, fetchDashboardTrends, fetchLinkMonitor, fetchSecurityState,
           fetchLatestLinkTest, fetchLoadtestJobs
  <2> QED BY <1>a, <2>1, <2>3, MonResponds
<1>6. ASSUME NEW s \in Slots,
             \/ triggerTunnelSessionAction(s) \/ updateLicense(s) \/ handleLinkTest(s)
             \/ startLoadtest(s) \/ exportDiagnostics(s)
      PROVE  MonitorTyped' /\ ClicksTyped'
  <2>1. facts + 1 \in Nat
    BY <1>0
  <2>2. {"action", "import", "test", "loadtest", "export"} \subseteq MonOps
    BY DEF MonOps
  <2>3. PICK op \in {"action", "import", "test", "loadtest", "export"}, n \in Nat : Perform(s, op, n)
    BY <1>0, <1>6, <2>1, Zenon
       DEF triggerTunnelSessionAction, updateLicense, handleLinkTest, startLoadtest, exportDiagnostics
  <2> QED BY <1>a, <2>2, <2>3, MonPerforms
<1>7. ASSUME NEW s \in Slots, DashboardTrends(s) \/ DashboardTrendsFail(s) \/ MonLoadFails(s)
      PROVE  MonitorTyped' /\ ClicksTyped'
  <2>1. monCalls[s].op # "idle"
    BY <1>7 DEF DashboardTrends, DashboardTrendsFail, MonLoadFails
  <2>2. monPage' \in MonViews
    BY <1>0, <1>7, <1>c, <2>1 DEF DashboardTrends, DashboardTrendsFail, MonLoadFails, MonViews
  <2> QED BY <1>0, <1>7, <1>a, <2>1, <2>2, MonGoesOn DEF DashboardTrends, DashboardTrendsFail, MonLoadFails
<1>8. ASSUME NEW s \in Slots, MonLoaded(s) \/ LinkReloaded(s) \/ LatestLoaded(s) \/ LoadtestListed(s)
      PROVE  MonitorTyped' /\ ClicksTyped'
  <2> DEFINE got == monCalls[s].get.with
  <2>1. monCalls[s].op # "idle" /\ monCalls[s].get.at = "served"
    BY <1>8 DEF MonLoaded, LinkReloaded, LatestLoaded, LoadtestListed
  <2>2. got.n \in Maybe(Nat) /\ got.chart \in Maybe(Selections)
    BY <1>b, <1>c, <2>1
  <2>3. /\ [monPage.shown EXCEPT !.state = got.n] \in MonShown
        /\ [monPage.shown EXCEPT !.jobs = got.n] \in MonShown
        /\ \A state, jobs \in {Nothing, got.n} : [state |-> state, jobs |-> jobs] \in MonShown
    BY <1>b, <2>2 DEF MonShown
  <2>4. PICK shown \in MonShown, chart \in Maybe(Selections), loading \in BOOLEAN, acting \in BOOLEAN,
             starting \in BOOLEAN :
          monPage' = [monPage EXCEPT !.shown = shown, !.chart = chart, !.loading = loading,
                                     !.acting = acting, !.starting = starting]
    <3>0. /\ monPage.chart \in Maybe(Selections) /\ monPage.loading \in BOOLEAN
          /\ monPage.acting \in BOOLEAN /\ monPage.starting \in BOOLEAN
      BY <1>0 DEF MonViews
    <3>1. CASE MonLoaded(s)
      <4>1. monPage' = [monPage EXCEPT !.shown = [monPage.shown EXCEPT !.state = got.n],
                          !.chart = got.chart, !.loading = FALSE, !.acting = monPage.acting,
                          !.starting = monPage.starting]
        BY <1>0, <3>1 DEF MonLoaded, MonViews
      <4> QED BY <2>2, <2>3, <3>0, <4>1
    <3>2. CASE LinkReloaded(s)
      <4>1. monPage' = [monPage EXCEPT !.shown = [monPage.shown EXCEPT !.state = got.n],
                          !.chart = monPage.chart, !.loading = FALSE, !.acting = FALSE,
                          !.starting = monPage.starting]
        BY <1>0, <3>2 DEF LinkReloaded, MonViews
      <4> QED BY <2>3, <3>0, <4>1
    <3>3. CASE LatestLoaded(s)
      <4>1. PICK state \in {Nothing, got.n}, jobs \in {Nothing, got.n} :
              monPage' = [monPage EXCEPT !.shown = [state |-> state, jobs |-> jobs], !.loading = FALSE]
        BY <3>3 DEF LatestLoaded
      <4>2. monPage' = [monPage EXCEPT !.shown = [state |-> state, jobs |-> jobs],
                          !.chart = monPage.chart, !.loading = FALSE, !.acting = monPage.acting,
                          !.starting = monPage.starting]
        BY <1>0, <4>1 DEF MonViews
      <4> DEFINE both == [state |-> state, jobs |-> jobs]
      <4>3. both \in MonShown
        BY <2>3
      <4>4. monPage' = [monPage EXCEPT !.shown = both, !.chart = monPage.chart, !.loading = FALSE,
                          !.acting = monPage.acting, !.starting = monPage.starting]
        BY <4>2
      <4> HIDE DEF both
      <4> QED BY <3>0, <4>3, <4>4
    <3>4. CASE LoadtestListed(s)
      <4>1. monPage' = [monPage EXCEPT !.shown = [monPage.shown EXCEPT !.jobs = got.n],
                          !.chart = monPage.chart, !.loading = monPage.loading,
                          !.acting = monPage.acting, !.starting = FALSE]
        BY <1>0, <3>4 DEF LoadtestListed, MonViews
      <4> QED BY <2>3, <3>0, <4>1
    <3> QED BY <1>8, <3>1, <3>2, <3>3, <3>4
  <2>5. monPage' \in MonViews
    BY <1>0, <2>4 DEF MonViews
  <2> QED BY <1>0, <1>8, <1>a, <2>1, <2>5, MonGoesOn DEF MonLoaded, LinkReloaded, LatestLoaded, LoadtestListed
<1>9. ASSUME NEW s \in Slots, LinkActed(s) \/ LicenseImported(s) \/ LoadtestCreated(s)
      PROVE  MonitorTyped' /\ ClicksTyped'
  <2>1. monCalls[s].op # "idle" /\ monCalls[s].act.at = "served"
    BY <1>9 DEF LinkActed, LicenseImported, LoadtestCreated
  <2>2. monCalls[s].act.with \in Nat
    BY <1>c, <2>1
  <2>3. /\ [what |-> "state", did |-> monCalls[s].act.with] \in MonNotices
        /\ [what |-> "jobs", did |-> monCalls[s].act.with] \in MonNotices
        /\ NothingDone \in MonNotices
    BY <2>2, NoticeTyped
  <2>4. monPage' \in MonViews
    <3>1. CASE LinkActed(s)
      BY <1>0, <2>3, <3>1 DEF LinkActed, MonViews
    <3>2. CASE LicenseImported(s)
      BY <1>0, <2>3, <3>2 DEF LicenseImported, MonViews
    <3>3. CASE LoadtestCreated(s)
      BY <1>0, <2>3, <3>3 DEF LoadtestCreated, MonViews
    <3> QED BY <1>9, <3>1, <3>2, <3>3
  <2>5. Sent(Nothing) \in MonGets
    BY MonRequestsMade
  <2> QED BY <1>0, <1>9, <1>a, <2>1, <2>4, <2>5, MonGoesOn DEF LinkActed, LicenseImported, LoadtestCreated
<1>10. ASSUME NEW s \in Slots, LicenseReloaded(s) PROVE MonitorTyped' /\ ClicksTyped'
  <2>1. monCalls[s].op = "import" /\ monCalls[s].get.at # "unsent"
    BY <1>10 DEF LicenseReloaded
  <2>2. monCalls[s].act.at = "served"
    BY <1>0, <2>1, MonHandlerKnown DEF MonHandlers
  <2>3. monCalls[s].act.with \in Nat
    BY <1>c, <2>1, <2>2
  <2> DEFINE notice == [what |-> "state", did |-> monCalls[s].act.with]
             shown == [monPage.shown EXCEPT !.state = monCalls[s].get.with.n]
  <2>4. notice \in MonNotices
    BY <2>3, NoticeTyped
  <2>5. monCalls[s].get.at = "served" => shown \in MonShown
    BY <1>b, <1>c, <2>1 DEF MonShown
  <2>6. \/ /\ monCalls[s].get.at = "served"
           /\ monPage' = [monPage EXCEPT !.shown = shown, !.notice = notice, !.loading = FALSE, !.acting = FALSE]
        \/ monPage' = [monPage EXCEPT !.error = TRUE, !.notice = notice, !.loading = FALSE, !.acting = FALSE]
    BY <1>10 DEF LicenseReloaded
  <2> HIDE DEF notice, shown
  <2>7. monPage' \in MonViews
    BY <1>0, <2>4, <2>5, <2>6 DEF MonViews
  <2> QED BY <1>0, <1>10, <1>a, <2>1, <2>7, MonGoesOn DEF LicenseReloaded
<1>11. ASSUME NEW s \in Slots, LinkTested(s) \/ Exported(s) PROVE MonitorTyped' /\ ClicksTyped'
  <2> DEFINE n == monCalls[s].act.with
             shown == [monPage.shown EXCEPT !.state = n]
             tested == [what |-> "state", did |-> n]
             exported == [what |-> "export", did |-> 0]
  <2>1. monCalls[s].op # "idle" /\ monCalls[s].act.at = "served"
    BY <1>11 DEF LinkTested, Exported
  <2>2. n \in Nat
    BY <1>c, <2>1
  <2>3. shown \in MonShown
    BY <1>b, <2>2 DEF MonShown
  <2>4. tested \in MonNotices /\ exported \in MonNotices
    BY <2>2, NoticeTyped
  <2>5. \/ monPage' = [monPage EXCEPT !.shown = shown, !.notice = tested, !.acting = FALSE]
        \/ monPage' = [monPage EXCEPT !.notice = exported, !.exporting = FALSE]
    BY <1>11 DEF LinkTested, Exported
  <2> HIDE DEF shown, tested, exported
  <2>6. monPage' \in MonViews
    BY <1>0, <2>3, <2>4, <2>5 DEF MonViews
  <2> QED BY <1>0, <1>11, <1>a, <2>1, <2>6, MonGoesOn DEF LinkTested, Exported
<1>12. ASSUME NEW s \in Slots, MonActFails(s) PROVE MonitorTyped' /\ ClicksTyped'
  <2> DEFINE op == monCalls[s].op
             a == monPage.loading /\ ~(op = "action" /\ monCalls[s].get.at # "unsent")
             b == monPage.acting /\ op \in {"export", "loadtest"}
             c == monPage.exporting /\ op # "export"
             d == monPage.starting /\ op # "loadtest"
  <2>1. op # "idle"
    BY <1>12 DEF MonActFails
  <2>2. a \in BOOLEAN /\ b \in BOOLEAN /\ c \in BOOLEAN /\ d \in BOOLEAN
    OBVIOUS
  <2>3. monPage' = [monPage EXCEPT !.error = TRUE, !.loading = a, !.acting = b, !.exporting = c,
                                   !.starting = d]
    BY <1>12 DEF MonActFails
  <2> HIDE DEF a, b, c, d
  <2>4. monPage' \in MonViews
    <3> DEFINE stopped == [monPage EXCEPT !.error = TRUE, !.loading = a, !.acting = b]
    <3>1. stopped \in MonViews
      BY <1>0, <2>2 DEF MonViews
    <3>2. monPage' = [stopped EXCEPT !.exporting = c, !.starting = d]
      BY <2>3
    <3> HIDE DEF stopped
    <3> QED BY <2>2, <3>1, <3>2 DEF MonViews
  <2> QED BY <1>0, <1>12, <1>a, <2>1, <2>4, MonGoesOn DEF MonActFails
<1> QED BY <1>1, <1>2, <1>3, <1>4, <1>5, <1>6, <1>7, <1>8, <1>9, <1>10, <1>11, <1>12 DEF MonitorNext

LEMMA MonitorTypedInit == ASSUME MonitorInit(MonitorStores) PROVE MonitorTyped
<1>1. PICK x \in MonitorStores :
       monPage = [kind |-> x.kind, mounted |-> FALSE, loading |-> FALSE, acting |-> FALSE,
                  exporting |-> FALSE, starting |-> FALSE, error |-> FALSE, notice |-> NothingDone,
                  shown |-> [state |-> Nothing, jobs |-> Nothing],
                  choice |-> x.choice, chart |-> Nothing, raced |-> FALSE]
  BY DEF MonitorInit
<1>2. x.kind \in MonKinds /\ x.choice \in Selections
  BY DEF MonitorStores, MonKinds
<1>3. [state |-> Nothing, jobs |-> Nothing] \in MonShown /\ Nothing \in Maybe(Selections)
  BY DEF MonShown, Maybe
<1>4. monPage \in MonViews
  BY <1>1, <1>2, <1>3, NoticeTyped DEF MonViews
<1>5. monCalls \in [Slots -> MonCallSet]
  BY DEF MonitorInit, NoCalls, MonCallSet
<1> QED BY <1>4, <1>5 DEF MonitorInit, MonitorTyped

LEMMA MonitorTypesHold == MonitorTyped => MonitorTypeOK
<1> SUFFICES ASSUME MonitorTyped PROVE MonitorTypeOK
  OBVIOUS
<1>1. monCalls \in [Slots -> {Idle} \cup MonShapes]
  BY DEF MonitorTyped, MonCallSet, MonHandlers
<1> QED BY <1>1 DEF MonitorTyped, MonitorTypeOK, MonShapes, MonOps, MonViews, MonActs, MonGets,
                     MonNotices, MonShown, MonKinds

-----------------------------------------------------------------------------
(* The mock gateway and its configuration pages.  What a handler writes is *)
(* of the kind of its page, and the page that moves files, like a direct   *)
(* call, never sees the peer list empty.                                   *)

CfgKinds == {"tunnel", "local", "peer", "node", "transfer", "api"}

CfgOpsOf(kind) ==
  CASE kind = "tunnel" -> {"load", "save", "action"}
    [] kind \in {"local", "node"} -> {"load", "save"}
    [] kind = "peer" -> {"load", "create", "edit", "remove"}
    [] kind = "transfer" -> {"export", "import"}
    [] OTHER -> {}

CfgHalves == [net : UpdateNetworkConfigPayload, tunnel : TunnelConfigs]

CfgBodies(op, kind) ==
  CASE op = "load" -> {}
    [] op \in {"action", "export"} -> {Nothing}
    [] op \in {"create", "edit", "remove"} -> MockNodes
    [] OTHER -> Drafts(kind)

CfgFound(op) == IF op = "import" THEN ConfigTransferPayload ELSE CfgHalves

CfgActs(op, kind) == Requests(CfgBodies(op, kind), CfgFound(op), {Nothing})

CfgGets(kind) == Requests({Nothing}, {}, Drafts(kind))

CfgHandlers(op, kind) == [op : {op}, act : CfgActs(op, kind), get : CfgGets(kind)]

CfgCallSet(kind) == {Idle} \cup UNION {CfgHandlers(op, kind) : op \in CfgOpsOf(kind)}

CfgStores ==
  [local : MockNodes, peers : Seq(MockNodes), tunnel : TunnelConfigs,
   net : NetworkConfigPayload, snaps : [Versions -> {"active", "archived"}],
   job : Maybe(DiagnosticExportJob)]

CfgViews(kind) ==
  [kind : CfgKinds, saving : BOOLEAN, draft : Maybe(Drafts(kind)), acting : BOOLEAN,
   open : {"", "create", "edit"}, file : Maybe(ConfigTransferPayload), raced : BOOLEAN]

MockTyped ==
  /\ store \in CfgStores
  /\ cfgPage.kind \in {"transfer", "api"} => store.peers # <<>>
  /\ cfgPage.kind \in CfgKinds /\ cfgPage \in CfgViews(cfgPage.kind)
  /\ cfgCalls \in [Slots -> CfgCallSet(cfgPage.kind)]

LEMMA DraftsOf ==
  /\ Drafts("tunnel") = MockModes /\ Drafts("local") = MockNodes
  /\ Drafts("peer") = Seq(MockNodes) /\ Drafts("node") = NodeConfigPayload
  /\ Drafts("transfer") = ConfigTransferPayload
BY DEF Drafts

(* The store after each function of the mock.                              *)

LEMMA TunnelTyped ==
  ASSUME NEW mode \in MockModes PROVE tunnelConfigState(mode) \in TunnelConfigs
<1>1. deriveTunnelCapability(mode)
        \in SUBSET {"small_request", "large_request", "large_response", "streaming", "bidirectional"}
  BY DEF deriveTunnelCapability
<1> HIDE DEF deriveTunnelCapability
<1> QED BY <1>1 DEF tunnelConfigState, TunnelConfigs

LEMMA ReplacedTyped ==
  ASSUME NEW S, NEW list \in Seq(S), NEW i, NEW x \in S
  PROVE  /\ [list EXCEPT ![i] = x] \in Seq(S)
         /\ list # <<>> => [list EXCEPT ![i] = x] # <<>>
<1> DEFINE new == [list EXCEPT ![i] = x]
<1>1. Len(list) \in Nat /\ list \in [1 .. Len(list) -> S]
  OBVIOUS
<1>2. new \in [1 .. Len(list) -> S]
  BY <1>1
<1>3. new \in Seq(S)
  BY <1>1, <1>2
<1>4. Len(new) = Len(list)
  BY <1>1, <1>2, <1>3
<1> HIDE DEF new
<1>5. list # <<>> => new # <<>>
  BY <1>3, <1>4
<1> QED BY <1>3, <1>5 DEF new

LEMMA PrependedTyped ==
  ASSUME NEW S, NEW list \in Seq(S), NEW x \in S
  PROVE  <<x>> \o list \in Seq(S) /\ <<x>> \o list # <<>>
<1>1. <<x>> \in Seq(S) /\ Len(<<x>>) = 1
  OBVIOUS
<1>2. <<x>> \o list \in Seq(S) /\ Len(<<x>> \o list) = 1 + Len(list) /\ Len(list) \in Nat
  BY <1>1
<1>3. Len(<<>>) = 0
  OBVIOUS
<1> QED BY <1>2, <1>3

\* A function of the mock leaves a store, and leaves peers where there were some.
StoreKept(st) == st \in CfgStores /\ (store.peers # <<>> => st.peers # <<>>)

LEMMA PeersPut ==
  ASSUME store \in CfgStores, NEW peers \in Seq(MockNodes), NEW local \in MockNodes,
         store.peers # <<>> => peers # <<>>
  PROVE  StoreKept([store EXCEPT !.peers = peers]) /\ StoreKept([store EXCEPT !.local = local, !.peers = peers])
BY DEF CfgStores, StoreKept

LEMMA UpdatesKeep ==
  ASSUME store \in CfgStores
  PROVE  /\ \A mode \in MockModes : StoreKept(saveTunnelConfigMock(store, mode))
         /\ \A local \in MockNodes : StoreKept(updateLocalNodeMock(store, local))
         /\ \A peer \in MockNodes :
              StoreKept(createPeerMock(store, peer)) /\ StoreKept(updatePeerMock(store, peer))
         /\ \A id : deletePeerMock(store, id) \in CfgStores
<1>0. store.peers \in Seq(MockNodes)
  BY DEF CfgStores
<1>1. ASSUME NEW mode \in MockModes PROVE StoreKept(saveTunnelConfigMock(store, mode))
  BY TunnelTyped DEF saveTunnelConfigMock, CfgStores, StoreKept
<1>2. ASSUME NEW local \in MockNodes PROVE StoreKept(updateLocalNodeMock(store, local))
  BY DEF updateLocalNodeMock, CfgStores, StoreKept
<1>3. ASSUME NEW peer \in MockNodes PROVE StoreKept(createPeerMock(store, peer))
  <2>1. Append(store.peers, peer) \in Seq(MockNodes) /\ Append(store.peers, peer) # <<>>
    BY <1>0
  <2> QED BY <2>1 DEF createPeerMock, CfgStores, StoreKept
<1>4. ASSUME NEW peer \in MockNodes PROVE StoreKept(updatePeerMock(store, peer))
  <2> DEFINE i == IndexOf(store.peers, peer.id)
             peers == [store.peers EXCEPT ![i] = peer]
  <2>1. updatePeerMock(store, peer) = [store EXCEPT !.peers = peers]
    BY DEF updatePeerMock
  <2> HIDE DEF i
  <2>2. peers \in Seq(MockNodes) /\ (store.peers # <<>> => peers # <<>>)
    BY <1>0, ReplacedTyped
  <2> HIDE DEF peers
  <2>3. StoreKept([store EXCEPT !.peers = peers])
    BY <2>2 DEF CfgStores, StoreKept
  <2> QED BY <2>1, <2>3
<1>5. ASSUME NEW id PROVE deletePeerMock(store, id) \in CfgStores
  <2> DEFINE wanted == {p \in ToSet(store.peers) : p.id # id}
             peers == Filtered(store.peers, wanted)
  <2>1. deletePeerMock(store, id) = [store EXCEPT !.peers = peers]
    BY DEF deletePeerMock
  <2> HIDE DEF wanted
  <2>2. peers \in Seq(MockNodes)
    BY <1>0, FilteredTyped
  <2> HIDE DEF peers
  <2>3. [store EXCEPT !.peers = peers] \in CfgStores
    BY <2>2 DEF CfgStores
  <2> QED BY <2>1, <2>3
<1> QED BY <1>1, <1>2, <1>3, <1>4, <1>5

LEMMA NodeSaveKeeps ==
  ASSUME store \in CfgStores, NEW config \in NodeConfigPayload
  PROVE  StoreKept(saveNodeConfigMock(store, config))
<1> DEFINE i == IndexOf(store.peers, config.peer.id)
           peers == IF i > 0 THEN [store.peers EXCEPT ![i] = config.peer]
                             ELSE <<config.peer>> \o store.peers
<1>0. store.peers \in Seq(MockNodes) /\ config.local \in MockNodes /\ config.peer \in MockNodes
  BY DEF CfgStores, NodeConfigPayload
<1>1. saveNodeConfigMock(store, config) = [store EXCEPT !.local = config.local, !.peers = peers]
  BY DEF saveNodeConfigMock
<1> HIDE DEF i
<1>2. /\ [store.peers EXCEPT ![i] = config.peer] \in Seq(MockNodes)
      /\ store.peers # <<>> => [store.peers EXCEPT ![i] = config.peer] # <<>>
  BY <1>0, ReplacedTyped
<1>3. <<config.peer>> \o store.peers \in Seq(MockNodes) /\ <<config.peer>> \o store.peers # <<>>
  BY <1>0, PrependedTyped
<1>4. peers = [store.peers EXCEPT ![i] = config.peer] \/ peers = <<config.peer>> \o store.peers
  BY Zenon
<1> HIDE DEF peers
<1>5. peers \in Seq(MockNodes) /\ (store.peers # <<>> => peers # <<>>)
  BY <1>2, <1>3, <1>4, Zenon
<1> QED BY <1>0, <1>1, <1>5, PeersPut

LEMMA NodeFetched == ASSUME store \in CfgStores PROVE fetchNodeConfigMock(store) \in NodeConfigPayload
<1>1. store.local \in MockNodes /\ store.peers \in Seq(MockNodes)
  BY DEF CfgStores
<1>2. store.peers # <<>> => store.peers[1] \in MockNodes
  BY <1>1
<1>3. [id |-> "", ip |-> ""] \in MockNodes
  BY DEF MockNodes
<1> DEFINE peer == IF store.peers = <<>> THEN [id |-> "", ip |-> ""] ELSE store.peers[1]
<1>4. peer \in MockNodes
  BY <1>2, <1>3, Zenon
<1>5. fetchNodeConfigMock(store) = [local |-> store.local, peer |-> peer]
  BY DEF fetchNodeConfigMock
<1> HIDE DEF peer
<1> QED BY <1>1, <1>4, <1>5 DEF NodeConfigPayload

LEMMA PortsTyped ==
  ASSUME NEW ports \in Nat \X Nat, NEW most \in Nat, store \in CfgStores
  PROVE  StoreKept(updateNetworkConfigMock(store, ports, most))
<1> DEFINE total == IF ports[2] < ports[1] THEN 0 ELSE ports[2] - ports[1] + 1
           occupied == Least(total, Part(most, 60))
           active == Least(occupied, Part(most, 35))
           pool == [total |-> total, occupied |-> occupied, active |-> active]
           net == [ports |-> ports, most |-> most, pool |-> pool]
<1>1. ports[1] \in Nat /\ ports[2] \in Nat
  OBVIOUS
<1>2. total \in Nat
  BY <1>1
<1>3. Part(most, 60) \in Nat /\ Part(most, 35) \in Nat
  BY DEF Part
<1>4. \A a, b \in Nat : Least(a, b) \in Nat
  BY DEF Least
<1>5. updateNetworkConfigMock(store, ports, most) = [store EXCEPT !.net = net]
  BY DEF updateNetworkConfigMock
<1> HIDE DEF total
<1>6. occupied \in Nat
  BY <1>2, <1>3, <1>4
<1> HIDE DEF occupied
<1>7. active \in Nat
  BY <1>3, <1>4, <1>6
<1> HIDE DEF active
<1>8. pool \in [total : Nat, occupied : Nat, active : Nat]
  BY <1>2, <1>6, <1>7
<1> HIDE DEF pool
<1>9. net \in NetworkConfigPayload
  BY <1>8 DEF NetworkConfigPayload
<1> HIDE DEF net
<1>10. StoreKept([store EXCEPT !.net = net])
  BY <1>9 DEF CfgStores, StoreKept
<1> QED BY <1>5, <1>10

LEMMA SnapsTyped ==
  ASSUME store \in CfgStores, NEW version PROVE StoreKept(rollbackConfigMock(store, version))
<1> DEFINE snaps == [v \in Versions |-> IF v = version THEN "active"
                       ELSE IF store.snaps[v] = "active" THEN "archived" ELSE store.snaps[v]]
<1>1. store.snaps \in [Versions -> {"active", "archived"}]
  BY DEF CfgStores
<1>2. snaps \in [Versions -> {"active", "archived"}]
  BY <1>1
<1>3. rollbackConfigMock(store, version) = [store EXCEPT !.snaps = snaps]
  BY DEF rollbackConfigMock
<1> HIDE DEF snaps
<1>4. StoreKept([store EXCEPT !.snaps = snaps])
  BY <1>2 DEF CfgStores, StoreKept
<1> QED BY <1>3, <1>4

LEMMA JobPut ==
  ASSUME store \in CfgStores, NEW job \in DiagnosticExportJob PROVE StoreKept([store EXCEPT !.job = job])
<1>1. job \in Maybe(DiagnosticExportJob)
  BY DEF Maybe
<1> QED BY <1>1 DEF CfgStores, StoreKept

LEMMA JobsKeep ==
  ASSUME store \in CfgStores
  PROVE  /\ \A failOnce \in BOOLEAN : StoreKept(createDiagnosticExportMock(store, failOnce))
         /\ store.job # Nothing => StoreKept(getDiagnosticExportMock(store))
         /\ store.job # Nothing => StoreKept(retryDiagnosticExportMock(store))
<1>0. store.job # Nothing => store.job \in DiagnosticExportJob
  BY DEF CfgStores, Maybe
<1>a. 0 \in Nat /\ 0 \in 0 .. 7
  OBVIOUS
<1>1. ASSUME NEW failOnce \in BOOLEAN PROVE StoreKept(createDiagnosticExportMock(store, failOnce))
  <2> DEFINE job == [status |-> "pending", polls |-> 0, done |-> 0, url |-> FALSE,
                     error |-> FALSE, failOnce |-> failOnce, fails |-> 0]
  <2>1. job \in DiagnosticExportJob
    BY <1>a DEF DiagnosticExportJob
  <2> QED BY <2>1, JobPut DEF createDiagnosticExportMock
<1>2. ASSUME store.job # Nothing PROVE StoreKept(retryDiagnosticExportMock(store))
  <2> DEFINE job == [store.job EXCEPT !.status = "pending", !.polls = 0, !.done = 0,
                                      !.url = FALSE, !.error = FALSE]
  <2>1. job \in DiagnosticExportJob
    BY <1>0, <1>2, <1>a DEF DiagnosticExportJob
  <2> QED BY <2>1, JobPut DEF retryDiagnosticExportMock
<1>3. ASSUME store.job # Nothing PROVE StoreKept(getDiagnosticExportMock(store))
  <2> DEFINE job == store.job
             progress == Least(100, (job.polls + 1) * 25)
             status == IF progress < 40 THEN "collecting" ELSE "packaging"
             done == (progress * 7) \div 100
             polls == job.polls + 1
             polled == [job EXCEPT !.polls = polls, !.done = done, !.status = status]
             failed == [polled EXCEPT !.status = "failed", !.error = TRUE,
                                      !.failOnce = FALSE, !.fails = @ + 1]
             ended == [polled EXCEPT !.status = "succeeded", !.error = FALSE, !.url = TRUE]
  <2>1. job \in DiagnosticExportJob
    BY <1>0, <1>3
  <2>2. job.polls \in Nat
    BY <2>1 DEF DiagnosticExportJob
  <2>3. \A p \in Nat : Least(100, (p + 1) * 25) \in 0 .. 100 /\ p + 1 \in Nat
    BY DEF Least
  <2>4. progress \in 0 .. 100 /\ polls \in Nat
    BY <2>2, <2>3
  <2> DEFINE next == IF job.status \in {"succeeded", "failed"} THEN job
                     ELSE IF progress < 100 THEN polled ELSE IF job.failOnce THEN failed ELSE ended
  <2>5. getDiagnosticExportMock(store) = [store EXCEPT !.job = next]
    BY Zenon DEF getDiagnosticExportMock
  <2>a. next = job \/ next = polled \/ next = failed \/ next = ended
    BY Zenon
  <2> HIDE DEF next
  <2> HIDE DEF polls, progress, job
  <2>6. \A p \in 0 .. 100 : (p * 7) \div 100 \in 0 .. 7
    OBVIOUS
  <2>7. done \in 0 .. 7
    BY <2>4, <2>6
  <2>8. status \in {"collecting", "packaging"}
    BY Zenon
  <2> HIDE DEF done, status
  <2>9. polled \in DiagnosticExportJob
    BY <2>1, <2>4, <2>7, <2>8 DEF DiagnosticExportJob
  <2> HIDE DEF polled
  <2> DEFINE fails == polled.fails + 1
  <2>b. fails \in Nat
    BY <2>9 DEF DiagnosticExportJob
  <2>c. failed = [polled EXCEPT !.status = "failed", !.error = TRUE, !.failOnce = FALSE, !.fails = fails]
    OBVIOUS
  <2> HIDE DEF fails, failed
  <2>10. failed \in DiagnosticExportJob /\ ended \in DiagnosticExportJob
    BY <2>9, <2>b, <2>c DEF DiagnosticExportJob
  <2> HIDE DEF ended
  <2>11. next \in DiagnosticExportJob
    BY <2>1, <2>9, <2>10, <2>a
  <2> QED BY <2>5, <2>11, JobPut
<1> QED BY <1>1, <1>2, <1>3

(* The handlers of the configuration pages.                                *)

LEMMA CfgKnown ==
  ASSUME NEW kind, NEW c \in CfgCallSet(kind), c.op # "idle"
  PROVE  /\ c.op \in CfgOpsOf(kind) /\ c \in CfgHandlers(c.op, kind)
         /\ c.act \in CfgActs(c.op, kind) /\ c.get \in CfgGets(kind)
<1>1. c # Idle
  BY DEF Idle
<1>2. PICK op \in CfgOpsOf(kind) : c \in CfgHandlers(op, kind)
  BY <1>1 DEF CfgCallSet
<1>3. c.op = op /\ c.act \in CfgActs(op, kind) /\ c.get \in CfgGets(kind)
  BY <1>2 DEF CfgHandlers
<1> QED BY <1>2, <1>3

LEMMA CfgCarries ==
  ASSUME NEW kind, NEW op, NEW act \in CfgActs(op, kind), NEW get \in CfgGets(kind)
  PROVE  /\ act.at = "sent" => act.with \in CfgBodies(op, kind)
         /\ act.at = "read" => act.with \in CfgFound(op)
         /\ get.at = "served" => get.with \in Drafts(kind)
<1>1. (act.at = "sent" => act.with \in CfgBodies(op, kind)) /\ (act.at = "read" => act.with \in CfgFound(op))
  BY RequestCarries DEF CfgActs
<1>2. get.at = "served" => get.with \in Drafts(kind)
  BY RequestCarries DEF CfgGets
<1> QED BY <1>1, <1>2

LEMMA CfgMade ==
  ASSUME NEW kind, NEW op
  PROVE  /\ Unsent \in CfgActs(op, kind) /\ Served(Nothing) \in CfgActs(op, kind)
         /\ \A x \in CfgBodies(op, kind) : Sent(x) \in CfgActs(op, kind)
         /\ \A x \in CfgFound(op) : Read(x) \in CfgActs(op, kind)
         /\ Unsent \in CfgGets(kind) /\ Sent(Nothing) \in CfgGets(kind)
         /\ \A x \in Drafts(kind) : Served(x) \in CfgGets(kind)
<1>1. /\ Unsent \in CfgActs(op, kind) /\ Served(Nothing) \in CfgActs(op, kind)
      /\ \A x \in CfgBodies(op, kind) : Sent(x) \in CfgActs(op, kind)
      /\ \A x \in CfgFound(op) : Read(x) \in CfgActs(op, kind)
  BY RequestMade DEF CfgActs
<1>2. /\ Unsent \in CfgGets(kind) /\ Sent(Nothing) \in CfgGets(kind)
      /\ \A x \in Drafts(kind) : Served(x) \in CfgGets(kind)
  BY RequestMade DEF CfgGets
<1> QED BY <1>1, <1>2

LEMMA CfgBodiesOf ==
  ASSUME NEW kind
  PROVE  /\ CfgBodies("load", kind) = {} /\ CfgBodies("action", kind) = {Nothing}
         /\ CfgBodies("export", kind) = {Nothing} /\ CfgBodies("create", kind) = MockNodes
         /\ CfgBodies("edit", kind) = MockNodes /\ CfgBodies("remove", kind) = MockNodes
         /\ CfgBodies("save", kind) = Drafts(kind) /\ CfgBodies("import", kind) = Drafts(kind)
         /\ CfgFound("export") = CfgHalves /\ CfgFound("import") = ConfigTransferPayload
<1>1. /\ CfgBodies("load", kind) = {} /\ CfgBodies("action", kind) = {Nothing}
      /\ CfgBodies("export", kind) = {Nothing} /\ CfgBodies("create", kind) = MockNodes
      /\ CfgBodies("edit", kind) = MockNodes /\ CfgBodies("remove", kind) = MockNodes
      /\ CfgBodies("save", kind) = Drafts(kind) /\ CfgBodies("import", kind) = Drafts(kind)
  BY DEF CfgBodies
<1>2. CfgFound("export") = CfgHalves /\ CfgFound("import") = ConfigTransferPayload
  BY DEF CfgFound
<1> QED BY <1>1, <1>2

LEMMA CfgOps ==
  /\ CfgOpsOf("tunnel") = {"load", "save", "action"} /\ CfgOpsOf("local") = {"load", "save"}
  /\ CfgOpsOf("node") = {"load", "save"} /\ CfgOpsOf("peer") = {"load", "create", "edit", "remove"}
  /\ CfgOpsOf("transfer") = {"export", "import"} /\ CfgOpsOf("api") = {}
BY DEF CfgOpsOf

\* What a step leaves alone: the kind of the page, and the types of the others.
LEMMA CfgKeeps ==
  ASSUME MockTyped, cfgPage' \in CfgViews(cfgPage.kind), cfgPage'.kind = cfgPage.kind,
         cfgCalls' \in [Slots -> CfgCallSet(cfgPage.kind)],
         store' \in CfgStores, cfgPage.kind \in {"transfer", "api"} => store'.peers # <<>>
  PROVE  MockTyped'
<1>1. cfgPage' \in CfgViews(cfgPage'.kind) /\ cfgCalls' \in [Slots -> CfgCallSet(cfgPage'.kind)]
  OBVIOUS
<1>2. cfgPage'.kind \in CfgKinds /\ (cfgPage'.kind \in {"transfer", "api"} => store'.peers # <<>>)
  BY DEF MockTyped
<1> QED BY <1>1, <1>2 DEF MockTyped

LEMMA CfgBegunTyped ==
  ASSUME MockTyped, ClicksTyped, NEW op \in CfgOpsOf(cfgPage.kind),
         NEW act \in CfgActs(op, cfgPage.kind), NEW get \in CfgGets(cfgPage.kind),
         CfgBegin(op, act, get),
         cfgPage' \in CfgViews(cfgPage.kind), cfgPage'.kind = cfgPage.kind
  PROVE  MockTyped' /\ ClicksTyped'
<1> DEFINE call == [op |-> op, act |-> act, get |-> get]
<1>1. call \in CfgHandlers(op, cfgPage.kind)
  BY DEF CfgHandlers
<1>2. call \in CfgCallSet(cfgPage.kind)
  BY <1>1 DEF CfgCallSet
<1>3. PICK s \in Slots : cfgCalls' = [cfgCalls EXCEPT ![s] = call]
  BY DEF CfgBegin, Free, Put
<1> HIDE DEF call
<1>4. cfgCalls' \in [Slots -> CfgCallSet(cfgPage.kind)]
  BY <1>2, <1>3, SlotTyped DEF MockTyped
<1>5. store' = store /\ store \in CfgStores /\ (cfgPage.kind \in {"transfer", "api"} => store.peers # <<>>)
  BY DEF CfgBegin, MockTyped
<1>6. MockTyped'
  BY <1>4, <1>5, CfgKeeps
<1> QED BY <1>6, ClickTyped DEF CfgBegin

LEMMA CfgGoesOn ==
  ASSUME MockTyped, NEW s \in Slots, cfgCalls[s].op # "idle",
         \/ cfgCalls' = Put(cfgCalls, s, Idle)
         \/ \E r \in CfgActs(cfgCalls[s].op, cfgPage.kind) : cfgCalls' = [cfgCalls EXCEPT ![s].act = r]
         \/ \E r \in CfgGets(cfgPage.kind) : cfgCalls' = [cfgCalls EXCEPT ![s].get = r]
  PROVE  cfgCalls' \in [Slots -> CfgCallSet(cfgPage.kind)]
<1> DEFINE kind == cfgPage.kind
           op == cfgCalls[s].op
<1>1. cfgCalls \in [Slots -> CfgCallSet(kind)] /\ cfgCalls[s] \in CfgCallSet(kind)
  BY DEF MockTyped
<1>2. op \in CfgOpsOf(kind) /\ cfgCalls[s] \in CfgHandlers(op, kind)
  BY <1>1, CfgKnown
<1> HIDE DEF op
<1>3. Idle \in CfgCallSet(kind) /\ \A c \in CfgHandlers(op, kind) : c \in CfgCallSet(kind)
  BY <1>2 DEF CfgCallSet
<1>4. /\ \A r \in CfgActs(op, kind) : [cfgCalls[s] EXCEPT !.act = r] \in CfgHandlers(op, kind)
      /\ \A r \in CfgGets(kind) : [cfgCalls[s] EXCEPT !.get = r] \in CfgHandlers(op, kind)
  BY <1>2 DEF CfgHandlers
<1>5. \E c \in CfgCallSet(kind) : cfgCalls' = [cfgCalls EXCEPT ![s] = c]
  <2>1. CASE cfgCalls' = Put(cfgCalls, s, Idle)
    BY <1>3, <2>1 DEF Put
  <2>2. ASSUME NEW r \in CfgActs(op, kind), cfgCalls' = [cfgCalls EXCEPT ![s].act = r]
        PROVE  \E c \in CfgCallSet(kind) : cfgCalls' = [cfgCalls EXCEPT ![s] = c]
    <3>1. cfgCalls' = [cfgCalls EXCEPT ![s] = [cfgCalls[s] EXCEPT !.act = r]]
      BY <2>2
    <3> QED BY <1>3, <1>4, <3>1
  <2>3. ASSUME NEW r \in CfgGets(kind), cfgCalls' = [cfgCalls EXCEPT ![s].get = r]
        PROVE  \E c \in CfgCallSet(kind) : cfgCalls' = [cfgCalls EXCEPT ![s] = c]
    <3>1. cfgCalls' = [cfgCalls EXCEPT ![s] = [cfgCalls[s] EXCEPT !.get = r]]
      BY <2>3
    <3> QED BY <1>3, <1>4, <3>1
  <2> QED BY <2>1, <2>2, <2>3 DEF op
<1> QED BY <1>1, <1>5, SlotTyped

\* The kind of the page, and what it edits when it edits something.
LEMMA DraftTyped ==
  ASSUME MockTyped, NEW kind, Drafted(kind)
  PROVE  cfgPage.kind = kind /\ cfgPage.draft \in Drafts(kind)
BY DEF MockTyped, CfgViews, Drafted, Maybe

LEMMA DraftPut ==
  ASSUME MockTyped, NEW draft \in Drafts(cfgPage.kind)
  PROVE  /\ [cfgPage EXCEPT !.draft = draft] \in CfgViews(cfgPage.kind)
         /\ [cfgPage EXCEPT !.draft = draft].kind = cfgPage.kind
BY DEF MockTyped, CfgViews, Maybe

LEMMA MockTypedStep == MockTyped /\ ClicksTyped /\ MockNext => MockTyped' /\ ClicksTyped'
<1> SUFFICES ASSUME MockTyped, ClicksTyped, MockNext PROVE MockTyped' /\ ClicksTyped'
  OBVIOUS
<1> DEFINE kind == cfgPage.kind
<1>0. /\ store \in CfgStores /\ (kind \in {"transfer", "api"} => store.peers # <<>>)
      /\ kind \in CfgKinds /\ cfgPage \in CfgViews(kind)
      /\ cfgCalls \in [Slots -> CfgCallSet(kind)] /\ \A s \in Slots : cfgCalls[s] \in CfgCallSet(kind)
  BY DEF MockTyped
<1>a. clicks' = clicks \/ Click => ClicksTyped'
  BY ClickTyped DEF ClicksTyped
<1>b. ASSUME NEW s \in Slots, cfgCalls[s].op # "idle"
      PROVE  /\ cfgCalls[s].op \in CfgOpsOf(kind)
             /\ cfgCalls[s].act.at = "sent" => cfgCalls[s].act.with \in CfgBodies(cfgCalls[s].op, kind)
             /\ cfgCalls[s].act.at = "read" => cfgCalls[s].act.with \in CfgFound(cfgCalls[s].op)
             /\ cfgCalls[s].get.at = "served" => cfgCalls[s].get.with \in Drafts(kind)
  <2>1. /\ cfgCalls[s].op \in CfgOpsOf(kind) /\ cfgCalls[s].act \in CfgActs(cfgCalls[s].op, kind)
        /\ cfgCalls[s].get \in CfgGets(kind)
    BY <1>0, <1>b, CfgKnown
  <2> QED BY <2>1, CfgCarries
<1>c. ASSUME NEW s \in Slots, cfgCalls[s].op \notin {"idle", "import", "export"}
      PROVE  kind \in {"tunnel", "local", "peer", "node"}
  <2>1. cfgCalls[s].op \in CfgOpsOf(kind)
    BY <1>b, <1>c
  <2>2. kind # "transfer" /\ kind # "api"
    BY <1>c, <2>1, CfgOps
  <2> QED BY <1>0, <2>2 DEF CfgKinds
<1>1. CASE TunnelLoad \/ LocalLoad \/ PeerLoad \/ NodeConfigLoad
  <2>1. /\ kind \in {"tunnel", "local", "peer", "node"} /\ CfgBegin("load", Unsent, Sent(Nothing))
        /\ cfgPage' = cfgPage
    BY <1>1 DEF TunnelLoad, LocalLoad, PeerLoad, NodeConfigLoad, CfgLoad
  <2>2. "load" \in CfgOpsOf(kind)
    BY <2>1, CfgOps
  <2> QED BY <1>0, <2>1, <2>2, CfgBegunTyped, CfgMade
<1>2. CASE TunnelSave \/ LocalSave \/ NodeConfigSave
  <2>1. /\ kind \in {"tunnel", "local", "node"} /\ cfgPage.draft \in Drafts(kind)
        /\ CfgBegin("save", Sent(cfgPage.draft), Unsent) /\ cfgPage' = [cfgPage EXCEPT !.saving = TRUE]
    BY <1>2, DraftTyped DEF TunnelSave, LocalSave, NodeConfigSave
  <2>2. "save" \in CfgOpsOf(kind)
    BY <2>1, CfgOps
  <2>3. Sent(cfgPage.draft) \in CfgActs("save", kind)
    BY <2>1, CfgMade, CfgBodiesOf
  <2>4. cfgPage' \in CfgViews(kind) /\ cfgPage'.kind = cfgPage.kind
    BY <1>0, <2>1 DEF CfgViews
  <2> QED BY <2>1, <2>2, <2>3, <2>4, CfgBegunTyped, CfgMade
<1>3. CASE TunnelAction
  <2>1. "action" \in CfgOpsOf(kind) /\ Sent(Nothing) \in CfgActs("action", kind)
    BY <1>3, CfgOps, CfgMade, CfgBodiesOf DEF TunnelAction
  <2>2. cfgPage' \in CfgViews(kind) /\ cfgPage'.kind = cfgPage.kind
    BY <1>0, <1>3 DEF TunnelAction, CfgViews
  <2> QED BY <1>3, <2>1, <2>2, CfgBegunTyped, CfgMade DEF TunnelAction
<1>4. CASE PeerOpen
  <2>1. PICK mode \in {"create", "edit"} : cfgPage' = [cfgPage EXCEPT !.open = mode]
    BY <1>4 DEF PeerOpen
  <2>2. cfgPage' \in CfgViews(kind) /\ cfgPage'.kind = cfgPage.kind
    BY <1>0, <2>1 DEF CfgViews
  <2> QED BY <1>0, <1>4, <1>a, <2>2, CfgKeeps DEF PeerOpen
<1>5. CASE PeerSave \/ PeerRemove
  <2>1. Drafted("peer") /\ cfgPage' = cfgPage
    BY <1>5 DEF PeerSave, PeerRemove
  <2>2. kind = "peer" /\ cfgPage.draft \in Seq(MockNodes)
    BY <2>1, DraftTyped, DraftsOf
  <2>3. \A p \in ToSet(cfgPage.draft) : p \in MockNodes
    BY <2>2 DEF ToSet
  <2>4. PICK op \in {"create", "edit", "remove"}, p \in MockNodes : CfgBegin(op, Sent(p), Unsent)
    <3>1. CASE PeerRemove
      BY <2>3, <3>1, Zenon DEF PeerRemove
    <3>2. CASE PeerSave
      <4> DEFINE ids == IF cfgPage.open = "create" THEN NodeIds ELSE {p.id : p \in ToSet(cfgPage.draft)}
      <4>1. PICK id \in ids, address \in Addresses :
              CfgBegin(cfgPage.open, Sent([id |-> id, ip |-> address]), Unsent)
        BY <3>2 DEF PeerSave
      <4>2. \A p \in ToSet(cfgPage.draft) : p.id \in NodeIds \cup {""}
        BY <2>3 DEF MockNodes
      <4>3. id \in NodeIds \cup {""}
        BY <4>1, <4>2
      <4>4. [id |-> id, ip |-> address] \in MockNodes
        BY <4>3 DEF MockNodes
      <4>5. cfgPage.open \in {"create", "edit"}
        BY <1>0, <3>2 DEF PeerSave, CfgViews
      <4> QED BY <4>1, <4>4, <4>5, Zenon
    <3> QED BY <1>5, <3>1, <3>2
  <2>5. op \in CfgOpsOf(kind)
    BY <2>2, <2>4, CfgOps
  <2>6. Sent(p) \in CfgActs(op, kind)
    BY <2>4, CfgMade, CfgBodiesOf
  <2> QED BY <1>0, <2>1, <2>4, <2>5, <2>6, CfgBegunTyped, CfgMade
<1>6. CASE TunnelEdit \/ LocalEdit \/ NodeConfigEdit
  <2>1. PICK draft \in Drafts(kind) : cfgPage' = [cfgPage EXCEPT !.draft = draft]
    <3>1. CASE TunnelEdit
      <4>1. PICK mode \in MockModes : cfgPage' = [cfgPage EXCEPT !.draft = mode]
        BY <3>1 DEF TunnelEdit
      <4>2. MockModes = Drafts(kind)
        BY <3>1, DraftTyped, DraftsOf DEF TunnelEdit
      <4> QED BY <4>1, <4>2
    <3>2. CASE LocalEdit
      <4>1. PICK address \in Addresses : cfgPage' = [cfgPage EXCEPT !.draft.ip = address]
        BY <3>2 DEF LocalEdit
      <4>2. Drafts(kind) = MockNodes /\ cfgPage.draft \in MockNodes
        BY <3>2, DraftTyped, DraftsOf DEF LocalEdit
      <4>3. [cfgPage.draft EXCEPT !.ip = address] \in MockNodes
        BY <4>2 DEF MockNodes
      <4> QED BY <4>1, <4>2, <4>3
    <3>3. CASE NodeConfigEdit
      <4>1. PICK id \in NodeIds : cfgPage' = [cfgPage EXCEPT !.draft.peer.id = id]
        BY <3>3 DEF NodeConfigEdit
      <4>2. Drafts(kind) = NodeConfigPayload /\ cfgPage.draft \in NodeConfigPayload
        BY <3>3, DraftTyped, DraftsOf DEF NodeConfigEdit
      <4>3. [cfgPage.draft.peer EXCEPT !.id = id] \in MockNodes
        BY <4>2 DEF NodeConfigPayload, MockNodes
      <4>4. [cfgPage.draft EXCEPT !.peer = [cfgPage.draft.peer EXCEPT !.id = id]] \in NodeConfigPayload
        BY <4>2, <4>3 DEF NodeConfigPayload
      <4> QED BY <4>1, <4>2, <4>4
    <3> QED BY <1>6, <3>1, <3>2, <3>3
  <2>2. cfgPage' \in CfgViews(kind) /\ cfgPage'.kind = cfgPage.kind
    BY <2>1, DraftPut
  <2> QED BY <1>0, <1>6, <1>a, <2>2, CfgKeeps DEF TunnelEdit, LocalEdit, NodeConfigEdit
<1>7. CASE ExportBegin
  <2>1. "export" \in CfgOpsOf(kind) /\ Sent(Nothing) \in CfgActs("export", kind)
    BY <1>7, CfgOps, CfgMade, CfgBodiesOf DEF ExportBegin
  <2> QED BY <1>0, <1>7, <2>1, CfgBegunTyped, CfgMade DEF ExportBegin
<1>8. CASE ImportBegin
  <2>1. cfgPage.file \in Drafts(kind)
    <3>1. cfgPage.file \in ConfigTransferPayload
      BY <1>0, <1>8 DEF ImportBegin, CfgViews, Maybe
    <3> QED BY <1>8, <3>1, DraftsOf DEF ImportBegin
  <2>2. "import" \in CfgOpsOf(kind) /\ Sent(cfgPage.file) \in CfgActs("import", kind)
    BY <1>8, <2>1, CfgOps, CfgMade, CfgBodiesOf DEF ImportBegin
  <2> QED BY <1>0, <1>8, <2>2, CfgBegunTyped, CfgMade DEF ImportBegin
<1>9. CASE MockCall
  <2>1. kind \in {"transfer", "api"} /\ store.peers # <<>>
    BY <1>0, <1>9 DEF MockCall
  <2>2. store.local \in MockNodes /\ store.peers \in Seq(MockNodes)
    BY <1>0 DEF CfgStores
  <2>3. store.peers[1] \in MockNodes
    BY <2>1, <2>2
  <2>4. /\ \A address \in Addresses, n \in MockNodes : [n EXCEPT !.ip = address] \in MockNodes
        /\ \A id \in NodeIds, address \in Addresses : [id |-> id, ip |-> address] \in MockNodes
        /\ \A p \in MockNodes : [local |-> store.local, peer |-> p] \in NodeConfigPayload
    BY <2>2 DEF MockNodes, NodeConfigPayload
  <2>5. StoreKept(store')
    <3>1. CASE \E mode \in MockModes : store' = saveTunnelConfigMock(store, mode)
      BY <1>0, <3>1, UpdatesKeep
    <3>2. CASE \E id \in NodeIds, address \in Addresses :
                 store' = saveNodeConfigMock(store, [local |-> store.local, peer |-> [id |-> id, ip |-> address]])
      BY <1>0, <2>4, <3>2, NodeSaveKeeps
    <3>3. CASE \E address \in Addresses :
                 \/ store' = updateLocalNodeMock(store, [store.local EXCEPT !.ip = address])
                 \/ store' = updatePeerMock(store, [store.peers[1] EXCEPT !.ip = address])
      BY <1>0, <2>2, <2>3, <2>4, <3>3, UpdatesKeep
    <3>4. CASE \E ports \in RtpRanges, most \in Transfers : store' = updateNetworkConfigMock(store, ports, most)
      <4>1. RtpRanges \subseteq Nat \X Nat /\ Transfers \subseteq Nat
        BY MockAssumption
      <4> QED BY <1>0, <3>4, <4>1, PortsTyped
    <3> QED BY <1>9, <3>1, <3>2, <3>3, <3>4 DEF MockCall
  <2>6. cfgPage' \in CfgViews(kind) /\ cfgPage'.kind = cfgPage.kind
    BY <1>0, <1>9 DEF MockCall, CfgViews
  <2> QED BY <1>0, <1>9, <1>a, <2>1, <2>5, <2>6, CfgKeeps DEF MockCall, StoreKept
<1>10. CASE SnapshotCall
  <2>1. StoreKept(store')
    BY <1>0, <1>10, SnapsTyped DEF SnapshotCall
  <2> QED BY <1>0, <1>10, <1>a, <2>1, CfgKeeps DEF SnapshotCall, StoreKept
<1>11. CASE JobCall
  <2>1. StoreKept(store')
    BY <1>0, <1>11, JobsKeep DEF JobCall
  <2> QED BY <1>0, <1>11, <1>a, <2>1, CfgKeeps DEF JobCall, StoreKept
<1>12. ASSUME NEW s \in Slots, CfgServeAct(s) PROVE MockTyped' /\ ClicksTyped'
  <2> DEFINE call == cfgCalls[s]
             with == call.act.with
             found == call.op = "edit" => IndexOf(store.peers, with.id) > 0
  <2>1. call.op \notin {"idle", "import", "export"} /\ call.act.at = "sent"
    BY <1>12 DEF CfgServeAct
  <2>2. call.op \in CfgOpsOf(kind) /\ with \in CfgBodies(call.op, kind)
    BY <1>b, <2>1
  <2>3. kind \in {"tunnel", "local", "peer", "node"}
    BY <1>c, <2>1
  <2>4. call.op # "load"
    BY <2>2, CfgBodiesOf
  <2>5. call.op \in {"save", "action", "create", "edit", "remove"}
        /\ (call.op = "save" => kind \in {"tunnel", "local", "node"})
    BY <2>2, <2>3, <2>4, CfgOps
  <2>6. store' = CASE call.op = "action" \/ ~found -> store
                [] call.op = "create" -> createPeerMock(store, with)
                [] call.op = "edit" /\ found -> updatePeerMock(store, with)
                [] call.op = "remove" -> deletePeerMock(store, with.id)
                [] call.op = "save" /\ cfgPage.kind = "tunnel" -> saveTunnelConfigMock(store, with)
                [] call.op = "save" /\ cfgPage.kind = "local" -> updateLocalNodeMock(store, with)
                [] call.op = "save" /\ cfgPage.kind = "node" -> saveNodeConfigMock(store, with)
    BY <1>12 DEF CfgServeAct
  <2>7. found \/ call.op = "edit"
    OBVIOUS
  <2>8. cfgCalls' = [cfgCalls EXCEPT ![s].act = Served(Nothing)] \/ cfgCalls' = Put(cfgCalls, s, Idle)
    BY <1>12 DEF CfgServeAct
  <2> HIDE DEF found
  <2>9. cfgCalls' \in [Slots -> CfgCallSet(kind)]
    BY <2>1, <2>8, CfgGoesOn, CfgMade
  <2>10. store' \in CfgStores
    <3>1. CASE call.op = "action" \/ ~found
      BY <1>0, <2>6, <2>7, <3>1
    <3>2. CASE call.op = "create"
      <4>1. store' = createPeerMock(store, with) /\ with \in MockNodes
        BY <2>2, <2>6, <2>7, <3>2, CfgBodiesOf
      <4> QED BY <1>0, <4>1, UpdatesKeep DEF StoreKept
    <3>3. CASE call.op = "edit" /\ found
      <4>1. store' = updatePeerMock(store, with) /\ with \in MockNodes
        BY <2>2, <2>6, <3>3, CfgBodiesOf
      <4> QED BY <1>0, <4>1, UpdatesKeep DEF StoreKept
    <3>4. CASE call.op = "remove"
      <4>1. store' = deletePeerMock(store, with.id)
        BY <2>6, <2>7, <3>4
      <4> QED BY <1>0, <4>1, UpdatesKeep
    <3>5. CASE call.op = "save" /\ kind = "tunnel"
      <4>1. store' = saveTunnelConfigMock(store, with) /\ with \in MockModes
        BY <2>2, <2>6, <2>7, <3>5, CfgBodiesOf, DraftsOf
      <4> QED BY <1>0, <4>1, UpdatesKeep DEF StoreKept
    <3>6. CASE call.op = "save" /\ kind = "local"
      <4>1. store' = updateLocalNodeMock(store, with) /\ with \in MockNodes
        BY <2>2, <2>6, <2>7, <3>6, CfgBodiesOf, DraftsOf
      <4> QED BY <1>0, <4>1, UpdatesKeep DEF StoreKept
    <3>7. CASE call.op = "save" /\ kind = "node"
      <4>1. store' = saveNodeConfigMock(store, with) /\ with \in NodeConfigPayload
        BY <2>2, <2>6, <2>7, <3>7, CfgBodiesOf, DraftsOf
      <4> QED BY <1>0, <4>1, NodeSaveKeeps DEF StoreKept
    <3> QED BY <2>5, <3>1, <3>2, <3>3, <3>4, <3>5, <3>6, <3>7
  <2>11. cfgPage' = cfgPage /\ clicks' = clicks
    BY <1>12 DEF CfgServeAct
  <2> QED BY <1>0, <1>a, <2>3, <2>9, <2>10, <2>11, CfgKeeps
<1>13. ASSUME NEW s \in Slots, CfgActed(s) PROVE MockTyped' /\ ClicksTyped'
  <2>1. cfgCalls[s].op # "idle" /\ cfgCalls' = [cfgCalls EXCEPT ![s].get = Sent(Nothing)]
    BY <1>13 DEF CfgActed
  <2>2. cfgCalls' \in [Slots -> CfgCallSet(kind)]
    BY <2>1, CfgGoesOn, CfgMade
  <2> DEFINE open == IF cfgCalls[s].op \in {"create", "edit"} THEN "" ELSE cfgPage.open
  <2>3. open \in {"", "create", "edit"}
    BY <1>0 DEF CfgViews
  <2>4. cfgPage' = [cfgPage EXCEPT !.open = open]
    BY <1>13 DEF CfgActed
  <2> HIDE DEF open
  <2>5. cfgPage' \in CfgViews(kind) /\ cfgPage'.kind = cfgPage.kind
    BY <1>0, <2>3, <2>4 DEF CfgViews
  <2> QED BY <1>0, <1>13, <1>a, <2>2, <2>5, CfgKeeps DEF CfgActed
<1>14. ASSUME NEW s \in Slots, CfgServeGet(s) PROVE MockTyped' /\ ClicksTyped'
  <2>1. /\ cfgCalls[s].op \notin {"idle", "import", "export"}
        /\ cfgCalls' = [cfgCalls EXCEPT ![s].get = Served(Fetched)]
    BY <1>14 DEF CfgServeGet
  <2>2. kind \in {"tunnel", "local", "peer", "node"}
    BY <1>c, <2>1
  <2>3. Fetched \in Drafts(kind)
    <3>1. store.tunnel.mode \in MockModes /\ store.local \in MockNodes /\ store.peers \in Seq(MockNodes)
      BY <1>0 DEF CfgStores, TunnelConfigs
    <3>2. fetchNodeConfigMock(store) \in NodeConfigPayload
      BY <1>0, NodeFetched
    <3>3. /\ kind = "tunnel" => Fetched = store.tunnel.mode
          /\ kind = "local" => Fetched = store.local
          /\ kind = "peer" => Fetched = store.peers
          /\ kind = "node" => Fetched = fetchNodeConfigMock(store)
      BY DEF Fetched
    <3> QED BY <2>2, <3>1, <3>2, <3>3, DraftsOf
  <2>4. cfgCalls' \in [Slots -> CfgCallSet(kind)]
    BY <2>1, <2>3, CfgGoesOn, CfgMade
  <2> QED BY <1>0, <1>14, <1>a, <2>4, CfgKeeps DEF CfgServeGet
<1>15. ASSUME NEW s \in Slots, CfgLoaded(s) PROVE MockTyped' /\ ClicksTyped'
  <2> DEFINE a == cfgPage.saving /\ cfgCalls[s].op # "save"
             b == cfgPage.acting /\ cfgCalls[s].op # "action"
             got == cfgCalls[s].get.with
  <2>1. cfgCalls[s].op # "idle" /\ cfgCalls[s].get.at = "served" /\ cfgCalls' = Put(cfgCalls, s, Idle)
    BY <1>15 DEF CfgLoaded
  <2>2. got \in Drafts(kind) /\ a \in BOOLEAN /\ b \in BOOLEAN
    BY <1>b, <2>1
  <2>3. cfgPage' = [cfgPage EXCEPT !.draft = got, !.saving = a, !.acting = b]
    BY <1>15 DEF CfgLoaded
  <2> HIDE DEF a, b, got
  <2>4. cfgPage' \in CfgViews(kind) /\ cfgPage'.kind = cfgPage.kind
    BY <1>0, <2>2, <2>3 DEF CfgViews, Maybe
  <2>5. cfgCalls' \in [Slots -> CfgCallSet(kind)]
    BY <2>1, CfgGoesOn
  <2> QED BY <1>0, <1>15, <1>a, <2>4, <2>5, CfgKeeps DEF CfgLoaded
<1>16. ASSUME NEW s \in Slots, exportConfigJsonMock(s) PROVE MockTyped' /\ ClicksTyped'
  <2> DEFINE net == [ports |-> store.net.ports, most |-> store.net.most]
             half == [net |-> net, tunnel |-> store.tunnel]
             act == cfgCalls[s].act
             file == [net |-> act.with.net, tunnel |-> act.with.tunnel, node |-> fetchNodeConfigMock(store)]
  <2>1. cfgCalls[s].op = "export" /\ store' = store /\ clicks' = clicks
    BY <1>16 DEF exportConfigJsonMock
  <2>2. \/ /\ cfgCalls' = [cfgCalls EXCEPT ![s].act = Read(half)] /\ cfgPage' = cfgPage
        \/ /\ act.at = "read" /\ cfgPage' = [cfgPage EXCEPT !.file = file]
           /\ cfgCalls' = Put(cfgCalls, s, Idle)
    BY <1>16 DEF exportConfigJsonMock
  <2>3. half \in CfgHalves
    <3>1. store.net \in NetworkConfigPayload /\ store.tunnel \in TunnelConfigs
      BY <1>0 DEF CfgStores
    <3>2. net \in UpdateNetworkConfigPayload
      BY <3>1 DEF NetworkConfigPayload, UpdateNetworkConfigPayload
    <3> HIDE DEF net
    <3> QED BY <3>1, <3>2 DEF CfgHalves
  <2>4. Read(half) \in CfgActs("export", kind)
    <3> HIDE DEF half
    <3> QED BY <2>3, CfgMade, CfgBodiesOf
  <2>5. act.at = "read" => act.with \in CfgHalves
    BY <1>b, <2>1, CfgBodiesOf
  <2>6. act.at = "read" => file \in ConfigTransferPayload
    BY <1>0, <2>5, NodeFetched DEF CfgHalves, ConfigTransferPayload
  <2> HIDE DEF half, file, act
  <2>7. cfgPage' \in CfgViews(kind) /\ cfgPage'.kind = cfgPage.kind
    <3>1. CASE cfgPage' = cfgPage
      BY <1>0, <3>1
    <3>2. CASE act.at = "read" /\ cfgPage' = [cfgPage EXCEPT !.file = file]
      <4>1. file \in Maybe(ConfigTransferPayload)
        BY <2>6, <3>2 DEF Maybe
      <4> QED BY <1>0, <3>2, <4>1 DEF CfgViews
    <3> QED BY <2>2, <3>1, <3>2
  <2>8. cfgCalls' \in [Slots -> CfgCallSet(kind)]
    BY <2>1, <2>2, <2>4, CfgGoesOn
  <2> QED BY <1>0, <1>a, <2>1, <2>7, <2>8, CfgKeeps
<1>17. ASSUME NEW s \in Slots, importConfigJsonMock(s) PROVE MockTyped' /\ ClicksTyped'
  <2> DEFINE act == cfgCalls[s].act
             file == act.with
  <2>1. cfgCalls[s].op = "import" /\ clicks' = clicks
    BY <1>17 DEF importConfigJsonMock
  <2>2. kind = "transfer"
    <3>1. cfgCalls[s].op \in CfgOpsOf(kind)
      BY <1>b, <2>1
    <3> QED BY <1>0, <2>1, <3>1, CfgOps DEF CfgKinds
  <2>3. act.at \in {"sent", "read"}
    BY <1>17 DEF importConfigJsonMock
  <2>4. file \in ConfigTransferPayload
    <3>1. /\ act.at = "sent" => file \in CfgBodies("import", kind)
          /\ act.at = "read" => file \in CfgFound("import")
      BY <1>b, <2>1
    <3> QED BY <2>2, <2>3, <3>1, CfgBodiesOf, DraftsOf
  <2>5. CASE act.at = "sent"
    <3>1. /\ store' = [store EXCEPT !.net.ports = file.net.ports, !.net.most = file.net.most,
                                    !.tunnel = file.tunnel]
          /\ cfgCalls' = [cfgCalls EXCEPT ![s].act = Read(file)]
          /\ cfgPage' = [cfgPage EXCEPT !.raced = FALSE]
      BY <1>17, <2>5 DEF importConfigJsonMock
    <3> DEFINE net == [store.net EXCEPT !.ports = file.net.ports, !.most = file.net.most]
    <3>2. store' = [store EXCEPT !.net = net, !.tunnel = file.tunnel]
      BY <1>0, <3>1 DEF CfgStores
    <3> HIDE DEF file
    <3>3. net \in NetworkConfigPayload /\ file.tunnel \in TunnelConfigs
      <4>1. store.net \in NetworkConfigPayload
        BY <1>0 DEF CfgStores
      <4>2. file.net \in UpdateNetworkConfigPayload /\ file.tunnel \in TunnelConfigs
        BY <2>4 DEF ConfigTransferPayload
      <4>3. file.net.ports \in Nat \X Nat /\ file.net.most \in Nat
        BY <4>2 DEF UpdateNetworkConfigPayload
      <4>4. net \in NetworkConfigPayload
        BY <4>1, <4>3 DEF NetworkConfigPayload
      <4> QED BY <4>2, <4>4
    <3> HIDE DEF net
    <3>4. store' \in CfgStores /\ store'.peers = store.peers
      BY <1>0, <3>2, <3>3 DEF CfgStores
    <3>5. cfgPage' \in CfgViews(kind) /\ cfgPage'.kind = cfgPage.kind
      BY <1>0, <3>1 DEF CfgViews
    <3>6. Read(file) \in CfgActs("import", kind)
      BY <2>4, CfgMade, CfgBodiesOf
    <3>7. cfgCalls' \in [Slots -> CfgCallSet(kind)]
      BY <2>1, <3>1, <3>6, CfgGoesOn
    <3> QED BY <1>0, <1>a, <2>1, <3>4, <3>5, <3>7, CfgKeeps
  <2>6. CASE act.at = "read"
    <3> DEFINE r == cfgPage.raced \/ \E t \in Slots \ {s} : cfgCalls[t].op = "import"
    <3>1. /\ store' = saveNodeConfigMock(store, file.node)
          /\ cfgCalls' = Put(cfgCalls, s, Idle)
          /\ cfgPage' = [cfgPage EXCEPT !.draft = file, !.raced = r]
      BY <1>17, <2>6 DEF importConfigJsonMock
    <3>2. r \in BOOLEAN
      OBVIOUS
    <3> HIDE DEF file, r
    <3>3. file.node \in NodeConfigPayload
      BY <2>4 DEF ConfigTransferPayload
    <3>4. StoreKept(store')
      BY <1>0, <3>1, <3>3, NodeSaveKeeps
    <3>5. file \in Maybe(Drafts(kind))
      BY <2>2, <2>4, DraftsOf DEF Maybe
    <3>6. cfgPage' \in CfgViews(kind) /\ cfgPage'.kind = cfgPage.kind
      BY <1>0, <3>1, <3>2, <3>5 DEF CfgViews
    <3>7. cfgCalls' \in [Slots -> CfgCallSet(kind)]
      BY <2>1, <3>1, CfgGoesOn
    <3> QED BY <1>0, <1>a, <2>1, <3>4, <3>6, <3>7, CfgKeeps DEF StoreKept
  <2> QED BY <2>3, <2>5, <2>6
<1> QED BY <1>1, <1>2, <1>3, <1>4, <1>5, <1>6, <1>7, <1>8, <1>9, <1>10, <1>11, <1>12, <1>13, <1>14,
           <1>15, <1>16, <1>17 DEF MockNext

LEMMA MockTypedInit == ASSUME MockInit(MockStores) PROVE MockTyped
<1>1. PICK x \in MockStores :
       /\ store = [local |-> localNodeState(x.mine, x.ip), peers |-> peerNodeState(x.other, x.ip),
                   tunnel |-> tunnelConfigState("SENDER_SIP__RECEIVER_RTP"), net |-> networkConfigState,
                   snaps |-> configSnapshotsSeed, job |-> Nothing]
       /\ cfgPage = [kind |-> x.kind, draft |-> Nothing, saving |-> FALSE, acting |-> FALSE,
                     open |-> "", file |-> Nothing, raced |-> FALSE]
  BY DEF MockInit
<1>2. x.kind \in CfgKinds /\ x.mine \in NodeIds /\ x.other \in NodeIds /\ x.ip \in Addresses
  BY DEF MockStores, CfgKinds
<1>3. localNodeState(x.mine, x.ip) \in MockNodes
  BY <1>2 DEF localNodeState, MockNodes
<1>4. peerNodeState(x.other, x.ip) \in Seq(MockNodes) /\ peerNodeState(x.other, x.ip) # <<>>
  <2> DEFINE p == [id |-> x.other, ip |-> x.ip]
  <2>1. p \in MockNodes
    BY <1>2 DEF MockNodes
  <2>2. peerNodeState(x.other, x.ip) = <<p>>
    BY DEF peerNodeState
  <2> HIDE DEF p
  <2>3. <<p>> \in Seq(MockNodes) /\ <<p>> # <<>>
    BY <2>1
  <2> QED BY <2>2, <2>3
<1>5. tunnelConfigState("SENDER_SIP__RECEIVER_RTP") \in TunnelConfigs
  BY MockAssumption, TunnelTyped
<1>6. networkConfigState \in NetworkConfigPayload
  BY DEF networkConfigState, NetworkConfigPayload
<1>7. configSnapshotsSeed \in [Versions -> {"active", "archived"}]
  BY DEF configSnapshotsSeed
<1>8. Nothing \in Maybe(DiagnosticExportJob) /\ Nothing \in Maybe(ConfigTransferPayload)
      /\ Nothing \in Maybe(Drafts(x.kind))
  BY DEF Maybe
<1>9. store \in CfgStores /\ store.peers # <<>>
  BY <1>1, <1>3, <1>4, <1>5, <1>6, <1>7, <1>8 DEF CfgStores
<1>10. cfgPage.kind = x.kind /\ cfgPage \in CfgViews(x.kind)
  BY <1>1, <1>2, <1>8 DEF CfgViews
<1>11. cfgCalls \in [Slots -> CfgCallSet(cfgPage.kind)]
  BY DEF MockInit, NoCalls, CfgCallSet
<1> QED BY <1>2, <1>9, <1>10, <1>11 DEF MockTyped

LEMMA MockTypesHold == MockTyped => MockTypeOK
<1> SUFFICES ASSUME MockTyped PROVE MockTypeOK
  OBVIOUS
<1> DEFINE kind == cfgPage.kind
<1>1. /\ kind \in CfgKinds /\ cfgPage \in CfgViews(kind) /\ store \in CfgStores
      /\ \A s \in Slots : cfgCalls[s] \in CfgCallSet(kind)
  BY DEF MockTyped
<1>2. ASSUME NEW s \in Slots, cfgCalls[s] # Idle
      PROVE  LET op == cfgCalls[s].op IN
             /\ op \in {"load", "save", "action", "create", "edit", "remove", "export", "import"}
             /\ cfgCalls[s].act \in
                  Requests(Maybe(IF op \in {"create", "edit", "remove"} THEN MockNodes ELSE Drafts(kind)),
                           IF op = "import" THEN ConfigTransferPayload ELSE CfgHalves, {Nothing})
             /\ cfgCalls[s].get \in Requests({Nothing}, {}, Drafts(kind))
  <2>1. PICK op \in CfgOpsOf(kind) : cfgCalls[s] \in CfgHandlers(op, kind)
    BY <1>1, <1>2 DEF CfgCallSet
  <2>2. cfgCalls[s].op = op /\ cfgCalls[s].act \in CfgActs(op, kind) /\ cfgCalls[s].get \in CfgGets(kind)
    BY <2>1 DEF CfgHandlers
  <2>3. op \in {"load", "save", "action", "create", "edit", "remove", "export", "import"}
    BY <1>1, <2>1, CfgOps DEF CfgKinds
  <2> DEFINE wide == Maybe(IF op \in {"create", "edit", "remove"} THEN MockNodes ELSE Drafts(kind))
             found == IF op = "import" THEN ConfigTransferPayload ELSE CfgHalves
  <2>4. CfgBodies(op, kind) \subseteq wide
    BY <2>3 DEF CfgBodies, Maybe
  <2>5. CfgFound(op) = found
    BY DEF CfgFound
  <2> HIDE DEF wide, found
  <2>6. CfgActs(op, kind) \subseteq Requests(wide, found, {Nothing})
    BY <2>4, <2>5, RequestsWiden DEF CfgActs
  <2> QED BY <2>2, <2>3, <2>6 DEF CfgGets, wide, found
<1> QED BY <1>1, <1>2 DEF MockTypeOK, CfgKinds, CfgViews, CfgStores, CfgHalves

-----------------------------------------------------------------------------
(* The console.                                                            *)

PageTyped ==
  /\ route = "settings" => SettingsTyped
  /\ route = "nodes" => NodesTyped
  /\ route \in {"protection", "limits"} => ProtectionTyped
  /\ route = "mapping" => MappingTyped
  /\ route = "resource" => ResourceTyped
  /\ route = "lists" => ListTyped
  /\ route = "monitor" => MonitorTyped
  /\ route = "mock" => MockTyped

ConsoleTyped == route \in DOMAIN Budget /\ ClicksTyped /\ GatewayTypeOK /\ PageTyped

LEMMA PagesStill ==
  /\ SettingsTyped /\ UNCHANGED <<clicks, settingsPageVars>> => SettingsTyped'
  /\ NodesTyped /\ UNCHANGED nodesVars => NodesTyped'
  /\ ProtectionTyped /\ UNCHANGED protectionVars => ProtectionTyped'
  /\ MappingTyped /\ UNCHANGED mappingVars => MappingTyped'
  /\ ResourceTyped /\ UNCHANGED resourceVars => ResourceTyped'
  /\ ListTyped /\ UNCHANGED listVars => ListTyped'
  /\ MonitorTyped /\ UNCHANGED monitorVars => MonitorTyped'
  /\ MockTyped /\ UNCHANGED mockVars => MockTyped'
<1>1. SettingsTyped /\ UNCHANGED <<clicks, settingsPageVars>> => SettingsTyped'
  BY DEF SettingsTyped, SettingsShaped, RestartsCounted, settingsPageVars
<1>2. NodesTyped /\ UNCHANGED nodesVars => NodesTyped'
  BY DEF NodesTyped, nodesVars
<1>3. ProtectionTyped /\ UNCHANGED protectionVars => ProtectionTyped'
  BY DEF ProtectionTyped, ProtShaped, PolicyShaped, protectionVars
<1>4. MappingTyped /\ UNCHANGED mappingVars => MappingTyped'
  BY DEF MappingTyped, mappingVars
<1>5. ResourceTyped /\ UNCHANGED resourceVars => ResourceTyped'
  BY DEF ResourceTyped, resourceVars
<1>6. ListTyped /\ UNCHANGED listVars => ListTyped'
  BY DEF ListTyped, listVars
<1>7. MonitorTyped /\ UNCHANGED monitorVars => MonitorTyped'
  BY DEF MonitorTyped, monitorVars
<1>8. MockTyped /\ UNCHANGED mockVars => MockTyped'
  BY DEF MockTyped, mockVars
<1> QED BY <1>1, <1>2, <1>3, <1>4, <1>5, <1>6, <1>7, <1>8

LEMMA TypedStep == ConsoleTyped /\ [Next]_vars => ConsoleTyped'
<1> SUFFICES ASSUME ConsoleTyped, [Next]_vars PROVE ConsoleTyped'
  OBVIOUS
<1>0. route' = route /\ route \in DOMAIN Budget /\ ClicksTyped /\ GatewayTypeOK /\ PageTyped
  BY DEF ConsoleTyped, Next, vars
<1>1. CASE UNCHANGED vars
  <2>1. UNCHANGED <<clicks, settingsPageVars>> /\ UNCHANGED nodesVars /\ UNCHANGED protectionVars
        /\ UNCHANGED mappingVars /\ UNCHANGED resourceVars /\ UNCHANGED listVars
        /\ UNCHANGED monitorVars /\ UNCHANGED mockVars /\ UNCHANGED gatewayVars
    BY <1>1 DEF vars
  <2>2. PageTyped'
    BY <1>0, <2>1, PagesStill DEF PageTyped
  <2>3. ClicksTyped'
    BY <1>0, <2>1 DEF ClicksTyped
  <2> QED BY <1>0, <2>1, <2>2, <2>3, GatewayStill DEF ConsoleTyped
<1>2. CASE OnSettings
  <2>1. SettingsTyped' /\ GatewayTypeOK' /\ ClicksTyped'
    BY <1>0, <1>2, SettingsShapedStep, RestartsStep DEF OnSettings, PageTyped, SettingsTyped
  <2> QED BY <1>0, <1>2, <2>1 DEF OnSettings, PageTyped, ConsoleTyped
<1>3. CASE OnNodes
  <2>1. NodesTyped' /\ GatewayTypeOK' /\ ClicksTyped'
    BY <1>0, <1>3, NodesTypedStep DEF OnNodes, PageTyped
  <2> QED BY <1>0, <1>3, <2>1 DEF OnNodes, PageTyped, ConsoleTyped
<1>4. CASE OnProtection \/ OnLimits
  <2>1. ProtectionTyped' /\ GatewayTypeOK' /\ ClicksTyped'
    BY <1>0, <1>4, ProtectionTypedStep DEF OnProtection, OnLimits, PageTyped
  <2> QED BY <1>0, <1>4, <2>1 DEF OnProtection, OnLimits, PageTyped, ConsoleTyped
<1>5. CASE OnMapping
  <2>1. MappingTyped' /\ GatewayTypeOK' /\ ClicksTyped'
    BY <1>0, <1>5, MappingTypedStep, GatewayStill DEF OnMapping, PageTyped
  <2> QED BY <1>0, <1>5, <2>1 DEF OnMapping, PageTyped, ConsoleTyped
<1>6. CASE OnResource
  <2>1. ResourceTyped' /\ GatewayTypeOK' /\ ClicksTyped'
    BY <1>0, <1>6, ResourceTypedStep, GatewayStill DEF OnResource, PageTyped
  <2> QED BY <1>0, <1>6, <2>1 DEF OnResource, PageTyped, ConsoleTyped
<1>7. CASE OnList
  <2>1. ListTyped' /\ GatewayTypeOK' /\ ClicksTyped'
    BY <1>0, <1>7, ListTypedStep, GatewayStill DEF OnList, PageTyped
  <2> QED BY <1>0, <1>7, <2>1 DEF OnList, PageTyped, ConsoleTyped
<1>8. CASE OnMonitor
  <2>1. MonitorTyped' /\ GatewayTypeOK' /\ ClicksTyped'
    BY <1>0, <1>8, MonitorTypedStep, GatewayStill DEF OnMonitor, PageTyped
  <2> QED BY <1>0, <1>8, <2>1 DEF OnMonitor, PageTyped, ConsoleTyped
<1>9. CASE OnMock
  <2>1. MockTyped' /\ GatewayTypeOK' /\ ClicksTyped'
    BY <1>0, <1>9, MockTypedStep, GatewayStill DEF OnMock, PageTyped
  <2> QED BY <1>0, <1>9, <2>1 DEF OnMock, PageTyped, ConsoleTyped
<1> QED BY <1>1, <1>2, <1>3, <1>4, <1>5, <1>6, <1>7, <1>8, <1>9 DEF Next

LEMMA GatewayTypedInit == Init => GatewayTypeOK
<1> SUFFICES ASSUME Init PROVE GatewayTypeOK
  OBVIOUS
<1>1. GatewayStores # {}
  <2>1. PICK k \in Keeps, a \in Accesses, b \in Bandwidths, l \in Limits : TRUE
    BY EnteredValues
  <2>2. [keep |-> k, access |-> a, base |-> b, limit |-> l, writes |-> 0] \in GatewayStores
    BY <2>1 DEF GatewayStores
  <2> QED BY <2>2
<1>2. settings \in GatewayStores
  <2>1. settings \in On(SettingsRoutes, GatewayStores)
    BY DEF Init, GatewayInit
  <2> QED BY <1>1, <2>1 DEF On
<1>3. /\ running = [mbps |-> settings.base, limit |-> settings.limit]
      /\ disk = [keep |-> settings.keep, access |-> settings.access, mbps |-> settings.base]
  BY DEF Init, GatewayInit
<1>4. 0 \in 0 .. MaxWrites /\ Bandwidths \subseteq Nat /\ Limits \subseteq Nat
  BY WritesAssumption, EnteredValues
<1>5. settings \in SystemSettingsPayload
  BY <1>2, <1>4 DEF GatewayStores, SystemSettingsPayload, StoredKeeps, StoredAccesses
<1>6. running \in SystemResourceUsage /\ disk \in SettingsFiles
  BY <1>3, <1>5 DEF SystemSettingsPayload, SystemResourceUsage, SettingsFiles
<1> QED BY <1>5, <1>6 DEF GatewayTypeOK, Maybe

LEMMA TypedInit == Init => ConsoleTyped
<1> SUFFICES ASSUME Init PROVE ConsoleTyped
  OBVIOUS
<1>1. route \in DOMAIN Budget /\ clicks = MaxClicks - Budget[route]
  BY DEF Init
<1>2. Budget[route] \in 0 .. MaxClicks
  BY <1>1, BudgetAssumption
<1>3. ClicksTyped
  BY <1>1, <1>2, ClicksAssumption DEF ClicksTyped
<1>4. \A routes, values : route \in routes => On(routes, values) = values
  BY DEF On
<1>5. route = "settings" => SettingsTyped
  BY <1>3, SettingsTypedInit DEF Init
<1>6. route = "nodes" => NodesTyped
  <2>1. route = "nodes" => NodesInit(NodeStores)
    BY <1>4 DEF Init
  <2> QED BY <2>1, NodesTypedInit
<1>7. route \in {"protection", "limits"} => ProtectionTyped
  <2>1. route \in {"protection", "limits"} => ProtectionInit(ProtectionStores)
    BY <1>4 DEF Init
  <2> QED BY <2>1, ProtectionTypedInit
<1>8. route = "mapping" => MappingTyped
  <2>1. route = "mapping" => MappingInit(Spans)
    BY <1>4 DEF Init
  <2> QED BY <2>1, MappingTypedInit
<1>9. route = "resource" => ResourceTyped
  <2>1. route = "resource" => ResourceInit(ResourceStores)
    BY <1>4 DEF Init
  <2> QED BY <2>1, ResourceTypedInit
<1>10. route = "lists" => ListTyped
  <2>1. route = "lists" => ListInit(ListStores)
    BY <1>4 DEF Init
  <2> QED BY <2>1, ListTypedInit
<1>11. route = "monitor" => MonitorTyped
  <2>1. route = "monitor" => MonitorInit(MonitorStores)
    BY <1>4 DEF Init
  <2> QED BY <2>1, MonitorTypedInit
<1>12. route = "mock" => MockTyped
  <2>1. route = "mock" => MockInit(MockStores)
    BY <1>4 DEF Init
  <2> QED BY <2>1, MockTypedInit
<1> QED BY <1>1, <1>3, <1>5, <1>6, <1>7, <1>8, <1>9, <1>10, <1>11, <1>12, GatewayTypedInit
    DEF ConsoleTyped, PageTyped

LEMMA TypesHold == ConsoleTyped => TypeOK
<1> SUFFICES ASSUME ConsoleTyped PROVE TypeOK
  OBVIOUS
<1>1. route \in DOMAIN Budget /\ clicks \in 0 .. MaxClicks /\ GatewayTypeOK /\ PageTyped
  BY DEF ConsoleTyped, ClicksTyped
<1>2. /\ route = "settings" => SettingsTypeOK
      /\ route = "nodes" => NodesTypeOK
      /\ route \in {"protection", "limits"} => ProtectionTypeOK
      /\ route = "mapping" => MappingTypeOK
      /\ route = "resource" => ResourceTypeOK
      /\ route = "lists" => ListTypeOK
      /\ route = "monitor" => MonitorTypeOK
      /\ route = "mock" => MockTypeOK
  BY SettingsTypesHold, NodesTypesHold, ProtectionTypesHold, MappingTypesHold, ResourceTypesHold,
     ListTypesHold, MonitorTypesHold, MockTypesHold DEF ConsoleTyped, PageTyped
<1> QED BY <1>1, <1>2 DEF TypeOK

\* The gateway's stores, and the mounted page with its handlers, have the shape their types say,
\* for every number of handlers and every set of values (types/gateway.ts).
THEOREM ConsoleTypes == Spec => []TypeOK
<1> QED BY TypedInit, TypedStep, TypesHold, PTL DEF Spec
=============================================================================
