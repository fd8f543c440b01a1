---------------------------- MODULE SettingsProofs ----------------------------
(***************************************************************************)
(* The stored settings of the gateway under the pages that write them: the *)
(* loop of tuning, showing and saving does not run away, what has got into *)
(* the file survives crashes, and "saved and re-read" is true of the form  *)
(* on the screen.                                                          *)
(***************************************************************************)
EXTENDS Console, FiniteSetTheorems, WellFoundedInduction, TLAPS

-----------------------------------------------------------------------------
(* Numbers.                                                                *)

\* A set of natural numbers has a least element.
LEMMA LeastOf ==
  ASSUME NEW T, T \subseteq Nat, T # {}
  PROVE  \E x \in T : \A y \in T : x <= y
<1> DEFINE below == {p \in Nat \X Nat : p[1] < p[2]}
<1>1. IsWellFoundedOn(below, Nat)
  BY NatLessThanWellFounded DEF OpToRel
<1> HIDE DEF below
<1>2. PICK x \in T : \A y \in T : <<y, x>> \notin below
  BY <1>1, WFMin
<1>3. \A y \in T : <<y, x>> \notin below => x <= y
  BY DEF below
<1> QED BY <1>2, <1>3

\* A finite set of natural numbers is bounded: a number without a bound on the first
\* elements of an enumeration has a predecessor with one.
LEMMA Bounded ==
  ASSUME NEW S, S \subseteq Nat, IsFiniteSet(S)
  PROVE  \E b \in Nat : \A y \in S : y <= b
<1>1. PICK n \in Nat : \E f \in [1 .. n -> S] : \A y \in S : \E i \in 1 .. n : f[i] = y
  BY FS_NatSurjection DEF ExistsSurjection, Surjection
<1>2. PICK f \in [1 .. n -> S] : \A y \in S : \E i \in 1 .. n : f[i] = y
  BY <1>1
<1> DEFINE Below(k) == \E b \in Nat : \A i \in 1 .. k : f[i] <= b
           T == {k \in 0 .. n : ~Below(k)}
<1>3. Below(0)
  <2>1. \A i \in 1 .. 0 : f[i] <= 0
    OBVIOUS
  <2> QED BY <2>1
<1>4. ASSUME NEW k \in 1 .. n, Below(k - 1) PROVE Below(k)
  <2>1. PICK b \in Nat : \A i \in 1 .. (k - 1) : f[i] <= b
    BY <1>4
  <2>2. f[k] \in Nat
    BY <1>2
  <2> DEFINE c == IF f[k] <= b THEN b ELSE f[k]
  <2>3. c \in Nat /\ b <= c /\ f[k] <= c
    BY <2>1, <2>2
  <2> HIDE DEF c
  <2>4. ASSUME NEW i \in 1 .. k PROVE f[i] <= c
    <3>1. CASE i = k
      BY <2>3, <3>1
    <3>2. CASE i # k
      <4>1. i \in 1 .. (k - 1) /\ i \in 1 .. n
        BY <3>2
      <4>2. f[i] \in Nat /\ f[i] <= b
        BY <1>2, <2>1, <4>1
      <4> QED BY <2>1, <2>3, <4>2
    <3> QED BY <3>1, <3>2
  <2> QED BY <2>3, <2>4
<1> HIDE DEF Below
<1>5. T = {}
  <2> SUFFICES ASSUME T # {} PROVE FALSE
    OBVIOUS
  <2>1. PICK k \in T : \A y \in T : k <= y
    <3>1. T \subseteq Nat
      OBVIOUS
    <3> QED BY <3>1, LeastOf
  <2>2. k \in 1 .. n /\ ~Below(k)
    BY <1>3, <2>1
  <2>3. k - 1 \in 0 .. n /\ ~(k <= k - 1)
    BY <2>2
  <2>4. Below(k - 1)
    BY <2>1, <2>3
  <2> QED BY <1>4, <2>2, <2>4
<1>6. Below(n)
  BY <1>5
<1>7. PICK b \in Nat : \A i \in 1 .. n : f[i] <= b
  BY <1>6 DEF Below
<1> QED BY <1>2, <1>7

\* What Max chooses.
LEMMA MaxIs ==
  ASSUME NEW S, S \subseteq Nat, S # {}, IsFiniteSet(S)
  PROVE  Max(S) \in S /\ \A y \in S : y <= Max(S)
<1> DEFINE T == {b \in Nat : \A y \in S : y <= b}
<1>1. PICK m \in T : \A b \in T : m <= b
  <2>1. T \subseteq Nat /\ T # {}
    BY Bounded
  <2> QED BY <2>1, LeastOf
<1>2. m \in S
  <2> SUFFICES ASSUME m \notin S PROVE FALSE
    OBVIOUS
  <2>1. PICK y \in S : TRUE
    OBVIOUS
  <2>2. m \in Nat /\ m # 0
    <3>1. y \in Nat /\ y <= m /\ y # m
      BY <1>1, <2>1
    <3> QED BY <1>1, <3>1
  <2>3. \A z \in S : z \in Nat /\ z <= m - 1
    BY <1>1, <2>2
  <2>4. m - 1 \in T
    BY <2>2, <2>3
  <2> QED BY <1>1, <2>2, <2>4
<1>3. \A y \in S : m >= y
  BY <1>1
<1>4. Max(S) \in S /\ \A y \in S : Max(S) >= y
  BY <1>2, <1>3 DEF Max
<1> QED BY <1>4

Bw == 1 .. Most(Bandwidths \cup {Defaults.mbps}, 8)

Lm == 1 .. Most(Limits \cup {Defaults.limit}, 1)

\* The ranges of the property hold what is typed, the default and the ceilings.
LEMMA InRange ==
  /\ Bandwidths \subseteq Bw /\ Defaults.mbps \in Bw /\ 1 .. 8 \subseteq Bw
  /\ Limits \subseteq Lm /\ Defaults.limit \in Lm /\ 1 \in Lm
<1> DEFINE B == Bandwidths \cup {Defaults.mbps}
           L == Limits \cup {Defaults.limit}
<1>1. /\ B \subseteq Nat \ {0} /\ IsFiniteSet(B) /\ B # {}
      /\ L \subseteq Nat \ {0} /\ IsFiniteSet(L) /\ L # {}
  <2>1. IsFiniteSet(B) /\ IsFiniteSet(L)
    BY EnteredValues, FS_AddElement
  <2> QED BY <2>1, EnteredValues
<1>2. Max(B) \in Nat /\ (\A y \in B : y <= Max(B)) /\ Max(L) \in Nat /\ \A y \in L : y <= Max(L)
  BY <1>1, MaxIs
<1>3. Bandwidths \subseteq B /\ Defaults.mbps \in B /\ Limits \subseteq L /\ Defaults.limit \in L
  OBVIOUS
<1>4. Bw = 1 .. Most(B, 8) /\ Lm = 1 .. Most(L, 1)
  BY DEF Bw, Lm
<1> HIDE DEF B, L
<1>5. /\ Most(B, 8) \in Nat /\ 8 <= Most(B, 8) /\ Max(B) <= Most(B, 8)
      /\ Most(L, 1) \in Nat /\ 1 <= Most(L, 1) /\ Max(L) <= Most(L, 1)
  BY <1>2 DEF Most
<1>6. B \subseteq Bw
  BY <1>1, <1>2, <1>4, <1>5
<1>7. L \subseteq Lm
  BY <1>1, <1>2, <1>4, <1>5
<1>8. 1 .. 8 \subseteq Bw /\ 1 \in Lm
  BY <1>4, <1>5
<1> QED BY <1>3, <1>6, <1>7, <1>8

\* Both are ranges from 1 up.
LEMMA FromOne ==
  \E top, most \in Nat : Bw = 1 .. top /\ 8 <= top /\ Lm = 1 .. most
<1> DEFINE B == Most(Bandwidths \cup {Defaults.mbps}, 8)
           L == Most(Limits \cup {Defaults.limit}, 1)
<1>1. B \in Nat /\ L \in Nat /\ 8 <= B
  <2>1. /\ Bandwidths \cup {Defaults.mbps} \subseteq Nat /\ Limits \cup {Defaults.limit} \subseteq Nat
        /\ Bandwidths \cup {Defaults.mbps} # {} /\ Limits \cup {Defaults.limit} # {}
        /\ IsFiniteSet(Bandwidths \cup {Defaults.mbps}) /\ IsFiniteSet(Limits \cup {Defaults.limit})
    BY EnteredValues, FS_AddElement
  <2>2. Max(Bandwidths \cup {Defaults.mbps}) \in Nat /\ Max(Limits \cup {Defaults.limit}) \in Nat
    BY <2>1, MaxIs
  <2> QED BY <2>2 DEF Most
<1>2. Bw = 1 .. B /\ Lm = 1 .. L
  BY DEF Bw, Lm
<1> HIDE DEF B, L
<1> QED BY <1>1, <1>2

\* A profile's tuning of a value in range is in range.
LEMMA TunedInRange ==
  ASSUME NEW base \in Bw, NEW profile \in Profiles
  PROVE  tuneTransportForProfile(base, profile) \in Bw
<1>1. PICK top \in Nat : Bw = 1 .. top /\ 8 <= top
  BY FromOne
<1>2. base \in Nat
  BY <1>1
<1>3. CASE profile = "steady"
  <2>1. clampFloat(base \div 2, 1, 2) \in 1 .. 2
    BY <1>2 DEF clampFloat
  <2> QED BY <1>1, <1>3, <2>1 DEF tuneTransportForProfile
<1>4. CASE profile = "boost"
  <2>1. clampFloat((base * 3) \div 2, 4, 8) \in 4 .. 8
    BY <1>2 DEF clampFloat
  <2> QED BY <1>1, <1>4, <2>1 DEF tuneTransportForProfile
<1>5. CASE profile \notin {"steady", "boost"}
  BY <1>5 DEF tuneTransportForProfile
<1> QED BY <1>3, <1>4, <1>5

LEMMA LimitInRange ==
  ASSUME NEW base \in Lm, NEW profile \in Profiles
  PROVE  limitsForProfile(base, profile) \in Lm
<1>1. PICK most \in Nat : Lm = 1 .. most
  BY FromOne
<1>2. base \in Nat /\ 1 <= base /\ base <= most
  BY <1>1
<1>3. /\ scaleInt(base, 60) \in 1 .. base /\ scaleInt(base, 85) \in 1 .. base
      /\ scaleInt(base, 100) \in 1 .. base
  BY <1>2 DEF scaleInt
<1>4. limitsForProfile(base, profile) \in {scaleInt(base, 60), scaleInt(base, 85), scaleInt(base, 100)}
  BY DEF limitsForProfile
<1>5. limitsForProfile(base, profile) \in 1 .. base
  BY <1>3, <1>4
<1> QED BY <1>1, <1>2, <1>5
-----------------------------------------------------------------------------
(* The steps of the console, as the settings see them.                     *)

LEMMA SettingsSteps ==
  ASSUME [Next]_vars
  PROVE  /\ UNCHANGED route
         /\ \/ /\ route = "settings" /\ SettingsNext
               /\ UNCHANGED <<nodesVars, protectionVars>>
            \/ /\ route = "nodes" /\ NodesNext
               /\ UNCHANGED <<settingsPageVars, protectionVars>>
            \/ /\ route = "protection" /\ ProtectionNext
               /\ UNCHANGED <<settingsPageVars, nodesVars>>
            \/ /\ route = "limits" /\ PolicyNext
               /\ UNCHANGED <<settingsPageVars, nodesVars>>
            \/ UNCHANGED <<gatewayVars, settingsPageVars, nodesVars, protectionVars>>
BY DEF Next, vars, OnSettings, OnNodes, OnProtection, OnLimits, OnMapping, OnResource, OnList,
   OnMonitor, OnMock

\* The gateway's values are in range, the file's too.
GatewayInRange ==
  /\ DOMAIN settings = {"keep", "access", "base", "limit", "writes"}
  /\ settings.base \in Bw /\ settings.limit \in Lm /\ settings.writes \in Nat
  /\ DOMAIN running = {"mbps", "limit"} /\ running.mbps \in Bw /\ running.limit \in Lm
  /\ disk # Nothing => disk.mbps \in Bw

\* A form of the settings page.
FormOK(form) ==
  /\ DOMAIN form = {"keep", "access", "mbps", "read"}
  /\ form.mbps \in Bw /\ form.read \in Nat

\* A resource usage read half way: the values computed from the baselines.
UsageOK(usage) ==
  /\ DOMAIN usage = {"at", "with"}
  /\ usage.at = "read" => /\ DOMAIN usage.with = {"mbps", "limit"}
                          /\ usage.with.mbps \in Bw /\ usage.with.limit \in Lm

PostOK(post) ==
  /\ DOMAIN post = {"at", "with"}
  /\ post.at \in {"sent", "tuned"} => FormOK(post.with)
  /\ post.at \in {"read", "open"} => FormOK(post.with.body) /\ post.with.write \in Nat

GetOK(get) ==
  /\ DOMAIN get = {"at", "with"}
  /\ get.at = "served" => FormOK(get.with)

\* A handler of the settings page: one of the form, or the restart button's.
HandlerOK(call) ==
  /\ call.op \in {"load", "save", "left"}
  /\ DOMAIN call = {"op", "post", "get", "usage"}
  /\ PostOK(call.post) /\ GetOK(call.get) /\ UsageOK(call.usage)

CallOK(call) ==
  \/ call = Idle
  \/ call.op = "restart" /\ DOMAIN call = {"op", "post"}
  \/ HandlerOK(call)

PageOK(page) ==
  /\ DOMAIN page = {"form", "loading", "saving", "error", "notice", "wrote", "raced",
                    "stored", "crossed", "restarting", "scheduled"}
  /\ page.form # Nothing => FormOK(page.form)
  /\ page.wrote \in Nat

SettingsShape ==
  /\ PageOK(settingsPage)
  /\ DOMAIN settingsCalls = Slots
  /\ \A s \in Slots : CallOK(settingsCalls[s])

\* A call that is put into a slot, or changed there.
LEMMA CallPut ==
  ASSUME SettingsShape, NEW s \in Slots, NEW call, CallOK(call),
         settingsCalls' = [settingsCalls EXCEPT ![s] = call], PageOK(settingsPage')
  PROVE  SettingsShape'
<1>1. DOMAIN settingsCalls' = Slots
  BY DEF SettingsShape
<1>2. ASSUME NEW t \in Slots PROVE CallOK(settingsCalls'[t])
  <2>1. settingsCalls'[t] = IF t = s THEN call ELSE settingsCalls[t]
    BY DEF SettingsShape
  <2> QED BY <2>1 DEF SettingsShape
<1> QED BY <1>1, <1>2 DEF SettingsShape

\* What the requests of a handler can become.
LEMMA RequestsOK ==
  /\ PostOK(Unsent) /\ GetOK(Unsent) /\ UsageOK(Unsent)
  /\ GetOK(Sent(Nothing)) /\ UsageOK(Sent(Nothing))
  /\ PostOK(Served(Nothing)) /\ UsageOK(Served(Nothing))
  /\ \A form : FormOK(form) => PostOK(Sent(form)) /\ GetOK(Served(form))
  /\ \A form : \A n \in Nat : FormOK(form) => PostOK(Read([body |-> form, write |-> n]))
  /\ \A post : PostOK(post) => PostOK(Broken(post))
  /\ \A usage : UsageOK(usage) => UsageOK(Broken(usage))
<1>1. /\ PostOK(Unsent) /\ GetOK(Unsent) /\ UsageOK(Unsent)
      /\ GetOK(Sent(Nothing)) /\ UsageOK(Sent(Nothing))
      /\ PostOK(Served(Nothing)) /\ UsageOK(Served(Nothing))
  BY DEF PostOK, GetOK, UsageOK, Unsent, Sent, Served
<1>2. ASSUME NEW form, FormOK(form) PROVE PostOK(Sent(form)) /\ GetOK(Served(form))
  BY <1>2 DEF PostOK, GetOK, Sent, Served
<1>3. ASSUME NEW form, NEW n \in Nat, FormOK(form) PROVE PostOK(Read([body |-> form, write |-> n]))
  <2> DEFINE found == [body |-> form, write |-> n]
  <2>1. found.body = form /\ found.write = n
    OBVIOUS
  <2> HIDE DEF found
  <2> QED BY <1>3, <2>1 DEF PostOK, Read
<1>4. ASSUME NEW post, PostOK(post) PROVE PostOK(Broken(post))
  BY <1>4 DEF PostOK, Broken
<1>5. ASSUME NEW usage, UsageOK(usage) PROVE UsageOK(Broken(usage))
  BY <1>5 DEF UsageOK, Broken
<1> QED BY <1>1, <1>2, <1>3, <1>4, <1>5

\* A request of a handler moves on.
LEMMA HandlerMoves ==
  ASSUME NEW call, HandlerOK(call)
  PROVE  /\ \A x : PostOK(x) => HandlerOK([call EXCEPT !.post = x])
         /\ \A x : GetOK(x) => HandlerOK([call EXCEPT !.get = x])
         /\ \A x : UsageOK(x) => HandlerOK([call EXCEPT !.usage = x])
         /\ HandlerOK([call EXCEPT !.op = "left"])
         /\ call.post.at = "read" => HandlerOK([call EXCEPT !.post.at = "open"])
         /\ call.post.at = "sent" => HandlerOK([call EXCEPT !.post.at = "tuned"])
         /\ HandlerOK([call EXCEPT !.post = Broken(@), !.usage = Broken(@)])
<1>1. ASSUME NEW x, PostOK(x) PROVE HandlerOK([call EXCEPT !.post = x])
  BY <1>1 DEF HandlerOK
<1>2. ASSUME NEW x, GetOK(x) PROVE HandlerOK([call EXCEPT !.get = x])
  BY <1>2 DEF HandlerOK
<1>3. ASSUME NEW x, UsageOK(x) PROVE HandlerOK([call EXCEPT !.usage = x])
  BY <1>3 DEF HandlerOK
<1>4. HandlerOK([call EXCEPT !.op = "left"])
  BY DEF HandlerOK
<1>5. ASSUME call.post.at = "read" PROVE HandlerOK([call EXCEPT !.post.at = "open"])
  <2> DEFINE x == [call.post EXCEPT !.at = "open"]
  <2>1. PostOK(x)
    BY <1>5 DEF HandlerOK, PostOK
  <2>2. [call EXCEPT !.post.at = "open"] = [call EXCEPT !.post = x]
    OBVIOUS
  <2> HIDE DEF x
  <2> QED BY <1>1, <2>1, <2>2
<1>6. ASSUME call.post.at = "sent" PROVE HandlerOK([call EXCEPT !.post.at = "tuned"])
  <2> DEFINE x == [call.post EXCEPT !.at = "tuned"]
  <2>1. PostOK(x)
    BY <1>6 DEF HandlerOK, PostOK
  <2>2. [call EXCEPT !.post.at = "tuned"] = [call EXCEPT !.post = x]
    OBVIOUS
  <2> HIDE DEF x
  <2> QED BY <1>1, <2>1, <2>2
<1>7. HandlerOK([call EXCEPT !.post = Broken(@), !.usage = Broken(@)])
  <2> DEFINE post == Broken(call.post)
             usage == Broken(call.usage)
  <2>1. PostOK(post) /\ UsageOK(usage)
    BY RequestsOK DEF HandlerOK
  <2> HIDE DEF post, usage
  <2>2. HandlerOK([call EXCEPT !.post = post, !.usage = usage])
    BY <2>1 DEF HandlerOK
  <2> QED BY <2>2 DEF post, usage
<1> QED BY <1>1, <1>2, <1>3, <1>4, <1>5, <1>6, <1>7

LEMMA IsHandler ==
  ASSUME SettingsShape, NEW s \in Slots, settingsCalls[s].op \in {"load", "save", "left"}
  PROVE  HandlerOK(settingsCalls[s])
BY DEF SettingsShape, CallOK, Idle

\* What the page sends first.
LEMMA FirstCalls ==
  /\ CallOK(Idle)
  /\ CallOK([op |-> "restart", post |-> Sent(Nothing)])
  /\ CallOK(SettingsRequests("load", Unsent, Sent(Nothing), Sent(Nothing)))
  /\ \A form : FormOK(form) => CallOK(SettingsRequests("save", Sent(form), Unsent, Unsent))
<1>1. CallOK(Idle) /\ CallOK([op |-> "restart", post |-> Sent(Nothing)])
  BY DEF CallOK
<1>2. HandlerOK(SettingsRequests("load", Unsent, Sent(Nothing), Sent(Nothing)))
  BY RequestsOK DEF HandlerOK, SettingsRequests
<1>3. ASSUME NEW form, FormOK(form) PROVE HandlerOK(SettingsRequests("save", Sent(form), Unsent, Unsent))
  <2>1. PostOK(Sent(form))
    BY <1>3, RequestsOK
  <2> QED BY <2>1, RequestsOK DEF HandlerOK, SettingsRequests
<1> QED BY <1>1, <1>2, <1>3 DEF CallOK

\* What the gateway reads and answers is in range.
LEMMA AnswersOK ==
  ASSUME GatewayInRange
  PROVE  /\ FormOK(handleSystemSettingsGet)
         /\ \A profile \in Profiles : UsageOK(UsageRead(profile))
<1>1. FormOK(handleSystemSettingsGet)
  BY DEF FormOK, handleSystemSettingsGet, GatewayInRange
<1>2. ASSUME NEW profile \in Profiles PROVE UsageOK(UsageRead(profile))
  <2> DEFINE mbps == tuneTransportForProfile(settings.base, profile)
             limit == limitsForProfile(settings.limit, profile)
  <2>1. mbps \in Bw /\ limit \in Lm
    BY TunedInRange, LimitInRange DEF GatewayInRange
  <2>2. UsageRead(profile) = Read([mbps |-> mbps, limit |-> limit])
    BY DEF UsageRead
  <2> HIDE DEF mbps, limit
  <2> QED BY <2>1, <2>2 DEF UsageOK, Read
<1> QED BY <1>1, <1>2

\* What is started is in range.
LEMMA StartInRange ==
  ASSUME GatewayInRange, StartGateway
  PROVE  GatewayInRange'
<1>1. FileOrDefaults.mbps \in Bw /\ Defaults.limit \in Lm
  BY InRange DEF FileOrDefaults, GatewayInRange
<1> QED BY <1>1 DEF StartGateway, GatewayInRange

LEMMA RestartShape ==
  ASSUME SettingsShape, RestartedGateway, PageOK(settingsPage')
  PROVE  SettingsShape'
<1>1. DOMAIN settingsCalls' = Slots
  BY DEF RestartedGateway
<1>2. ASSUME NEW s \in Slots PROVE CallOK(settingsCalls'[s])
  <2>1. CASE settingsCalls[s].op \in {"load", "save", "left"}
    <3>1. settingsCalls'[s] = [settingsCalls[s] EXCEPT !.post = Broken(@), !.usage = Broken(@)]
      BY <2>1 DEF RestartedGateway
    <3> QED BY <2>1, <3>1, IsHandler, HandlerMoves, ZenonT(60) DEF CallOK
  <2>2. CASE settingsCalls[s].op \notin {"load", "save", "left"}
    <3>1. settingsCalls'[s] = settingsCalls[s]
      BY <2>2 DEF RestartedGateway
    <3> QED BY <3>1 DEF SettingsShape
  <2> QED BY <2>1, <2>2
<1> QED BY <1>1, <1>2 DEF SettingsShape

\* The steps of the settings page keep its shape and the gateway in range.
LEMMA SettingsShapeStep ==
  ASSUME GatewayInRange, SettingsShape, SettingsNext
  PROVE  GatewayInRange' /\ SettingsShape'
<1> USE DEF Put, Free, Leave
<1>0. ASSUME UNCHANGED gatewayVars PROVE GatewayInRange'
  BY <1>0 DEF GatewayInRange, gatewayVars
<1>1. CASE SettingsLoad
  <2>0. GatewayInRange'
    BY <1>0, <1>1 DEF SettingsLoad
  <2>1. PICK s \in Slots : settingsCalls' =
          [settingsCalls EXCEPT ![s] = SettingsRequests("load", Unsent, Sent(Nothing), Sent(Nothing))]
    BY <1>1 DEF SettingsLoad
  <2>2. PageOK(settingsPage')
    BY <1>1 DEF SettingsLoad, SettingsShape, PageOK
  <2> QED BY <2>0, <2>1, <2>2, CallPut, FirstCalls
<1>2. CASE SettingsSave
  <2>0. GatewayInRange'
    BY <1>0, <1>2 DEF SettingsSave
  <2>1. PageOK(settingsPage')
    BY <1>2 DEF SettingsSave, SettingsShape, PageOK
  <2>2. CASE UNCHANGED settingsCalls
    BY <2>0, <2>1, <2>2 DEF SettingsShape
  <2>3. CASE settingsCalls' # settingsCalls
    <3>1. PICK s \in Slots : settingsCalls' =
            [settingsCalls EXCEPT ![s] = SettingsRequests("save", Sent(settingsPage.form), Unsent, Unsent)]
      BY <1>2, <2>3 DEF SettingsSave
    <3>2. FormOK(settingsPage.form)
      BY <1>2 DEF SettingsSave, SettingsShape, PageOK
    <3> QED BY <2>0, <2>1, <3>1, <3>2, CallPut, FirstCalls
  <2> QED BY <2>2, <2>3
<1>3. CASE TypeKeep
  <2>0. GatewayInRange'
    BY <1>0, <1>3 DEF TypeKeep
  <2>1. PICK v : settingsPage' = [settingsPage EXCEPT !.form.keep = v]
    BY <1>3 DEF TypeKeep
  <2>2. FormOK(settingsPage.form)
    BY <1>3 DEF TypeKeep, Typeable, SettingsShape, PageOK
  <2>3. FormOK([settingsPage.form EXCEPT !.keep = v])
    BY <2>2 DEF FormOK
  <2>4. PageOK(settingsPage')
    BY <2>1, <2>3 DEF SettingsShape, PageOK
  <2> QED BY <2>0, <1>3, <2>4 DEF TypeKeep, SettingsShape
<1>4. CASE TypeTuning
  <2>0. GatewayInRange'
    BY <1>0, <1>4 DEF TypeTuning
  <2>1. PICK v \in Bandwidths : settingsPage' = [settingsPage EXCEPT !.form.mbps = v]
    BY <1>4 DEF TypeTuning
  <2>2. FormOK(settingsPage.form) /\ v \in Bw
    BY <1>4, InRange DEF TypeTuning, Typeable, SettingsShape, PageOK
  <2>3. FormOK([settingsPage.form EXCEPT !.mbps = v])
    BY <2>2 DEF FormOK
  <2>4. PageOK(settingsPage')
    BY <2>1, <2>3 DEF SettingsShape, PageOK
  <2> QED BY <2>0, <1>4, <2>4 DEF TypeTuning, SettingsShape
<1>5. CASE confirmRestart
  <2>0. GatewayInRange'
    BY <1>0, <1>5 DEF confirmRestart
  <2>1. PICK s \in Slots : settingsCalls' =
          [settingsCalls EXCEPT ![s] = [op |-> "restart", post |-> Sent(Nothing)]]
    BY <1>5 DEF confirmRestart
  <2>2. PageOK(settingsPage')
    BY <1>5 DEF confirmRestart, SettingsShape, PageOK
  <2> QED BY <2>0, <2>1, <2>2, CallPut, FirstCalls
<1>6. CASE RestartCommandRuns
  <2>1. PageOK(settingsPage')
    BY <1>6 DEF RestartCommandRuns, SettingsShape, PageOK
  <2>2. GatewayInRange'
    BY <1>6, StartInRange DEF RestartCommandRuns, RestartedGateway
  <2> QED BY <1>6, <2>1, <2>2, RestartShape DEF RestartCommandRuns
<1>7. CASE Crash
  <2>1. PageOK(settingsPage')
    BY <1>7 DEF Crash, SettingsShape
  <2>2. GatewayInRange'
    BY <1>7, StartInRange DEF Crash, RestartedGateway
  <2> QED BY <1>7, <2>1, <2>2, RestartShape DEF Crash
<1>8. ASSUME NEW s \in Slots, SettingsLoaded(s) PROVE GatewayInRange' /\ SettingsShape'
  <2>0. GatewayInRange'
    BY <1>0, <1>8 DEF SettingsLoaded
  <2>1. FormOK(settingsCalls[s].get.with)
    BY <1>8, IsHandler DEF SettingsLoaded, HandlerOK, GetOK
  <2>2. PageOK(settingsPage')
    BY <1>8, <2>1 DEF SettingsLoaded, SettingsShape, PageOK
  <2> QED BY <1>8, <2>0, <2>2, CallPut, FirstCalls DEF SettingsLoaded
<1>9. ASSUME NEW s \in Slots, SettingsReread(s) PROVE GatewayInRange' /\ SettingsShape'
  <2>0. GatewayInRange' /\ PageOK(settingsPage')
    BY <1>0, <1>9 DEF SettingsReread, SettingsShape
  <2>1. CallOK([settingsCalls[s] EXCEPT !.get = Sent(Nothing)])
    BY <1>9, IsHandler, HandlerMoves, RequestsOK DEF SettingsReread, CallOK
  <2> QED BY <1>9, <2>0, <2>1, CallPut DEF SettingsReread
<1>10. ASSUME NEW s \in Slots, SettingsTakeForm(s) PROVE GatewayInRange' /\ SettingsShape'
  <2>0. GatewayInRange'
    BY <1>0, <1>10 DEF SettingsTakeForm
  <2>1. HandlerOK(settingsCalls[s]) /\ FormOK(settingsCalls[s].get.with)
    BY <1>10, IsHandler DEF SettingsTakeForm, HandlerOK, GetOK
  <2>2. PageOK(settingsPage')
    BY <1>10, <2>1 DEF SettingsTakeForm, SettingsShape, PageOK
  <2>3. CallOK([settingsCalls[s] EXCEPT !.usage = Sent(Nothing)])
    BY <2>1, HandlerMoves, RequestsOK DEF CallOK
  <2> QED BY <1>10, <2>0, <2>2, <2>3, CallPut DEF SettingsTakeForm
<1>11. ASSUME NEW s \in Slots, SettingsSaved(s) PROVE GatewayInRange' /\ SettingsShape'
  <2>0. GatewayInRange' /\ PageOK(settingsPage')
    BY <1>0, <1>11 DEF SettingsSaved, SettingsShape, PageOK
  <2> QED BY <1>11, <2>0, CallPut, FirstCalls DEF SettingsSaved
<1>12. ASSUME NEW s \in Slots, SettingsFails(s) PROVE GatewayInRange' /\ SettingsShape'
  <2>0. GatewayInRange' /\ PageOK(settingsPage')
    BY <1>0, <1>12 DEF SettingsFails, SettingsShape, PageOK
  <2>1. CallOK([settingsCalls[s] EXCEPT !.op = "left"])
    BY <1>12, IsHandler, HandlerMoves DEF SettingsFails, CallOK
  <2>2. CASE settingsCalls' = [settingsCalls EXCEPT ![s].op = "left"]
    BY <2>0, <2>1, <2>2, CallPut
  <2>3. CASE settingsCalls' = [settingsCalls EXCEPT ![s] = Idle]
    BY <2>0, <2>3, CallPut, FirstCalls
  <2> QED BY <1>12, <2>2, <2>3 DEF SettingsFails
<1>13. ASSUME NEW s \in Slots, SettingsLeft(s) PROVE GatewayInRange' /\ SettingsShape'
  <2>0. GatewayInRange' /\ PageOK(settingsPage')
    BY <1>0, <1>13 DEF SettingsLeft, SettingsShape, PageOK
  <2> QED BY <1>13, <2>0, CallPut, FirstCalls DEF SettingsLeft
<1>14. ASSUME NEW s \in Slots, SettingsServeGet(s) PROVE GatewayInRange' /\ SettingsShape'
  <2>0. GatewayInRange' /\ PageOK(settingsPage')
    BY <1>0, <1>14 DEF SettingsServeGet, SettingsShape
  <2>1. GetOK(Served(handleSystemSettingsGet))
    BY AnswersOK, RequestsOK
  <2>2. CallOK([settingsCalls[s] EXCEPT !.get = Served(handleSystemSettingsGet)])
    BY <1>14, <2>1, IsHandler, HandlerMoves DEF SettingsServeGet, CallOK
  <2> QED BY <1>14, <2>0, <2>2, CallPut DEF SettingsServeGet
<1>15. ASSUME NEW s \in Slots, SettingsServePost(s) PROVE GatewayInRange' /\ SettingsShape'
  <2> DEFINE form == settingsCalls[s].post.with
  <2>1. HandlerOK(settingsCalls[s]) /\ FormOK(form)
    BY <1>15, IsHandler DEF SettingsServePost, HandlerOK, PostOK
  <2>2. handleSystemSettingsPost(form)
    BY <1>15 DEF SettingsServePost
  <2>3. GatewayInRange' /\ settings'.writes \in Nat
    BY <2>1, <2>2 DEF handleSystemSettingsPost, GatewayInRange, FormOK
  <2>4. PageOK(settingsPage')
    BY <1>15 DEF SettingsServePost, SettingsShape, PageOK
  <2> DEFINE post == Read([body |-> form, write |-> settings'.writes])
  <2>5. PostOK(post)
    BY <2>1, <2>3, RequestsOK
  <2>6. settingsCalls' = [settingsCalls EXCEPT ![s].post = post]
    BY <1>15 DEF SettingsServePost
  <2> HIDE DEF post, form
  <2>7. CallOK([settingsCalls[s] EXCEPT !.post = post])
    BY <2>1, <2>5, HandlerMoves DEF CallOK
  <2> QED BY <2>3, <2>4, <2>6, <2>7, CallPut
<1>16. ASSUME NEW s \in Slots, SettingsServeUsage(s) PROVE GatewayInRange' /\ SettingsShape'
  <2>1. HandlerOK(settingsCalls[s]) /\ PageOK(settingsPage')
    BY <1>16, IsHandler DEF SettingsServeUsage, SettingsShape
  <2>2. ASSUME NEW profile \in Profiles, UNCHANGED gatewayVars,
               settingsCalls' = [settingsCalls EXCEPT ![s].usage = UsageRead(profile)]
        PROVE  GatewayInRange' /\ SettingsShape'
    <3>1. CallOK([settingsCalls[s] EXCEPT !.usage = UsageRead(profile)])
      BY <2>1, AnswersOK, HandlerMoves DEF CallOK
    <3> QED BY <1>0, <2>1, <2>2, <3>1, CallPut
  <2>3. ASSUME settingsCalls[s].usage.at = "read",
               applyRecommendedRuntimeProfile(settingsCalls[s].usage),
               settingsCalls' = [settingsCalls EXCEPT ![s].usage = Served(Nothing)]
        PROVE  GatewayInRange' /\ SettingsShape'
    <3>1. CallOK([settingsCalls[s] EXCEPT !.usage = Served(Nothing)])
      BY <2>1, RequestsOK, HandlerMoves DEF CallOK
    <3>2. GatewayInRange'
      BY <2>1, <2>3 DEF HandlerOK, UsageOK, applyRecommendedRuntimeProfile, GatewayInRange
    <3> QED BY <2>1, <2>3, <3>1, <3>2, CallPut
  <2> QED BY <1>16, <2>2, <2>3 DEF SettingsServeUsage
<1>17. ASSUME NEW s \in Slots, SettingsOpenFile(s) PROVE GatewayInRange' /\ SettingsShape'
  <2>1. GatewayInRange' /\ PageOK(settingsPage')
    BY <1>17 DEF SettingsOpenFile, TruncateFile, GatewayInRange, SettingsShape
  <2>2. CallOK([settingsCalls[s] EXCEPT !.post.at = "open"])
    BY <1>17, IsHandler, HandlerMoves DEF SettingsOpenFile, HalfWay, Opened, CallOK
  <2> QED BY <1>17, <2>1, <2>2, CallPut DEF SettingsOpenFile
<1>18. ASSUME NEW s \in Slots, SettingsWriteFile(s) PROVE GatewayInRange' /\ SettingsShape'
  <2>1. HandlerOK(settingsCalls[s]) /\ settingsCalls[s].post.at \in {"read", "open"}
    BY <1>18, IsHandler DEF SettingsWriteFile, HalfWay, Opened
  <2>2. FormOK(settingsCalls[s].post.with.body) /\ settingsCalls[s].post.with.write \in Nat
    BY <2>1 DEF HandlerOK, PostOK
  <2>3. PageOK(settingsPage')
    BY <1>18, <2>2 DEF SettingsWriteFile, SettingsShape, PageOK
  <2>4. GatewayInRange'
    <3> DEFINE body == settingsCalls[s].post.with.body
               file == [keep |-> body.keep, access |-> body.access, mbps |-> body.mbps]
    <3>1. disk' \in {file, Nothing, disk} /\ UNCHANGED <<settings, running>>
      BY <1>18 DEF SettingsWriteFile, WriteFile, gatewayVars
    <3>2. file.mbps \in Bw
      BY <2>2 DEF FormOK
    <3> HIDE DEF file
    <3> QED BY <3>1, <3>2 DEF GatewayInRange
  <2>5. CallOK([settingsCalls[s] EXCEPT !.post = Served(Nothing)])
    BY <2>1, RequestsOK, HandlerMoves DEF CallOK
  <2> QED BY <1>18, <2>3, <2>4, <2>5, CallPut DEF SettingsWriteFile
<1>19. ASSUME NEW s \in Slots, handleGatewayRestart(s) PROVE GatewayInRange' /\ SettingsShape'
  <2>1. GatewayInRange' /\ PageOK(settingsPage')
    BY <1>0, <1>19 DEF handleGatewayRestart, SettingsShape, PageOK
  <2>2. CallOK([settingsCalls[s] EXCEPT !.post = Served(Nothing)])
    BY <1>19 DEF handleGatewayRestart, SettingsShape, CallOK, HandlerOK, Idle
  <2> QED BY <1>19, <2>1, <2>2, CallPut DEF handleGatewayRestart
<1>20. ASSUME NEW s \in Slots, RestartEnds(s) PROVE GatewayInRange' /\ SettingsShape'
  <2>1. GatewayInRange' /\ PageOK(settingsPage')
    BY <1>0, <1>20 DEF RestartEnds, SettingsShape, PageOK
  <2> QED BY <1>20, <2>1, CallPut, FirstCalls DEF RestartEnds
<1>21. ASSUME NEW s \in Slots, SettingsTune(s) PROVE GatewayInRange' /\ SettingsShape'
  <2>1. HandlerOK(settingsCalls[s]) /\ FormOK(settingsCalls[s].post.with) /\ PageOK(settingsPage')
    BY <1>21, IsHandler DEF SettingsTune, HandlerOK, PostOK, SettingsShape
  <2>2. GatewayInRange'
    BY <1>21, <2>1 DEF SettingsTune, ApplyTransportTuning, GatewayInRange, FormOK
  <2>3. CallOK([settingsCalls[s] EXCEPT !.post.at = "tuned"])
    BY <1>21, <2>1, HandlerMoves DEF SettingsTune, CallOK
  <2> QED BY <1>21, <2>1, <2>2, <2>3, CallPut DEF SettingsTune
<1> QED BY <1>1, <1>2, <1>3, <1>4, <1>5, <1>6, <1>7, <1>8, <1>9, <1>10, <1>11, <1>12, <1>13, <1>14,
     <1>15, <1>16, <1>17, <1>18, <1>19, <1>20, <1>21 DEF SettingsNext

-----------------------------------------------------------------------------
(* The pages that write the limit.                                         *)

\* An input for a limit may be cleared.
Em == Lm \cup {0}

LimitForm(form) == DOMAIN form = {"rules", "limit"} /\ form.limit \in Em

\* What is not cleared is in range.
LEMMA Entered == \A v \in Em : v \in Nat /\ (v > 0 => v \in Lm)
BY FromOne DEF Em

ProtPageOK(page) ==
  /\ DOMAIN page = {"state", "form", "editing", "loading", "saving", "recovering", "restricting",
                    "removing", "error", "notice", "target"}
  /\ page.state # Nothing \/ page.form # Nothing => LimitForm(page.form)

ActOK(kind, act) ==
  /\ act.at = "sent" /\ kind = "save" => LimitForm(act.with)
  /\ act.at = "served" => act.with.state.limit \in Lm

StateOK(get) == get.at = "served" => get.with.limit \in Lm

ProtHandlerOK(call) ==
  /\ DOMAIN call = {"op", "kind", "act", "get", "usage"}
  /\ ActOK(call.kind, call.act) /\ StateOK(call.get) /\ UsageOK(call.usage)

ProtShape ==
  /\ ProtPageOK(protPage)
  /\ DOMAIN protCalls = Slots
  /\ \A s \in Slots : protCalls[s] = Idle \/ ProtHandlerOK(protCalls[s])

PolicyPageOK(page) ==
  /\ DOMAIN page = {"limit", "form", "open"}
  /\ page.limit \in Em /\ page.form \in Em

PolicyHandlerOK(call) ==
  /\ DOMAIN call = {"op", "put", "get"}
  /\ call.put.at = "sent" => call.put.with \in Em
  /\ call.put.at = "served" => call.put.with \in Lm
  /\ call.get.at = "served" => call.get.with \in Lm

PolicyShape ==
  /\ PolicyPageOK(policyPage)
  /\ DOMAIN policyCalls = Slots
  /\ \A s \in Slots : policyCalls[s] = Idle \/ PolicyHandlerOK(policyCalls[s])

LEMMA ProtPut ==
  ASSUME ProtShape, NEW s \in Slots, NEW call, call = Idle \/ ProtHandlerOK(call),
         protCalls' = [protCalls EXCEPT ![s] = call], ProtPageOK(protPage')
  PROVE  ProtShape'
<1>1. DOMAIN protCalls' = Slots
  BY DEF ProtShape
<1>2. ASSUME NEW t \in Slots PROVE protCalls'[t] = Idle \/ ProtHandlerOK(protCalls'[t])
  <2>1. protCalls'[t] = IF t = s THEN call ELSE protCalls[t]
    BY DEF ProtShape
  <2> QED BY <2>1 DEF ProtShape
<1> QED BY <1>1, <1>2 DEF ProtShape

LEMMA PolicyPut ==
  ASSUME PolicyShape, NEW s \in Slots, NEW call, call = Idle \/ PolicyHandlerOK(call),
         policyCalls' = [policyCalls EXCEPT ![s] = call], PolicyPageOK(policyPage')
  PROVE  PolicyShape'
<1>1. DOMAIN policyCalls' = Slots
  BY DEF PolicyShape
<1>2. ASSUME NEW t \in Slots PROVE policyCalls'[t] = Idle \/ PolicyHandlerOK(policyCalls'[t])
  <2>1. policyCalls'[t] = IF t = s THEN call ELSE policyCalls[t]
    BY DEF PolicyShape
  <2> QED BY <2>1 DEF PolicyShape
<1> QED BY <1>1, <1>2 DEF PolicyShape

\* What the protection page sends first.
LEMMA ProtFirst ==
  /\ ProtHandlerOK(ProtCall("load", Unsent, Sent(Nothing)))
  /\ \A op, with : op # "save" => ProtHandlerOK(ProtCall(op, Sent(with), Unsent))
  /\ \A form : LimitForm(form) => ProtHandlerOK(ProtCall("save", Sent(form), Unsent))
<1> USE DEF ProtHandlerOK, ProtCall, ActOK, StateOK, UsageOK, Sent, Unsent
<1>1. ProtHandlerOK(ProtCall("load", Unsent, Sent(Nothing)))
  OBVIOUS
<1>2. ASSUME NEW op, NEW with, op # "save" PROVE ProtHandlerOK(ProtCall(op, Sent(with), Unsent))
  BY <1>2
<1>3. ASSUME NEW form, LimitForm(form) PROVE ProtHandlerOK(ProtCall("save", Sent(form), Unsent))
  BY <1>3
<1> QED BY <1>1, <1>2, <1>3

LEMMA ProtMoves ==
  ASSUME NEW call, ProtHandlerOK(call)
  PROVE  /\ \A x : ActOK(call.kind, x) => ProtHandlerOK([call EXCEPT !.act = x])
         /\ \A x : StateOK(x) => ProtHandlerOK([call EXCEPT !.get = x])
         /\ \A x : UsageOK(x) => ProtHandlerOK([call EXCEPT !.usage = x])
         /\ ProtHandlerOK([call EXCEPT !.op = "left"])
<1>1. ASSUME NEW x, ActOK(call.kind, x) PROVE ProtHandlerOK([call EXCEPT !.act = x])
  BY <1>1 DEF ProtHandlerOK
<1>2. ASSUME NEW x, StateOK(x) PROVE ProtHandlerOK([call EXCEPT !.get = x])
  BY <1>2 DEF ProtHandlerOK
<1>3. ASSUME NEW x, UsageOK(x) PROVE ProtHandlerOK([call EXCEPT !.usage = x])
  BY <1>3 DEF ProtHandlerOK
<1>4. ProtHandlerOK([call EXCEPT !.op = "left"])
  BY DEF ProtHandlerOK
<1> QED BY <1>1, <1>2, <1>3, <1>4

\* The form that a state fills in.
LEMMA SyncOK ==
  ASSUME NEW state, state.limit \in Lm
  PROVE  LimitForm(syncForm(state))
BY DEF LimitForm, syncForm, Em

\* The steps of the protection page keep its shape and the gateway in range.
LEMMA ProtShapeStep ==
  ASSUME GatewayInRange, ProtShape, ProtectionNext
  PROVE  GatewayInRange' /\ ProtShape'
<1> USE DEF Put, Free, Leave, Begin, Quiet
<1>0. ASSUME UNCHANGED gatewayVars PROVE GatewayInRange'
  BY <1>0 DEF GatewayInRange, gatewayVars
<1>1. ASSUME NEW op, NEW with, op # "save", Begin(ProtCall(op, Sent(with), Unsent)),
             ProtPageOK(protPage')
      PROVE  ProtShape'
  <2>1. PICK s \in Slots : protCalls' = [protCalls EXCEPT ![s] = ProtCall(op, Sent(with), Unsent)]
    BY <1>1
  <2> QED BY <1>1, <2>1, ProtPut, ProtFirst
<1>2. CASE ProtLoad \/ cancelEdit
  <2>0. GatewayInRange'
    BY <1>0, <1>2 DEF ProtLoad, cancelEdit
  <2>1. PICK s \in Slots : protCalls' = [protCalls EXCEPT ![s] = ProtCall("load", Unsent, Sent(Nothing))]
    BY <1>2 DEF ProtLoad, cancelEdit
  <2>2. ProtPageOK(protPage')
    BY <1>2 DEF ProtLoad, cancelEdit, ProtShape, ProtPageOK
  <2> QED BY <2>0, <2>1, <2>2, ProtPut, ProtFirst
<1>3. CASE ProtStartEdit \/ ProtTypeTarget
  <2>0. GatewayInRange' /\ UNCHANGED protCalls
    BY <1>0, <1>3 DEF ProtStartEdit, ProtTypeTarget
  <2>1. ProtPageOK(protPage')
    BY <1>3 DEF ProtStartEdit, ProtTypeTarget, ProtShape, ProtPageOK
  <2> QED BY <2>0, <2>1 DEF ProtShape
<1>4. CASE ProtType
  <2>0. GatewayInRange' /\ UNCHANGED protCalls
    BY <1>0, <1>4 DEF ProtType
  <2>1. LimitForm(protPage.form)
    BY <1>4 DEF ProtType, ProtShape, ProtPageOK
  <2>2. ASSUME NEW r, protPage' = [protPage EXCEPT !.form.rules = r] PROVE ProtPageOK(protPage')
    <3>1. LimitForm([protPage.form EXCEPT !.rules = r])
      BY <2>1 DEF LimitForm
    <3> QED BY <2>2, <3>1 DEF ProtShape, ProtPageOK
  <2>3. ASSUME NEW v \in Limits \cup {0}, protPage' = [protPage EXCEPT !.form.limit = v] PROVE ProtPageOK(protPage')
    <3>1. LimitForm([protPage.form EXCEPT !.limit = v])
      BY <2>1, InRange DEF LimitForm, Em
    <3> QED BY <2>3, <3>1 DEF ProtShape, ProtPageOK
  <2>4. ProtPageOK(protPage')
    BY <1>4, <2>2, <2>3 DEF ProtType
  <2> QED BY <2>0, <2>4 DEF ProtShape
<1>5. CASE saveAll
  <2>0. GatewayInRange'
    BY <1>0, <1>5 DEF saveAll
  <2>1. PICK s \in Slots : protCalls' = [protCalls EXCEPT ![s] = ProtCall("save", Sent(protPage.form), Unsent)]
    BY <1>5 DEF saveAll
  <2>2. LimitForm(protPage.form)
    BY <1>5 DEF saveAll, ProtShape, ProtPageOK
  <2>3. ProtPageOK(protPage')
    BY <1>5 DEF saveAll, ProtShape, ProtPageOK
  <2> QED BY <2>0, <2>1, <2>2, <2>3, ProtPut, ProtFirst
<1>6. CASE recoverCircuit
  <2>0. GatewayInRange'
    BY <1>0, <1>6 DEF recoverCircuit
  <2>1. ProtPageOK(protPage')
    BY <1>6 DEF recoverCircuit, ProtShape, ProtPageOK
  <2> QED BY <1>1, <1>6, <2>0, <2>1 DEF recoverCircuit
<1>7. ASSUME NEW target, AskRestriction(target) PROVE ProtShape'
  <2>1. ProtPageOK(protPage')
    BY <1>7 DEF AskRestriction, ProtShape, ProtPageOK
  <2>2. CASE target = Nothing
    BY <1>7, <2>1, <2>2 DEF AskRestriction, ProtShape
  <2>3. CASE target # Nothing
    <3>1. Begin(ProtCall("restrict", Sent(target), Unsent))
      BY <1>7, <2>3 DEF AskRestriction
    <3> QED BY <1>1, <2>1, <3>1
  <2> QED BY <2>2, <2>3
<1>8. CASE submitRestriction \/ quickRestrict
  <2>0. GatewayInRange'
    BY <1>0, <1>8 DEF submitRestriction, quickRestrict
  <2> QED BY <1>7, <1>8, <2>0 DEF submitRestriction, quickRestrict
<1>9. CASE removeRestriction
  <2>0. GatewayInRange'
    BY <1>0, <1>9 DEF removeRestriction
  <2>1. ProtPageOK(protPage')
    BY <1>9 DEF removeRestriction, ProtShape, ProtPageOK
  <2> QED BY <1>1, <1>9, <2>0, <2>1 DEF removeRestriction
<1>10. CASE RestrictionExpires
  BY <1>0, <1>10 DEF RestrictionExpires, ProtShape
<1>11. ASSUME NEW s \in Slots, protCalls[s].op # "idle" PROVE ProtHandlerOK(protCalls[s])
  BY <1>11 DEF ProtShape, Idle
<1>12. ASSUME NEW s \in Slots, ProtLoaded(s) PROVE GatewayInRange' /\ ProtShape'
  <2>0. GatewayInRange'
    BY <1>0, <1>12 DEF ProtLoaded
  <2>1. LimitForm(syncForm(protCalls[s].get.with))
    BY <1>11, <1>12, SyncOK DEF ProtLoaded, ProtHandlerOK, StateOK
  <2>2. ProtPageOK(protPage')
    BY <1>12, <2>1 DEF ProtLoaded, ProtShape, ProtPageOK
  <2> QED BY <1>12, <2>0, <2>2, ProtPut DEF ProtLoaded
<1>13. ASSUME NEW s \in Slots, ProtAnswered(s) PROVE GatewayInRange' /\ ProtShape'
  <2>0. GatewayInRange'
    BY <1>0, <1>13 DEF ProtAnswered
  <2>1. LimitForm(syncForm(protCalls[s].act.with.state))
    BY <1>11, <1>13, SyncOK DEF ProtAnswered, ProtHandlerOK, ActOK
  <2>2. DOMAIN protPage' = DOMAIN protPage /\ protPage'.form = syncForm(protCalls[s].act.with.state)
    BY <1>13 DEF ProtAnswered, Finished, resetRestrictionForm, ProtShape, ProtPageOK
  <2>3. ProtPageOK(protPage')
    BY <2>1, <2>2 DEF ProtShape, ProtPageOK
  <2> QED BY <1>13, <2>0, <2>3, ProtPut DEF ProtAnswered
<1>14. ASSUME NEW s \in Slots, ProtFails(s) PROVE GatewayInRange' /\ ProtShape'
  <2>0. GatewayInRange'
    BY <1>0, <1>14 DEF ProtFails
  <2>1. ProtHandlerOK([protCalls[s] EXCEPT !.op = "left"])
    BY <1>11, <1>14, ProtMoves DEF ProtFails
  <2>2. ProtPageOK(protPage')
    BY <1>14 DEF ProtFails, Finished, ProtShape, ProtPageOK
  <2>3. CASE protCalls' = [protCalls EXCEPT ![s].op = "left"]
    BY <2>0, <2>1, <2>2, <2>3, ProtPut
  <2>4. CASE protCalls' = [protCalls EXCEPT ![s] = Idle]
    BY <2>0, <2>2, <2>4, ProtPut
  <2> QED BY <1>14, <2>3, <2>4 DEF ProtFails
<1>15. ASSUME NEW s \in Slots, ProtLeft(s) PROVE GatewayInRange' /\ ProtShape'
  <2>0. GatewayInRange' /\ ProtPageOK(protPage')
    BY <1>0, <1>15 DEF ProtLeft, ProtShape
  <2> QED BY <1>15, <2>0, ProtPut DEF ProtLeft
<1>16. ASSUME NEW s \in Slots, ProtServeGet(s) PROVE GatewayInRange' /\ ProtShape'
  <2>0. GatewayInRange' /\ ProtPageOK(protPage')
    BY <1>0, <1>16 DEF ProtServeGet, ProtShape
  <2>1. StateOK(Served(currentProtectionState))
    BY DEF StateOK, Served, currentProtectionState, GatewayInRange
  <2>2. ProtHandlerOK([protCalls[s] EXCEPT !.get = Served(currentProtectionState)])
    BY <1>11, <1>16, <2>1, ProtMoves DEF ProtServeGet
  <2> QED BY <1>16, <2>0, <2>2, ProtPut DEF ProtServeGet
<1>17. ASSUME NEW s \in Slots, ProtServeUsage(s) PROVE GatewayInRange' /\ ProtShape'
  <2>1. ProtHandlerOK(protCalls[s]) /\ ProtPageOK(protPage')
    BY <1>17 DEF ProtServeUsage, ProtShape
  <2>2. ASSUME NEW profile \in Profiles, UNCHANGED gatewayVars,
               protCalls' = [protCalls EXCEPT ![s].usage = UsageRead(profile)]
        PROVE  GatewayInRange' /\ ProtShape'
    <3>1. ProtHandlerOK([protCalls[s] EXCEPT !.usage = UsageRead(profile)])
      BY <2>1, AnswersOK, ProtMoves
    <3> QED BY <1>0, <2>1, <2>2, <3>1, ProtPut
  <2>3. ASSUME protCalls[s].usage.at = "read",
               applyRecommendedRuntimeProfile(protCalls[s].usage),
               protCalls' = [protCalls EXCEPT ![s].usage = Served(Nothing)]
        PROVE  GatewayInRange' /\ ProtShape'
    <3>1. ProtHandlerOK([protCalls[s] EXCEPT !.usage = Served(Nothing)])
      BY <2>1, RequestsOK, ProtMoves
    <3>2. GatewayInRange'
      BY <2>1, <2>3 DEF ProtHandlerOK, UsageOK, applyRecommendedRuntimeProfile, GatewayInRange
    <3> QED BY <2>1, <2>3, <3>1, <3>2, ProtPut
  <2> QED BY <1>17, <2>2, <2>3 DEF ProtServeUsage
<1>18. ASSUME NEW s \in Slots, ProtServeAct(s) PROVE GatewayInRange' /\ ProtShape'
  <2> DEFINE call == protCalls[s]
  <2>1. ProtHandlerOK(call) /\ ProtPageOK(protPage')
    BY <1>18 DEF ProtServeAct, ProtShape
  <2>2. GatewayInRange'
    <3>1. CASE call.kind = "save" /\ handleProtectionStatePut(call.act.with)
      <4> DEFINE limit == IF call.act.with.limit > 0 THEN call.act.with.limit ELSE running.limit
      <4>1. call.act.with.limit \in Em
        BY <1>18, <2>1, <3>1 DEF ProtServeAct, ProtHandlerOK, ActOK, LimitForm
      <4>2. limit \in Lm
        BY <4>1, Entered DEF GatewayInRange
      <4>3. /\ settings' = [settings EXCEPT !.limit = limit, !.writes = @ + 1]
            /\ running' = [running EXCEPT !.limit = limit] /\ UNCHANGED disk
        BY <3>1 DEF handleProtectionStatePut
      <4> HIDE DEF limit
      <4> QED BY <4>2, <4>3 DEF GatewayInRange
    <3>2. CASE handleProtectionCircuitRecover
      BY <1>0, <3>2 DEF handleProtectionCircuitRecover
    <3>3. CASE handleProtectionRestrictions(call.kind, call.act.with)
      BY <1>0, <3>3 DEF handleProtectionRestrictions
    <3> QED BY <1>18, <3>1, <3>2, <3>3 DEF ProtServeAct
  <2> DEFINE did == IF call.kind \in {"restrict", "remove"} THEN call.act.with ELSE Nothing
             act == Served([did |-> did, state |-> currentProtectionState'])
  <2>3. ActOK(call.kind, act)
    <3>1. currentProtectionState'.limit \in Lm
      BY <2>2 DEF currentProtectionState, GatewayInRange
    <3> HIDE DEF did
    <3> QED BY <3>1 DEF ActOK, Served
  <2>4. protCalls' = [protCalls EXCEPT ![s].act = act]
    BY <1>18 DEF ProtServeAct
  <2> HIDE DEF act
  <2>5. ProtHandlerOK([protCalls[s] EXCEPT !.act = act])
    BY <2>1, <2>3, ProtMoves
  <2> QED BY <2>1, <2>2, <2>4, <2>5, ProtPut
<1> QED BY <1>2, <1>3, <1>4, <1>5, <1>6, <1>8, <1>9, <1>10, <1>12, <1>13, <1>14, <1>15, <1>16, <1>17,
     <1>18 DEF ProtectionNext

\* The steps of the rate limit dialog, likewise.
LEMMA PolicyShapeStep ==
  ASSUME GatewayInRange, PolicyShape, PolicyNext
  PROVE  GatewayInRange' /\ PolicyShape'
<1> USE DEF Put, Free
<1>0. ASSUME UNCHANGED gatewayVars PROVE GatewayInRange'
  BY <1>0 DEF GatewayInRange, gatewayVars
<1>1. CASE loadLimits
  <2> DEFINE call == [op |-> "limits", put |-> Unsent, get |-> Sent(Nothing)]
  <2>1. GatewayInRange' /\ PolicyPageOK(policyPage')
    BY <1>0, <1>1 DEF loadLimits, PolicyShape
  <2>2. PICK s \in Slots : policyCalls' = [policyCalls EXCEPT ![s] = call]
    BY <1>1 DEF loadLimits
  <2>3. PolicyHandlerOK(call)
    BY DEF PolicyHandlerOK, Unsent, Sent
  <2> HIDE DEF call
  <2> QED BY <2>1, <2>2, <2>3, PolicyPut
<1>2. CASE openEdit
  <2>1. GatewayInRange' /\ UNCHANGED policyCalls
    BY <1>0, <1>2 DEF openEdit
  <2>2. PolicyPageOK(policyPage')
    BY <1>2 DEF openEdit, PolicyShape, PolicyPageOK
  <2> QED BY <2>1, <2>2 DEF PolicyShape
<1>3. CASE PolicyType
  <2>1. GatewayInRange' /\ UNCHANGED policyCalls
    BY <1>0, <1>3 DEF PolicyType
  <2>2. PolicyPageOK(policyPage')
    BY <1>3, InRange DEF PolicyType, PolicyShape, PolicyPageOK, Em
  <2> QED BY <2>1, <2>2 DEF PolicyShape
<1>4. CASE savePolicy
  <2> DEFINE call == [op |-> "policy", put |-> Sent(policyPage.form), get |-> Unsent]
  <2>1. GatewayInRange' /\ PolicyPageOK(policyPage') /\ policyPage.form \in Em
    BY <1>0, <1>4 DEF savePolicy, PolicyShape, PolicyPageOK
  <2>2. PICK s \in Slots : policyCalls' = [policyCalls EXCEPT ![s] = call]
    BY <1>4 DEF savePolicy
  <2>3. PolicyHandlerOK(call)
    BY <2>1 DEF PolicyHandlerOK, Unsent, Sent
  <2> HIDE DEF call
  <2> QED BY <2>1, <2>2, <2>3, PolicyPut
<1>5. ASSUME NEW s \in Slots, policyCalls[s].op # "idle" PROVE PolicyHandlerOK(policyCalls[s])
  BY <1>5 DEF PolicyShape, Idle
<1>6. ASSUME NEW s \in Slots, PolicyServe(s) PROVE GatewayInRange' /\ PolicyShape'
  <2>1. PolicyHandlerOK(policyCalls[s]) /\ PolicyPageOK(policyPage')
    BY <1>5, <1>6 DEF PolicyServe, PolicyShape
  <2>2. ASSUME UNCHANGED gatewayVars,
               policyCalls' = [policyCalls EXCEPT ![s].get = Served(running.limit)]
        PROVE  GatewayInRange' /\ PolicyShape'
    <3>1. PolicyHandlerOK([policyCalls[s] EXCEPT !.get = Served(running.limit)])
      BY <2>1 DEF PolicyHandlerOK, Served, GatewayInRange
    <3> QED BY <1>0, <2>1, <2>2, <3>1, PolicyPut
  <2>3. ASSUME policyCalls[s].put.at = "sent", handleLimitsPut(policyCalls[s].put.with),
               policyCalls' = [policyCalls EXCEPT ![s].put = Served(running'.limit)]
        PROVE  GatewayInRange' /\ PolicyShape'
    <3>1. policyCalls[s].put.with \in Lm
      BY <2>1, <2>3, Entered DEF PolicyHandlerOK, handleLimitsPut
    <3>2. GatewayInRange'
      BY <2>3, <3>1 DEF handleLimitsPut, GatewayInRange
    <3>3. PolicyHandlerOK([policyCalls[s] EXCEPT !.put = Served(running'.limit)])
      BY <2>1, <3>2 DEF PolicyHandlerOK, Served, GatewayInRange
    <3> QED BY <2>1, <2>3, <3>2, <3>3, PolicyPut
  <2> QED BY <1>6, <2>2, <2>3 DEF PolicyServe
<1>7. ASSUME NEW s \in Slots, PolicyAnswered(s) PROVE GatewayInRange' /\ PolicyShape'
  <2>1. GatewayInRange' /\ PolicyHandlerOK(policyCalls[s])
    BY <1>0, <1>5, <1>7 DEF PolicyAnswered
  <2>2. PolicyPageOK(policyPage')
    BY <1>7, <2>1 DEF PolicyAnswered, PolicyHandlerOK, PolicyShape, PolicyPageOK, Em
  <2> QED BY <1>7, <2>1, <2>2, PolicyPut DEF PolicyAnswered
<1>8. ASSUME NEW s \in Slots, PolicyFails(s) PROVE GatewayInRange' /\ PolicyShape'
  <2>1. GatewayInRange' /\ PolicyPageOK(policyPage')
    BY <1>0, <1>8 DEF PolicyFails, PolicyShape
  <2> QED BY <1>8, <2>1, PolicyPut DEF PolicyFails
<1> QED BY <1>1, <1>2, <1>3, <1>4, <1>6, <1>7, <1>8 DEF PolicyNext

\* The nodes page changes the access policy and writes the file anew.
LEMMA NodesInRange ==
  ASSUME GatewayInRange, NodesNext
  PROVE  GatewayInRange'
<1>0. ASSUME UNCHANGED gatewayVars PROVE GatewayInRange'
  BY <1>0 DEF GatewayInRange, gatewayVars
<1>1. ASSUME NEW body, NEW secret, NEW was, handleNodeTunnelWorkspacePost(body, secret, was)
      PROVE  GatewayInRange'
  BY <1>1 DEF handleNodeTunnelWorkspacePost, GatewayInRange
<1>2. ASSUME NEW s \in Slots, NodesServePost(s) PROVE GatewayInRange'
  BY <1>0, <1>1, <1>2 DEF NodesServePost, ApplyWorkspace
<1>3. CASE UNCHANGED gatewayVars
  BY <1>0, <1>3
<1> QED BY <1>2, <1>3 DEF NodesNext, NodesLoad, NodesSave, OtherWorkspaceSave, NodesEdit, NodesEditMode,
     NodesEditRelay, NodesLoaded, NodesReread, NodesApplied, NodesFails, NodesLeft, NodesServeGet

\* The invariant behind FeedbackBounded: whatever carries a bandwidth or a limit
\* (memory, file, running values, forms, requests and answers) carries one in range.
FeedbackInv == GatewayInRange /\ SettingsShape /\ ProtShape /\ PolicyShape

LEMMA FeedbackInit == Init => FeedbackInv
<1> SUFFICES ASSUME Init PROVE FeedbackInv
  OBVIOUS
<1>1. settings \in GatewayStores
  <2>1. GatewayStores # {}
    <3>1. PICK k \in Keeps, a \in Accesses, b \in Bandwidths, l \in Limits : TRUE
      BY EnteredValues
    <3>2. [keep |-> k, access |-> a, base |-> b, limit |-> l, writes |-> 0] \in GatewayStores
      BY <3>1 DEF GatewayStores
    <3> QED BY <3>2
  <2>2. settings \in On(SettingsRoutes, GatewayStores)
    BY DEF Init, GatewayInit
  <2> QED BY <2>1, <2>2 DEF On
<1>2. GatewayInRange
  <2>1. /\ running = [mbps |-> settings.base, limit |-> settings.limit]
        /\ disk = [keep |-> settings.keep, access |-> settings.access, mbps |-> settings.base]
    BY DEF Init, GatewayInit
  <2>2. settings.base \in Bw /\ settings.limit \in Lm /\ settings.writes \in Nat
    BY <1>1, InRange DEF GatewayStores
  <2> QED BY <1>1, <2>1, <2>2 DEF GatewayInRange, GatewayStores
<1>3. SettingsShape
  BY DEF Init, SettingsInit, SettingsShape, PageOK, CallOK, NoCalls
<1>4. ProtShape /\ PolicyShape
  <2>1. ProtectionInit(On({"protection", "limits"}, ProtectionStores))
    BY DEF Init
  <2>2. ProtShape
    BY <2>1 DEF ProtectionInit, ProtShape, ProtPageOK, NoCalls
  <2>3. PolicyShape
    BY <2>1 DEF ProtectionInit, PolicyShape, PolicyPageOK, NoCalls, Em
  <2> QED BY <2>2, <2>3
<1> QED BY <1>2, <1>3, <1>4 DEF FeedbackInv

LEMMA FeedbackStep == FeedbackInv /\ [Next]_vars => FeedbackInv'
<1> SUFFICES ASSUME FeedbackInv, [Next]_vars PROVE FeedbackInv'
  OBVIOUS
<1>1. GatewayInRange /\ SettingsShape /\ ProtShape /\ PolicyShape
  BY DEF FeedbackInv
<1>2. ASSUME UNCHANGED settingsPageVars PROVE SettingsShape'
  BY <1>1, <1>2 DEF SettingsShape, settingsPageVars
<1>3. ASSUME UNCHANGED <<protPage, protCalls>> PROVE ProtShape'
  BY <1>1, <1>3 DEF ProtShape
<1>4. ASSUME UNCHANGED <<policyPage, policyCalls>> PROVE PolicyShape'
  BY <1>1, <1>4 DEF PolicyShape
<1>5. CASE SettingsNext /\ UNCHANGED <<nodesVars, protectionVars>>
  BY <1>1, <1>3, <1>4, <1>5, SettingsShapeStep DEF FeedbackInv, protectionVars
<1>6. CASE NodesNext /\ UNCHANGED <<settingsPageVars, protectionVars>>
  BY <1>1, <1>2, <1>3, <1>4, <1>6, NodesInRange DEF FeedbackInv, protectionVars
<1>7. CASE ProtectionNext /\ UNCHANGED <<settingsPageVars, nodesVars>>
  <2>1. UNCHANGED <<policyPage, policyCalls>>
    BY <1>7 DEF ProtectionNext, ProtLoad, ProtStartEdit, cancelEdit, ProtType, ProtTypeTarget, saveAll,
       recoverCircuit, submitRestriction, quickRestrict, removeRestriction, RestrictionExpires,
       ProtLoaded, ProtAnswered, ProtFails, ProtLeft, ProtServeGet, ProtServeUsage, ProtServeAct, Quiet
  <2> QED BY <1>1, <1>2, <1>4, <1>7, <2>1, ProtShapeStep DEF FeedbackInv
<1>8. CASE PolicyNext /\ UNCHANGED <<settingsPageVars, nodesVars>>
  <2>1. UNCHANGED <<protPage, protCalls>>
    BY <1>8 DEF PolicyNext, loadLimits, openEdit, PolicyType, savePolicy, PolicyServe, PolicyAnswered,
       PolicyFails, PolicyQuiet
  <2> QED BY <1>1, <1>2, <1>3, <1>8, <2>1, PolicyShapeStep DEF FeedbackInv
<1>9. CASE UNCHANGED <<gatewayVars, settingsPageVars, nodesVars, protectionVars>>
  <2>1. GatewayInRange'
    BY <1>1, <1>9 DEF GatewayInRange, gatewayVars
  <2> QED BY <1>2, <1>3, <1>4, <1>9, <2>1 DEF FeedbackInv, protectionVars
<1> QED BY <1>5, <1>6, <1>7, <1>8, <1>9, SettingsSteps

LEMMA FeedbackAlways == Spec => []FeedbackInv
BY FeedbackInit, FeedbackStep, PTL DEF Spec

\* However often the gateway tunes, a page shows the tuned value and an operator saves
\* it back as the baseline, through every order of half-served requests and restarts,
\* the bandwidth and the limit stay within what was typed, the default and the ceiling.
THEOREM FeedbackIsBounded == Spec => []FeedbackBounded
<1>1. FeedbackInv => FeedbackBounded
  BY DEF FeedbackInv, GatewayInRange, FeedbackBounded, Bw, Lm
<1> QED BY <1>1, FeedbackAlways, PTL

-----------------------------------------------------------------------------
(* What a save has stored.                                                 *)

\* A load posts nothing, also when it is left behind.
LoadPostsNothing ==
  \A s \in Slots : settingsCalls[s].op = "load" => settingsCalls[s].post.at = "unsent"

\* No POST is half way that was not, and those that are have kept their bodies.
NoMoreHalfWay ==
  \A s \in HalfWay' : s \in HalfWay /\ settingsCalls'[s].post.with = settingsCalls[s].post.with

FileOf(body) == [keep |-> body.keep, access |-> body.access, mbps |-> body.mbps]

Stored == [keep |-> settings.keep, access |-> settings.access, mbps |-> settings.base]

\* The invariant behind StoredSurvives: as long as no POST met another one half way,
\* at most one is half way and the settings in memory are its body; a stored body is
\* in memory and in the file, and no POST is half way.  The other routes store nothing.
StoredInv ==
  /\ LoadPostsNothing
  /\ ~settingsPage.crossed =>
       \A s \in HalfWay : /\ FileOf(settingsCalls[s].post.with.body) = Stored
                          /\ \A t \in HalfWay : s = t
  /\ settingsPage.stored # Nothing =>
       ~settingsPage.crossed /\ HalfWay = {} /\ disk = settingsPage.stored /\ disk = Stored
  /\ route # "settings" => settingsPage.stored = Nothing /\ settingsCalls = NoCalls

\* A change of one slot that puts no POST half way.
LEMMA SlotKeepsHalf ==
  ASSUME SettingsShape, LoadPostsNothing, NEW s \in Slots, NEW call,
         settingsCalls' = [settingsCalls EXCEPT ![s] = call],
         call.op = "load" => call.post.at = "unsent",
         call.op \in {"save", "left"} /\ call.post.at \in {"read", "open"} =>
           s \in HalfWay /\ call.post.with = settingsCalls[s].post.with
  PROVE  LoadPostsNothing' /\ NoMoreHalfWay
<1>1. ASSUME NEW t \in Slots PROVE settingsCalls'[t] = IF t = s THEN call ELSE settingsCalls[t]
  BY DEF SettingsShape
<1>2. LoadPostsNothing'
  BY <1>1 DEF LoadPostsNothing
<1>3. ASSUME NEW t \in HalfWay' PROVE t \in HalfWay /\ settingsCalls'[t].post.with = settingsCalls[t].post.with
  <2>1. CASE t = s
    BY <1>1, <2>1 DEF HalfWay
  <2>2. CASE t # s
    BY <1>1, <2>2 DEF HalfWay
  <2> QED BY <2>1, <2>2
<1> QED BY <1>2, <1>3 DEF NoMoreHalfWay

\* The call that a handler's request is part of, when that moves on.
LEMMA MovedFields ==
  ASSUME NEW call, HandlerOK(call)
  PROVE  /\ \A x : LET new == [call EXCEPT !.get = x] IN new.op = call.op /\ new.post = call.post
         /\ \A x : LET new == [call EXCEPT !.usage = x] IN new.op = call.op /\ new.post = call.post
         /\ \A x : LET new == [call EXCEPT !.post = x] IN new.op = call.op /\ new.post = x
         /\ LET new == [call EXCEPT !.op = "left"] IN new.op = "left" /\ new.post = call.post
BY DEF HandlerOK

\* A slot that is emptied.
LEMMA EmptiedHalf ==
  ASSUME SettingsShape, LoadPostsNothing, NEW s \in Slots,
         settingsCalls' = [settingsCalls EXCEPT ![s] = Idle]
  PROVE  LoadPostsNothing' /\ NoMoreHalfWay
<1>1. Idle.op = "idle"
  BY DEF Idle
<1> QED BY <1>1, SlotKeepsHalf

\* The steps that leave memory, file and the record of what is stored alone.
Aside == UNCHANGED <<settings, disk, settingsPage.stored, settingsPage.crossed>>

LEMMA AsideKinds ==
  ASSUME SettingsShape, LoadPostsNothing, SettingsNext
  PROVE  \/ Aside /\ LoadPostsNothing' /\ NoMoreHalfWay
         \/ RestartedGateway /\ UNCHANGED <<settingsPage.stored, settingsPage.crossed>>
         \/ \E s \in Slots : SettingsServePost(s) \/ SettingsOpenFile(s) \/ SettingsWriteFile(s)
<1> USE DEF Put, Free, Leave
<1> DEFINE Goal == Aside /\ LoadPostsNothing' /\ NoMoreHalfWay
<1>0. ASSUME UNCHANGED settingsCalls PROVE LoadPostsNothing' /\ NoMoreHalfWay
  BY <1>0 DEF LoadPostsNothing, NoMoreHalfWay, HalfWay
<1>1. CASE SettingsLoad
  <2> DEFINE call == SettingsRequests("load", Unsent, Sent(Nothing), Sent(Nothing))
  <2>1. PICK s \in Slots : settingsCalls' = [settingsCalls EXCEPT ![s] = call]
    BY <1>1 DEF SettingsLoad
  <2>2. call.op = "load" /\ call.post.at = "unsent"
    BY DEF SettingsRequests, Unsent
  <2>3. Aside
    BY <1>1 DEF SettingsLoad, Aside, gatewayVars, SettingsShape, PageOK
  <2> HIDE DEF call
  <2> QED BY <2>1, <2>2, <2>3, SlotKeepsHalf
<1>2. CASE SettingsSave
  <2> DEFINE call == SettingsRequests("save", Sent(settingsPage.form), Unsent, Unsent)
  <2>1. UNCHANGED settingsCalls \/ \E s \in Slots : settingsCalls' = [settingsCalls EXCEPT ![s] = call]
    BY <1>2 DEF SettingsSave
  <2>2. call.op = "save" /\ call.post.at = "sent"
    BY DEF SettingsRequests, Sent
  <2>3. Aside
    BY <1>2 DEF SettingsSave, Aside, gatewayVars, SettingsShape, PageOK
  <2> HIDE DEF call
  <2> QED BY <1>0, <2>1, <2>2, <2>3, SlotKeepsHalf
<1>3. CASE TypeKeep \/ TypeTuning
  <2>1. Aside
    BY <1>3 DEF TypeKeep, TypeTuning, Aside, gatewayVars, SettingsShape, PageOK
  <2> QED BY <1>0, <1>3, <2>1 DEF TypeKeep, TypeTuning
<1>4. CASE confirmRestart
  <2> DEFINE call == [op |-> "restart", post |-> Sent(Nothing)]
  <2>1. PICK s \in Slots : settingsCalls' = [settingsCalls EXCEPT ![s] = call]
    BY <1>4 DEF confirmRestart
  <2>2. call.op = "restart"
    OBVIOUS
  <2>3. Aside
    BY <1>4 DEF confirmRestart, Aside, gatewayVars, SettingsShape, PageOK
  <2> HIDE DEF call
  <2> QED BY <2>1, <2>2, <2>3, SlotKeepsHalf
<1>5. CASE RestartCommandRuns \/ Crash
  BY <1>5 DEF RestartCommandRuns, Crash, SettingsShape, PageOK
<1>6. ASSUME NEW s \in Slots, SettingsLoaded(s) \/ SettingsSaved(s) \/ SettingsLeft(s) \/ RestartEnds(s)
      PROVE  Goal
  <2>1. Aside
    BY <1>6 DEF SettingsLoaded, SettingsSaved, SettingsLeft, RestartEnds, Aside, gatewayVars,
       SettingsShape, PageOK
  <2>2. settingsCalls' = [settingsCalls EXCEPT ![s] = Idle]
    BY <1>6 DEF SettingsLoaded, SettingsSaved, SettingsLeft, RestartEnds
  <2> QED BY <2>1, <2>2, EmptiedHalf
<1>7. ASSUME NEW s \in Slots, HandlerOK(settingsCalls[s]), NEW x,
             \/ settingsCalls' = [settingsCalls EXCEPT ![s].get = x]
             \/ settingsCalls' = [settingsCalls EXCEPT ![s].usage = x]
      PROVE  LoadPostsNothing' /\ NoMoreHalfWay
  <2>1. PICK call : /\ settingsCalls' = [settingsCalls EXCEPT ![s] = call]
                    /\ call.op = settingsCalls[s].op /\ call.post = settingsCalls[s].post
    <3> DEFINE get == [settingsCalls[s] EXCEPT !.get = x]
               usage == [settingsCalls[s] EXCEPT !.usage = x]
    <3>1. /\ get.op = settingsCalls[s].op /\ get.post = settingsCalls[s].post
          /\ usage.op = settingsCalls[s].op /\ usage.post = settingsCalls[s].post
      BY <1>7, MovedFields
    <3>2. \/ settingsCalls' = [settingsCalls EXCEPT ![s] = get]
          \/ settingsCalls' = [settingsCalls EXCEPT ![s] = usage]
      BY <1>7
    <3> HIDE DEF get, usage
    <3> QED BY <3>1, <3>2
  <2>2. /\ call.op = "load" => call.post.at = "unsent"
        /\ call.op \in {"save", "left"} /\ call.post.at \in {"read", "open"} => s \in HalfWay
    BY <2>1 DEF LoadPostsNothing, HalfWay
  <2> QED BY <2>1, <2>2, SlotKeepsHalf
<1>8. ASSUME NEW s \in Slots, SettingsReread(s) \/ SettingsServeGet(s) \/ SettingsTakeForm(s)
      PROVE  Goal
  <2>1. Aside
    BY <1>8 DEF SettingsReread, SettingsServeGet, SettingsTakeForm, Aside, gatewayVars,
       SettingsShape, PageOK
  <2>2. HandlerOK(settingsCalls[s])
    BY <1>8, IsHandler DEF SettingsReread, SettingsServeGet, SettingsTakeForm
  <2> QED BY <1>7, <1>8, <2>1, <2>2 DEF SettingsReread, SettingsServeGet, SettingsTakeForm
<1>9. ASSUME NEW s \in Slots, SettingsServeUsage(s) PROVE Goal
  <2>1. Aside
    BY <1>9 DEF SettingsServeUsage, applyRecommendedRuntimeProfile, Aside, gatewayVars
  <2>2. HandlerOK(settingsCalls[s])
    BY <1>9, IsHandler DEF SettingsServeUsage
  <2> QED BY <1>7, <1>9, <2>1, <2>2 DEF SettingsServeUsage
<1>10. ASSUME NEW s \in Slots, SettingsFails(s) PROVE Goal
  <2>1. Aside
    BY <1>10 DEF SettingsFails, Aside, gatewayVars, SettingsShape, PageOK
  <2>2. HandlerOK(settingsCalls[s])
    BY <1>10, IsHandler DEF SettingsFails
  <2>3. CASE settingsCalls' = [settingsCalls EXCEPT ![s] = Idle]
    BY <2>1, <2>3, EmptiedHalf
  <2>4. CASE settingsCalls' = [settingsCalls EXCEPT ![s].op = "left"]
    <3>1. PICK call : /\ settingsCalls' = [settingsCalls EXCEPT ![s] = call]
                      /\ call.op = "left" /\ call.post = settingsCalls[s].post
      BY <2>2, <2>4, MovedFields
    <3>2. call.post.at \in {"read", "open"} => s \in HalfWay
      BY <1>10, <3>1 DEF SettingsFails, LoadPostsNothing, HalfWay
    <3> QED BY <2>1, <3>1, <3>2, SlotKeepsHalf
  <2> QED BY <1>10, <2>3, <2>4 DEF SettingsFails
<1>11. ASSUME NEW s \in Slots, handleGatewayRestart(s) PROVE Goal
  <2>1. Aside
    BY <1>11 DEF handleGatewayRestart, Aside, gatewayVars, SettingsShape, PageOK
  <2>2. PICK call : settingsCalls' = [settingsCalls EXCEPT ![s] = call] /\ call.op = "restart"
    <3>1. [settingsCalls[s] EXCEPT !.post = Served(Nothing)].op = "restart"
      BY <1>11 DEF handleGatewayRestart, SettingsShape, CallOK, HandlerOK, Idle
    <3> QED BY <1>11, <3>1 DEF handleGatewayRestart
  <2> QED BY <2>1, <2>2, SlotKeepsHalf
<1>12. ASSUME NEW s \in Slots, SettingsTune(s) PROVE Goal
  <2> DEFINE post == [settingsCalls[s].post EXCEPT !.at = "tuned"]
             call == [settingsCalls[s] EXCEPT !.post = post]
  <2>1. Aside
    BY <1>12 DEF SettingsTune, ApplyTransportTuning, Aside
  <2>2. HandlerOK(settingsCalls[s]) /\ settingsCalls[s].op \in {"save", "left"}
    BY <1>12, IsHandler DEF SettingsTune
  <2>3. settingsCalls' = [settingsCalls EXCEPT ![s] = call]
    BY <1>12 DEF SettingsTune
  <2>4. call.op = settingsCalls[s].op /\ call.post.at = "tuned"
    BY <2>2 DEF HandlerOK, PostOK
  <2> HIDE DEF call
  <2> QED BY <2>1, <2>2, <2>3, <2>4, SlotKeepsHalf
<1> HIDE DEF Goal
<1> QED BY <1>1, <1>2, <1>3, <1>4, <1>5, <1>6, <1>8, <1>9, <1>10, <1>11, <1>12 DEF SettingsNext, Goal

LEMMA StoredStep == FeedbackInv /\ StoredInv /\ [Next]_vars => StoredInv'
<1> SUFFICES ASSUME FeedbackInv, StoredInv, [Next]_vars PROVE StoredInv'
  OBVIOUS
<1>0. SettingsShape /\ LoadPostsNothing /\ UNCHANGED route
  BY SettingsSteps DEF FeedbackInv, StoredInv
<1>1. CASE Aside /\ LoadPostsNothing' /\ NoMoreHalfWay
           /\ (route # "settings" => UNCHANGED settingsPageVars)
  <2>1. Stored' = Stored /\ disk' = disk /\ settingsPage'.stored = settingsPage.stored
        /\ settingsPage'.crossed = settingsPage.crossed
    BY <1>1 DEF Aside, Stored
  <2>2. HalfWay = {} => HalfWay' = {}
    BY <1>1 DEF NoMoreHalfWay
  <2>3. ASSUME ~settingsPage'.crossed, NEW s \in HalfWay'
        PROVE  /\ FileOf(settingsCalls'[s].post.with.body) = Stored'
               /\ \A t \in HalfWay' : s = t
    BY <1>1, <2>1, <2>3 DEF StoredInv, NoMoreHalfWay
  <2>4. settingsPage'.stored # Nothing =>
          ~settingsPage'.crossed /\ HalfWay' = {} /\ disk' = settingsPage'.stored /\ disk' = Stored'
    BY <2>1, <2>2 DEF StoredInv
  <2>5. route' # "settings" => settingsPage'.stored = Nothing /\ settingsCalls' = NoCalls
    BY <1>0, <1>1 DEF StoredInv, settingsPageVars, NoCalls
  <2> QED BY <1>1, <2>3, <2>4, <2>5 DEF StoredInv
<1>2. CASE route = "settings" /\ RestartedGateway
           /\ UNCHANGED <<settingsPage.stored, settingsPage.crossed>>
  <2>1. \A s \in Slots :
          IF settingsCalls[s].op \in {"load", "save", "left"}
          THEN /\ settingsCalls'[s].op = settingsCalls[s].op
               /\ settingsCalls'[s].post = Broken(settingsCalls[s].post)
          ELSE settingsCalls'[s] = settingsCalls[s]
    BY <1>0, <1>2, IsHandler DEF RestartedGateway, HandlerOK
  <2>2. HalfWay' = {} /\ LoadPostsNothing'
    BY <1>0, <2>1 DEF HalfWay, LoadPostsNothing, Broken
  <2>3. ASSUME settingsPage'.stored # Nothing
        PROVE  ~settingsPage'.crossed /\ disk' = settingsPage'.stored /\ disk' = Stored'
    <3>1. disk = settingsPage.stored /\ disk # Nothing /\ ~settingsPage.crossed /\ disk = Stored
      BY <1>2, <2>3 DEF StoredInv
    <3>2. disk' = disk /\ Stored' = Stored
      BY <1>2, <3>1 DEF RestartedGateway, StartGateway, FileOrDefaults, Stored, FeedbackInv, GatewayInRange
    <3> QED BY <1>2, <3>1, <3>2
  <2> QED BY <1>0, <1>2, <2>2, <2>3 DEF StoredInv
<1>3. ASSUME NEW s \in Slots, route = "settings", SettingsServePost(s) PROVE StoredInv'
  <2> DEFINE form == settingsCalls[s].post.with
             post == Read([body |-> form, write |-> settings'.writes])
  <2>1. HandlerOK(settingsCalls[s]) /\ settingsCalls[s].op \in {"save", "left"}
    BY <1>0, <1>3, IsHandler DEF SettingsServePost
  <2>2. /\ settingsPage'.stored = Nothing
        /\ settingsPage'.crossed = (HalfWay # {})
    BY <1>0, <1>3 DEF SettingsServePost, SettingsShape, PageOK
  <2>3. FileOf(form) = Stored'
    BY <1>3 DEF SettingsServePost, handleSystemSettingsPost, FileOf, Stored, FeedbackInv, GatewayInRange
  <2>4. settingsCalls' = [settingsCalls EXCEPT ![s].post = post] /\ post.at = "read" /\ post.with.body = form
    BY <1>3 DEF SettingsServePost, Read
  <2> HIDE DEF form, post
  <2>5. /\ settingsCalls'[s].op = settingsCalls[s].op /\ settingsCalls'[s].post = post
        /\ \A t \in Slots : t # s => settingsCalls'[t] = settingsCalls[t]
    BY <1>0, <2>1, <2>4 DEF SettingsShape, HandlerOK
  <2>6. HalfWay' \subseteq HalfWay \cup {s} /\ LoadPostsNothing'
    BY <1>0, <2>1, <2>5 DEF HalfWay, LoadPostsNothing
  <2>7. ASSUME ~settingsPage'.crossed, NEW t \in HalfWay'
        PROVE  /\ FileOf(settingsCalls'[t].post.with.body) = Stored'
               /\ \A u \in HalfWay' : t = u
    <3>1. HalfWay' \subseteq {s}
      BY <2>2, <2>6, <2>7
    <3> QED BY <2>3, <2>4, <2>5, <2>7, <3>1
  <2> QED BY <1>0, <1>3, <2>2, <2>6, <2>7 DEF StoredInv
<1>4. ASSUME NEW s \in Slots, route = "settings", SettingsOpenFile(s) PROVE StoredInv'
  <2>1. s \in HalfWay /\ UNCHANGED <<settings, settingsPage>>
    BY <1>4 DEF SettingsOpenFile, TruncateFile
  <2>2. settingsPage.stored = Nothing
    BY <2>1 DEF StoredInv
  <2>3. /\ \A t \in Slots : t # s => settingsCalls'[t] = settingsCalls[t]
        /\ settingsCalls'[s].op = settingsCalls[s].op
        /\ settingsCalls'[s].post.with = settingsCalls[s].post.with
    <3>1. HandlerOK(settingsCalls[s])
      BY <1>0, <2>1, IsHandler DEF HalfWay
    <3>2. settingsCalls' = [settingsCalls EXCEPT ![s].post.at = "open"]
      BY <1>4 DEF SettingsOpenFile
    <3> QED BY <1>0, <3>1, <3>2 DEF HandlerOK, PostOK, SettingsShape
  <2>4. NoMoreHalfWay /\ LoadPostsNothing'
    BY <1>0, <2>1, <2>3 DEF NoMoreHalfWay, HalfWay, LoadPostsNothing
  <2>5. Stored' = Stored
    BY <2>1 DEF Stored
  <2>6. ASSUME ~settingsPage'.crossed, NEW t \in HalfWay'
        PROVE  /\ FileOf(settingsCalls'[t].post.with.body) = Stored'
               /\ \A u \in HalfWay' : t = u
    BY <2>1, <2>4, <2>5, <2>6 DEF StoredInv, NoMoreHalfWay
  <2> QED BY <1>0, <1>4, <2>1, <2>2, <2>4, <2>6 DEF StoredInv
<1>5. ASSUME NEW s \in Slots, route = "settings", SettingsWriteFile(s) PROVE StoredInv'
  <2> DEFINE body == settingsCalls[s].post.with.body
  <2>1. s \in HalfWay /\ UNCHANGED settings
    BY <1>5 DEF SettingsWriteFile, WriteFile, gatewayVars, Opened
  <2>2. HandlerOK(settingsCalls[s]) /\ settingsCalls[s].op \in {"save", "left"}
    BY <1>0, <2>1, IsHandler DEF HalfWay
  <2>3. /\ settingsPage'.crossed = settingsPage.crossed
        /\ settingsPage'.stored = IF ~settingsPage.crossed /\ disk' = FileOf(body)
                                   THEN FileOf(body) ELSE Nothing
    BY <1>0, <1>5 DEF SettingsWriteFile, FileOf, SettingsShape, PageOK
  <2> HIDE DEF body
  <2>5. /\ \A t \in Slots : t # s => settingsCalls'[t] = settingsCalls[t]
        /\ settingsCalls'[s].op = settingsCalls[s].op
        /\ settingsCalls'[s].post = Served(Nothing)
    BY <1>0, <1>5, <2>2 DEF SettingsWriteFile, HandlerOK, SettingsShape
  <2>6. NoMoreHalfWay /\ LoadPostsNothing' /\ s \notin HalfWay'
    BY <1>0, <2>1, <2>2, <2>5 DEF NoMoreHalfWay, HalfWay, LoadPostsNothing, Served
  <2>7. Stored' = Stored
    BY <2>1 DEF Stored
  <2>8. ASSUME ~settingsPage'.crossed, NEW t \in HalfWay'
        PROVE  /\ FileOf(settingsCalls'[t].post.with.body) = Stored'
               /\ \A u \in HalfWay' : t = u
    BY <2>3, <2>6, <2>7, <2>8 DEF StoredInv, NoMoreHalfWay
  <2>9. ASSUME settingsPage'.stored # Nothing
        PROVE  ~settingsPage'.crossed /\ HalfWay' = {} /\ disk' = settingsPage'.stored /\ disk' = Stored'
    <3>1. ~settingsPage.crossed /\ disk' = FileOf(body) /\ settingsPage'.stored = FileOf(body)
      BY <2>3, <2>9
    <3>2. HalfWay = {s} /\ FileOf(body) = Stored
      BY <2>1, <3>1 DEF StoredInv, body
    <3>3. HalfWay' = {}
      BY <2>6, <3>2 DEF NoMoreHalfWay
    <3> QED BY <2>3, <2>7, <3>1, <3>2, <3>3
  <2> QED BY <1>0, <1>5, <2>6, <2>8, <2>9 DEF StoredInv
<1>6. CASE route = "settings" /\ SettingsNext
  BY <1>0, <1>1, <1>2, <1>3, <1>4, <1>5, <1>6, AsideKinds
<1>7. CASE UNCHANGED settingsPageVars /\ (UNCHANGED gatewayVars \/ route # "settings")
  <2>1. LoadPostsNothing' /\ HalfWay' = HalfWay /\ settingsCalls' = settingsCalls
        /\ settingsPage' = settingsPage
    BY <1>0, <1>7 DEF LoadPostsNothing, HalfWay, settingsPageVars
  <2>2. CASE UNCHANGED gatewayVars
    <3>1. Aside /\ NoMoreHalfWay
      BY <2>1, <2>2 DEF Aside, NoMoreHalfWay, gatewayVars
    <3> QED BY <1>1, <1>7, <2>1, <3>1
  <2>3. CASE route # "settings"
    <3>1. settingsPage.stored = Nothing /\ settingsCalls = NoCalls
      BY <2>3 DEF StoredInv
    <3>2. HalfWay = {}
      BY <3>1 DEF HalfWay, NoCalls, Idle
    <3>3. settingsPage'.stored = Nothing /\ settingsCalls' = NoCalls' /\ HalfWay' = {}
      BY <2>1, <3>1, <3>2 DEF NoCalls, Idle
    <3> QED BY <2>1, <3>3 DEF StoredInv
  <2> QED BY <1>7, <2>2, <2>3
<1> QED BY <1>6, <1>7, SettingsSteps

LEMMA StoredInit == Init => StoredInv
<1> SUFFICES ASSUME Init PROVE StoredInv
  OBVIOUS
<1>1. settingsPage.stored = Nothing /\ settingsCalls = NoCalls
  BY DEF Init, SettingsInit
<1>2. HalfWay = {} /\ LoadPostsNothing
  BY <1>1 DEF HalfWay, LoadPostsNothing, NoCalls, Idle
<1> QED BY <1>1, <1>2 DEF StoredInv

LEMMA StoredAlways == Spec => []StoredInv
BY FeedbackAlways, StoredInit, StoredStep, PTL DEF Spec

\* What a POST that met no other one half way has got into the file is in memory and in
\* the file until the next POST, through any number of crashes and restarts.  A POST that
\* is answered need not have got there: the error of its write is dropped.
THEOREM SavedSettingsSurvive == Spec => []StoredSurvives
<1>1. StoredInv => StoredSurvives
  BY DEF StoredInv, Stored, StoredSurvives
<1> QED BY <1>1, StoredAlways, PTL

-----------------------------------------------------------------------------
(* "Saved and re-read".                                                    *)

Saves == {s \in Slots : settingsCalls[s].op = "save"}

Loads == {s \in Slots : settingsCalls[s].op = "load"}

\* A save posts, then reads back, then reads the usage; what it read back is not older
\* than what it wrote, and on the screen unless a load came in between.
SaveInOrder(call, page) ==
  /\ call.get.at # "unsent" => call.post.at = "served"
  /\ call.usage.at # "unsent" => call.get.at # "unsent"
  /\ call.get.at = "served" => call.get.with.read >= page.wrote
  /\ ~page.raced /\ call.usage.at # "unsent" => page.form.read >= page.wrote

\* The invariant behind SoloSaveRereads.  At most one save is under way; one that did not
\* race has no load beside it, and none has started while its notice stands.
SoloInv ==
  /\ settingsPage.wrote <= settings.writes
  /\ \A s \in HalfWay : settingsCalls[s].post.with.write <= settings.writes
  /\ \A s \in Saves : /\ settingsPage.saving
                      /\ SaveInOrder(settingsCalls[s], settingsPage)
                      /\ ~settingsPage.raced => Loads = {}
                      /\ \A t \in Saves : s = t
  /\ settingsPage.notice = "saved" /\ ~settingsPage.raced =>
       Saves = {} /\ Loads = {} /\ settingsPage.form.read >= settingsPage.wrote

LEMMA SoloInit == Init => SoloInv
<1> SUFFICES ASSUME Init PROVE SoloInv
  OBVIOUS
<1>1. /\ settingsPage.wrote = 0 /\ settingsPage.notice = "" /\ settingsCalls = NoCalls
      /\ settings.writes \in Nat
  BY FeedbackInit DEF Init, SettingsInit, FeedbackInv, GatewayInRange
<1>2. HalfWay = {} /\ Saves = {}
  BY <1>1 DEF HalfWay, Saves, NoCalls, Idle
<1>3. settingsPage.notice # "saved"
  BY <1>1
<1>4. 0 <= settings.writes
  <2> DEFINE n == settings.writes
  <2>1. n \in Nat
    BY <1>1
  <2> HIDE DEF n
  <2>2. 0 <= n
    BY <2>1
  <2> QED BY <2>2 DEF n
<1> QED BY <1>1, <1>2, <1>3, <1>4 DEF SoloInv

\* The count of writes only grows, on every route.
LEMMA WritesGrow ==
  ASSUME FeedbackInv, [Next]_vars
  PROVE  settings'.writes \in Nat /\ settings.writes <= settings'.writes
<1>1. GatewayInRange /\ GatewayInRange'
  BY FeedbackStep DEF FeedbackInv
<1>2. \/ settings'.writes = settings.writes
      \/ settings'.writes = settings.writes + 1
  <2>1. CASE SettingsNext
    <3>1. CASE UNCHANGED settings
      BY <3>1
    <3>2. ASSUME NEW s \in Slots, SettingsServePost(s) PROVE settings'.writes = settings.writes + 1
      BY <1>1, <3>2 DEF SettingsServePost, handleSystemSettingsPost, GatewayInRange
    <3>3. CASE StartGateway
      BY <1>1, <3>3 DEF StartGateway, GatewayInRange
    <3>4. CASE \E s \in Slots : SettingsOpenFile(s) \/ SettingsWriteFile(s)
      BY <3>4 DEF SettingsOpenFile, TruncateFile, SettingsWriteFile, WriteFile, gatewayVars
    <3>5. CASE SettingsLoad \/ SettingsSave \/ TypeKeep \/ TypeTuning \/ confirmRestart
      BY <3>1, <3>5 DEF SettingsLoad, SettingsSave, TypeKeep, TypeTuning, confirmRestart, gatewayVars
    <3>6. CASE RestartCommandRuns \/ Crash
      BY <3>3, <3>6 DEF RestartCommandRuns, Crash, RestartedGateway
    <3>7. ASSUME NEW s \in Slots, SettingsLoaded(s) \/ SettingsReread(s) \/ SettingsTakeForm(s)
                   \/ SettingsSaved(s) \/ SettingsFails(s) \/ SettingsLeft(s) \/ SettingsServeGet(s)
                   \/ SettingsServeUsage(s) \/ handleGatewayRestart(s) \/ RestartEnds(s)
                   \/ SettingsTune(s)
          PROVE  UNCHANGED settings
      BY <3>7 DEF SettingsLoaded, SettingsReread, SettingsTakeForm, SettingsSaved, SettingsFails,
         SettingsLeft, SettingsServeGet, SettingsServeUsage, applyRecommendedRuntimeProfile,
         handleGatewayRestart, RestartEnds, SettingsTune, ApplyTransportTuning, gatewayVars
    <3> QED BY <2>1, <3>1, <3>2, <3>4, <3>5, <3>6, <3>7 DEF SettingsNext
  <2>2. CASE NodesNext
    <3>1. ASSUME NEW body, NEW secret, NEW was, handleNodeTunnelWorkspacePost(body, secret, was)
          PROVE  settings'.writes = settings.writes + 1
      BY <1>1, <3>1 DEF handleNodeTunnelWorkspacePost, GatewayInRange
    <3>2. CASE UNCHANGED gatewayVars
      BY <3>2 DEF gatewayVars
    <3> QED BY <2>2, <3>1, <3>2 DEF NodesNext, NodesLoad, NodesSave, OtherWorkspaceSave, NodesEdit,
         NodesEditMode, NodesEditRelay, NodesLoaded, NodesReread, NodesApplied, NodesFails, NodesLeft,
         NodesServeGet, NodesServePost, ApplyWorkspace
  <2>3. CASE ProtectionNext \/ PolicyNext
    <3>1. ASSUME NEW form, handleProtectionStatePut(form) \/ handleLimitsPut(form)
          PROVE  settings'.writes = settings.writes + 1
      BY <1>1, <3>1 DEF handleProtectionStatePut, handleLimitsPut, GatewayInRange
    <3>2. CASE UNCHANGED settings
      BY <3>2
    <3> QED BY <2>3, <3>1, <3>2 DEF ProtectionNext, ProtLoad, ProtStartEdit, cancelEdit, ProtType,
         ProtTypeTarget, saveAll, recoverCircuit, submitRestriction, quickRestrict, removeRestriction,
         RestrictionExpires, ProtLoaded, ProtAnswered, ProtFails, ProtLeft, ProtServeGet, ProtServeUsage,
         ProtServeAct, Quiet, handleProtectionRestrictions, handleProtectionCircuitRecover,
         applyRecommendedRuntimeProfile, PolicyNext, loadLimits, openEdit, PolicyType, savePolicy,
         PolicyServe, PolicyAnswered, PolicyFails, gatewayVars
  <2>4. CASE UNCHANGED gatewayVars
    BY <2>4 DEF gatewayVars
  <2> QED BY <2>1, <2>2, <2>3, <2>4, SettingsSteps
<1> QED BY <1>1, <1>2 DEF GatewayInRange

\* What a change of one slot does to the sets of handlers.
SlotEffect(s, call) ==
  /\ \A t \in Slots : settingsCalls'[t] = IF t = s THEN call ELSE settingsCalls[t]
  /\ \A t \in Slots : t # s => (t \in Saves' <=> t \in Saves) /\ (t \in Loads' <=> t \in Loads)
                               /\ (t \in HalfWay' <=> t \in HalfWay)
  /\ s \in Saves' <=> call.op = "save"
  /\ s \in Loads' <=> call.op = "load"
  /\ s \in HalfWay' <=> call.op \in {"save", "left"} /\ call.post.at \in {"read", "open"}

LEMMA SlotSets ==
  ASSUME SettingsShape, NEW s \in Slots, NEW call,
         settingsCalls' = [settingsCalls EXCEPT ![s] = call]
  PROVE  SlotEffect(s, call)
<1>1. \A t \in Slots : settingsCalls'[t] = IF t = s THEN call ELSE settingsCalls[t]
  BY DEF SettingsShape
<1> QED BY <1>1 DEF SlotEffect, Saves, Loads, HalfWay

\* Only form, error and the flags of the restart change: nothing the invariant reads.
SamePage ==
  /\ settingsPage'.wrote = settingsPage.wrote /\ settingsPage'.saving = settingsPage.saving
  /\ settingsPage'.raced = settingsPage.raced /\ settingsPage'.notice = settingsPage.notice
  /\ settingsPage'.form.read = settingsPage.form.read

\* The POST of one handler is replaced, and so it stands for the file it will write.
PostBecomes(s, post) ==
  /\ settingsCalls' = [settingsCalls EXCEPT ![s].post = post]
  /\ post.at \in {"read", "open"} => post.with.write <= settings'.writes

\* One slot changes to a call of the same kind, or to one that is neither load nor save,
\* under a page that shows the same.
LEMMA SoloSlot ==
  ASSUME FeedbackInv, SoloInv, SamePage, settings'.writes \in Nat, settings.writes <= settings'.writes,
         NEW s \in Slots, NEW call,
         settingsCalls' = [settingsCalls EXCEPT ![s] = call],
         call.op = settingsCalls[s].op \/ call.op \notin {"load", "save"},
         call.op = "save" => SaveInOrder(call, settingsPage),
         call.op \in {"save", "left"} /\ call.post.at \in {"read", "open"} =>
           call.post.with.write <= settings'.writes
  PROVE  SoloInv'
<1>1. SettingsShape /\ settingsPage.wrote \in Nat /\ settings.writes \in Nat
  BY DEF FeedbackInv, SettingsShape, PageOK, GatewayInRange
<1>0. SlotEffect(s, call)
  BY <1>1, SlotSets
<1>2. Saves' \subseteq Saves /\ Loads' \subseteq Loads
  BY <1>0 DEF SlotEffect, Saves, Loads
<1>3. settingsPage'.wrote <= settings'.writes
  BY <1>1 DEF SoloInv, SamePage
<1>4. ASSUME NEW t \in HalfWay' PROVE settingsCalls'[t].post.with.write <= settings'.writes
  <2>1. CASE t = s
    BY <1>0, <2>1 DEF SlotEffect
  <2>2. CASE t # s
    <3>1. t \in Slots
      BY DEF HalfWay
    <3>2. t \in HalfWay /\ settingsCalls'[t] = settingsCalls[t]
      BY <1>0, <2>2, <3>1 DEF SlotEffect
    <3>3. settingsCalls[t].post.with.write \in Nat
      BY <1>1, <3>1, <3>2, IsHandler DEF HalfWay, HandlerOK, PostOK
    <3>4. settingsCalls[t].post.with.write <= settings.writes
      BY <3>2 DEF SoloInv
    <3> QED BY <1>1, <3>2, <3>3, <3>4
  <2> QED BY <2>1, <2>2
<1>5. ASSUME NEW t \in Saves'
      PROVE  /\ settingsPage'.saving
             /\ SaveInOrder(settingsCalls'[t], settingsPage')
             /\ ~settingsPage'.raced => Loads' = {}
             /\ \A u \in Saves' : t = u
  <2>1. t \in Saves /\ t \in Slots
    BY <1>2 DEF Saves
  <2>2. SaveInOrder(settingsCalls'[t], settingsPage)
    <3>1. CASE t = s
      BY <1>0, <1>5, <3>1 DEF SlotEffect
    <3>2. CASE t # s
      BY <1>0, <2>1, <3>2 DEF SlotEffect, SoloInv
    <3> QED BY <3>1, <3>2
  <2>3. SaveInOrder(settingsCalls'[t], settingsPage')
    BY <2>2 DEF SaveInOrder, SamePage
  <2>4. settingsPage'.saving /\ (~settingsPage'.raced => Loads' = {})
    BY <1>2, <2>1 DEF SoloInv, SamePage
  <2>5. \A u \in Saves' : t = u
    BY <1>2, <2>1 DEF SoloInv
  <2> QED BY <2>3, <2>4, <2>5
<1>6. settingsPage'.notice = "saved" /\ ~settingsPage'.raced =>
        Saves' = {} /\ Loads' = {} /\ settingsPage'.form.read >= settingsPage'.wrote
  BY <1>2 DEF SoloInv, SamePage
<1> QED BY <1>3, <1>4, <1>5, <1>6 DEF SoloInv

LEMMA SoloStep == FeedbackInv /\ StoredInv /\ SoloInv /\ [Next]_vars => SoloInv'
<1> SUFFICES ASSUME FeedbackInv, StoredInv, SoloInv, [Next]_vars PROVE SoloInv'
  OBVIOUS
<1> USE DEF Put, Free, Leave
<1>0. /\ SettingsShape /\ settingsPage.wrote \in Nat /\ settings.writes \in Nat
      /\ settings'.writes \in Nat /\ settings.writes <= settings'.writes
  BY WritesGrow DEF FeedbackInv, SettingsShape, PageOK, GatewayInRange
<1>1. ASSUME SamePage, UNCHANGED settingsCalls PROVE SoloInv'
  <2>1. HalfWay' = HalfWay /\ Saves' = Saves /\ Loads' = Loads
    BY <1>1 DEF HalfWay, Saves, Loads
  <2>2. settingsPage'.wrote <= settings'.writes
    BY <1>0, <1>1 DEF SoloInv, SamePage
  <2>3. ASSUME NEW t \in HalfWay' PROVE settingsCalls'[t].post.with.write <= settings'.writes
    <3>1. t \in HalfWay /\ t \in Slots
      BY <2>1 DEF HalfWay
    <3>2. settingsCalls[t].post.with.write \in Nat
      BY <1>0, <3>1, IsHandler DEF HalfWay, HandlerOK, PostOK
    <3>3. settingsCalls[t].post.with.write <= settings.writes
      BY <3>1 DEF SoloInv
    <3> QED BY <1>0, <1>1, <3>2, <3>3
  <2>4. ASSUME NEW t \in Saves PROVE SaveInOrder(settingsCalls'[t], settingsPage')
    <3>1. SaveInOrder(settingsCalls[t], settingsPage)
      BY DEF SoloInv
    <3> QED BY <1>1, <3>1 DEF SaveInOrder, SamePage
  <2> QED BY <1>1, <2>1, <2>2, <2>3, <2>4 DEF SoloInv, SamePage
<1>2. CASE UNCHANGED settingsPageVars
  BY <1>1, <1>2 DEF SamePage, settingsPageVars
<1>3. ASSUME NEW s \in Slots, SamePage, settingsCalls' = [settingsCalls EXCEPT ![s] = Idle] PROVE SoloInv'
  <2>1. Idle.op = "idle"
    BY DEF Idle
  <2> QED BY <1>0, <1>3, <2>1, SoloSlot
<1>4. CASE SettingsLoad
  <2> DEFINE call == SettingsRequests("load", Unsent, Sent(Nothing), Sent(Nothing))
  <2>1. PICK s \in Slots : settingsCalls' = [settingsCalls EXCEPT ![s] = call]
                           /\ settingsCalls[s] = Idle /\ UNCHANGED settings
    BY <1>4 DEF SettingsLoad, gatewayVars
  <2>2. call.op = "load"
    BY DEF SettingsRequests
  <2>3. /\ settingsPage'.wrote = settingsPage.wrote /\ settingsPage'.saving = settingsPage.saving
        /\ settingsPage'.form = settingsPage.form /\ settingsPage'.notice = ""
        /\ settingsPage'.raced = (settingsPage.raced \/ Saves # {})
    BY <1>0, <1>4 DEF SettingsLoad, SettingsShape, PageOK, Waiting, Saves
  <2> HIDE DEF call
  <2>4. /\ \A t \in Slots : settingsCalls'[t] = IF t = s THEN call ELSE settingsCalls[t]
        /\ Saves' = Saves /\ HalfWay' = HalfWay /\ s \notin Saves /\ s \notin HalfWay
    <3>1. SlotEffect(s, call)
      BY <1>0, <2>1, SlotSets
    <3>2. s \notin Saves /\ s \notin HalfWay
      BY <2>1 DEF Saves, HalfWay, Idle
    <3>3. Saves' = Saves /\ HalfWay' = HalfWay
      BY <2>2, <3>1, <3>2 DEF SlotEffect, Saves, HalfWay
    <3> QED BY <3>1, <3>2, <3>3 DEF SlotEffect
  <2>5. ASSUME NEW t \in Saves PROVE SaveInOrder(settingsCalls'[t], settingsPage')
    <3>1. settingsCalls'[t] = settingsCalls[t]
      BY <2>4 DEF Saves
    <3>2. SaveInOrder(settingsCalls[t], settingsPage)
      BY DEF SoloInv
    <3> QED BY <2>3, <3>1, <3>2 DEF SaveInOrder
  <2>6. ASSUME NEW t \in HalfWay PROVE settingsCalls'[t].post.with.write <= settings'.writes
    BY <2>1, <2>4 DEF SoloInv, HalfWay
  <2> QED BY <2>1, <2>3, <2>4, <2>5, <2>6 DEF SoloInv
<1>5. CASE SettingsSave
  <2> DEFINE call == SettingsRequests("save", Sent(settingsPage.form), Unsent, Unsent)
  <2>1. CASE UNCHANGED settingsCalls
    <3>1. CASE settingsPage' = [settingsPage EXCEPT !.error = TRUE]
      <4>1. SamePage
        BY <1>0, <3>1 DEF SamePage, SettingsShape, PageOK
      <4> QED BY <1>1, <2>1, <4>1
    <3>2. CASE \E s \in Free(settingsCalls) : settingsCalls' = [settingsCalls EXCEPT ![s] = call]
      <4>1. PICK s \in Slots : settingsCalls[s] = Idle /\ settingsCalls' = [settingsCalls EXCEPT ![s] = call]
        BY <3>2
      <4>2. settingsCalls'[s] = call /\ call.op = "save" /\ Idle.op = "idle"
        BY <1>0, <4>1 DEF SettingsShape, SettingsRequests, Idle
      <4> QED BY <2>1, <4>1, <4>2
    <3> QED BY <1>5, <3>1, <3>2 DEF SettingsSave
  <2>2. CASE settingsCalls' # settingsCalls
    <3>1. /\ ~settingsPage.saving /\ UNCHANGED settings
          /\ settingsPage' = [settingsPage EXCEPT !.saving = TRUE, !.error = FALSE,
                                !.notice = "", !.raced = Waiting(settingsCalls, "load") # {}]
      BY <1>5, <2>2 DEF SettingsSave, gatewayVars
    <3>2. PICK s \in Slots : settingsCalls' = [settingsCalls EXCEPT ![s] = call] /\ settingsCalls[s] = Idle
      BY <1>5, <2>2 DEF SettingsSave
    <3>3. /\ call.op = "save" /\ call.post.at = "sent" /\ call.get.at = "unsent" /\ call.usage.at = "unsent"
      BY DEF SettingsRequests, Sent, Unsent
    <3>4. /\ settingsPage'.wrote = settingsPage.wrote /\ settingsPage'.saving = TRUE
          /\ settingsPage'.notice = "" /\ settingsPage'.raced = (Loads # {})
      BY <1>0, <3>1 DEF SettingsShape, PageOK, Waiting, Loads
    <3> HIDE DEF call
    <3>5. Saves = {}
      BY <3>1 DEF SoloInv
    <3>6. /\ \A t \in Slots : settingsCalls'[t] = IF t = s THEN call ELSE settingsCalls[t]
          /\ Saves' = {s} /\ HalfWay' = HalfWay /\ s \notin HalfWay /\ Loads' = Loads
      <4>1. SlotEffect(s, call)
        BY <1>0, <3>2, SlotSets
      <4>2. s \notin Loads /\ s \notin HalfWay
        BY <3>2 DEF Loads, HalfWay, Idle
      <4>3. HalfWay' = HalfWay /\ Loads' = Loads
        BY <3>3, <4>1, <4>2 DEF SlotEffect, Loads, HalfWay
      <4>4. Saves' = {s}
        BY <3>3, <3>5, <4>1 DEF SlotEffect, Saves
      <4> QED BY <4>1, <4>2, <4>3, <4>4 DEF SlotEffect
    <3>7. SaveInOrder(settingsCalls'[s], settingsPage')
      BY <3>3, <3>6 DEF SaveInOrder
    <3>8. ASSUME NEW t \in HalfWay PROVE settingsCalls'[t].post.with.write <= settings'.writes
      BY <3>1, <3>6 DEF SoloInv, HalfWay
    <3> QED BY <3>1, <3>4, <3>6, <3>7, <3>8 DEF SoloInv
  <2> QED BY <2>1, <2>2
<1>6. CASE TypeKeep \/ TypeTuning
  <2>1. FormOK(settingsPage.form)
    BY <1>0, <1>6 DEF TypeKeep, TypeTuning, Typeable, SettingsShape, PageOK
  <2>2. SamePage
    BY <1>0, <1>6, <2>1 DEF TypeKeep, TypeTuning, SettingsShape, PageOK, FormOK, SamePage
  <2> QED BY <1>1, <1>6, <2>2 DEF TypeKeep, TypeTuning
<1>7. CASE confirmRestart
  <2> DEFINE call == [op |-> "restart", post |-> Sent(Nothing)]
  <2>1. PICK s \in Slots : settingsCalls' = [settingsCalls EXCEPT ![s] = call]
    BY <1>7 DEF confirmRestart
  <2>2. SamePage /\ call.op = "restart"
    BY <1>0, <1>7 DEF confirmRestart, SettingsShape, PageOK, SamePage
  <2> HIDE DEF call
  <2> QED BY <1>0, <2>1, <2>2, SoloSlot
<1>8. CASE RestartCommandRuns \/ Crash
  <2>1. SamePage /\ RestartedGateway
    BY <1>0, <1>8 DEF RestartCommandRuns, Crash, SettingsShape, PageOK, SamePage
  <2>2. ASSUME NEW t \in Slots
        PROVE  /\ settingsCalls'[t].op = settingsCalls[t].op
               /\ settingsCalls[t].op \in {"load", "save", "left"} =>
                    /\ settingsCalls'[t].post = Broken(settingsCalls[t].post)
                    /\ settingsCalls'[t].usage = Broken(settingsCalls[t].usage)
                    /\ settingsCalls'[t].get = settingsCalls[t].get
    BY <1>0, <2>1, IsHandler DEF RestartedGateway, HandlerOK
  <2>3. HalfWay' = {} /\ Saves' = Saves /\ Loads' = Loads
    BY <2>2 DEF HalfWay, Saves, Loads, Broken
  <2>4. ASSUME NEW t \in Saves PROVE SaveInOrder(settingsCalls'[t], settingsPage')
    <3>1. SaveInOrder(settingsCalls[t], settingsPage)
      BY DEF SoloInv
    <3>2. SaveInOrder(settingsCalls'[t], settingsPage)
      BY <2>2, <3>1 DEF SaveInOrder, Saves, Broken
    <3> QED BY <2>1, <3>2 DEF SaveInOrder, SamePage
  <2>5. settingsPage'.wrote <= settings'.writes
    BY <1>0, <2>1 DEF SoloInv, SamePage
  <2> QED BY <2>1, <2>3, <2>4, <2>5 DEF SoloInv, SamePage
<1>9. ASSUME NEW s \in Slots, SettingsLoaded(s) PROVE SoloInv'
  <2>1. s \in Loads /\ settingsCalls' = [settingsCalls EXCEPT ![s] = Idle] /\ UNCHANGED settings
    BY <1>9 DEF SettingsLoaded, Loads, gatewayVars
  <2>2. /\ settingsPage'.wrote = settingsPage.wrote /\ settingsPage'.saving = settingsPage.saving
        /\ settingsPage'.raced = settingsPage.raced /\ settingsPage'.notice = settingsPage.notice
    BY <1>0, <1>9 DEF SettingsLoaded, SettingsShape, PageOK
  <2>3. /\ \A t \in Slots : settingsCalls'[t] = IF t = s THEN Idle ELSE settingsCalls[t]
        /\ Saves' = Saves /\ HalfWay' = HalfWay /\ s \notin Saves /\ s \notin HalfWay
    <3>1. SlotEffect(s, Idle)
      BY <1>0, <2>1, SlotSets
    <3>2. s \notin Saves /\ s \notin HalfWay /\ Idle.op = "idle"
      BY <2>1 DEF Saves, Loads, HalfWay, Idle
    <3>3. Saves' = Saves /\ HalfWay' = HalfWay
      BY <3>1, <3>2 DEF SlotEffect, Saves, HalfWay
    <3> QED BY <3>1, <3>2, <3>3 DEF SlotEffect
  <2>4. ASSUME NEW t \in Saves PROVE SaveInOrder(settingsCalls'[t], settingsPage') /\ settingsPage.raced
    <3>1. settingsCalls'[t] = settingsCalls[t]
      BY <2>3 DEF Saves
    <3>2. SaveInOrder(settingsCalls[t], settingsPage) /\ settingsPage.raced
      BY <2>1 DEF SoloInv
    <3> QED BY <2>2, <3>1, <3>2 DEF SaveInOrder
  <2>5. ASSUME NEW t \in HalfWay PROVE settingsCalls'[t].post.with.write <= settings'.writes
    BY <2>1, <2>3 DEF SoloInv, HalfWay
  <2>6. settingsPage.notice = "saved" => settingsPage.raced
    BY <2>1 DEF SoloInv
  <2> QED BY <2>1, <2>2, <2>3, <2>4, <2>5, <2>6 DEF SoloInv
<1>10. ASSUME NEW s \in Slots, HandlerOK(settingsCalls[s]), SamePage, NEW x, NEW call,
              settingsCalls' = [settingsCalls EXCEPT ![s] = call],
              \/ call = [settingsCalls[s] EXCEPT !.get = x]
              \/ call = [settingsCalls[s] EXCEPT !.usage = x],
              settingsCalls[s].op = "save" => SaveInOrder(call, settingsPage)
       PROVE  SoloInv'
  <2>1. call.op = settingsCalls[s].op /\ call.post = settingsCalls[s].post
    BY <1>10 DEF HandlerOK
  <2>2. ASSUME call.op \in {"save", "left"} /\ call.post.at \in {"read", "open"}
        PROVE  call.post.with.write <= settings'.writes
    <3>1. settingsCalls[s].post.with.write \in Nat
      BY <1>10, <2>1, <2>2 DEF HandlerOK, PostOK
    <3>2. settingsCalls[s].post.with.write <= settings.writes
      BY <2>1, <2>2 DEF SoloInv, HalfWay
    <3> QED BY <1>0, <2>1, <3>1, <3>2
  <2> QED BY <1>0, <1>10, <2>1, <2>2, SoloSlot
<1>11. ASSUME NEW s \in Slots, settingsCalls[s].op = "save"
       PROVE  s \in Saves /\ HandlerOK(settingsCalls[s]) /\ SaveInOrder(settingsCalls[s], settingsPage)
  BY <1>0, <1>11, IsHandler DEF Saves, SoloInv
<1>12. ASSUME NEW s \in Slots, SettingsReread(s) PROVE SoloInv'
  <2> DEFINE call == [settingsCalls[s] EXCEPT !.get = Sent(Nothing)]
  <2>1. /\ settingsCalls[s].op = "save" /\ settingsCalls[s].post.at = "served"
        /\ settingsCalls' = [settingsCalls EXCEPT ![s] = call] /\ SamePage
    BY <1>12 DEF SettingsReread, SamePage
  <2>2. HandlerOK(settingsCalls[s]) /\ SaveInOrder(settingsCalls[s], settingsPage)
    BY <1>11, <2>1
  <2>3. call.get = Sent(Nothing) /\ call.post = settingsCalls[s].post /\ call.usage = settingsCalls[s].usage
    BY <2>2 DEF HandlerOK
  <2>4. SaveInOrder(call, settingsPage)
    <3> HIDE DEF call
    <3> QED BY <2>1, <2>2, <2>3 DEF SaveInOrder, Sent
  <2> QED BY <1>10, <2>1, <2>2, <2>4
<1>13. ASSUME NEW s \in Slots, SettingsServeGet(s) PROVE SoloInv'
  <2> DEFINE got == handleSystemSettingsGet
             call == [settingsCalls[s] EXCEPT !.get = Served(got)]
  <2>1. /\ settingsCalls[s].op \in {"load", "save"} /\ settingsCalls[s].get.at = "sent"
        /\ settingsCalls' = [settingsCalls EXCEPT ![s] = call] /\ SamePage
    BY <1>13 DEF SettingsServeGet, SamePage
  <2>2. HandlerOK(settingsCalls[s])
    BY <1>0, <2>1, IsHandler
  <2>3. call.get = Served(got) /\ call.post = settingsCalls[s].post /\ call.usage = settingsCalls[s].usage
    BY <2>2 DEF HandlerOK
  <2>4. got.read = settings.writes /\ got.read >= settingsPage.wrote
    BY <1>0 DEF handleSystemSettingsGet, SoloInv
  <2>5. settingsCalls[s].op = "save" => SaveInOrder(call, settingsPage)
    <3> HIDE DEF call, got
    <3> QED BY <1>11, <2>1, <2>3, <2>4 DEF SaveInOrder, Served
  <2> QED BY <1>10, <2>1, <2>2, <2>5
<1>14. ASSUME NEW s \in Slots, SettingsServeUsage(s) PROVE SoloInv'
  <2>1. /\ settingsCalls[s].op \in {"load", "save", "left"} /\ settingsCalls[s].usage.at \in {"sent", "read"}
        /\ SamePage
    BY <1>14 DEF SettingsServeUsage, SamePage
  <2>2. PICK usage : settingsCalls' = [settingsCalls EXCEPT ![s].usage = usage] /\ usage.at \in {"read", "served"}
    <3>1. Served(Nothing).at = "served" /\ \A profile : UsageRead(profile).at = "read"
      BY DEF UsageRead, Read, Served
    <3> QED BY <1>14, <3>1 DEF SettingsServeUsage
  <2> DEFINE call == [settingsCalls[s] EXCEPT !.usage = usage]
  <2>3. HandlerOK(settingsCalls[s])
    BY <1>0, <2>1, IsHandler
  <2>4. call.get = settingsCalls[s].get /\ call.post = settingsCalls[s].post /\ call.usage = usage
    BY <2>3 DEF HandlerOK
  <2>5. settingsCalls[s].op = "save" => SaveInOrder(call, settingsPage)
    <3> HIDE DEF call
    <3> QED BY <1>11, <2>1, <2>2, <2>4 DEF SaveInOrder
  <2>6. settingsCalls' = [settingsCalls EXCEPT ![s] = call]
    BY <2>2
  <2> QED BY <1>10, <2>1, <2>3, <2>5, <2>6
<1>15. ASSUME NEW s \in Slots, SettingsTakeForm(s) PROVE SoloInv'
  <2> DEFINE call == [settingsCalls[s] EXCEPT !.usage = Sent(Nothing)]
  <2>1. /\ settingsCalls[s].op = "save" /\ settingsCalls[s].get.at = "served" /\ UNCHANGED settings
        /\ settingsCalls' = [settingsCalls EXCEPT ![s] = call]
    BY <1>15 DEF SettingsTakeForm, gatewayVars
  <2>2. s \in Saves /\ HandlerOK(settingsCalls[s]) /\ SaveInOrder(settingsCalls[s], settingsPage)
    BY <1>11, <2>1
  <2>3. /\ settingsPage'.wrote = settingsPage.wrote /\ settingsPage'.saving = settingsPage.saving
        /\ settingsPage'.raced = settingsPage.raced /\ settingsPage'.notice = settingsPage.notice
        /\ settingsPage'.form = settingsCalls[s].get.with
    BY <1>0, <1>15 DEF SettingsTakeForm, SettingsShape, PageOK
  <2>4. /\ call.get = settingsCalls[s].get /\ call.post = settingsCalls[s].post /\ call.usage = Sent(Nothing)
        /\ call.op = settingsCalls[s].op
    BY <2>2 DEF HandlerOK
  <2> HIDE DEF call
  <2>5. SlotEffect(s, call)
    BY <1>0, <2>1, SlotSets
  <2>6. Saves = {s} /\ settingsPage.saving /\ (~settingsPage.raced => Loads = {})
    BY <2>2 DEF SoloInv
  <2>7. Saves' = {s} /\ Loads' = Loads /\ HalfWay' = HalfWay
    BY <2>1, <2>4, <2>5, <2>6 DEF SlotEffect, Saves, Loads, HalfWay
  <2>8. SaveInOrder(call, settingsPage')
    BY <2>1, <2>2, <2>3, <2>4 DEF SaveInOrder
  <2>9. ASSUME NEW t \in HalfWay PROVE settingsCalls'[t].post.with.write <= settings'.writes
    <3>1. settingsCalls'[t].post = settingsCalls[t].post
      BY <2>4, <2>5 DEF SlotEffect, HalfWay
    <3> QED BY <2>1, <3>1 DEF SoloInv
  <2>10. settingsPage.notice = "saved" => settingsPage.raced
    BY <2>6 DEF SoloInv
  <2>11. settingsCalls'[s] = call
    BY <2>5 DEF SlotEffect
  <2> QED BY <2>1, <2>3, <2>6, <2>7, <2>8, <2>9, <2>10, <2>11 DEF SoloInv
<1>16. ASSUME NEW s \in Slots, SettingsSaved(s) PROVE SoloInv'
  <2>1. /\ settingsCalls[s].op = "save" /\ settingsCalls[s].usage.at = "served" /\ UNCHANGED settings
        /\ settingsCalls' = [settingsCalls EXCEPT ![s] = Idle]
    BY <1>16 DEF SettingsSaved, gatewayVars
  <2>2. s \in Saves /\ SaveInOrder(settingsCalls[s], settingsPage)
    BY <1>11, <2>1
  <2>3. /\ settingsPage'.wrote = settingsPage.wrote /\ settingsPage'.raced = settingsPage.raced
        /\ settingsPage'.form = settingsPage.form
    BY <1>0, <1>16 DEF SettingsSaved, SettingsShape, PageOK
  <2>4. SlotEffect(s, Idle) /\ Idle.op = "idle"
    BY <1>0, <2>1, SlotSets DEF Idle
  <2>5. Saves = {s} /\ (~settingsPage.raced => Loads = {})
    BY <2>2 DEF SoloInv
  <2>6. Saves' = {} /\ Loads' \subseteq Loads
    BY <2>4, <2>5 DEF SlotEffect, Saves, Loads
  <2>7. ASSUME NEW t \in HalfWay' PROVE settingsCalls'[t].post.with.write <= settings'.writes
    <3>1. t \in HalfWay /\ settingsCalls'[t] = settingsCalls[t]
      BY <2>4 DEF SlotEffect, HalfWay
    <3> QED BY <2>1, <3>1 DEF SoloInv
  <2>8. ~settingsPage'.raced => settingsPage'.form.read >= settingsPage'.wrote
    BY <2>1, <2>2, <2>3 DEF SaveInOrder
  <2>9. ~settingsPage'.raced => Loads' = {}
    BY <2>3, <2>5, <2>6
  <2> QED BY <2>1, <2>3, <2>6, <2>7, <2>8, <2>9 DEF SoloInv
<1>17. ASSUME NEW s \in Slots, SettingsFails(s) PROVE SoloInv'
  <2>1. /\ settingsCalls[s].op \in {"load", "save"} /\ UNCHANGED settings
        /\ \/ settingsCalls' = [settingsCalls EXCEPT ![s] = Idle]
           \/ settingsCalls' = [settingsCalls EXCEPT ![s].op = "left"]
    BY <1>17 DEF SettingsFails, gatewayVars
  <2>2. HandlerOK(settingsCalls[s])
    BY <1>0, <2>1, IsHandler
  <2> DEFINE left == [settingsCalls[s] EXCEPT !.op = "left"]
  <2>3. left.op = "left" /\ left.post = settingsCalls[s].post /\ Idle.op = "idle"
    BY <2>2 DEF HandlerOK, Idle
  <2>4. SlotEffect(s, Idle) \/ SlotEffect(s, left)
    BY <1>0, <2>1, SlotSets
  <2> HIDE DEF left
  <2>5. /\ settingsPage'.wrote = settingsPage.wrote /\ settingsPage'.raced = settingsPage.raced
        /\ settingsPage'.form = settingsPage.form /\ settingsPage'.notice = settingsPage.notice
        /\ settingsPage'.saving = (settingsPage.saving /\ settingsCalls[s].op # "save")
    BY <1>0, <1>17 DEF SettingsFails, SettingsShape, PageOK
  <2>6. /\ Saves' \subseteq Saves /\ Loads' \subseteq Loads /\ s \notin Saves'
        /\ \A t \in Slots : t # s => settingsCalls'[t] = settingsCalls[t]
    BY <2>3, <2>4 DEF SlotEffect, Saves, Loads
  <2>7. ASSUME NEW t \in HalfWay' PROVE settingsCalls'[t].post.with.write <= settings'.writes
    <3>1. CASE t = s
      <4>1. settingsCalls'[s] = left /\ settingsCalls[s].post.at \in {"read", "open"}
        BY <2>3, <2>4, <2>7, <3>1 DEF SlotEffect
      <4>2. settingsCalls[s].op = "load" \/ s \in HalfWay
        BY <2>1, <4>1 DEF HalfWay
      <4>3. settingsCalls[s].op # "load"
        BY <4>1 DEF StoredInv, LoadPostsNothing
      <4> QED BY <2>1, <2>3, <3>1, <4>1, <4>2, <4>3 DEF SoloInv
    <3>2. CASE t # s
      <4>1. t \in HalfWay /\ settingsCalls'[t] = settingsCalls[t]
        BY <2>4, <3>2 DEF SlotEffect, HalfWay
      <4> QED BY <2>1, <4>1 DEF SoloInv
    <3> QED BY <3>1, <3>2
  <2>8. ASSUME NEW t \in Saves'
        PROVE  /\ settingsPage'.saving /\ SaveInOrder(settingsCalls'[t], settingsPage')
               /\ ~settingsPage'.raced => Loads' = {}
               /\ \A u \in Saves' : t = u
    <3>1. t \in Saves /\ t # s /\ settingsCalls'[t] = settingsCalls[t]
      BY <2>6 DEF Saves
    <3>2. settingsCalls[s].op # "save"
      BY <3>1 DEF Saves, SoloInv
    <3>3. settingsPage.saving /\ SaveInOrder(settingsCalls[t], settingsPage)
          /\ (~settingsPage.raced => Loads = {}) /\ \A u \in Saves : t = u
      BY <3>1 DEF SoloInv
    <3>4. SaveInOrder(settingsCalls'[t], settingsPage')
      BY <2>5, <3>1, <3>3 DEF SaveInOrder
    <3> QED BY <2>5, <2>6, <3>2, <3>3, <3>4
  <2>9. settingsPage.notice = "saved" => settingsPage.raced
    BY <2>1 DEF SoloInv, Saves, Loads
  <2> QED BY <2>1, <2>5, <2>7, <2>8, <2>9 DEF SoloInv
<1>18. ASSUME NEW s \in Slots, SettingsLeft(s) \/ RestartEnds(s) PROVE SoloInv'
  <2>1. SamePage /\ settingsCalls' = [settingsCalls EXCEPT ![s] = Idle]
    BY <1>0, <1>18 DEF SettingsLeft, RestartEnds, SettingsShape, PageOK, SamePage
  <2> QED BY <1>3, <2>1
<1>19. ASSUME NEW s \in Slots, handleGatewayRestart(s) PROVE SoloInv'
  <2> DEFINE call == [settingsCalls[s] EXCEPT !.post = Served(Nothing)]
  <2>1. SamePage /\ settingsCalls' = [settingsCalls EXCEPT ![s] = call]
    BY <1>0, <1>19 DEF handleGatewayRestart, SettingsShape, PageOK, SamePage
  <2>2. call.op = "restart"
    BY <1>0, <1>19 DEF handleGatewayRestart, SettingsShape, CallOK, HandlerOK, Idle
  <2> HIDE DEF call
  <2> QED BY <1>0, <2>1, <2>2, SoloSlot
<1>20. ASSUME NEW s \in Slots, NEW post, settingsCalls[s].op \in {"save", "left"}, SamePage,
              PostBecomes(s, post), settingsCalls[s].post.at # "served"
       PROVE  SoloInv'
  <2> DEFINE call == [settingsCalls[s] EXCEPT !.post = post]
  <2>1. HandlerOK(settingsCalls[s])
    BY <1>0, <1>20, IsHandler
  <2>2. /\ call.op = settingsCalls[s].op /\ call.post = post /\ call.get = settingsCalls[s].get
        /\ call.usage = settingsCalls[s].usage
    BY <2>1 DEF HandlerOK
  <2>3. /\ settingsCalls' = [settingsCalls EXCEPT ![s] = call]
        /\ post.at \in {"read", "open"} => post.with.write <= settings'.writes
    BY <1>20 DEF PostBecomes
  <2> HIDE DEF call
  <2>4. ASSUME call.op = "save" PROVE SaveInOrder(call, settingsPage)
    BY <1>11, <1>20, <2>2, <2>4 DEF SaveInOrder
  <2> QED BY <1>0, <1>20, <2>2, <2>3, <2>4, SoloSlot
<1>21. ASSUME NEW s \in Slots, SettingsServePost(s) PROVE SoloInv'
  <2> DEFINE post == Read([body |-> settingsCalls[s].post.with, write |-> settings'.writes])
  <2>1. /\ settingsCalls[s].op \in {"save", "left"} /\ settingsCalls[s].post.at = "tuned" /\ SamePage
        /\ settingsCalls' = [settingsCalls EXCEPT ![s].post = post]
    BY <1>0, <1>21 DEF SettingsServePost, SettingsShape, PageOK, SamePage
  <2>2. post.with.write = settings'.writes
    BY DEF Read
  <2> HIDE DEF post
  <2>3. post.with.write <= settings'.writes
    BY <1>0, <2>2
  <2>4. PostBecomes(s, post) /\ settingsCalls[s].post.at # "served"
    BY <2>1, <2>3 DEF PostBecomes
  <2> QED BY <1>20, <2>1, <2>4
<1>22. ASSUME NEW s \in Slots, SettingsOpenFile(s) PROVE SoloInv'
  <2> DEFINE post == [settingsCalls[s].post EXCEPT !.at = "open"]
  <2>1. /\ s \in HalfWay /\ SamePage /\ UNCHANGED settings
        /\ settingsCalls' = [settingsCalls EXCEPT ![s].post = post]
    BY <1>22 DEF SettingsOpenFile, TruncateFile, SamePage
  <2>2. HandlerOK(settingsCalls[s]) /\ settingsCalls[s].op \in {"save", "left"}
        /\ settingsCalls[s].post.at # "served"
    BY <1>0, <2>1, IsHandler DEF HalfWay
  <2>3. post.with.write = settingsCalls[s].post.with.write
    BY <2>2 DEF HandlerOK, PostOK
  <2> HIDE DEF post
  <2>4. post.with.write <= settings'.writes
    BY <2>1, <2>3 DEF SoloInv
  <2>5. PostBecomes(s, post)
    BY <2>1, <2>4 DEF PostBecomes
  <2> QED BY <1>20, <2>1, <2>2, <2>5
<1>23. ASSUME NEW s \in Slots, SettingsWriteFile(s) PROVE SoloInv'
  <2>1. /\ s \in HalfWay /\ settingsCalls[s].post.at # "served" /\ UNCHANGED settings
        /\ settingsCalls' = [settingsCalls EXCEPT ![s].post = Served(Nothing)]
    BY <1>23 DEF SettingsWriteFile, WriteFile, gatewayVars, HalfWay, Opened
  <2>2. HandlerOK(settingsCalls[s]) /\ settingsCalls[s].op \in {"save", "left"}
    BY <1>0, <2>1, IsHandler DEF HalfWay
  <2>3. /\ settingsPage'.saving = settingsPage.saving /\ settingsPage'.raced = settingsPage.raced
        /\ settingsPage'.notice = settingsPage.notice /\ settingsPage'.form = settingsPage.form
        /\ settingsPage'.wrote = IF settingsCalls[s].op = "save" THEN settingsCalls[s].post.with.write
                                 ELSE settingsPage.wrote
    BY <1>0, <1>23 DEF SettingsWriteFile, SettingsShape, PageOK
  <2>4. Served(Nothing).at = "served"
    BY DEF Served
  <2>5. CASE settingsCalls[s].op = "left"
    <3>1. SamePage
      BY <2>3, <2>5 DEF SamePage
    <3>2. PostBecomes(s, Served(Nothing)) /\ settingsCalls[s].post.at # "served"
      BY <2>1, <2>4 DEF PostBecomes
    <3> QED BY <1>20, <2>5, <3>1, <3>2
  <2>6. CASE settingsCalls[s].op = "save"
    <3> DEFINE call == [settingsCalls[s] EXCEPT !.post = Served(Nothing)]
    <3>1. /\ call.op = "save" /\ call.post = Served(Nothing) /\ call.get = settingsCalls[s].get
          /\ call.usage = settingsCalls[s].usage
      BY <2>2, <2>6 DEF HandlerOK
    <3>2. SlotEffect(s, call)
      BY <1>0, <2>1, SlotSets
    <3> HIDE DEF call
    <3>3. s \in Saves /\ SaveInOrder(settingsCalls[s], settingsPage)
      BY <1>11, <2>6
    <3>4. Saves = {s} /\ settingsPage.saving /\ (~settingsPage.raced => Loads = {})
      BY <3>3 DEF SoloInv
    <3>5. Saves' = {s} /\ Loads' = Loads /\ HalfWay' \subseteq HalfWay /\ s \notin HalfWay'
          /\ (\A t \in Slots : t # s => settingsCalls'[t] = settingsCalls[t]) /\ settingsCalls'[s] = call
      BY <2>4, <2>6, <3>1, <3>2, <3>4 DEF SlotEffect, Saves, Loads, HalfWay
    <3>6. SaveInOrder(call, settingsPage')
      BY <2>1, <3>1, <3>3 DEF SaveInOrder
    <3>7. settingsPage'.wrote <= settings'.writes
      BY <2>1, <2>3, <2>6 DEF SoloInv
    <3>8. ASSUME NEW t \in HalfWay' PROVE settingsCalls'[t].post.with.write <= settings'.writes
      BY <2>1, <3>5 DEF SoloInv, HalfWay
    <3>9. settingsPage.notice = "saved" => settingsPage.raced
      BY <3>4 DEF SoloInv
    <3> QED BY <2>3, <3>4, <3>5, <3>6, <3>7, <3>8, <3>9 DEF SoloInv
  <2> QED BY <2>2, <2>5, <2>6
<1>24. ASSUME NEW s \in Slots, SettingsTune(s) PROVE SoloInv'
  <2> DEFINE post == [settingsCalls[s].post EXCEPT !.at = "tuned"]
  <2>1. /\ settingsCalls[s].op \in {"save", "left"} /\ settingsCalls[s].post.at = "sent" /\ SamePage
        /\ settingsCalls' = [settingsCalls EXCEPT ![s].post = post]
    BY <1>24 DEF SettingsTune, SamePage
  <2>2. post.at = "tuned"
    BY <1>0, <2>1, IsHandler DEF HandlerOK, PostOK
  <2> HIDE DEF post
  <2>3. PostBecomes(s, post) /\ settingsCalls[s].post.at # "served"
    BY <2>1, <2>2 DEF PostBecomes
  <2> QED BY <1>20, <2>1, <2>3
<1>25. CASE SettingsNext
  BY <1>4, <1>5, <1>6, <1>7, <1>8, <1>9, <1>12, <1>13, <1>14, <1>15, <1>16, <1>17, <1>18, <1>19, <1>21,
     <1>22, <1>23, <1>24, <1>25 DEF SettingsNext
<1> QED BY <1>2, <1>25, SettingsSteps

\* The notice "saved and re-read" of a save that no load overlapped is true of the form on
\* the screen, with posts left behind, restarts and failures around it.
THEOREM SavedIsReread == Spec => []SoloSaveRereads
<1>1. SoloInv => SoloSaveRereads
  BY DEF SoloInv, SoloSaveRereads
<1>2. Spec => []SoloInv
  BY FeedbackAlways, StoredAlways, SoloInit, SoloStep, PTL DEF Spec
<1> QED BY <1>1, <1>2, PTL
=============================================================================
