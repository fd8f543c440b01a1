------------------------------ MODULE Console ------------------------------
(***************************************************************************)
(* The management console: the router of gateway-ui shows one view at a    *)
(* time, and the views share nothing but the gateway behind them.  A       *)
(* behaviour is a session on one route; what another browser does on the   *)
(* other routes is in the gateway's part of each page's module.            *)
(***************************************************************************)
EXTENDS SettingsPage, NodesPage, ProtectionPage, MappingPage, ResourcePage,
        ListPages, MonitorPages, Conversions

CONSTANT Budget      \* bound: operator steps on each route; its domain are the routes

ASSUME BudgetAssumption == \A r \in DOMAIN Budget : Budget[r] \in 0 .. MaxClicks

VARIABLE route       \* the view that is mounted

vars ==
  <<route, clicks, gatewayVars, settingsPageVars, nodesVars, protectionVars, mappingVars,
    resourceVars, listVars, monitorVars, mockVars, sample>>

\* The views that read the stored settings.
SettingsRoutes == {"settings", "nodes", "protection", "limits"}

\* Any of the values on one of the routes, a fixed one on all others.
On(routes, values) == IF route \in routes THEN values ELSE {CHOOSE v \in values : TRUE}

Init ==
  /\ route \in DOMAIN Budget
  /\ clicks = MaxClicks - Budget[route]
  /\ GatewayInit(On(SettingsRoutes, GatewayStores))
  /\ SettingsInit
  /\ NodesInit(On({"nodes"}, NodeStores))
  /\ ProtectionInit(On({"protection", "limits"}, ProtectionStores))
  /\ MappingInit(On({"mapping"}, Spans))
  /\ ResourceInit(On({"resource"}, ResourceStores))
  /\ ListInit(On({"lists"}, ListStores))
  /\ MonitorInit(On({"monitor"}, MonitorStores))
  /\ MockInit(On({"mock"}, MockStores))
  /\ ConversionsInit(On({"conversions"}, Samples))

OnSettings ==
  /\ route = "settings" /\ SettingsNext
  /\ UNCHANGED <<nodesVars, protectionVars, mappingVars, resourceVars, listVars,
                 monitorVars, mockVars>>

OnNodes ==
  /\ route = "nodes" /\ NodesNext
  /\ UNCHANGED <<settingsPageVars, protectionVars, mappingVars, resourceVars, listVars,
                 monitorVars, mockVars>>

OnProtection ==
  /\ route = "protection" /\ ProtectionNext
  /\ UNCHANGED <<settingsPageVars, nodesVars, mappingVars, resourceVars, listVars,
                 monitorVars, mockVars>>

OnLimits ==
  /\ route = "limits" /\ PolicyNext
  /\ UNCHANGED <<settingsPageVars, nodesVars, mappingVars, resourceVars, listVars,
                 monitorVars, mockVars>>

OnMapping ==
  /\ route = "mapping" /\ MappingNext
  /\ UNCHANGED <<gatewayVars, settingsPageVars, nodesVars, protectionVars, resourceVars,
                 listVars, monitorVars, mockVars>>

OnResource ==
  /\ route = "resource" /\ ResourceNext
  /\ UNCHANGED <<gatewayVars, settingsPageVars, nodesVars, protectionVars, mappingVars,
                 listVars, monitorVars, mockVars>>

OnList ==
  /\ route = "lists" /\ ListNext
  /\ UNCHANGED <<gatewayVars, settingsPageVars, nodesVars, protectionVars, mappingVars,
                 resourceVars, monitorVars, mockVars>>

OnMonitor ==
  /\ route = "monitor" /\ MonitorNext
  /\ UNCHANGED <<gatewayVars, settingsPageVars, nodesVars, protectionVars, mappingVars,
                 resourceVars, listVars, mockVars>>

OnMock ==
  /\ route = "mock" /\ MockNext
  /\ UNCHANGED <<gatewayVars, settingsPageVars, nodesVars, protectionVars, mappingVars,
                 resourceVars, listVars, monitorVars>>

Next ==
  /\ \/ OnSettings \/ OnNodes \/ OnProtection \/ OnLimits \/ OnMapping \/ OnResource
     \/ OnList \/ OnMonitor \/ OnMock
  /\ UNCHANGED <<route, sample>>

Spec == Init /\ [][Next]_vars

(***************************************************************************)
(* The gateway's stores, and the mounted page with its calls, have the     *)
(* shape their TypeScript types say (types/gateway.ts), also after an      *)
(* answer was taken over what was typed, and after a start with defaults.  *)
(* (The other pages are as they were at first.)                            *)
(***************************************************************************)
TypeOK ==
  /\ route \in DOMAIN Budget /\ clicks \in 0 .. MaxClicks /\ GatewayTypeOK
  /\ CASE route = "settings" -> SettingsTypeOK
       [] route = "nodes" -> NodesTypeOK
       [] route \in {"protection", "limits"} -> ProtectionTypeOK
       [] route = "mapping" -> MappingTypeOK
       [] route = "resource" -> ResourceTypeOK
       [] route = "lists" -> ListTypeOK
       [] route = "monitor" -> MonitorTypeOK
       [] route = "mock" -> MockTypeOK
       [] OTHER -> TRUE

(***************************************************************************)
(* The spinners and button states of every page are honest: one is set     *)
(* only while a handler that will clear it is under way, however handlers, *)
(* late answers and failures overlap.  A flag left behind would lock its   *)
(* page until a reload (the finally block of every handler).               *)
(***************************************************************************)
SpinnersHonest ==
  /\ SettingsSpinner /\ NodesSpinner /\ ProtectionSpinner /\ MappingSpinner
  /\ ResourceSpinner /\ ListSpinner /\ MonitorSpinner /\ ConfigSpinner
=============================================================================
