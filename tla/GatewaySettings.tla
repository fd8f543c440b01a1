-------------------------- MODULE GatewaySettings --------------------------
(***************************************************************************)
(* The part of the gateway that the settings, nodes and protection pages   *)
(* read and write: the stored system settings with the manual baseline of  *)
(* the download bandwidth and of the rate limit, and the values that run.  *)
(*                                                                         *)
(* A GET of the resource usage is not a read: it picks a profile from the  *)
(* load and applies it to the running values, computed from the baseline   *)
(* it read before, without a lock over both (ops_runtime_strategy.go).     *)
(* The settings and protection pages show the running values, and what     *)
(* they save becomes the baseline.                                         *)
(*                                                                         *)
(* The settings are also in a file.  A POST tunes the transport, replaces  *)
(* the settings in memory, cuts the file to nothing and writes it; it is   *)
(* answered with success whether or not that write succeeds.  A start      *)
(* reads the file, or takes the defaults when it cannot be read.  The      *)
(* limits are not read back at a start.                                    *)
(*                                                                         *)
(* Bandwidth is in units of 8 Mbps; the other tuned fields of the profile  *)
(* move the same way and are left out.                                     *)
(***************************************************************************)
EXTENDS PageCalls, FiniteSetsExt

CONSTANTS
  Keeps,       \* values of the retention fields
  Accesses,    \* values of the access policy: admin CIDR and MFA
  Bandwidths,  \* bandwidths an operator types
  Limits,      \* request limits an operator types
  Defaults,    \* settings and limit of a gateway without a file
  MaxWrites    \* bound: settings, workspace and protection writes served

ASSUME EnteredValues ==
  /\ Keeps # {} /\ Accesses # {}
  /\ Bandwidths # {} /\ Bandwidths \subseteq Nat \ {0} /\ IsFiniteSet(Bandwidths)
  /\ Limits # {} /\ Limits \subseteq Nat \ {0} /\ IsFiniteSet(Limits)
  /\ {Defaults.mbps, Defaults.limit} \subseteq Nat \ {0}

ASSUME WritesAssumption == MaxWrites \in Nat

VARIABLES
  settings,    \* systemSettings and the baselines; writes counts the writes
  running,     \* the transport tuning and the limits in force
  disk         \* system_settings.json; Nothing when it is cut short

gatewayVars == <<settings, running, disk>>

Profiles == {"steady", "balanced", "strained", "boost"}

clampFloat(v, lo, hi) == IF v < lo THEN lo ELSE IF v > hi THEN hi ELSE v

\* "boost" is offered from 24 Mbps up, on an idle gateway.
recommendedProfile(profile) == profile = "boost" => settings.base >= 3

\* Mutant of tuneTransportForProfile: the fastest profile has no ceiling.
tuneTransportUnclamped(base, profile) ==
  CASE profile = "steady" -> clampFloat(base \div 2, 1, 2)
    [] profile = "boost"  -> (base * 3) \div 2
    [] OTHER              -> base

tuneTransportForProfile(base, profile) ==
  CASE profile = "steady" -> clampFloat(base \div 2, 1, 2)
    [] profile = "boost"  -> clampFloat((base * 3) \div 2, 4, 8)
    [] OTHER              -> base

\* math.Round(base * factor), at least 1: 0.6 when red, 0.85 when yellow.
scaleInt(base, percent) ==
  LET v == (base * percent + 50) \div 100 IN IF v < 1 THEN 1 ELSE v

limitsForProfile(base, profile) ==
  scaleInt(base, CASE profile = "steady" -> 60
                   [] profile = "strained" -> 85
                   [] OTHER -> 100)

(***************************************************************************)
(* GET /system/resource-usage in its two steps: the baselines are read,    *)
(* the values computed from them are applied.                              *)
(***************************************************************************)
UsageRead(profile) ==
  Read([mbps  |-> tuneTransportForProfile(settings.base, profile),
        limit |-> limitsForProfile(settings.limit, profile)])

applyRecommendedRuntimeProfile(usage) ==
  running' = usage.with /\ UNCHANGED <<settings, disk>>

(***************************************************************************)
(* GET and POST of /system/settings.  The answer of a GET has the stored   *)
(* settings with the running bandwidth laid over them.                     *)
(***************************************************************************)
handleSystemSettingsGet ==
  [keep |-> settings.keep, access |-> settings.access,
   mbps |-> running.mbps, read |-> settings.writes]

\* The body passed the page's checks and the gateway's; UpdateSchedule repeats one
\* of them, so its error does not occur.  The tuning comes before the lock.
ApplyTransportTuning(body) ==
  /\ running' = [running EXCEPT !.mbps = body.mbps]
  /\ UNCHANGED <<settings, disk>>

handleSystemSettingsPost(body) ==
  /\ settings.writes < MaxWrites
  /\ settings' = [settings EXCEPT !.keep = body.keep, !.access = body.access,
                                  !.base = body.mbps, !.writes = @ + 1]
  /\ UNCHANGED <<running, disk>>

\* saveJSON, which is os.WriteFile, in its two steps.
TruncateFile == disk' = Nothing /\ UNCHANGED <<settings, running>>

\* A write that fails, or that meets another one, leaves the file cut or mixed.
WriteFile(body) ==
  /\ disk' \in {body, Nothing}
  /\ UNCHANGED <<settings, running>>

\* loadJSONOrDefault
FileOrDefaults == IF disk = Nothing THEN Defaults ELSE disk

\* Mutant of StartGateway: the tuning is not taken from the file.
StartGatewayUntuned ==
  /\ settings' = [settings EXCEPT !.keep = FileOrDefaults.keep, !.access = FileOrDefaults.access,
                                  !.base = Defaults.mbps, !.limit = Defaults.limit]
  /\ running' = [mbps |-> Defaults.mbps, limit |-> Defaults.limit]
  /\ UNCHANGED disk

StartGateway ==
  /\ settings' = [settings EXCEPT !.keep = FileOrDefaults.keep, !.access = FileOrDefaults.access,
                                  !.base = FileOrDefaults.mbps, !.limit = Defaults.limit]
  /\ running' = [mbps |-> FileOrDefaults.mbps, limit |-> Defaults.limit]
  /\ UNCHANGED disk

\* What may be stored when the pages are opened.
GatewayStores ==
  [keep : Keeps, access : Accesses, base : Bandwidths, limit : Limits, writes : {0}]

GatewayInit(stores) ==
  /\ settings \in stores
  /\ running = [mbps |-> settings.base, limit |-> settings.limit]
  /\ disk = [keep |-> settings.keep, access |-> settings.access, mbps |-> settings.base]

\* The types.  The factory values come from a start without a readable file.
StoredKeeps == Keeps \cup {Defaults.keep}

StoredAccesses == Accesses \cup {Defaults.access}

SystemSettingsPayload ==
  [keep : StoredKeeps, access : StoredAccesses, base : Nat, limit : Nat, writes : 0 .. MaxWrites]

SystemResourceUsage == [mbps : Nat, limit : Nat]

SettingsFiles == [keep : StoredKeeps, access : StoredAccesses, mbps : Nat]

GatewayTypeOK ==
  /\ settings \in SystemSettingsPayload
  /\ running \in SystemResourceUsage
  /\ disk \in Maybe(SettingsFiles)

Most(entered, bound) == IF Max(entered) > bound THEN Max(entered) ELSE bound

(***************************************************************************)
(* The loop "the gateway tunes, a page shows the tuned value, the operator *)
(* saves the page, the tuned value is the new baseline, the gateway tunes  *)
(* again" does not run away: the bandwidth stays below what an operator    *)
(* typed, the default or the 64 Mbps of the fastest profile, and the limit *)
(* never above what was typed or the default (tuneTransportForProfile,     *)
(* limitsForProfile).                                                      *)
(***************************************************************************)
FeedbackBounded ==
  /\ {settings.base, running.mbps} \subseteq 1 .. Most(Bandwidths \cup {Defaults.mbps}, 8)
  /\ {settings.limit, running.limit} \subseteq 1 .. Most(Limits \cup {Defaults.limit}, 1)
=============================================================================
