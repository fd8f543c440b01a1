---------------------------- MODULE Conversions ----------------------------
(***************************************************************************)
(* The pure functions of gateway-ui that decide something: which methods a *)
(* mapping allows, where the router is mounted.  Each is applied to every  *)
(* sample.                                                                 *)
(***************************************************************************)
EXTENDS MockGateway

CONSTANTS
  Texts,       \* entries of a method list, as typed
  Marks,       \* characters of a base path, and Placeholder
  Placeholder, \* __SIPTUNNEL_UI_BASE_PATH__, which a build without a base path leaves
  Longest      \* bound: length of a method list or of a base path

ASSUME LongestAssumption == Longest \in Nat

ASSUME PlaceholderAssumption == Placeholder \notin {"/", " "}

VARIABLE sample

\* trim and upper case
Upper(text) ==
  CASE text = "get" -> "GET" [] text = " put" -> "PUT" [] text = "connect" -> "CONNECT" [] OTHER -> text

Lists(S) == UNION {[1 .. n -> S] : n \in 0 .. Longest}

Samples ==
  [of : {"methods"}, text : Lists(Texts)]
    \cup [of : {"base"}, text : Lists(Marks)]

ConversionsInit(samples) == sample \in samples

(***************************************************************************)
(* normalizeMethodSelection: duplicates and empty entries go; "*", or      *)
(* nothing at all, is "*" alone.                                           *)
(***************************************************************************)
AddNew(seen, x) == IF x = "" \/ Contains(seen, x) THEN seen ELSE Append(seen, x)

\* seen[n] is what is left of the first n entries.
Deduplicated(list) ==
  LET seen[n \in 0 .. Len(list)] == IF n = 0 THEN <<>> ELSE AddNew(seen[n - 1], list[n])
  IN  seen[Len(list)]

\* Mutant of normalizeMethodSelection: "*" does not absorb the other methods.
normalizeMethodsBeside(values) ==
  LET normalized == Deduplicated([i \in DOMAIN values |-> Upper(values[i])]) IN
  IF normalized = <<>> THEN <<"*">> ELSE normalized

normalizeMethodSelection(values) ==
  LET normalized == Deduplicated([i \in DOMAIN values |-> Upper(values[i])]) IN
  IF Contains(normalized, "*") \/ normalized = <<>> THEN <<"*">> ELSE normalized

(***************************************************************************)
(* normalizeRouterBase: blanks at the ends go; then a slash at both ends,  *)
(* and runs of slashes become one.                                         *)
(***************************************************************************)
Printed(raw) == {i \in DOMAIN raw : raw[i] # " "}

trim(raw) ==
  IF Printed(raw) = {} THEN <<>> ELSE SubSeq(raw, Min(Printed(raw)), Max(Printed(raw)))

AddMark(out, c) == IF c = "/" /\ out # <<>> /\ Last(out) = "/" THEN out ELSE Append(out, c)

Collapsed(list) ==
  LET out[n \in 0 .. Len(list)] == IF n = 0 THEN <<>> ELSE AddMark(out[n - 1], list[n])
  IN  out[Len(list)]

Led(text) == IF text = <<>> \/ Head(text) # "/" THEN <<"/">> \o text ELSE text

Closed(text) == IF Last(Led(text)) # "/" THEN Append(Led(text), "/") ELSE Led(text)

Unset(text) == text = <<>> \/ Contains(text, Placeholder)

\* Mutant of normalizeRouterBase: runs of slashes stay.
normalizeRouterBaseUncollapsed(raw) ==
  IF Unset(trim(raw)) THEN <<"/">> ELSE Closed(trim(raw))

normalizeRouterBase(raw) ==
  IF Unset(trim(raw)) THEN <<"/">> ELSE Collapsed(Closed(trim(raw)))

(***************************************************************************)
(* A saved method list is "*" alone or a list of distinct methods, allows  *)
(* what was typed, and normalising it again changes nothing: the list that *)
(* is read back and saved again is the same (normalizeMethodSelection).    *)
(***************************************************************************)
MethodsNormal ==
  sample.of = "methods" =>
    LET list == normalizeMethodSelection(sample.text)
        typed == {Upper(x) : x \in ToSet(sample.text)} \ {""} IN
    /\ list # <<>> /\ IsInjective(list) /\ normalizeMethodSelection(list) = list
    /\ ToSet(list) = IF typed = {} \/ "*" \in typed THEN {"*"} ELSE typed

(***************************************************************************)
(* The router base starts and ends with a slash, has no empty segment and  *)
(* no placeholder, and is a fixed point: resolveUIRouterBase may test what *)
(* the page's meta element gave against "/" (normalizeRouterBase).         *)
(***************************************************************************)
BaseNormal ==
  sample.of = "base" =>
    LET base == normalizeRouterBase(sample.text) IN
    /\ Head(base) = "/" /\ Last(base) = "/"
    /\ \A i \in 1 .. Len(base) - 1 : base[i] # "/" \/ base[i + 1] # "/"
    /\ ~Contains(base, Placeholder)
    /\ normalizeRouterBase(base) = base
=============================================================================
