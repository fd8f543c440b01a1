----------------------------- MODULE ListPages -----------------------------
(***************************************************************************)
(* The list pages: access logs, operations audits and security events,     *)
(* which raise a spinner and catch errors, and command tasks, file tasks   *)
(* and audit logs, which page through a list and do neither.  One of them  *)
(* is open; `kind` says which.                                             *)
(*                                                                         *)
(* The logs grow while the pages read them.  In mock mode the task lists   *)
(* are filtered when the mock answers, by the filter object the page still *)
(* edits; over HTTP the filter is copied into the request.                 *)
(***************************************************************************)
EXTENDS PageCalls

CONSTANTS
  Entries,     \* the entries of the list in order, each by its status
  Statuses,    \* statuses to filter by
  PageSizes    \* page sizes the pager offers

ASSUME ListAssumption == Entries \in Seq(Statuses) /\ PageSizes \subseteq Nat \ {0}

VARIABLES
  stored,      \* how many of Entries the gateway has so far
  mock,        \* VITE_API_MODE is mock
  listPage,
  listCalls

listVars == <<stored, mock, listPage, listCalls>>

Kinds == {"access", "audits", "events", "command", "file", "auditlog"}

Pagers == {"command", "file", "auditlog"}

\* A page, the page size it opens with, mock mode, and how much is stored.
ListStores ==
  {x \in [kind : Kinds, size : PageSizes, mock : BOOLEAN, n : 1 .. Len(Entries)] :
     x.mock => x.kind \in {"command", "file"}}

ListInit(stores) ==
  /\ \E x \in stores :
       /\ stored = x.n /\ mock = x.mock
       /\ listPage = [kind |-> x.kind, mounted |-> FALSE, loading |-> FALSE, error |-> FALSE,
                      filter |-> Nothing, range |-> Nothing, picker |-> Nothing, edited |-> FALSE,
                      shown |-> Nothing, current |-> 1, total |-> 0, size |-> x.size]
  /\ listCalls = NoCalls

(***************************************************************************)
(* The lists as the gateway and the mock cut them.                         *)
(***************************************************************************)
filterByCommon(list, filter) == Filtered(list, IF filter = Nothing THEN Statuses ELSE {filter})

paginate(list, page, size) ==
  LET start == (page - 1) * size
      end == IF start + size > Len(list) THEN Len(list) ELSE start + size IN
  [list |-> SubSeq(list, start + 1, end), total |-> Len(list)]

Answer(ask, filter, n) ==
  [of |-> [ask EXCEPT !.filter = filter], n |-> n,
   page |-> paginate(filterByCommon(SubSeq(Entries, 1, n), filter), ask.page, ask.size)]

ListServe(s) ==
  /\ listCalls[s].op = "load" /\ listCalls[s].get.at = "sent"
  /\ LET ask == listCalls[s].get.with
         filter == IF mock THEN listPage.filter ELSE ask.filter IN
     listCalls' = [listCalls EXCEPT ![s].get = Served(Answer(ask, filter, stored))]
  /\ UNCHANGED <<stored, mock, listPage, clicks>>

EntryArrives ==
  /\ ~mock /\ stored < Len(Entries)
  /\ stored' = stored + 1
  /\ UNCHANGED <<mock, listPage, listCalls, clicks>>

ListAsk(ask) ==
  /\ \E s \in Free(listCalls) : listCalls' = Put(listCalls, s, [op |-> "load", get |-> Sent(ask)])
  /\ UNCHANGED <<stored, mock>>

Ask(filter, range, page, size) ==
  [filter |-> filter, range |-> range, page |-> page, size |-> size]

(***************************************************************************)
(* Access logs.  The picker's watcher copies the range into the query once *)
(* the handler that set the picker is through, so after the request that   *)
(* handler sent.                                                           *)
(***************************************************************************)
AccessLoad ==
  /\ listPage.kind = "access" /\ listPage.mounted /\ Click
  /\ ListAsk(Ask(listPage.filter, listPage.range, 1, 100))
  /\ listPage' = [listPage EXCEPT !.loading = TRUE, !.error = FALSE, !.edited = FALSE]

LastHour ==
  [listPage EXCEPT !.mounted = TRUE, !.filter = Nothing, !.picker = "hour", !.range = "hour",
                   !.loading = TRUE, !.error = FALSE, !.edited = FALSE]

AccessReset ==
  /\ listPage.kind = "access" /\ listPage.mounted /\ Click
  /\ ListAsk(Ask(Nothing, Nothing, 1, 100))
  /\ listPage' = LastHour

AccessMount ==
  /\ listPage.kind = "access" /\ ~listPage.mounted
  /\ ListAsk(Ask(Nothing, Nothing, 1, 100))
  /\ listPage' = LastHour
  /\ UNCHANGED clicks

AccessPick ==
  /\ listPage.kind = "access" /\ listPage.mounted /\ Click
  /\ \E range \in {"hour", "day", Nothing} \ {listPage.picker} :
       listPage' = [listPage EXCEPT !.picker = range, !.range = range, !.edited = TRUE]
  /\ UNCHANGED <<stored, mock, listCalls>>

(***************************************************************************)
(* Operations audits and security events.                                  *)
(***************************************************************************)
LoadRows(filter) ==
  /\ ListAsk(Ask(filter, Nothing, 1, 100))
  /\ listPage' = [listPage EXCEPT !.mounted = TRUE, !.filter = filter,
                                  !.loading = TRUE, !.error = FALSE]

AuditsLoad == listPage.kind = "audits" /\ Click /\ LoadRows(listPage.filter)

AuditsReset == listPage.kind = "audits" /\ listPage.mounted /\ Click /\ LoadRows(Nothing)

EventsLoad == listPage.kind = "events" /\ Click /\ LoadRows(Nothing)

(***************************************************************************)
(* The pagers.  The label and the page size move with the answer.          *)
(***************************************************************************)
\* Mutant of LoadPage: the label moves with the click.
LoadPageLabelled(filter, page, size) ==
  /\ Click
  /\ ListAsk(Ask(filter, Nothing, page, size))
  /\ listPage' = [listPage EXCEPT !.mounted = TRUE, !.filter = filter, !.current = page]

LoadPage(filter, page, size) ==
  /\ Click
  /\ ListAsk(Ask(filter, Nothing, page, size))
  /\ listPage' = [listPage EXCEPT !.mounted = TRUE, !.filter = filter]

\* A click on the pager: one of the pages of the total it shows, or another size.
TurnPage ==
  \E size \in PageSizes :
    \E page \in 1 .. (listPage.total + size - 1) \div size : LoadPage(listPage.filter, page, size)

CommandLoad == listPage.kind = "command" /\ LoadPage(listPage.filter, 1, listPage.size)

CommandTurn == listPage.kind = "command" /\ TurnPage

CommandReset ==
  listPage.kind = "command" /\ listPage.mounted /\ LoadPage(Nothing, 1, listPage.size)

FileLoad == listPage.kind = "file" /\ LoadPage(listPage.filter, 1, listPage.size)

FileTurn == listPage.kind = "file" /\ TurnPage

FileReset ==
  listPage.kind = "file" /\ listPage.mounted /\ LoadPage(Nothing, 1, listPage.size)

AuditLogLoad == listPage.kind = "auditlog" /\ LoadPage(listPage.filter, 1, listPage.size)

AuditLogTurn == listPage.kind = "auditlog" /\ TurnPage

(***************************************************************************)
(* The filter forms.  What is typed is not queried yet, but the next page  *)
(* click sends it.                                                         *)
(***************************************************************************)
TypeFilter ==
  /\ listPage.mounted /\ Click
  /\ \E filter \in Statuses : listPage' = [listPage EXCEPT !.filter = filter, !.edited = TRUE]
  /\ UNCHANGED <<stored, mock, listCalls>>

AccessFilter == listPage.kind = "access" /\ TypeFilter

AuditsFilter == listPage.kind = "audits" /\ TypeFilter

CommandFilter == listPage.kind = "command" /\ TypeFilter

FileFilter == listPage.kind = "file" /\ TypeFilter

AuditLogFilter == listPage.kind = "auditlog" /\ TypeFilter

(***************************************************************************)
(* The answer, or a failure.  A pager has no catch: a failed request       *)
(* leaves the old rows with the old label.                                 *)
(***************************************************************************)
ListAnswered(s) ==
  LET got == listCalls[s].get.with IN
  /\ listCalls[s].op = "load" /\ listCalls[s].get.at = "served"
  /\ listPage' = [listPage EXCEPT !.shown = got, !.loading = FALSE,
                    !.current = IF listPage.kind \in Pagers THEN got.of.page ELSE @,
                    !.size = IF listPage.kind \in Pagers THEN got.of.size ELSE @,
                    !.total = got.page.total]
  /\ listCalls' = Put(listCalls, s, Idle)
  /\ UNCHANGED <<stored, mock, clicks>>

ListFails(s) ==
  /\ ~mock /\ listCalls[s].op = "load"
  /\ listPage' = [listPage EXCEPT !.loading = FALSE, !.error = listPage.kind \notin Pagers]
  /\ listCalls' = Put(listCalls, s, Idle)
  /\ UNCHANGED <<stored, mock, clicks>>

ListNext ==
  \/ AccessMount \/ AccessLoad \/ AccessReset \/ AccessPick
  \/ AuditsLoad \/ AuditsReset \/ EventsLoad
  \/ CommandLoad \/ CommandTurn \/ CommandReset
  \/ FileLoad \/ FileTurn \/ FileReset \/ AuditLogLoad \/ AuditLogTurn
  \/ AccessFilter \/ AuditsFilter \/ CommandFilter \/ FileFilter \/ AuditLogFilter
  \/ EntryArrives
  \/ \E s \in Slots : ListServe(s) \/ ListAnswered(s) \/ ListFails(s)

(***************************************************************************)
(* The rows of a pager, its page label and its total belong to one answer, *)
(* however page clicks, queries, resets and failures overlap (loadData and *)
(* loadLogs move the label only once the answer is in).                    *)
(***************************************************************************)
PagerHonest ==
  listPage.kind \in Pagers /\ listPage.shown # Nothing =>
    LET shown == listPage.shown
        all == filterByCommon(SubSeq(Entries, 1, shown.n), shown.of.filter) IN
    /\ listPage.total = Len(all)
    /\ shown.page.list = paginate(all, listPage.current, listPage.size).list

(***************************************************************************)
(* The access log page tags its figures "current filter"                   *)
(* (AccessLogsView.vue:6): with nothing under way, no error and nothing    *)
(* typed since the last query, the rows are those of the range the picker  *)
(* shows.                                                                  *)
(***************************************************************************)
AccessWindow ==
  /\ listPage.kind = "access" /\ listPage.shown # Nothing
  /\ ~listPage.loading /\ ~listPage.error /\ ~listPage.edited
  => listPage.shown.of.range = listPage.picker

\* A list's spinner turns only while a query is under way.
ListSpinner == listPage.loading => Waiting(listCalls, "load") # {}

\* The types of the pages: a query, and an answer with the query it is of.
ListQueries ==
  [filter : Maybe(Statuses), range : Maybe({"hour", "day"}), page : Nat, size : Nat]

ListAnswers ==
  [of : ListQueries, n : 1 .. Len(Entries), page : [list : Seq(Statuses), total : Nat]]

ListTypeOK ==
  /\ stored \in 1 .. Len(Entries) /\ mock \in BOOLEAN
  /\ listPage \in
       [kind : Kinds, mounted : BOOLEAN, loading : BOOLEAN, error : BOOLEAN, edited : BOOLEAN,
        filter : Maybe(Statuses), range : Maybe({"hour", "day"}),
        picker : Maybe({"hour", "day"}), shown : Maybe(ListAnswers),
        current : Nat \ {0}, total : Nat, size : PageSizes]
  /\ listCalls \in [Slots -> {Idle}
       \cup [op : {"load"}, get : Requests(ListQueries, {}, ListAnswers)]]
=============================================================================
