----------------------------- MODULE AdminPanel -----------------------------
(***************************************************************************)
(* The administrator's page: the handlers of its tables, which share one   *)
(* busyId and the machinery of ListPages; the lists of its seven tabs,     *)
(* which show their rows chunk by chunk when a sentinel row below them     *)
(* comes into view (page "lists"); and the monthly view of the KPI rows    *)
(* (page "kpis").  The seven tabs have the same code: two stand for them.  *)
(***************************************************************************)
EXTENDS ListPages, SequencesExt

CONSTANTS
    ChunkSize,  \* LAZY_CHUNK_SIZE
    MaxLen,     \* bound: rows of a list
    MaxMoves,   \* bound: changes of tab, of the search text or of the rows
    MaxKpis     \* bound: KPI rows of a report

ASSUME AdminAssumption ==
    /\ ChunkSize \in Nat \ {0}
    /\ {MaxLen, MaxMoves, MaxKpis} \subseteq Nat

VARIABLES
    lists,      \* the tabs: which one is open, how many rows its list has and shows
    report      \* the KPI rows of the last load

adminVars == <<lists, report>>

-----------------------------------------------------------------------------
(* The handlers.  A cell is a row of one of the tables; its id is what      *)
(* busyId holds.                                                            *)

\* The button of a row: every tab compares busyId with the id of its own row.
RowEnabled(table, cell) ==
    /\ page = "admin" /\ token # 0
    /\ TableOf[cell] = table /\ ui.copy[cell] # "none" /\ ui.busy # IdOf[cell]
EventEnabled(cell) == RowEnabled("events", cell)
\* The rows of administrators have no enabled button.
SuspendEnabled(cell) == RowEnabled("users", cell) /\ ui.copy[cell] # "admin"
CategoryEnabled(cell) == RowEnabled("categories", cell)
ReviewEnabled(cell) == RowEnabled("reviews", cell)
RollupEnabled == page = "admin" /\ token # 0 /\ ~ui.exporting

Act(kind, cell, val) == Click(Job(kind, cell, val), [ui EXCEPT !.busy = IdOf[cell]])

\* A declined confirmation leaves everything as it is.
HandleDeleteEvent(cell) == EventEnabled(cell) /\ Act("deleteEvent", cell, "none")

HandleToggleFeatured(cell) ==
    /\ EventEnabled(cell)
    /\ Act("setEventFeatured", cell, IF ui.copy[cell] = "featured" THEN "plain" ELSE "featured")

HandleToggleSuspend(cell) ==
    /\ SuspendEnabled(cell)
    /\ Act("setUserSuspended", cell, IF ui.copy[cell] = "suspended" THEN "active" ELSE "suspended")

EditCategory == token # 0 /\ Edit("admin", [ui EXCEPT !.form = ~@]) /\ UNCHANGED hist

\* bound: categories created are rows of TableOf.
RoomForCategory ==
    Cardinality({r \in DOMAIN rows : TableOf[r] = "categories" /\ rows[r] = "none"})
        > Cardinality({i \in Slots : jobs[i].kind = "createCategory"})

\* Neither the button nor the handler looks at a call under way.
HandleCreateCategory ==
    /\ page = "admin" /\ token # 0 /\ ui.form /\ RoomForCategory
    /\ Click(Job("createCategory", 0, "there"), ui)

HandleDeleteCategory(cell) == CategoryEnabled(cell) /\ Act("deleteCategory", cell, "none")

\* A declined prompt for the reason leaves everything as it is.
HandleToggleReviewHidden(cell) ==
    /\ ReviewEnabled(cell)
    /\ Act("setReviewHidden", cell, IF ui.copy[cell] = "hidden" THEN "published" ELSE "hidden")

HandleRollupYesterday ==
    /\ RollupEnabled
    /\ Click(Job("rollup", 0, "none"), [ui EXCEPT !.exporting = TRUE, !.error = FALSE])

\* The toggles replace their row, if the list still has it.
AnswerReplace(i, kind) ==
    Answer(i, kind, Ended(i),
           [ui EXCEPT !.busy = 0, !.error = @ \/ ~Good(i),
              !.copy[jobs[i].row] = IF Good(i) /\ @ # "none" THEN jobs[i].val ELSE @])

\* The other handlers start loadAll, which nobody waits for.
AnswerReload(i, kind) ==
    Answer(i, kind, IF Good(i) THEN Reloads(i) ELSE Ended(i),
           [ui EXCEPT !.busy = 0, !.error = @ \/ ~Good(i)])

AnswerCategory(i) ==
    Answer(i, "createCategory", IF Good(i) THEN Reloads(i) ELSE Ended(i),
           [ui EXCEPT !.form = @ /\ ~Good(i), !.error = @ \/ ~Good(i)])

AnswerRollup(i) ==
    Answer(i, "rollup", IF Good(i) THEN Reloads(i) ELSE Ended(i),
           [ui EXCEPT !.exporting = FALSE, !.error = @ \/ ~Good(i)])

AnswerAdmin(i) ==
    \/ \E kind \in {"setEventFeatured", "setUserSuspended", "setReviewHidden"} :
          AnswerReplace(i, kind)
    \/ \E kind \in {"deleteEvent", "deleteCategory"} : AnswerReload(i, kind)
    \/ AnswerCategory(i) \/ AnswerRollup(i)

AdminStep ==
    \/ \E cell \in DOMAIN TableOf :
          \/ HandleDeleteEvent(cell) \/ HandleToggleFeatured(cell)
          \/ HandleToggleSuspend(cell) \/ HandleDeleteCategory(cell)
          \/ HandleToggleReviewHidden(cell)
    \/ EditCategory \/ HandleCreateCategory \/ HandleRollupYesterday

-----------------------------------------------------------------------------
(* The lists.  match: rows that pass the search; count: rows the tab may    *)
(* show; observer: what the IntersectionObserver of the open tab reported   *)
(* last, "new" for nothing yet, "absent" for no observer; inView: the       *)
(* sentinel is on the screen.                                               *)

TabNames == {"events", "users"}
NoLists == [tab |-> "events", match |-> [t \in TabNames |-> 0],
            count |-> [t \in TabNames |-> ChunkSize],
            observer |-> "absent", inView |-> FALSE, moves |-> 0]

\* The sentinel is rendered below the rows of the open tab while there are more.
HasMore(l) == l.count[l.tab] < l.match[l.tab]
Visible(l) == Min({l.count[l.tab], l.match[l.tab]})

\* Mutant: the effect does not depend on the number of visible rows.
Rendered_StaleDeps(old, l) ==
    [l EXCEPT !.observer =
        CASE ~HasMore(l) -> "absent"
          [] <<l.tab, l.match[l.tab]>> # <<old.tab, old.match[old.tab]>> -> "new"
          [] OTHER -> @]

\* After a render the effect of the open tab runs if the tab, the length of the
\* list or the number of visible rows has changed: a new observer, if there is a
\* sentinel.
Rendered(old, l) ==
    [l EXCEPT !.observer =
        CASE ~HasMore(l) -> "absent"
          [] <<l.tab, l.match[l.tab], l.count[l.tab]>>
               # <<old.tab, old.match[old.tab], old.count[old.tab]>> -> "new"
          [] OTHER -> @]

Lists(l) == page = "lists" /\ lists' = l /\ UNCHANGED <<vars, report>>

SelectTab(t) ==
    /\ t # lists.tab /\ lists.moves < MaxMoves
    /\ \E seen \in BOOLEAN :
          Lists(Rendered(lists, [lists EXCEPT !.tab = t, !.inView = seen, !.moves = @ + 1]))

\* Another search text, or rows of a new load: the list has n rows now.
Refilter(n) ==
    /\ lists.moves < MaxMoves
    /\ \E seen \in BOOLEAN :
          Lists(Rendered(lists, [lists EXCEPT !.match[lists.tab] = n, !.inView = seen,
                                              !.moves = @ + 1]))

\* The observer reports the first time, and when the sentinel enters or leaves the
\* screen.  One that is seen shows the next chunk; the longer list may leave it on
\* the screen or push it down.
Report ==
    \/ /\ lists.observer \in {"new", "in"} /\ ~lists.inView
       /\ Lists([lists EXCEPT !.observer = "out"])
    \/ /\ lists.observer \in {"new", "out"} /\ lists.inView
       /\ \E seen \in BOOLEAN :
             Lists(Rendered(lists, [lists EXCEPT !.observer = "in", !.inView = seen,
                                                 !.count[lists.tab] = @ + ChunkSize]))

ScrollDown ==
    /\ HasMore(lists) /\ ~lists.inView /\ Lists([lists EXCEPT !.inView = TRUE])

ScrollUp ==
    /\ HasMore(lists) /\ lists.inView /\ lists.moves < MaxMoves
    /\ Lists([lists EXCEPT !.inView = FALSE, !.moves = @ + 1])

ListStep ==
    \/ \E t \in TabNames : SelectTab(t)
    \/ \E n \in 0 .. MaxLen : Refilter(n)
    \/ Report \/ ScrollDown \/ ScrollUp

-----------------------------------------------------------------------------
(* The monthly KPI rows.  A row has the month of its date; a percentage is  *)
(* kept as a fraction.                                                      *)

Months == <<1, 2>>
Kpis == [month : Range(Months),
         metric : {<<"view", "all">>, <<"complete", "all">>, <<"pct", "all">>,
                   <<"keyword", "a">>, <<"keyword", "b">>},
         value : {0, 1}]
Entry(row) == [month |-> row.month, metric |-> row.metric, num |-> row.value, den |-> 1]

\* Rows of one month, metric and dimensions are added up, in order of appearance.
AddKpi(sums, row) ==
    LET same == {k \in DOMAIN sums :
                   sums[k].month = row.month /\ sums[k].metric = row.metric}
    IN IF same = {} THEN Append(sums, Entry(row))
       ELSE [k \in DOMAIN sums |->
               IF k \in same THEN [sums[k] EXCEPT !.num = @ + row.value] ELSE sums[k]]

\* Mutant: the funnel is counted over all months.
AddFunnel_AllMonths(counts, row) ==
    [m \in DOMAIN counts |->
        [view |-> counts[m].view + IF row.metric[1] = "view" THEN row.value ELSE 0,
         complete |-> counts[m].complete
                        + IF row.metric[1] = "complete" THEN row.value ELSE 0]]

AddFunnel(counts, row) ==
    [m \in DOMAIN counts |->
        IF m # row.month THEN counts[m]
        ELSE [view |-> counts[m].view + IF row.metric[1] = "view" THEN row.value ELSE 0,
              complete |-> counts[m].complete
                             + IF row.metric[1] = "complete" THEN row.value ELSE 0]]

aggregateMonthlyKpis(rws) ==
    LET sums == FoldLeft(AddKpi, <<>>, rws)
        counts == FoldLeft(AddFunnel, [m \in Range(Months) |-> [view |-> 0, complete |-> 0]],
                           rws)
        Recomputed(e) ==
            IF e.metric[1] # "pct" THEN e
            ELSE IF counts[e.month].view > 0
                 THEN [e EXCEPT !.num = 100 * counts[e.month].complete,
                                !.den = counts[e.month].view]
                 ELSE [e EXCEPT !.num = 0]
        entries == [k \in DOMAIN sums |-> Recomputed(sums[k])]
        OfMonth(acc, m) == acc \o SelectSeq(entries, LAMBDA e : e.month = m)
    IN FoldLeft(OfMonth, <<>>, Reverse(Months))

-----------------------------------------------------------------------------
\* Whatever happened before, a user who keeps scrolling down a tab sees all the
\* rows that pass its search: every new chunk gets an observer of its own
\* (admin/page.tsx:275).
ListEndReached == <>[](Visible(lists) = lists.match[lists.tab])

Total(month, metric) ==
    MapThenSumSet(LAMBDA k : report[k].value,
                  {k \in DOMAIN report : report[k].month = month /\ report[k].metric = metric})

\* The monthly view has one row for every month and metric of the report, later
\* months first; it is the sum of the daily values, and the conversion rate is the
\* one of the month's totals, 0 without a view, and not a sum of daily rates.
MonthlyTotalsAgree ==
    LET out == aggregateMonthlyKpis(report)
        Views(m) == Total(m, <<"view", "all">>)
    IN /\ {<<out[k].month, out[k].metric>> : k \in DOMAIN out}
            = {<<report[k].month, report[k].metric>> : k \in DOMAIN report}
       /\ \A j, k \in DOMAIN out : j < k =>
             /\ out[j].month >= out[k].month
             /\ <<out[j].month, out[j].metric>> # <<out[k].month, out[k].metric>>
       /\ \A k \in DOMAIN out : LET m == out[k].month IN
             CASE out[k].metric[1] # "pct" ->
                    out[k].num = Total(m, out[k].metric) /\ out[k].den = 1
               [] Views(m) = 0 -> out[k].num = 0
               [] OTHER -> out[k].num * Views(m) = 100 * Total(m, <<"complete", "all">>) * out[k].den
=============================================================================
