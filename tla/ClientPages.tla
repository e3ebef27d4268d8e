---------------------------- MODULE ClientPages -----------------------------
(***************************************************************************)
(* The pages of ListPages, AdminPanel and CheckIn as one specification:    *)
(* one of them is on the screen, and the parts the others keep stay empty. *)
(***************************************************************************)
EXTENDS AdminPanel, CheckIn

allVars == <<vars, adminVars, desk>>

\* The lists and the report need nothing of ListPages.
Still ==
    /\ token = 1 /\ gen = MaxGen /\ rows = <<"none">>
    /\ ui = [copy |-> rows, loading |-> FALSE, busy |-> 0, error |-> FALSE, form |-> FALSE,
             axes |-> FALSE, done |-> FALSE, exporting |-> FALSE, typed |-> "none",
             shown |-> "none"]
    /\ jobs = [i \in Slots |-> NoJob] /\ clicks = 0 /\ faults = 0 /\ hist = NoHistory

PagesInit ==
    \/ Init /\ lists = NoLists /\ report = <<>> /\ desk = DeskClosed
    \/ DeskInit /\ lists = NoLists /\ report = <<>>
    \/ /\ page = "lists" /\ Still /\ report = <<>> /\ desk = DeskClosed
       /\ \E m \in [TabNames -> 0 .. MaxLen], seen \in BOOLEAN :
             lists = Rendered(NoLists, [NoLists EXCEPT !.match = m, !.inView = seen])
    \/ /\ page = "kpis" /\ Still /\ lists = NoLists /\ desk = DeskClosed
       /\ report \in UNION {[1 .. n -> Kpis] : n \in 0 .. MaxKpis}

AnswerJob == (\E i \in Slots : AnswerPage(i) \/ AnswerAdmin(i)) /\ UNCHANGED <<adminVars, desk>>
ServeJob == (\E i \in Slots : ReadPart(i) \/ Serve(i)) /\ UNCHANGED <<adminVars, desk>>

PagesNext ==
    \/ /\ page \in Pages
       /\ \/ AnswerJob
          \/ (PageStep \/ AdminStep \/ Environment) /\ UNCHANGED <<adminVars, desk>>
    \/ page = "lists" /\ ListStep /\ UNCHANGED desk
    \/ page = "desk" /\ DeskNext /\ UNCHANGED adminVars

\* The server goes on answering calls, the browser goes on running answers and the
\* reports of an observer, and the reader of a list scrolls down to what is not
\* shown yet.
PagesFairness ==
    /\ WF_allVars(ServeJob) /\ WF_allVars(AnswerJob)
    /\ WF_allVars(page = "lists" /\ Report /\ UNCHANGED desk)
    /\ WF_allVars(page = "lists" /\ ScrollDown /\ UNCHANGED desk)

PagesSpec == PagesInit /\ [][PagesNext]_allVars /\ PagesFairness
=============================================================================
