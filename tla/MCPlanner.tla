------------------------------- MODULE MCPlanner -------------------------------
(***************************************************************************)
(* An instance of the planner for TLC.  A behaviour is about undo, with no *)
(* window, or about the commands of a window.                              *)
(***************************************************************************)
EXTENDS PlannerWindows

CONSTANTS s1, s2, s3, t1

VARIABLE part

\* Friday 27 and Saturday 28 February, and Sunday 1 March.
EndOfFebruary == <<[weekday |-> 5, day |-> 27, length |-> 28],
                   [weekday |-> 6, day |-> 28, length |-> 28],
                   [weekday |-> 7, day |-> 1, length |-> 31]>>

DailyOrMonthly == {[kind |-> "daily"], [kind |-> "monthly", day |-> 31]}
Slots == {<<2, 2>>, <<2, 3>>}
Ends == {2, Forever}

\* A planner with a rule of every day, whose first occurrences a page has shown,
\* and a task.
Daily == CreateSeries(Blank, s1, 1, Forever, [kind |-> "daily"]).db
WithTask == Materialize(CreateTask(Daily, t1, 1, 1).db, {s1}, {1, 2})

\* A rule that was changed from its second day on, with its occurrences.
Split == UpdateSeries(Daily, s1, s2, 2, 1, [kind |-> "daily"], Forever, {1, 2}).db

Started ==
    /\ part \in {"undo", "windows"}
    /\ db = IF part = "undo" THEN WithTask ELSE Split
    /\ today = 1 /\ changes = 0 /\ removed = {} /\ undo = NoUndo /\ before = NoHistory
    /\ window = NoWindow

\* One resource, linked to the task or to an occurrence that a deletion or the
\* update of a rule takes along.
FewLinks(T, linked) == \E t \in T : linked \subseteq {t}

\* Midnight comes once at most, after the second change, and after the last one
\* pages only look.
UndoPart ==
    /\ part = "undo" /\ window' = window
    /\ IF changes = MaxChanges THEN \E d \in Day : LookAt(d) ELSE Next
    /\ s3 \notin DOMAIN db'.series /\ FewLinks({t1, <<s1, 2>>}, db'.links)
    /\ today' # today => changes = 2 /\ today = 1

\* Two changes: one behind the window, and its own.
WindowsPart ==
    /\ part = "windows" /\ changes < 2 /\ WindowNext
    /\ today' = today /\ FewLinks({<<s1, 3>>}, db'.links)

StartedSpec == Started /\ [][UNCHANGED part /\ (UndoPart \/ WindowsPart)]_<<windowVars, part>>
=============================================================================
