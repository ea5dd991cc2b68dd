----------------------------- MODULE PlannerWindows -----------------------------
(***************************************************************************)
(* The page that edits a task or a rule, or asks how much a stop would     *)
(* remove, shows what it read.  Other pages change the planner before it   *)
(* sends its command: the service compares what was shown with the rows in *)
(* the transaction of the command, and refuses what has moved.             *)
(***************************************************************************)
EXTENDS Planner, Functions

VARIABLE window     \* the window that is open, with what it shows

windowVars == <<vars, window>>

NoWindow == [kind |-> "none"]

WindowInit == Init /\ window = NoWindow

(***************************************************************************)
(* What a window shows, and what its command is compared with.             *)
(***************************************************************************)

Shown(S, T, F, L) ==
    [series |-> Restrict(db.series, S), tasks |-> Restrict(db.tasks, T),
     focus |-> FocusOf(db, F), links |-> LinksOf(db, L)]

TaskShown(t) == Shown({}, {t} \cap Tasks, {}, {})

\* Bug: only the tasks of the segment itself are looked at.
RuleShownAlone(s) ==
    LET T == {i \in Tasks : db.tasks[i].series = s} IN Shown({s}, T, T, T)

\* Everything that an update of the rule may replace, rewrite or remove.
RuleShown(s) ==
    LET T == LogicalTail(db, s) IN Shown({s} \cup Successors(db, s), T, T, T)

\* What the end of a rule removes and keeps.  The links that go with a task
\* are not part of it.
Impact(s, d) ==
    LET later == {i \in LogicalTail(db, s) : db.tasks[i].day > d}
        gone == {i \in later : ~Kept(db.tasks[i])}
    IN  Shown({s} \cup Successors(db, s), later, gone, {})

Open(kind, id, day, seen) ==
    /\ window = NoWindow
    /\ window' = [kind |-> kind, id |-> id, day |-> day, seen |-> seen]
    /\ UNCHANGED vars

OpenTask(t) == Open("task", t, 0, TaskShown(t))
OpenRule(s) == Open("rule", s, 0, RuleShown(s))
PreviewStop(s, d) == CanStop(db, s, d) /\ Open("stop", s, d, Impact(s, d))

\* The user closes the window, or gives up after a refusal.
Close == window # NoWindow /\ window' = NoWindow /\ UNCHANGED vars

(***************************************************************************)
(* The commands of a window.  A refused one leaves the window as it is.    *)
(***************************************************************************)

SubmitTask ==
    /\ window.kind = "task" /\ window.id \in Tasks
    /\ window.seen = TaskShown(window.id)
    /\ Edit(window.id) \/ Retitle(window.id) \/ Repeat(window.id)
    /\ window' = NoWindow

SubmitRule ==
    /\ window.kind = "rule" /\ window.id \in Rules
    /\ window.seen = RuleShown(window.id)
    /\ UpdateRule(window.id)
    /\ window' = NoWindow

SubmitStop ==
    /\ window.kind = "stop" /\ window.id \in Rules
    /\ CanStop(db, window.id, window.day)
    /\ window.seen = Impact(window.id, window.day)
    /\ Execute(StopSeries(db, window.id, window.day))
    /\ window' = NoWindow /\ UNCHANGED removed

WindowStep ==
    \/ \E t \in Tasks : OpenTask(t)
    \/ \E s \in Rules : OpenRule(s) \/ \E d \in Day : PreviewStop(s, d)
    \/ Close \/ SubmitTask \/ SubmitRule \/ SubmitStop

WindowNext ==
    \/ Next /\ UNCHANGED window
    \/ WindowStep

WindowSpec == WindowInit /\ [][WindowNext]_windowVars

(***************************************************************************)
(* Properties.                                                             *)
(***************************************************************************)

Submitted == window # NoWindow /\ window' = NoWindow /\ changes' # changes

\* Rows that a step changes or removes were shown as they are.
OnlyShown(rows, new, seen) ==
    \A i \in DOMAIN rows :
        \/ i \in DOMAIN new /\ new[i] = rows[i]
        \/ i \in DOMAIN seen /\ seen[i] = rows[i]

(* A window changes only what its user has seen: no task or segment that   *)
(* another page added or changed behind it is rewritten or removed, and a  *)
(* rule takes no focus away, nor an update of it a link, that it did not   *)
(* show (commands, recurrenceTailRevision, calculateStopRecurrenceImpact). *)
CommitsOnShown ==
    [][Submitted =>
        /\ OnlyShown(db.tasks, db'.tasks, window.seen.tasks)
        /\ window.kind # "task" => /\ OnlyShown(db.series, db'.series, window.seen.series)
                                   /\ db.focus \ db'.focus \subseteq window.seen.focus
        /\ window.kind = "rule" => db.links \ db'.links \subseteq window.seen.links]_windowVars

=============================================================================
