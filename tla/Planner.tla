-------------------------------- MODULE Planner --------------------------------
(***************************************************************************)
(* The planner service of one process.  Its queue and the transactions of  *)
(* the store make each request atomic: a step is a whole request, with the *)
(* publication or the clearing of the receipt of undo after the commit.    *)
(* Between a command and its undo the pages look at days, which makes the  *)
(* occurrences of the rules, and the life pages link tasks.                *)
(***************************************************************************)
EXTENDS PlannerCommands

CONSTANTS
    Slot,           \* <<first day, last day>> that tasks may have
    End,            \* ends that people give to rules
    Ahead,          \* days ahead for which occurrences are made
    MaxChanges      \* bound: commands, undos and restores

ASSUME ChoicesAssumption ==
    Slot \subseteq Day \X Day /\ End \subseteq 1..Forever /\ MaxFocus \in Nat

VARIABLES
    db,         \* the planner's database
    today,      \* the day in the zone of the user
    undo,       \* the receipt of the latest command that can be undone
    changes,    \* counts the changes
    removed,    \* history: <<rule, day>> of the occurrences people deleted
    before      \* history: db and removed before that command

vars == <<db, today, undo, changes, removed, before>>

NoUndo == [held |-> FALSE, of |-> ChangesOf(Blank, Nothing)]
NoHistory == [db |-> Blank, removed |-> {}]

Init ==
    /\ db = Blank /\ today = 1
    /\ undo = NoUndo /\ before = NoHistory
    /\ changes = 0 /\ removed = {}

(***************************************************************************)
(* Receipts.                                                               *)
(***************************************************************************)

\* Bug: a command that cannot be undone leaves the receipt of an earlier one.
PublishOver(result) ==
    IF result.touched = Nothing THEN UNCHANGED <<undo, before>>
    ELSE /\ undo' = [held |-> TRUE, of |-> ChangesOf(db, result.touched)]
         /\ before' = [db |-> db, removed |-> removed]

\* Every change invalidates the receipt of the one before it.
Publish(result) ==
    IF result.touched = Nothing THEN undo' = NoUndo /\ before' = NoHistory
    ELSE /\ undo' = [held |-> TRUE, of |-> ChangesOf(db, result.touched)]
         /\ before' = [db |-> db, removed |-> removed]

Execute(result) ==
    /\ changes < MaxChanges /\ changes' = changes + 1
    /\ db' = result.db
    /\ Publish(result)
    /\ UNCHANGED today

(***************************************************************************)
(* Requests.                                                               *)
(***************************************************************************)

Tasks == DOMAIN db.tasks
Rules == DOMAIN db.series

CreateTasks ==
    \E t \in Task \ Tasks, slot \in Slot :
        /\ Execute(CreateTask(db, t, slot[1], slot[2]))
        /\ UNCHANGED removed

Edit(t) ==
    \E slot \in Slot :
        /\ CanEdit(db, t, 1, slot[1], slot[2])
        /\ Execute(EditTask(db, t, 1, slot[1], slot[2]))
        /\ UNCHANGED removed

Retitle(t) == Execute(RetitleTask(db, t, 1 - db.tasks[t].text)) /\ UNCHANGED removed

Complete(t) ==
    /\ db.tasks[t].status = "open"
    /\ Execute(CompleteTask(db, t))
    /\ UNCHANGED removed

Reopen(t) ==
    /\ db.tasks[t].status = "completed"
    /\ Execute(ReopenTask(db, t))
    /\ UNCHANGED removed

Delete(t) ==
    /\ Occurs(db.tasks[t]) => db.tasks[t].series \in Rules
    /\ Execute(DeleteTask(db, t))
    /\ removed' = IF Occurs(db.tasks[t]) THEN removed \cup {<<db.tasks[t].rule, db.tasks[t].day>>}
                  ELSE removed

Focus(t) == CanFocus(db, t, today) /\ Execute(SetTodayFocus(db, t, today)) /\ UNCHANGED removed

Unfocus(t) ==
    /\ [date |-> today, task |-> t] \in db.focus
    /\ Execute(RemoveTodayFocus(db, t, today))
    /\ UNCHANGED removed

\* Ids are made up anew; which of the free ones is taken is all the same.
Unused ==
    LET free == {s \in Series \ Rules : /\ \A u \in Rules : db.series[u].rule # s
                                       /\ \A i \in Tasks : db.tasks[i].rule # s}
    IN  {s \in free : s = CHOOSE u \in free : TRUE}

StartRule ==
    \E s \in Unused, d \in Day, pattern \in Pattern :
        /\ Execute(CreateSeries(db, s, d, Forever, pattern))
        /\ UNCHANGED removed

Repeat(t) ==
    \E s \in Unused, d \in Day, pattern \in Pattern :
        /\ CanRepeat(db, t, s, d, pattern)
        /\ Execute(RepeatTask(db, t, s, d, pattern))
        /\ UNCHANGED removed

UpdateRule(s) ==
    \E new \in Unused, d \in Day, pattern \in Pattern, end \in End :
        /\ CanUpdate(db, s, new, d, 1, pattern, end)
        /\ Execute(UpdateSeries(db, s, new, d, 1, pattern, end, Window(today, Ahead, today)))
        /\ UNCHANGED removed

StopRule(s) ==
    \E d \in Day :
        /\ CanStop(db, s, d)
        /\ Execute(StopSeries(db, s, d))
        /\ UNCHANGED removed

Undo ==
    /\ undo.held /\ CanPutBack(db, undo.of)
    /\ changes < MaxChanges /\ changes' = changes + 1
    /\ db' = PutBack(db, undo.of)
    /\ removed' = before.removed
    /\ undo' = NoUndo /\ before' = NoHistory
    /\ UNCHANGED today

\* Ten seconds pass, or the process starts again.
Expire ==
    /\ undo.held
    /\ undo' = NoUndo /\ before' = NoHistory
    /\ UNCHANGED <<db, today, changes, removed>>

\* A page looks at a day: the occurrences of the rules are made, and the
\* receipt stays.
LookAt(d) ==
    /\ db' = Materialize(db, Rules, Window(today, Ahead, d))
    /\ UNCHANGED <<today, undo, changes, removed, before>>

\* A resource is linked to a task, or taken off it.
Link(t) ==
    /\ db' = [db EXCEPT !.links = IF t \in @ THEN @ \ {t} ELSE @ \cup {t}]
    /\ UNCHANGED <<today, undo, changes, removed, before>>

\* A restored backup replaces everything; here it is an empty one.
Restore ==
    /\ changes < MaxChanges /\ changes' = changes + 1
    /\ db' = Blank /\ removed' = {}
    /\ undo' = NoUndo /\ before' = NoHistory
    /\ UNCHANGED today

Midnight ==
    /\ today + 1 \in Day
    /\ today' = today + 1
    /\ UNCHANGED <<db, undo, changes, removed, before>>

TaskStep(t) ==
    \/ Edit(t) \/ Retitle(t) \/ Complete(t) \/ Reopen(t) \/ Delete(t)
    \/ Focus(t) \/ Unfocus(t) \/ Repeat(t) \/ Link(t)

Next ==
    \/ \E t \in Tasks : TaskStep(t)
    \/ \E s \in Rules : UpdateRule(s) \/ StopRule(s)
    \/ \E d \in Day : LookAt(d)
    \/ CreateTasks \/ StartRule \/ Undo \/ Expire \/ Restore \/ Midnight

Spec == Init /\ [][Next]_vars

(***************************************************************************)
(* The plan of a day: each task that is shown, in one of its lists.        *)
(***************************************************************************)

Scheduled(d) == {t \in Tasks : db.tasks[t].from <= d /\ d <= db.tasks[t].to}
Overdue(d) == {t \in Tasks : d = today /\ db.tasks[t].to < d}
StillOpen(T) == {t \in T : db.tasks[t].status = "open"}
FocusShown(d) ==
    {t \in StillOpen(Scheduled(d) \cup Overdue(d)) : d = today /\ [date |-> d, task |-> t] \in db.focus}

(***************************************************************************)
(* Properties.                                                             *)
(***************************************************************************)

OnlyMade(new) ==
    \A i \in DOMAIN new.tasks \ DOMAIN before.db.tasks :
        /\ new.tasks[i].series \in DOMAIN before.db.series
        /\ RecursOn(before.db.series[new.tasks[i].series], new.tasks[i].day)

PutsBack ==
    /\ \A i \in DOMAIN before.db.tasks : i \in DOMAIN db'.tasks /\ db'.tasks[i] = before.db.tasks[i]
    /\ OnlyMade(db')
    /\ db'.series = before.db.series /\ db'.focus = before.db.focus
    /\ \A i \in before.db.links : i \in db'.links \/ i \in Tasks

(* An undo puts the planner back as it was before the command, whatever    *)
(* was looked at, generated or linked in between; only the occurrences     *)
(* that the rules ask for may have been added.                             *)
UndoRestores == [][changes' # changes /\ undo.held /\ Undo => PutsBack]_vars

(* The occurrence that somebody deleted never comes back, however the rule *)
(* is split, replaced or stopped afterwards, unless the deletion is undone.*)
DeletedStays == \A i \in Tasks : Occurs(db.tasks[i]) => <<db.tasks[i].rule, db.tasks[i].day>> \notin removed

(* The segments of a rule never ask for the same day, each occurrence      *)
(* belongs to a segment that exists, and one that nobody touched is on a   *)
(* day of its segment.                                                     *)
ChainIntact ==
    /\ \A s \in Rules, u \in Rules, d \in Day :
          s # u /\ db.series[s].rule = db.series[u].rule
             => ~(RecursOn(db.series[s], d) /\ RecursOn(db.series[u], d))
    /\ \A i \in Tasks : Occurs(db.tasks[i]) =>
          /\ db.tasks[i].series \in Rules
          /\ db.series[db.tasks[i].series].rule = db.tasks[i].rule
          /\ ~Kept(db.tasks[i]) => RecursOn(db.series[db.tasks[i].series], db.tasks[i].day)

(* The day never has more focus than its limit, and what has a place in it *)
(* is shown: no completed, moved or deleted task keeps one.                *)
FocusUsable ==
    /\ \A d \in Day : Cardinality(FocusedOn(db, d)) <= MaxFocus
    /\ \A r \in FocusedOn(db, today) : r.task \in FocusShown(today)

=============================================================================
