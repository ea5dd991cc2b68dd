---------------------------- MODULE PlannerCommands ----------------------------
(***************************************************************************)
(* The commands of the planner, each a function from the database of one   *)
(* transaction to the next database and what an undo has to put back.  A   *)
(* command that the code refuses, or that changes nothing, has a guard     *)
(* that is false.                                                          *)
(***************************************************************************)
EXTENDS PlannerRules

CONSTANT MaxFocus       \* focus records of a day: three in the code

Nothing == [tasks |-> {}, series |-> {}, focus |-> {}, links |-> {}]
Blank == [tasks |-> <<>>, series |-> <<>>, focus |-> {}, links |-> {}]

\* The result of a command: a database, and the ids of what it changed.
Result(db, touched) == [db |-> db, touched |-> touched]

Without(f, S) == [i \in DOMAIN f \ S |-> f[i]]
Put(f, i, v) == [j \in DOMAIN f \cup {i} |-> IF j = i THEN v ELSE f[j]]
FocusOf(db, T) == {r \in db.focus : r.task \in T}
LinksOf(db, T) == db.links \cap T

\* Deleting a row of the tasks drops its links; its focus goes by command.
DropTasks(db, T) ==
    [db EXCEPT !.tasks = Without(@, T), !.links = @ \ T, !.focus = @ \ FocusOf(db, T)]

(***************************************************************************)
(* One task.                                                               *)
(***************************************************************************)

CreateTask(db, t, from, to) ==
    Result([db EXCEPT !.tasks = Put(@, t,
              [from |-> from, to |-> to, status |-> "open", text |-> 0,
               series |-> None, rule |-> None, day |-> 0, exception |-> FALSE])], Nothing)

Moved(task, from, to) == [task EXCEPT !.from = from, !.to = to, !.exception = Occurs(task)]

\* The page sends the new text and the new days of a task as one batch; only
\* then is the text part of what the undo puts back.
EditTask(db, t, text, from, to) ==
    LET old == db.tasks[t]
        moves == <<old.from, old.to>> # <<from, to>>
        retold == text # old.text
        new == IF moves THEN Moved([old EXCEPT !.text = text], from, to)
               ELSE [old EXCEPT !.text = text, !.exception = Occurs(old)]
    IN  Result([db EXCEPT !.tasks[t] = new,
                          !.focus = IF moves THEN @ \ FocusOf(db, {t}) ELSE @],
               [Nothing EXCEPT !.tasks = {t}, !.focus = IF moves THEN FocusOf(db, {t}) ELSE {}])

CanEdit(db, t, text, from, to) ==
    /\ <<text, from, to>> # <<db.tasks[t].text, db.tasks[t].from, db.tasks[t].to>>
    /\ ValidTask(Moved(db.tasks[t], from, to))

\* New text alone is not undone.
RetitleTask(db, t, text) ==
    Result([db EXCEPT !.tasks[t] = [@ EXCEPT !.text = text, !.exception = Occurs(db.tasks[t])]], Nothing)

\* Bug: a completed task keeps its place in the focus.
CompleteTaskInFocus(db, t) ==
    Result([db EXCEPT !.tasks[t].status = "completed"], [Nothing EXCEPT !.tasks = {t}])

CompleteTask(db, t) ==
    Result([db EXCEPT !.tasks[t].status = "completed", !.focus = @ \ FocusOf(db, {t})],
           [Nothing EXCEPT !.tasks = {t}, !.focus = FocusOf(db, {t})])

ReopenTask(db, t) ==
    Result([db EXCEPT !.tasks[t].status = "open"], [Nothing EXCEPT !.tasks = {t}])

\* Bug: a deleted occurrence is not taken out of its rule.
DeleteTaskOnly(db, t) ==
    Result(DropTasks(db, {t}),
           [Nothing EXCEPT !.tasks = {t}, !.focus = FocusOf(db, {t}), !.links = LinksOf(db, {t})])

Excluding(series, d) == [series EXCEPT !.excluded = @ \cup {d}]

\* Deleting an occurrence takes its day out of the rule.
DeleteTask(db, t) ==
    LET old == db.tasks[t]
        s == IF Occurs(old) THEN {old.series} ELSE {}
    IN  Result([DropTasks(db, {t}) EXCEPT
                   !.series = [i \in DOMAIN @ |-> IF i \in s THEN Excluding(@[i], old.day) ELSE @[i]]],
               [tasks |-> {t}, series |-> s, focus |-> FocusOf(db, {t}), links |-> LinksOf(db, {t})])

FocusedOn(db, d) == {r \in db.focus : r.date = d}

CanFocus(db, t, d) ==
    /\ db.tasks[t].status = "open" /\ db.tasks[t].from <= d
    /\ [date |-> d, task |-> t] \notin db.focus
    /\ Cardinality(FocusedOn(db, d)) < MaxFocus

SetTodayFocus(db, t, d) ==
    Result([db EXCEPT !.focus = @ \cup {[date |-> d, task |-> t]}], Nothing)

RemoveTodayFocus(db, t, d) ==
    Result([db EXCEPT !.focus = @ \ {[date |-> d, task |-> t]}], Nothing)

(***************************************************************************)
(* Rules.                                                                  *)
(***************************************************************************)

NewSeries(s, start, end, pattern) ==
    [rule |-> s, start |-> start, until |-> Forever, end |-> end, pattern |-> pattern,
     excluded |-> {}, text |-> 0]

CreateSeries(db, s, start, end, pattern) ==
    Result([db EXCEPT !.series = Put(@, s, NewSeries(s, start, end, pattern))], Nothing)

\* A task of one day becomes the first occurrence of a rule, on its own day
\* or on another.
CanRepeat(db, t, s, d, pattern) ==
    LET task == db.tasks[t]
    IN  /\ task.from = task.to /\ ~Occurs(task)
        /\ RecursOn(NewSeries(s, d, Forever, pattern), d)
        /\ ~HasOccurrence(db.tasks, s, d)

RepeatTask(db, t, s, d, pattern) ==
    LET task == db.tasks[t]
        series == [NewSeries(s, d, Forever, pattern) EXCEPT !.text = task.text]
    IN  Result([db EXCEPT !.series = Put(@, s, series),
                          !.focus = IF d = task.from THEN @ ELSE @ \ FocusOf(db, {t}),
                          !.tasks[t] = [@ EXCEPT !.from = d, !.to = d,
                                                 !.series = s, !.rule = s, !.day = d]], Nothing)

\* The segments of a rule after one of them, and the tasks of both.
Successors(db, s) ==
    {u \in DOMAIN db.series : db.series[u].rule = db.series[s].rule /\ db.series[u].start > db.series[s].start}
Chain(db, s) == {u \in DOMAIN db.series : db.series[u].rule = db.series[s].rule}
LogicalTail(db, s) == {i \in DOMAIN db.tasks : db.tasks[i].series \in {s} \cup Successors(db, s)}
Excluded(db, S) == UNION {db.series[u].excluded : u \in S}

WithinSegment(db, s, d) == db.series[s].start <= d /\ d <= db.series[s].until

\* The replacement of a segment and all its successors from a day on.
Replacement(db, s, d, text, pattern, end) ==
    [db.series[s] EXCEPT !.start = d, !.until = Forever, !.end = end, !.pattern = pattern,
                         !.text = text,
                         !.excluded = {x \in @ : x >= d} \cup Excluded(db, Successors(db, s))]

Shortened(db, s, d) ==
    [db.series[s] EXCEPT !.until = d - 1, !.excluded = {x \in @ : x < d}]

CanUpdate(db, s, new, d, text, pattern, end) ==
    LET old == db.series[s]
    IN  /\ WithinSegment(db, s, d) /\ new \notin DOMAIN db.series
        /\ Successors(db, s) # {} \/ old.until # Forever
             \/ <<text, pattern, end>> # <<old.text, old.pattern, old.end>>
        /\ ValidSeries(Replacement(db, s, d, text, pattern, end))
        /\ d > old.start => ValidSeries(Shortened(db, s, d))

\* What happens to an occurrence of the tail.  An edited or completed one
\* stays as it is; another one follows the new rule, or goes with the old.
Kept(task) == task.status = "completed" \/ task.exception
Follows(task, r, d) == Kept(task) \/ RecursOn(r, task.day) \/ task.day = d

Detached(task, s) == [task EXCEPT !.series = s, !.exception = TRUE]
Rewritten(task, new, r) ==
    IF Kept(task) THEN Detached(task, new)
    ELSE IF RecursOn(r, task.day)
         THEN [task EXCEPT !.series = new, !.text = r.text, !.from = task.day, !.to = task.day]
         ELSE [task EXCEPT !.series = new, !.text = r.text, !.exception = TRUE]

Affected(db, s, d) == {i \in LogicalTail(db, s) : db.tasks[i].day >= d}

UpdateSeries(db, s, new, d, text, pattern, end, window) ==
    LET r == Replacement(db, s, d, text, pattern, end)
        gone == {i \in Affected(db, s, d) : ~Follows(db.tasks[i], r, d)}
        stay == Affected(db, s, d) \ gone
        kept == DropTasks(db, gone)
        segments == IF d = db.series[s].start THEN Without(db.series, {s} \cup Successors(db, s))
                    ELSE [Without(db.series, Successors(db, s)) EXCEPT ![s] = Shortened(db, s, d)]
        rewritten == [kept EXCEPT
                        !.series = Put(segments, new, r),
                        !.tasks = [i \in DOMAIN @ |-> IF i \in stay THEN Rewritten(@[i], new, r) ELSE @[i]]]
        made == Made(rewritten, {new}, window)
    IN  Result([rewritten EXCEPT !.tasks = Over(made, @)],
               [tasks |-> Affected(db, s, d) \cup DOMAIN made,
                series |-> {s, new} \cup Successors(db, s),
                focus |-> FocusOf(db, gone), links |-> LinksOf(db, gone)])

CanStop(db, s, d) == WithinSegment(db, s, d) /\ d <= db.series[s].end

\* The rule ends on a day: later occurrences go, but for those that were
\* edited or completed.
StopSeries(db, s, d) ==
    LET later == {i \in LogicalTail(db, s) : db.tasks[i].day > d}
        gone == {i \in later : ~Kept(db.tasks[i])}
        stopped == [db.series[s] EXCEPT !.until = Forever, !.end = d,
                                        !.excluded = Excluded(db, Chain(db, s))]
        kept == DropTasks(db, gone)
    IN  Result([kept EXCEPT
                  !.series = Put(Without(@, Successors(db, s)), s, stopped),
                  !.tasks = [i \in DOMAIN @ |->
                               IF i \in later THEN Detached(@[i], s) ELSE @[i]]],
               [tasks |-> later, series |-> {s} \cup Successors(db, s),
                focus |-> FocusOf(db, gone), links |-> LinksOf(db, gone)])

(***************************************************************************)
(* Undo.                                                                   *)
(***************************************************************************)

Snapshot(f, S) == [i \in S |-> IF i \in DOMAIN f THEN f[i] ELSE None]

\* What was there before a command, of the rows that it changed.
ChangesOf(db, touched) ==
    [tasks |-> Snapshot(db.tasks, touched.tasks), series |-> Snapshot(db.series, touched.series),
     focus |-> touched.focus, links |-> touched.links]

CreatedIn(snapshot) == {i \in DOMAIN snapshot : snapshot[i] = None}
Restored(f, snapshot) == Over(Without(snapshot, CreatedIn(snapshot)), Without(f, CreatedIn(snapshot)))

\* Occurrences that were made since for a segment that the command created.
MadeSince(db, changes) ==
    {i \in DOMAIN db.tasks : /\ db.tasks[i].series \in CreatedIn(changes.series)
                             /\ i \notin DOMAIN changes.tasks}

CanPutBack(db, changes) == \A i \in MadeSince(db, changes) : ~Kept(db.tasks[i])

\* Bug: occurrences made since stay behind, without their segment.
PutBackTouched(db, changes) ==
    LET created == DropTasks(db, CreatedIn(changes.tasks))
    IN  [created EXCEPT !.tasks = Restored(@, changes.tasks), !.series = Restored(@, changes.series),
                        !.focus = @ \cup changes.focus, !.links = @ \cup changes.links]

PutBack(db, changes) ==
    LET swept == DropTasks(db, MadeSince(db, changes))
        created == [swept EXCEPT !.links = @ \ CreatedIn(changes.tasks)]
    IN  [created EXCEPT !.tasks = Restored(@, changes.tasks), !.series = Restored(@, changes.series),
                        !.focus = @ \cup changes.focus, !.links = @ \cup changes.links]

=============================================================================
