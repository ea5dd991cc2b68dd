----------------------------- MODULE PlannerRules -----------------------------
(***************************************************************************)
(* Recurrence rules: on which days a rule asks for an occurrence, and the  *)
(* occurrences it makes.  Days are numbered; Calendar says which weekday,  *)
(* day of the month and length of the month each of them has.              *)
(***************************************************************************)
EXTENDS Naturals, Sequences, FiniteSets

CONSTANTS
    Calendar,   \* sequence of [weekday, day, length]
    Task,       \* ids of tasks that people create
    Series,     \* ids of rule segments; the first one names the whole rule
    Pattern,    \* patterns that rules may have
    None        \* no segment

ASSUME CalendarAssumption ==
    /\ Calendar # <<>> /\ Calendar \in Seq([weekday : 1..7, day : 1..31, length : 28..31])
    /\ \A i \in DOMAIN Calendar : Calendar[i].day <= Calendar[i].length

Day == DOMAIN Calendar
Forever == Len(Calendar) + 1        \* no end

\* The id of an occurrence is made of its key; those of other tasks are not.
Id == Task \cup (Series \X Day)

TaskRow == [from : Day, to : Day, status : {"open", "completed"}, text : {0, 1},
            series : Series \cup {None}, rule : Series \cup {None}, day : {0} \cup Day,
            exception : BOOLEAN]
SeriesRow == [rule : Series, start : Day, until : 1..Forever, end : 1..Forever,
              pattern : Pattern, excluded : SUBSET Day, text : {0, 1}]

ASSUME IdAssumption ==
    /\ Task \cap (Series \X Day) = {}
    /\ None \notin Series \cup TaskRow \cup SeriesRow

Min2(a, b) == IF a <= b THEN a ELSE b

\* A month that is too short has its occurrence on its last day.
PatternAsks(pattern, d) ==
    CASE pattern.kind = "daily"    -> TRUE
      [] pattern.kind = "weekdays" -> Calendar[d].weekday <= 5
      [] pattern.kind = "weekly"   -> Calendar[d].weekday \in pattern.weekdays
      [] pattern.kind = "monthly"  -> Calendar[d].day = Min2(pattern.day, Calendar[d].length)

\* A segment runs from its start to the start of the segment that replaced
\* it (until) and to the end that the user gave (end).
RecursOn(s, d) ==
    /\ s.start <= d /\ d <= s.until /\ d <= s.end
    /\ d \notin s.excluded
    /\ PatternAsks(s.pattern, d)

ValidSeries(s) ==
    /\ s.start <= s.end /\ s.start <= s.until
    /\ s.until # Forever => s.until <= s.end

(***************************************************************************)
(* Tasks.  A task of a rule carries the segment, the rule and the nominal  *)
(* day it belongs to; the rule and the day are its key.                    *)
(***************************************************************************)

Occurs(t) == t.series # None

OccurrenceId(rule, d) == <<rule, d>>

Occurrence(id, s, d) ==
    [from |-> d, to |-> d, status |-> "open", text |-> s.text,
     series |-> id, rule |-> s.rule, day |-> d, exception |-> FALSE]

ValidTask(t) ==
    /\ t.from <= t.to
    /\ Occurs(t) => /\ t.from = t.to
                    /\ ~t.exception => t.from = t.day

HasOccurrence(tasks, rule, d) ==
    \E i \in DOMAIN tasks : Occurs(tasks[i]) /\ tasks[i].rule = rule /\ tasks[i].day = d

\* The days between today and the horizon, and the day that is looked at.
Window(today, ahead, looked) ==
    {d \in Day : today <= d /\ (d <= today + ahead \/ d = looked)}

\* The rows of f, and those of g that f does not have.
Over(f, g) ==
    [i \in DOMAIN f \cup DOMAIN g |-> IF i \in DOMAIN f THEN f[i] ELSE g[i]]

\* The occurrences that the segments S ask for in the window and that no task
\* stands for yet.
Made(db, S, window) ==
    LET due == {p \in S \X window :
                    /\ RecursOn(db.series[p[1]], p[2])
                    /\ ~HasOccurrence(db.tasks, db.series[p[1]].rule, p[2])}
        ids == {OccurrenceId(db.series[p[1]].rule, p[2]) : p \in due}
    IN  [i \in ids |-> LET p == CHOOSE q \in due : OccurrenceId(db.series[q[1]].rule, q[2]) = i
                       IN  Occurrence(p[1], db.series[p[1]], p[2])]

Materialize(db, S, window) == [db EXCEPT !.tasks = Over(Made(db, S, window), @)]

=============================================================================
