----------------------------- MODULE PlannerProofs -----------------------------
(***************************************************************************)
(* What holds of the planner for any calendar, patterns, ids and number of *)
(* changes: deleted occurrences stay away, the segments of a rule never    *)
(* ask for one day twice, focus stays within its limit on what is shown,   *)
(* and an undo puts back exactly what was there before its command.        *)
(***************************************************************************)
EXTENDS PlannerWindows, FiniteSetTheorems, TLAPS

----------------------------------------------------------------------------
(* A sound database. *)

Rows(f, ids, row) == DOMAIN f \subseteq ids /\ f \in [DOMAIN f -> row]

Part == {"tasks", "series", "focus", "links"}
IsDatabase(d) == d = [x \in Part |-> d[x]]
Typed(d) ==
  /\ IsDatabase(d)
  /\ Rows(d.tasks, Id, TaskRow) /\ Rows(d.series, Series, SeriesRow)
  /\ d.focus \subseteq [date : Day, task : Id]

(* Segments of one rule cover different days. *)
Segmented(rows) ==
  /\ \A s \in DOMAIN rows : rows[s].start <= rows[s].until
  /\ \A s, u \in DOMAIN rows :
       s # u /\ rows[s].rule = rows[u].rule =>
         rows[s].until < rows[u].start \/ rows[u].until < rows[s].start

Covers(s, x) == s.start <= x /\ x <= s.until

(* Segments of one rule agree on the days that were taken out of it.       *)
Agreed(rows) ==
  \A s, u \in DOMAIN rows : rows[s].rule = rows[u].rule =>
    \A x \in rows[s].excluded :
      x <= rows[s].until /\ (Covers(rows[u], x) => x \in rows[u].excluded)

(* An occurrence is of a segment that covers its day, and stands on a day  *)
(* that the segment asks for, unless somebody edited it.                   *)
Belongs(task, rows) ==
  /\ task.series \in DOMAIN rows
  /\ rows[task.series].rule = task.rule
  /\ task.day \in Day /\ Covers(rows[task.series], task.day)
  /\ ~task.exception => RecursOn(rows[task.series], task.day) /\ task.from = task.day
Members(tasks, rows) ==
  \A i \in DOMAIN tasks : Occurs(tasks[i]) => Belongs(tasks[i], rows)

(* The key of an occurrence, and the id made of it, are its own. *)
SameKey(i, j) == Occurs(i) /\ Occurs(j) /\ i.rule = j.rule /\ i.day = j.day
Keyed(tasks) ==
  /\ \A i, j \in DOMAIN tasks : SameKey(tasks[i], tasks[j]) => i = j
  /\ \A i \in DOMAIN tasks : i \in Series \X Day =>
       Occurs(tasks[i]) /\ i = OccurrenceId(tasks[i].rule, tasks[i].day)

(* A day that somebody deleted is excluded by the segment that covers it. *)
Excludes(rows, gone) ==
  \A x \in gone : \E s \in DOMAIN rows :
    rows[s].rule = x[1] /\ Covers(rows[s], x[2]) /\ x[2] \in rows[s].excluded
Absent(tasks, gone) ==
  \A i \in DOMAIN tasks : Occurs(tasks[i]) => <<tasks[i].rule, tasks[i].day>> \notin gone

(* Focus is on open tasks that have begun by its day. *)
Focusable(tasks, r) ==
  r.task \in DOMAIN tasks /\ tasks[r.task].status = "open" /\ tasks[r.task].from <= r.date
Placed(tasks, focus) == \A r \in focus : Focusable(tasks, r)
Limited(focus) ==
  \A x \in Day :
    LET on == {r \in focus : r.date = x} IN IsFiniteSet(on) /\ Cardinality(on) <= MaxFocus

Sound(d, gone) ==
  /\ Typed(d) /\ gone \subseteq Series \X Day
  /\ Segmented(d.series) /\ Agreed(d.series)
  /\ Members(d.tasks, d.series) /\ Keyed(d.tasks)
  /\ Excludes(d.series, gone) /\ Absent(d.tasks, gone)
  /\ Placed(d.tasks, d.focus) /\ Limited(d.focus)
  /\ d.links \subseteq DOMAIN d.tasks

----------------------------------------------------------------------------
(* What a command, and what is generated and linked after it, may do       *)
(* besides what its receipt puts back.                                     *)

Unasked(d, e, task) ==
  \A s \in DOMAIN d.series \cap DOMAIN e.series :
    e.series[s].rule = task.rule => ~RecursOn(e.series[s], task.day)

Framed(d, e, touched) ==
  /\ \A i \in DOMAIN d.tasks \ touched.tasks : i \in DOMAIN e.tasks /\ e.tasks[i] = d.tasks[i]
  /\ \A i \in DOMAIN e.tasks \ (DOMAIN d.tasks \cup touched.tasks) :
       Occurs(e.tasks[i]) /\ ~Kept(e.tasks[i])
  /\ \A s \in Series \ touched.series :
       /\ s \in DOMAIN d.series <=> s \in DOMAIN e.series
       /\ s \in DOMAIN d.series => e.series[s] = d.series[s]
  /\ \A s \in DOMAIN d.series \cap DOMAIN e.series :
       /\ e.series[s].rule = d.series[s].rule
       /\ \A x \in Day : RecursOn(e.series[s], x) => RecursOn(d.series[s], x)
  /\ \A j \in DOMAIN d.tasks : Occurs(d.tasks[j]) =>
       (j \in DOMAIN e.tasks /\ SameKey(e.tasks[j], d.tasks[j])) \/ Unasked(d, e, d.tasks[j])
  /\ d.focus = e.focus \cup touched.focus
  /\ touched.series \subseteq Series /\ touched.links \subseteq d.links
  /\ \A i \in d.links : i \in e.links \cup touched.links \cup DOMAIN e.tasks

Touched(of) ==
  [tasks |-> DOMAIN of.tasks, series |-> DOMAIN of.series,
   focus |-> of.focus, links |-> of.links]

(* The receipt puts back the database before the command. *)
Undoable ==
  undo.held =>
    /\ Sound(before.db, before.removed)
    /\ undo.of = ChangesOf(before.db, Touched(undo.of))
    /\ Framed(before.db, db, Touched(undo.of))

PlannerInv == today \in Day /\ Sound(db, removed) /\ Undoable

----------------------------------------------------------------------------
(* Facts about days, rows and databases. *)

LEMMA Days ==
  /\ Len(Calendar) \in Nat /\ Len(Calendar) >= 1 /\ Day = 1..Len(Calendar)
  /\ Day \subseteq 1..Forever /\ 1 \in Day /\ Forever \in Nat
<1>1. Calendar \in Seq([weekday : 1..7, day : 1..31, length : 28..31]) /\ Calendar # <<>>
  BY CalendarAssumption
<1>2. Len(Calendar) \in Nat /\ Day = 1..Len(Calendar)
  BY <1>1 DEF Day
<1>3. Len(Calendar) >= 1
  BY <1>1, <1>2
<1>4. QED
  BY <1>2, <1>3 DEF Forever

LEMMA PutRows ==
  ASSUME NEW f, NEW ids, NEW row, Rows(f, ids, row), NEW i \in ids, NEW v \in row
  PROVE  /\ Rows(Put(f, i, v), ids, row)
         /\ DOMAIN Put(f, i, v) = DOMAIN f \cup {i} /\ Put(f, i, v)[i] = v
         /\ \A j \in DOMAIN f : j # i => Put(f, i, v)[j] = f[j]
  BY DEF Rows, Put

LEMMA WithoutRows ==
  ASSUME NEW f, NEW ids, NEW row, Rows(f, ids, row), NEW S
  PROVE  /\ Rows(Without(f, S), ids, row)
         /\ DOMAIN Without(f, S) = DOMAIN f \ S
         /\ \A j \in DOMAIN f \ S : Without(f, S)[j] = f[j]
  BY DEF Rows, Without

(* Less focus stays within the limit. *)
LEMMA LessFocus ==
  ASSUME NEW F, NEW G \in SUBSET F, Limited(F)
  PROVE  Limited(G)
<1> SUFFICES ASSUME NEW x \in Day
             PROVE  LET on == {r \in G : r.date = x}
                    IN  IsFiniteSet(on) /\ Cardinality(on) <= MaxFocus
  BY DEF Limited
<1> DEFINE on == {r \in G : r.date = x}
           all == {r \in F : r.date = x}
<1>1. IsFiniteSet(all) /\ Cardinality(all) <= MaxFocus
  BY DEF Limited
<1>2. on \in SUBSET all
  OBVIOUS
<1> HIDE DEF on, all
<1>3. IsFiniteSet(on) /\ Cardinality(on) <= Cardinality(all)
  BY <1>1, <1>2, FS_Subset
<1>4. Cardinality(on) \in Nat /\ Cardinality(all) \in Nat
  BY <1>1, <1>3, FS_CardinalityType
<1>5. IsFiniteSet(on) /\ Cardinality(on) <= MaxFocus
  BY <1>1, <1>3, <1>4, ChoicesAssumption
<1>6. QED
  BY <1>5 DEF on

----------------------------------------------------------------------------
(* Commands on one task.                                                   *)

(* A row of a task is replaced by another one with the same key, and loses *)
(* focus where it may not have it.                                         *)
Replaces(d, e, t, F) ==
  /\ IsDatabase(e) /\ DOMAIN e.tasks = DOMAIN d.tasks
  /\ e.tasks = [d.tasks EXCEPT ![t] = e.tasks[t]] /\ e.tasks[t] \in TaskRow
  /\ e.tasks[t].series = d.tasks[t].series /\ e.tasks[t].rule = d.tasks[t].rule
  /\ e.tasks[t].day = d.tasks[t].day
  /\ Occurs(d.tasks[t]) /\ ~e.tasks[t].exception =>
       ~d.tasks[t].exception /\ e.tasks[t].from = d.tasks[t].from
  /\ e.series = d.series /\ e.links = d.links
  /\ F \subseteq d.focus /\ e.focus = d.focus \ F
  /\ \A r \in e.focus : r.task = t => Focusable(e.tasks, r)

LEMMA ReplacedSound ==
  ASSUME NEW d, NEW gone, Sound(d, gone), NEW t \in DOMAIN d.tasks, NEW e, NEW F, Replaces(d, e, t, F)
  PROVE  Sound(e, gone)
<1>1. /\ Rows(d.tasks, Id, TaskRow) /\ d.links \subseteq DOMAIN d.tasks
      /\ Typed(d) /\ gone \subseteq Series \X Day
  BY DEF Sound, Typed
<1>2. /\ DOMAIN e.tasks = DOMAIN d.tasks /\ Rows(e.tasks, Id, TaskRow)
      /\ \A i \in DOMAIN d.tasks : i # t => e.tasks[i] = d.tasks[i]
      /\ e.series = d.series /\ e.links = d.links /\ e.focus \subseteq d.focus /\ IsDatabase(e)
  BY <1>1 DEF Replaces, Rows
<1>3. \A i \in DOMAIN d.tasks :
        /\ e.tasks[i].series = d.tasks[i].series /\ e.tasks[i].rule = d.tasks[i].rule
        /\ e.tasks[i].day = d.tasks[i].day
  BY <1>2 DEF Replaces
<1>4. Typed(e)
  BY <1>1, <1>2 DEF Typed
<1>5. Members(e.tasks, e.series)
  <2> SUFFICES ASSUME NEW i \in DOMAIN d.tasks, Occurs(e.tasks[i])
               PROVE  Belongs(e.tasks[i], d.series)
    BY <1>2 DEF Members
  <2>1. Occurs(d.tasks[i]) /\ Belongs(d.tasks[i], d.series)
    BY <1>3 DEF Occurs, Sound, Members
  <2>2. ~e.tasks[i].exception => ~d.tasks[i].exception /\ e.tasks[i].from = d.tasks[i].from
    BY <1>2, <2>1 DEF Replaces
  <2>3. QED
    BY <1>3, <2>1, <2>2 DEF Belongs
<1>6. Keyed(e.tasks) /\ Absent(e.tasks, gone)
  BY <1>2, <1>3 DEF Sound, Keyed, SameKey, Occurs, Absent
<1>7. Placed(e.tasks, e.focus)
  <2> SUFFICES ASSUME NEW r \in e.focus
               PROVE  Focusable(e.tasks, r)
    BY DEF Placed
  <2>1. Focusable(d.tasks, r)
    BY <1>2 DEF Sound, Placed
  <2>2. CASE r.task # t
    BY <1>2, <2>1, <2>2 DEF Focusable
  <2>3. QED
    BY <2>2 DEF Replaces
<1>8. Limited(e.focus)
  BY <1>2, LessFocus DEF Sound
<1>9. QED
  BY <1>1, <1>2, <1>4, <1>5, <1>6, <1>7, <1>8 DEF Sound

LEMMA ReplacedFramed ==
  ASSUME NEW d, NEW gone, Sound(d, gone), NEW t \in DOMAIN d.tasks, NEW e, NEW F, Replaces(d, e, t, F),
         NEW touched, touched.tasks = {t}, touched.series = {}, touched.focus = F,
         touched.links = {}
  PROVE  Framed(d, e, touched)
<1>1. /\ DOMAIN e.tasks = DOMAIN d.tasks
      /\ \A i \in DOMAIN d.tasks : i # t => e.tasks[i] = d.tasks[i]
      /\ e.series = d.series /\ e.links = d.links
      /\ d.focus = e.focus \cup F
  BY DEF Replaces
<1>2. \A i \in DOMAIN d.tasks : Occurs(d.tasks[i]) => SameKey(e.tasks[i], d.tasks[i])
  BY <1>1 DEF Replaces, SameKey, Occurs
<1>3. QED
  BY <1>1, <1>2 DEF Framed

(* What a command on one task gives, and what undo may put back of it.     *)
Gives(result, gone) ==
  /\ Sound(result.db, gone)
  /\ result.touched # Nothing => Framed(db, result.db, result.touched)

LEMMA SoundFacts ==
  ASSUME Sound(db, removed)
  PROVE  /\ Typed(db) /\ IsDatabase(db) /\ Rows(db.tasks, Id, TaskRow)
         /\ Rows(db.series, Series, SeriesRow)
         /\ \A t \in Tasks : db.tasks[t] \in TaskRow /\ t \in Id
         /\ \A s \in Rules : db.series[s] \in SeriesRow /\ s \in Series
         /\ db.focus \subseteq [date : Day, task : Id] /\ db.links \subseteq Tasks
         /\ \A r \in db.focus : r.task \in Tasks
         /\ removed \subseteq Series \X Day
  BY DEF Sound, Typed, Rows, Tasks, Rules, Placed, Focusable

(* A new row of a task, and the focus it loses. *)
LEMMA Replacing ==
  ASSUME Sound(db, removed), NEW t \in Tasks, NEW new \in TaskRow, NEW F \in SUBSET db.focus,
         new.series = db.tasks[t].series, new.rule = db.tasks[t].rule, new.day = db.tasks[t].day,
         Occurs(db.tasks[t]) /\ ~new.exception =>
           ~db.tasks[t].exception /\ new.from = db.tasks[t].from,
         \A r \in db.focus \ F : r.task = t => new.status = "open" /\ new.from <= r.date,
         NEW e, e = [db EXCEPT !.tasks = [@ EXCEPT ![t] = new], !.focus = db.focus \ F]
  PROVE  Replaces(db, e, t, F)
<1> DEFINE T == [db.tasks EXCEPT ![t] = new]
           G == db.focus \ F
<1>1. IsDatabase(db) /\ t \in DOMAIN db.tasks
  BY SoundFacts DEF Tasks
<1>2. e = [db EXCEPT !.tasks = T, !.focus = G]
  OBVIOUS
<1> HIDE DEF T, G
<1>3. /\ IsDatabase(e) /\ e.tasks = T /\ e.series = db.series
      /\ e.focus = G /\ e.links = db.links
  BY <1>1, <1>2 DEF IsDatabase, Part
<1>4. T[t] = new /\ DOMAIN T = DOMAIN db.tasks /\ T = [db.tasks EXCEPT ![t] = T[t]]
  BY <1>1 DEF T
<1>5. \A r \in G : r.task = t => Focusable(T, r)
  BY <1>1, <1>4 DEF G, Focusable
<1>6. QED
  BY <1>3, <1>4, <1>5 DEF Replaces, G

LEMMA Replaced ==
  ASSUME Sound(db, removed), NEW t \in Tasks, NEW e, NEW F, Replaces(db, e, t, F),
         NEW touched, touched # Nothing =>
           /\ touched.tasks = {t} /\ touched.series = {}
           /\ touched.focus = F /\ touched.links = {}
  PROVE  Gives(Result(e, touched), removed)
<1>1. Sound(e, removed)
  BY ReplacedSound DEF Tasks
<1>2. ASSUME touched # Nothing
      PROVE  Framed(db, e, touched)
  <2>1. t \in DOMAIN db.tasks
    BY DEF Tasks
  <2>2. QED
    BY <1>2, <2>1, ReplacedFramed
<1>3. QED
  BY <1>1, <1>2 DEF Gives, Result

LEMMA EditGives ==
  ASSUME Sound(db, removed), NEW t \in Tasks, NEW text \in {0, 1}, NEW from \in Day, NEW to \in Day
  PROVE  Gives(EditTask(db, t, text, from, to), removed)
<1> DEFINE old == db.tasks[t]
           moves == <<old.from, old.to>> # <<from, to>>
           new == IF moves THEN Moved([old EXCEPT !.text = text], from, to)
                  ELSE [old EXCEPT !.text = text, !.exception = Occurs(old)]
           F == IF moves THEN FocusOf(db, {t}) ELSE {}
           e == [db EXCEPT !.tasks[t] = new, !.focus = IF moves THEN @ \ FocusOf(db, {t}) ELSE @]
           touched == [Nothing EXCEPT !.tasks = {t}, !.focus = F]
<1>1. old \in TaskRow
  BY SoundFacts
<1>2. /\ new \in TaskRow /\ new.series = old.series /\ new.rule = old.rule /\ new.day = old.day
      /\ new.exception = Occurs(old) /\ new.status = old.status
      /\ ~moves => new.from = old.from
  BY <1>1 DEF Moved, TaskRow, Occurs
<1>3. F \in SUBSET db.focus
  BY DEF FocusOf
<1>4. ASSUME NEW r \in db.focus \ F, r.task = t
      PROVE  new.status = "open" /\ new.from <= r.date
  <2>1. ~moves
    BY <1>4 DEF FocusOf
  <2>2. Focusable(db.tasks, r)
    BY DEF Sound, Placed
  <2>3. QED
    BY <1>2, <1>4, <2>1, <2>2 DEF Focusable
<1>5. EditTask(db, t, text, from, to) = Result(e, touched)
  BY DEF EditTask
<1>6. touched.tasks = {t} /\ touched.series = {} /\ touched.focus = F /\ touched.links = {}
  BY DEF Nothing
<1> HIDE DEF new, moves
<1>7. e = [db EXCEPT !.tasks = [@ EXCEPT ![t] = new], !.focus = db.focus \ F]
  OBVIOUS
<1> HIDE DEF F, e, old, touched
<1>8. Replaces(db, e, t, F)
  BY <1>2, <1>3, <1>4, <1>7, Replacing DEF old
<1>9. QED
  BY <1>5, <1>6, <1>8, Replaced

LEMMA RetitleGives ==
  ASSUME Sound(db, removed), NEW t \in Tasks, NEW text \in {0, 1}
  PROVE  Gives(RetitleTask(db, t, text), removed)
<1> DEFINE old == db.tasks[t]
           new == [old EXCEPT !.text = text, !.exception = Occurs(db.tasks[t])]
           e == [db EXCEPT !.tasks[t] = [@ EXCEPT !.text = text, !.exception = Occurs(db.tasks[t])]]
<1>1. old \in TaskRow /\ IsDatabase(db)
  BY SoundFacts
<1>2. /\ new \in TaskRow /\ new.series = old.series /\ new.rule = old.rule /\ new.day = old.day
      /\ new.exception = Occurs(old) /\ new.status = old.status /\ new.from = old.from
  BY <1>1 DEF TaskRow, Occurs
<1>3. ASSUME NEW r \in db.focus \ {}, r.task = t
      PROVE  new.status = "open" /\ new.from <= r.date
  <2>1. Focusable(db.tasks, r)
    BY DEF Sound, Placed
  <2>2. QED
    BY <1>2, <1>3, <2>1 DEF Focusable
<1>4. RetitleTask(db, t, text) = Result(e, Nothing)
  BY DEF RetitleTask
<1>5. e = [db EXCEPT !.tasks = [@ EXCEPT ![t] = new]]
  OBVIOUS
<1> HIDE DEF new
<1>6. e = [db EXCEPT !.tasks = [@ EXCEPT ![t] = new], !.focus = db.focus \ {}]
  BY <1>1, <1>5 DEF IsDatabase, Part
<1> HIDE DEF e, old
<1>7. Replaces(db, e, t, {})
  BY <1>2, <1>3, <1>6, Replacing DEF old
<1>8. QED
  BY <1>4, <1>7, Replaced

LEMMA ReopenGives ==
  ASSUME Sound(db, removed), NEW t \in Tasks
  PROVE  Gives(ReopenTask(db, t), removed)
<1> DEFINE old == db.tasks[t]
           new == [old EXCEPT !.status = "open"]
           e == [db EXCEPT !.tasks[t].status = "open"]
<1>1. old \in TaskRow /\ IsDatabase(db)
  BY SoundFacts
<1>2. /\ new \in TaskRow /\ new.series = old.series /\ new.rule = old.rule /\ new.day = old.day
      /\ new.exception = old.exception /\ new.status = "open" /\ new.from = old.from
  BY <1>1 DEF TaskRow
<1>3. ASSUME NEW r \in db.focus \ {}, r.task = t
      PROVE  new.status = "open" /\ new.from <= r.date
  <2>1. Focusable(db.tasks, r)
    BY DEF Sound, Placed
  <2>2. QED
    BY <1>2, <1>3, <2>1 DEF Focusable
<1> DEFINE touched == [Nothing EXCEPT !.tasks = {t}]
<1>4. ReopenTask(db, t) = Result(e, touched)
  BY DEF ReopenTask
<1>5. touched.tasks = {t} /\ touched.series = {} /\ touched.focus = {} /\ touched.links = {}
  BY DEF Nothing
<1>6. e = [db EXCEPT !.tasks = [@ EXCEPT ![t] = new]]
  OBVIOUS
<1> HIDE DEF new
<1>7. e = [db EXCEPT !.tasks = [@ EXCEPT ![t] = new], !.focus = db.focus \ {}]
  BY <1>1, <1>6 DEF IsDatabase, Part
<1> HIDE DEF e, old, touched
<1>8. Replaces(db, e, t, {})
  BY <1>2, <1>3, <1>7, Replacing DEF old
<1>9. QED
  BY <1>4, <1>5, <1>8, Replaced

LEMMA CompleteGives ==
  ASSUME Sound(db, removed), NEW t \in Tasks
  PROVE  Gives(CompleteTask(db, t), removed)
<1> DEFINE old == db.tasks[t]
           new == [old EXCEPT !.status = "completed"]
           F == FocusOf(db, {t})
           e == [db EXCEPT !.tasks[t].status = "completed", !.focus = @ \ FocusOf(db, {t})]
           touched == [Nothing EXCEPT !.tasks = {t}, !.focus = F]
<1>1. old \in TaskRow /\ IsDatabase(db)
  BY SoundFacts
<1>2. /\ new \in TaskRow /\ new.series = old.series /\ new.rule = old.rule /\ new.day = old.day
      /\ new.exception = old.exception /\ new.from = old.from
  BY <1>1 DEF TaskRow
<1>3. F \in SUBSET db.focus /\ \A r \in db.focus \ F : r.task # t
  BY DEF FocusOf
<1>4. CompleteTask(db, t) = Result(e, touched)
  BY DEF CompleteTask
<1>5. touched.tasks = {t} /\ touched.series = {} /\ touched.focus = F /\ touched.links = {}
  BY DEF Nothing
<1>6. e = [db EXCEPT !.tasks = [@ EXCEPT ![t] = new], !.focus = db.focus \ F]
  OBVIOUS
<1> HIDE DEF new, e, old, F, touched
<1>7. Replaces(db, e, t, F)
  BY <1>2, <1>3, <1>6, Replacing DEF old
<1>8. QED
  BY <1>4, <1>5, <1>7, Replaced

LEMMA FocusGives ==
  ASSUME Sound(db, removed), NEW t \in Tasks, NEW d \in Day, CanFocus(db, t, d)
  PROVE  Gives(SetTodayFocus(db, t, d), removed)
<1> DEFINE r == [date |-> d, task |-> t]
           F == db.focus \cup {r}
           e == [db EXCEPT !.focus = @ \cup {[date |-> d, task |-> t]}]
<1>1. /\ IsDatabase(db) /\ t \in DOMAIN db.tasks /\ t \in Id
      /\ db.focus \subseteq [date : Day, task : Id]
  BY SoundFacts DEF Tasks
<1>2. e = [db EXCEPT !.focus = F]
  OBVIOUS
<1> HIDE DEF F, e
<1>3. /\ IsDatabase(e) /\ e.tasks = db.tasks /\ e.series = db.series
      /\ e.focus = F /\ e.links = db.links
  BY <1>1, <1>2 DEF IsDatabase, Part
<1>4. F \subseteq [date : Day, task : Id]
  BY <1>1 DEF F
<1>5. Typed(e)
  BY <1>3, <1>4 DEF Sound, Typed
<1>6. Focusable(db.tasks, r)
  BY <1>1 DEF CanFocus, Focusable
<1>7. Placed(e.tasks, e.focus)
  BY <1>3, <1>6 DEF Sound, Placed, F
<1>8. ASSUME NEW x \in Day
      PROVE  LET on == {q \in F : q.date = x} IN IsFiniteSet(on) /\ Cardinality(on) <= MaxFocus
  <2> DEFINE on == {q \in F : q.date = x}
             had == {q \in db.focus : q.date = x}
  <2>1. IsFiniteSet(had) /\ Cardinality(had) <= MaxFocus
    BY DEF Sound, Limited
  <2>2. CASE x = d
    <3>1. on = had \cup {r} /\ r \notin had
      BY <2>2 DEF F, CanFocus
    <3>2. Cardinality(had) < MaxFocus
      BY <2>2 DEF CanFocus, FocusedOn
    <3> HIDE DEF on, had, r
    <3>3. IsFiniteSet(on) /\ Cardinality(on) = Cardinality(had) + 1
      BY <2>1, <3>1, FS_AddElement
    <3>4. Cardinality(had) \in Nat
      BY <2>1, FS_CardinalityType
    <3>5. QED
      BY <3>2, <3>3, <3>4, ChoicesAssumption DEF on
  <2>3. CASE x # d
    <3>1. on = had
      BY <2>3 DEF F
    <3>2. QED
      BY <2>1, <3>1
  <2>4. QED
    BY <2>2, <2>3
<1>9. Limited(e.focus)
  BY <1>3, <1>8 DEF Limited
<1>10. Sound(e, removed)
  BY <1>3, <1>5, <1>7, <1>9 DEF Sound
<1>11. SetTodayFocus(db, t, d) = Result(e, Nothing)
  BY DEF SetTodayFocus, e
<1>12. QED
  BY <1>10, <1>11 DEF Gives, Result

LEMMA UnfocusGives ==
  ASSUME Sound(db, removed), NEW t \in Tasks, NEW d \in Day
  PROVE  Gives(RemoveTodayFocus(db, t, d), removed)
<1> DEFINE F == db.focus \ {[date |-> d, task |-> t]}
           e == [db EXCEPT !.focus = @ \ {[date |-> d, task |-> t]}]
<1>1. IsDatabase(db) /\ db.focus \subseteq [date : Day, task : Id]
  BY SoundFacts
<1>2. e = [db EXCEPT !.focus = F] /\ F \subseteq db.focus
  OBVIOUS
<1> HIDE DEF F, e
<1>3. /\ IsDatabase(e) /\ e.tasks = db.tasks /\ e.series = db.series
      /\ e.focus = F /\ e.links = db.links
  BY <1>1, <1>2 DEF IsDatabase, Part
<1>4. Typed(e)
  BY <1>1, <1>2, <1>3 DEF Sound, Typed
<1>5. Placed(e.tasks, e.focus)
  BY <1>2, <1>3 DEF Sound, Placed
<1>6. Limited(e.focus)
  BY <1>2, <1>3, LessFocus DEF Sound
<1>7. Sound(e, removed)
  BY <1>3, <1>4, <1>5, <1>6 DEF Sound
<1>8. RemoveTodayFocus(db, t, d) = Result(e, Nothing)
  BY DEF RemoveTodayFocus, e
<1>9. QED
  BY <1>7, <1>8 DEF Gives, Result

LEMMA CreateGives ==
  ASSUME Sound(db, removed), NEW t \in Task \ Tasks, NEW from \in Day, NEW to \in Day
  PROVE  Gives(CreateTask(db, t, from, to), removed)
<1> DEFINE new == [from |-> from, to |-> to, status |-> "open", text |-> 0,
                   series |-> None, rule |-> None, day |-> 0, exception |-> FALSE]
           T == Put(db.tasks, t, new)
           e == [db EXCEPT !.tasks = Put(@, t, new)]
<1>1. /\ IsDatabase(db) /\ Rows(db.tasks, Id, TaskRow) /\ db.links \subseteq DOMAIN db.tasks
  BY SoundFacts DEF Tasks
<1>2. new \in TaskRow /\ t \in Id /\ t \notin DOMAIN db.tasks /\ t \notin Series \X Day
  BY IdAssumption DEF TaskRow, Id, Tasks
<1>3. ~Occurs(new)
  BY DEF Occurs
<1>4. e = [db EXCEPT !.tasks = T]
  OBVIOUS
<1>5. CreateTask(db, t, from, to) = Result(e, Nothing)
  BY DEF CreateTask
<1> HIDE DEF new
<1>6. /\ Rows(T, Id, TaskRow) /\ DOMAIN T = DOMAIN db.tasks \cup {t} /\ T[t] = new
      /\ \A i \in DOMAIN db.tasks : T[i] = db.tasks[i]
  BY <1>1, <1>2, PutRows
<1> HIDE DEF T, e
<1>7. /\ IsDatabase(e) /\ e.tasks = T /\ e.series = db.series
      /\ e.focus = db.focus /\ e.links = db.links
  BY <1>1, <1>4 DEF IsDatabase, Part
<1>8. Typed(e)
  BY <1>6, <1>7 DEF Sound, Typed
<1>9. Members(T, db.series)
  BY <1>3, <1>6 DEF Sound, Members
<1>10. Keyed(T) /\ Absent(T, removed)
  BY <1>2, <1>3, <1>6 DEF Sound, Keyed, SameKey, Absent
<1>11. Placed(T, db.focus)
  BY <1>6 DEF Sound, Placed, Focusable
<1>12. Sound(e, removed)
  BY <1>1, <1>6, <1>7, <1>8, <1>9, <1>10, <1>11 DEF Sound
<1>13. QED
  BY <1>5, <1>12 DEF Gives, Result

----------------------------------------------------------------------------
(* Tasks are deleted. *)

LEMMA WhatDrops ==
  ASSUME NEW d, IsDatabase(d), NEW S, NEW e, e = DropTasks(d, S)
  PROVE  /\ IsDatabase(e) /\ e.tasks = Without(d.tasks, S) /\ e.series = d.series
         /\ e.focus = d.focus \ FocusOf(d, S) /\ e.links = d.links \ S
<1> DEFINE T == Without(d.tasks, S)
           F == d.focus \ FocusOf(d, S)
           L == d.links \ S
<1>1. e = [d EXCEPT !.tasks = T, !.links = L, !.focus = F]
  BY DEF DropTasks
<1> HIDE DEF T, F, L
<1>2. IsDatabase(e) /\ e.tasks = T /\ e.series = d.series /\ e.focus = F /\ e.links = L
  BY <1>1 DEF IsDatabase, Part
<1>3. QED
  BY <1>2 DEF T, F, L

LEMMA DroppedSound ==
  ASSUME NEW d, NEW gone, Sound(d, gone), NEW S
  PROVE  Sound(DropTasks(d, S), gone)
<1> DEFINE e == DropTasks(d, S)
<1>1. /\ IsDatabase(d) /\ Rows(d.tasks, Id, TaskRow) /\ d.links \subseteq DOMAIN d.tasks
      /\ Typed(d) /\ gone \subseteq Series \X Day
  BY DEF Sound, Typed
<1>2. e = DropTasks(d, S)
  OBVIOUS
<1> HIDE DEF e
<1>3. /\ IsDatabase(e) /\ e.tasks = Without(d.tasks, S) /\ e.series = d.series
      /\ e.focus = d.focus \ FocusOf(d, S) /\ e.links = d.links \ S
  BY <1>1, <1>2, WhatDrops
<1>4. /\ DOMAIN e.tasks = DOMAIN d.tasks \ S /\ Rows(e.tasks, Id, TaskRow)
      /\ \A i \in DOMAIN d.tasks \ S : e.tasks[i] = d.tasks[i]
  BY <1>1, <1>3, WithoutRows
<1>5. e.focus \subseteq d.focus /\ \A r \in e.focus : r.task \notin S
  BY <1>3 DEF FocusOf
<1>6. Typed(e)
  BY <1>1, <1>3, <1>4, <1>5 DEF Typed
<1>7. Members(e.tasks, e.series)
  BY <1>3, <1>4 DEF Sound, Members
<1>8. Keyed(e.tasks) /\ Absent(e.tasks, gone)
  BY <1>4 DEF Sound, Keyed, Absent
<1>9. Placed(e.tasks, e.focus)
  BY <1>4, <1>5 DEF Sound, Placed, Focusable
<1>10. Limited(e.focus)
  BY <1>5, LessFocus DEF Sound
<1>11. Sound(e, gone)
  BY <1>1, <1>3, <1>4, <1>6, <1>7, <1>8, <1>9, <1>10 DEF Sound
<1>12. QED
  BY <1>2, <1>11

(* A segment without one of its days asks for the others. *)
LEMMA WithoutDay ==
  ASSUME NEW s \in SeriesRow, NEW x \in Day, NEW n, n = Excluding(s, x)
  PROVE  /\ n \in SeriesRow /\ n.rule = s.rule /\ n.start = s.start /\ n.until = s.until
         /\ n.excluded = s.excluded \cup {x}
         /\ \A y : RecursOn(n, y) <=> RecursOn(s, y) /\ y # x
BY DEF Excluding, SeriesRow, RecursOn

LEMMA DeleteGives ==
  ASSUME Sound(db, removed), NEW t \in Tasks
  PROVE  Gives(DeleteTask(db, t),
               IF Occurs(db.tasks[t]) THEN removed \cup {<<db.tasks[t].rule, db.tasks[t].day>>}
               ELSE removed)
<1> DEFINE old == db.tasks[t]
           s == IF Occurs(old) THEN {old.series} ELSE {}
           k == DropTasks(db, {t})
           R == [i \in DOMAIN k.series |->
                   IF i \in s THEN Excluding(k.series[i], old.day) ELSE k.series[i]]
           e == [DropTasks(db, {t}) EXCEPT
                   !.series = [i \in DOMAIN @ |-> IF i \in s THEN Excluding(@[i], old.day) ELSE @[i]]]
           touched == [tasks |-> {t}, series |-> s,
                       focus |-> FocusOf(db, {t}), links |-> LinksOf(db, {t})]
           gone == IF Occurs(old) THEN removed \cup {<<old.rule, old.day>>} ELSE removed
<1>1. DeleteTask(db, t) = Result(e, touched)
  BY DEF DeleteTask
<1>2. e = [k EXCEPT !.series = R]
  OBVIOUS
<1>3. /\ touched.tasks = {t} /\ touched.series = s
      /\ touched.focus = FocusOf(db, {t}) /\ touched.links = LinksOf(db, {t})
  OBVIOUS
<1>4. k = DropTasks(db, {t})
  OBVIOUS
<1> HIDE DEF k, e, touched
<1>5. /\ IsDatabase(db) /\ old \in TaskRow /\ t \in DOMAIN db.tasks
      /\ Rows(db.tasks, Id, TaskRow) /\ Rows(db.series, Series, SeriesRow)
      /\ removed \subseteq Series \X Day
  BY SoundFacts DEF Tasks
<1>6. /\ IsDatabase(k) /\ k.tasks = Without(db.tasks, {t}) /\ k.series = db.series
      /\ k.focus = db.focus \ FocusOf(db, {t}) /\ k.links = db.links \ {t}
  BY <1>4, <1>5, WhatDrops
<1>7. Sound(k, removed)
  BY <1>4, DroppedSound
<1>8. /\ DOMAIN k.tasks = DOMAIN db.tasks \ {t}
      /\ \A i \in DOMAIN db.tasks : i # t => k.tasks[i] = db.tasks[i]
  BY <1>5, <1>6, WithoutRows
<1>9. ASSUME Occurs(old)
      PROVE  Belongs(old, db.series)
  BY <1>5, <1>9 DEF Sound, Members
<1>10. /\ DOMAIN R = DOMAIN db.series
       /\ \A i \in DOMAIN R : R[i] = IF i \in s THEN Excluding(db.series[i], old.day) ELSE db.series[i]
  BY <1>6
<1>11. ASSUME NEW i \in DOMAIN db.series
       PROVE  /\ R[i] \in SeriesRow /\ R[i].rule = db.series[i].rule
              /\ R[i].start = db.series[i].start /\ R[i].until = db.series[i].until
              /\ R[i].excluded = db.series[i].excluded \cup (IF i \in s THEN {old.day} ELSE {})
              /\ \A y : RecursOn(R[i], y) <=> RecursOn(db.series[i], y) /\ (i \in s => y # old.day)
  <2>1. db.series[i] \in SeriesRow
    BY SoundFacts DEF Rules
  <2>2. CASE i \in s
    <3>1. old.day \in Day
      BY <1>9, <2>2 DEF Belongs
    <3>2. R[i] = Excluding(db.series[i], old.day)
      BY <1>10, <2>2
    <3> HIDE DEF R, old, s
    <3>3. QED
      BY <2>1, <2>2, <3>1, <3>2, WithoutDay
  <2>3. CASE i \notin s
    BY <1>10, <2>1, <2>3
  <2>4. QED
    BY <2>2, <2>3
<1>12. R = [i \in DOMAIN R |-> R[i]]
  OBVIOUS
<1> HIDE DEF R
<1>13. /\ IsDatabase(e) /\ e.tasks = k.tasks /\ e.series = R
       /\ e.focus = k.focus /\ e.links = k.links
  BY <1>2, <1>6 DEF IsDatabase, Part
<1>14. Rows(R, Series, SeriesRow)
  BY <1>5, <1>10, <1>11, <1>12 DEF Rows
<1>15. Typed(e)
  BY <1>7, <1>13, <1>14 DEF Sound, Typed
<1>16. Segmented(R)
  BY <1>10, <1>11 DEF Sound, Segmented
<1>17. Agreed(R)
  <2> SUFFICES ASSUME NEW i \in DOMAIN R, NEW u \in DOMAIN R, R[i].rule = R[u].rule,
                      NEW x \in R[i].excluded
               PROVE  x <= R[i].until /\ (Covers(R[u], x) => x \in R[u].excluded)
    BY DEF Agreed
  <2>1. CASE x \in db.series[i].excluded
    BY <1>10, <1>11, <2>1 DEF Sound, Agreed, Covers
  <2>2. CASE x \notin db.series[i].excluded
    <3>1. i \in s /\ x = old.day
      BY <1>10, <1>11, <2>2
    <3>2. Belongs(old, db.series) /\ i = old.series
      BY <1>9, <3>1
    <3>3. i \in DOMAIN db.series /\ Covers(db.series[i], x) /\ x \in Day
      BY <3>1, <3>2 DEF Belongs
    <3>4. x <= R[i].until
      BY <1>11, <3>3 DEF Covers
    <3>5. CASE u = i
      BY <3>4, <3>5
    <3>6. CASE u # i
      <4>1. R[i].until < R[u].start \/ R[u].until < R[i].start
        BY <1>16, <3>6 DEF Segmented
      <4>2. R[i].start <= x /\ x <= R[i].until
        BY <1>11, <3>3 DEF Covers
      <4>3. R[i] \in SeriesRow /\ R[u] \in SeriesRow
        BY <1>10, <1>11
      <4>4. ~Covers(R[u], x)
        BY <3>3, <4>1, <4>2, <4>3, Days DEF Covers, SeriesRow
      <4>5. QED
        BY <3>4, <4>4
    <3>7. QED
      BY <3>5, <3>6
  <2>3. QED
    BY <2>1, <2>2
<1> HIDE DEF old, s
<1>18. Members(k.tasks, R)
  <2> SUFFICES ASSUME NEW i \in DOMAIN k.tasks, Occurs(k.tasks[i])
               PROVE  Belongs(k.tasks[i], R)
    BY DEF Members
  <2> DEFINE x == k.tasks[i]
             u == x.series
  <2>1. Belongs(x, db.series)
    BY <1>6, <1>7 DEF Sound, Members
  <2>2. /\ u \in DOMAIN R /\ R[u].rule = x.rule /\ x.day \in Day /\ Covers(R[u], x.day)
    BY <1>10, <1>11, <2>1 DEF Belongs, Covers
  <2>3. ASSUME u \in s
        PROVE  x.day # old.day
    <3>1. Occurs(old) /\ u = old.series
      BY <2>3 DEF s
    <3>2. old.rule = x.rule
      BY <1>9, <2>1, <3>1 DEF Belongs
    <3>3. i # t /\ i \in DOMAIN db.tasks /\ x = db.tasks[i]
      BY <1>8
    <3>4. QED
      BY <1>5, <3>1, <3>2, <3>3 DEF Sound, Keyed, SameKey, old
  <2>4. ~x.exception => RecursOn(R[u], x.day) /\ x.from = x.day
    BY <1>10, <1>11, <2>1, <2>2, <2>3 DEF Belongs
  <2>5. QED
    BY <2>2, <2>4 DEF Belongs
<1>19. Excludes(R, gone)
  <2> SUFFICES ASSUME NEW x \in gone
               PROVE  \E u \in DOMAIN R : R[u].rule = x[1] /\ Covers(R[u], x[2]) /\ x[2] \in R[u].excluded
    BY DEF Excludes
  <2>1. CASE x \in removed
    <3>1. PICK u \in DOMAIN db.series :
            db.series[u].rule = x[1] /\ Covers(db.series[u], x[2]) /\ x[2] \in db.series[u].excluded
      BY <2>1 DEF Sound, Excludes
    <3>2. QED
      BY <1>10, <1>11, <3>1 DEF Covers
  <2>2. CASE Occurs(old) /\ x = <<old.rule, old.day>>
    <3>1. Belongs(old, db.series)
      BY <1>9, <2>2
    <3>2. x[1] = old.rule /\ x[2] = old.day /\ old.series \in s
      BY <2>2 DEF s
    <3>3. QED
      BY <1>10, <1>11, <3>1, <3>2 DEF Belongs, Covers
  <2>3. QED
    BY <2>1, <2>2
<1>20. Absent(k.tasks, gone)
  <2> SUFFICES ASSUME NEW i \in DOMAIN k.tasks, Occurs(k.tasks[i])
               PROVE  <<k.tasks[i].rule, k.tasks[i].day>> \notin gone
    BY DEF Absent
  <2>1. <<k.tasks[i].rule, k.tasks[i].day>> \notin removed
    BY <1>7 DEF Sound, Absent
  <2>2. i # t /\ i \in DOMAIN db.tasks /\ k.tasks[i] = db.tasks[i]
    BY <1>8
  <2>3. Occurs(old) => ~(k.tasks[i].rule = old.rule /\ k.tasks[i].day = old.day)
    BY <1>5, <2>2 DEF Sound, Keyed, SameKey, old
  <2>4. QED
    BY <2>1, <2>3
<1>21. gone \subseteq Series \X Day
  <2>1. Occurs(old) => old.rule \in Series /\ old.day \in Day
    BY <1>9, SoundFacts DEF Belongs, SeriesRow, Rules
  <2>2. QED
    BY <1>5, <2>1
<1> HIDE DEF gone
<1>22. Sound(e, gone)
  BY <1>7, <1>13, <1>15, <1>16, <1>18, <1>19, <1>20, <1>21, <1>17 DEF Sound
<1>23. ASSUME Occurs(old)
       PROVE  Unasked(db, e, old)
  <2> SUFFICES ASSUME NEW u \in DOMAIN db.series, R[u].rule = old.rule
               PROVE  ~RecursOn(R[u], old.day)
    BY <1>13 DEF Unasked
  <2>1. Belongs(old, db.series)
    BY <1>9, <1>23
  <2>2. CASE u = old.series
    BY <1>11, <1>23, <2>2 DEF s
  <2>3. CASE u # old.series
    <3>1. \/ db.series[u].until < db.series[old.series].start
          \/ db.series[old.series].until < db.series[u].start
      BY <1>11, <2>1, <2>3 DEF Sound, Segmented, Belongs
    <3>2. /\ old.series \in DOMAIN db.series /\ old.day \in Day /\ Covers(db.series[old.series], old.day)
      BY <2>1 DEF Belongs
    <3>3. db.series[u] \in SeriesRow /\ db.series[old.series] \in SeriesRow
      BY <3>2, SoundFacts DEF Rules
    <3>4. ~RecursOn(db.series[u], old.day)
      <4>1. db.series[u].start > old.day \/ db.series[u].until < old.day
        BY <3>1, <3>2, <3>3, Days DEF Covers, SeriesRow
      <4>2. QED
        BY <4>1, <3>2, <3>3, Days DEF RecursOn, SeriesRow
    <3>5. QED
      BY <1>11, <3>4
  <2>4. QED
    BY <2>2, <2>3
<1>24. Framed(db, e, touched)
  <2>1. /\ \A i \in DOMAIN db.tasks \ touched.tasks : i \in DOMAIN e.tasks /\ e.tasks[i] = db.tasks[i]
        /\ \A i \in DOMAIN e.tasks : i \in DOMAIN db.tasks
    BY <1>3, <1>8, <1>13
  <2>2. \A u \in Series \ touched.series :
          /\ u \in DOMAIN db.series <=> u \in DOMAIN e.series
          /\ u \in DOMAIN db.series => e.series[u] = db.series[u]
    BY <1>3, <1>10, <1>13
  <2>3. \A u \in DOMAIN db.series \cap DOMAIN e.series :
          /\ e.series[u].rule = db.series[u].rule
          /\ \A x \in Day : RecursOn(e.series[u], x) => RecursOn(db.series[u], x)
    BY <1>11, <1>13
  <2>4. ASSUME NEW j \in DOMAIN db.tasks, Occurs(db.tasks[j])
        PROVE  (j \in DOMAIN e.tasks /\ SameKey(e.tasks[j], db.tasks[j])) \/ Unasked(db, e, db.tasks[j])
    <3>1. CASE j = t
      BY <1>23, <2>4, <3>1 DEF old
    <3>2. CASE j # t
      BY <1>8, <1>13, <2>4, <3>2 DEF SameKey
    <3>3. QED
      BY <3>1, <3>2
  <2>5. s \subseteq Series
    BY <1>5, <1>9 DEF s, Belongs, Rows
  <2>6. /\ db.focus = e.focus \cup touched.focus
        /\ touched.series \subseteq Series /\ touched.links \subseteq db.links
        /\ \A i \in db.links : i \in e.links \cup touched.links \cup DOMAIN e.tasks
    BY <1>3, <1>6, <1>13, <2>5 DEF FocusOf, LinksOf
  <2>7. QED
    BY <2>1, <2>2, <2>3, <2>4, <2>6 DEF Framed
<1>25. Gives(DeleteTask(db, t), gone)
  BY <1>1, <1>22, <1>24 DEF Gives, Result
<1>26. QED
  BY <1>25 DEF gone, old

----------------------------------------------------------------------------
(* Occurrences are made. *)

MadeBy(d, S, W, i, task) ==
  \E u \in S, x \in W :
    /\ RecursOn(d.series[u], x) /\ ~HasOccurrence(d.tasks, d.series[u].rule, x)
    /\ i = OccurrenceId(d.series[u].rule, x) /\ task = Occurrence(u, d.series[u], x)

LEMMA WhatIsMade ==
  ASSUME NEW d, NEW gone, Sound(d, gone), NEW S \in SUBSET DOMAIN d.series, NEW W \in SUBSET Day,
         NEW M, M = Made(d, S, W)
  PROVE  /\ Rows(M, Id, TaskRow) /\ DOMAIN M \cap DOMAIN d.tasks = {}
         /\ \A i \in DOMAIN M : MadeBy(d, S, W, i, M[i])
<1> DEFINE due == {p \in S \X W : /\ RecursOn(d.series[p[1]], p[2])
                                  /\ ~HasOccurrence(d.tasks, d.series[p[1]].rule, p[2])}
           ids == {OccurrenceId(d.series[p[1]].rule, p[2]) : p \in due}
           of(i) == CHOOSE q \in due : OccurrenceId(d.series[q[1]].rule, q[2]) = i
<1>1. M = [i \in ids |-> Occurrence(of(i)[1], d.series[of(i)[1]], of(i)[2])]
  BY DEF Made
<1>2. ASSUME NEW i \in ids
      PROVE  of(i) \in due /\ OccurrenceId(d.series[of(i)[1]].rule, of(i)[2]) = i
  <2>1. PICK q \in due : OccurrenceId(d.series[q[1]].rule, q[2]) = i
    OBVIOUS
  <2>2. QED
    BY <2>1
<1>3. ASSUME NEW q \in due
      PROVE  /\ q[1] \in S /\ q[2] \in W /\ RecursOn(d.series[q[1]], q[2])
             /\ ~HasOccurrence(d.tasks, d.series[q[1]].rule, q[2])
  OBVIOUS
<1> HIDE DEF due, of
<1>4. DOMAIN M = ids /\ M = [i \in DOMAIN M |-> M[i]]
  BY <1>1
<1>5. ASSUME NEW i \in ids
      PROVE  MadeBy(d, S, W, i, M[i])
  <2>1. M[i] = Occurrence(of(i)[1], d.series[of(i)[1]], of(i)[2])
    BY <1>1
  <2>2. /\ of(i)[1] \in S /\ of(i)[2] \in W /\ RecursOn(d.series[of(i)[1]], of(i)[2])
        /\ ~HasOccurrence(d.tasks, d.series[of(i)[1]].rule, of(i)[2])
        /\ i = OccurrenceId(d.series[of(i)[1]].rule, of(i)[2])
    BY <1>2, <1>3
  <2>3. QED
    BY <2>1, <2>2 DEF MadeBy
<1> HIDE DEF ids
<1>6. ASSUME NEW i \in DOMAIN M
      PROVE  i \in Id /\ M[i] \in TaskRow /\ i \notin DOMAIN d.tasks
  <2>1. PICK u \in S, x \in W :
          /\ RecursOn(d.series[u], x) /\ ~HasOccurrence(d.tasks, d.series[u].rule, x)
          /\ i = OccurrenceId(d.series[u].rule, x) /\ M[i] = Occurrence(u, d.series[u], x)
    BY <1>4, <1>5 DEF MadeBy
  <2>2. d.series[u] \in SeriesRow /\ u \in Series /\ x \in Day
    BY DEF Sound, Typed, Rows
  <2>3. i \in Series \X Day
    BY <2>1, <2>2 DEF OccurrenceId, SeriesRow
  <2>4. M[i] \in TaskRow
    BY <2>1, <2>2 DEF Occurrence, TaskRow, SeriesRow
  <2>5. ASSUME i \in DOMAIN d.tasks
        PROVE  FALSE
    <3>1. Occurs(d.tasks[i]) /\ i = OccurrenceId(d.tasks[i].rule, d.tasks[i].day)
      BY <2>3, <2>5 DEF Sound, Keyed
    <3>2. d.tasks[i].rule = d.series[u].rule /\ d.tasks[i].day = x
      BY <2>1, <3>1 DEF OccurrenceId
    <3>3. QED
      BY <2>1, <2>5, <3>1, <3>2 DEF HasOccurrence
  <2>6. QED
    BY <2>3, <2>4, <2>5 DEF Id
<1>7. QED
  BY <1>4, <1>5, <1>6 DEF Rows

LEMMA MadeSound ==
  ASSUME NEW d, NEW gone, Sound(d, gone), NEW S \in SUBSET DOMAIN d.series, NEW W \in SUBSET Day,
         NEW e, e = Materialize(d, S, W)
  PROVE  /\ Sound(e, gone)
         /\ e.tasks = Over(Made(d, S, W), d.tasks) /\ e.series = d.series
         /\ e.focus = d.focus /\ e.links = d.links
<1> DEFINE M == Made(d, S, W)
           T == Over(M, d.tasks)
<1>1. /\ Rows(M, Id, TaskRow) /\ DOMAIN M \cap DOMAIN d.tasks = {}
      /\ \A i \in DOMAIN M : MadeBy(d, S, W, i, M[i])
  BY WhatIsMade
<1>2. e = [d EXCEPT !.tasks = T]
  BY DEF Materialize
<1> HIDE DEF M
<1>3. /\ IsDatabase(d) /\ Rows(d.tasks, Id, TaskRow) /\ Rows(d.series, Series, SeriesRow)
      /\ gone \subseteq Series \X Day /\ d.focus \subseteq [date : Day, task : Id]
      /\ d.links \subseteq DOMAIN d.tasks
  BY DEF Sound, Typed
<1>4. /\ Rows(T, Id, TaskRow) /\ DOMAIN T = DOMAIN M \cup DOMAIN d.tasks
      /\ \A i \in DOMAIN M : T[i] = M[i]
      /\ \A i \in DOMAIN d.tasks : T[i] = d.tasks[i]
  <2>1. \A i \in DOMAIN d.tasks : i \in DOMAIN d.tasks \ DOMAIN M
    BY <1>1
  <2> DEFINE g == d.tasks
  <2>2. Rows(g, Id, TaskRow) /\ T = Over(M, g)
    BY <1>3
  <2> HIDE DEF g, T
  <2>3. /\ Rows(T, Id, TaskRow) /\ DOMAIN T = DOMAIN M \cup DOMAIN g
        /\ \A i \in DOMAIN M : T[i] = M[i]
        /\ \A i \in DOMAIN g \ DOMAIN M : T[i] = g[i]
    BY <1>1, <2>2 DEF Over, Rows
  <2>4. QED
    BY <2>1, <2>3 DEF g
<1> HIDE DEF T
<1>5. /\ IsDatabase(e) /\ e.tasks = T /\ e.series = d.series
      /\ e.focus = d.focus /\ e.links = d.links
  BY <1>2, <1>3 DEF IsDatabase, Part
<1>6. Typed(e)
  BY <1>3, <1>4, <1>5 DEF Typed
<1>7. ASSUME NEW i \in DOMAIN M
      PROVE  /\ Occurs(T[i]) /\ Belongs(T[i], d.series)
             /\ ~HasOccurrence(d.tasks, T[i].rule, T[i].day)
             /\ i = OccurrenceId(T[i].rule, T[i].day)
             /\ T[i].day \in Day /\ RecursOn(d.series[T[i].series], T[i].day)
  <2>1. PICK u \in S, x \in W :
          /\ RecursOn(d.series[u], x) /\ ~HasOccurrence(d.tasks, d.series[u].rule, x)
          /\ i = OccurrenceId(d.series[u].rule, x) /\ M[i] = Occurrence(u, d.series[u], x)
    BY <1>1 DEF MadeBy
  <2>2. T[i] = Occurrence(u, d.series[u], x)
    BY <1>4, <2>1
  <2>3. /\ T[i].series = u /\ T[i].rule = d.series[u].rule /\ T[i].day = x /\ T[i].from = x
    BY <2>2 DEF Occurrence
  <2>4. u \in DOMAIN d.series /\ u # None /\ x \in Day
    BY <1>3, IdAssumption DEF Rows
  <2>5. Covers(d.series[u], x)
    BY <2>1 DEF RecursOn, Covers
  <2>6. QED
    BY <2>1, <2>3, <2>4, <2>5 DEF Occurs, Belongs
<1>8. Members(T, d.series)
  BY <1>4, <1>7 DEF Sound, Members
<1>9. Keyed(T)
  <2>1. ASSUME NEW i \in DOMAIN T, NEW j \in DOMAIN T, SameKey(T[i], T[j])
        PROVE  i = j
    <3>1. CASE i \in DOMAIN M /\ j \in DOMAIN M
      BY <1>7, <2>1, <3>1 DEF SameKey
    <3>2. CASE i \in DOMAIN M /\ j \in DOMAIN d.tasks
      BY <1>4, <1>7, <2>1, <3>2 DEF SameKey, HasOccurrence
    <3>3. CASE i \in DOMAIN d.tasks /\ j \in DOMAIN M
      BY <1>4, <1>7, <2>1, <3>3 DEF SameKey, HasOccurrence
    <3>4. CASE i \in DOMAIN d.tasks /\ j \in DOMAIN d.tasks
      BY <1>4, <2>1, <3>4 DEF Sound, Keyed
    <3>5. QED
      BY <1>4, <3>1, <3>2, <3>3, <3>4
  <2>2. ASSUME NEW i \in DOMAIN T, i \in Series \X Day
        PROVE  Occurs(T[i]) /\ i = OccurrenceId(T[i].rule, T[i].day)
    BY <1>4, <1>7, <2>2 DEF Sound, Keyed
  <2>3. QED
    BY <2>1, <2>2 DEF Keyed
<1>10. Absent(T, gone)
  <2> SUFFICES ASSUME NEW i \in DOMAIN T, Occurs(T[i]), <<T[i].rule, T[i].day>> \in gone
               PROVE  FALSE
    BY DEF Absent
  <2>1. CASE i \in DOMAIN d.tasks
    BY <1>4, <2>1 DEF Sound, Absent
  <2>2. CASE i \in DOMAIN M
    <3> DEFINE x == T[i].day
               v == T[i].series
    <3>1. PICK u \in DOMAIN d.series :
            d.series[u].rule = T[i].rule /\ Covers(d.series[u], x) /\ x \in d.series[u].excluded
      BY DEF Sound, Excludes
    <3>2. /\ v \in DOMAIN d.series /\ d.series[v].rule = T[i].rule /\ Covers(d.series[v], x)
          /\ RecursOn(d.series[v], x)
      BY <1>7, <2>2 DEF Belongs
    <3>3. x \in d.series[v].excluded
      BY <3>1, <3>2 DEF Sound, Agreed
    <3>4. QED
      BY <3>2, <3>3 DEF RecursOn
  <2>3. QED
    BY <1>4, <2>1, <2>2
<1>11. Placed(T, d.focus)
  BY <1>4 DEF Sound, Placed, Focusable
<1>12. Sound(e, gone)
  BY <1>3, <1>4, <1>5, <1>6, <1>8, <1>9, <1>10, <1>11 DEF Sound
<1>13. QED
  BY <1>5, <1>12 DEF T, M

(* What is made leaves the frame of an earlier command as it is. *)
LEMMA MadeFramed ==
  ASSUME NEW b, NEW d, NEW gone, Sound(d, gone), NEW touched, Framed(b, d, touched),
         NEW S \in SUBSET DOMAIN d.series, NEW W \in SUBSET Day, NEW e, e = Materialize(d, S, W)
  PROVE  Framed(b, e, touched)
<1> DEFINE M == Made(d, S, W)
<1>1. /\ Rows(M, Id, TaskRow) /\ DOMAIN M \cap DOMAIN d.tasks = {}
      /\ \A i \in DOMAIN M : MadeBy(d, S, W, i, M[i])
  BY WhatIsMade
<1>2. /\ e.tasks = Over(M, d.tasks) /\ e.series = d.series
      /\ e.focus = d.focus /\ e.links = d.links
  BY MadeSound
<1> HIDE DEF M
<1>3. Rows(d.tasks, Id, TaskRow) /\ Rows(d.series, Series, SeriesRow)
  BY DEF Sound, Typed
<1>4. /\ DOMAIN e.tasks = DOMAIN M \cup DOMAIN d.tasks
      /\ \A i \in DOMAIN M : e.tasks[i] = M[i]
      /\ \A i \in DOMAIN d.tasks : e.tasks[i] = d.tasks[i]
  <2>1. \A i \in DOMAIN d.tasks : i \in DOMAIN d.tasks \ DOMAIN M
    BY <1>1
  <2> DEFINE g == d.tasks
             T == e.tasks
  <2>2. Rows(g, Id, TaskRow) /\ T = Over(M, g)
    BY <1>2, <1>3
  <2> HIDE DEF g, T
  <2>3. /\ DOMAIN T = DOMAIN M \cup DOMAIN g
        /\ \A i \in DOMAIN M : T[i] = M[i]
        /\ \A i \in DOMAIN g \ DOMAIN M : T[i] = g[i]
    BY <1>1, <2>2 DEF Over, Rows
  <2>4. QED
    BY <2>1, <2>3 DEF g, T
<1>5. ASSUME NEW i \in DOMAIN M
      PROVE  Occurs(e.tasks[i]) /\ ~Kept(e.tasks[i])
  <2>1. PICK u \in S, x \in W : M[i] = Occurrence(u, d.series[u], x)
    BY <1>1 DEF MadeBy
  <2>2. u # None
    BY <1>3, IdAssumption DEF Rows
  <2>3. QED
    BY <1>4, <2>1, <2>2 DEF Occurrence, Occurs, Kept
<1>6. \A i \in DOMAIN b.tasks \ touched.tasks : i \in DOMAIN e.tasks /\ e.tasks[i] = b.tasks[i]
  BY <1>4 DEF Framed
<1>7. \A i \in DOMAIN e.tasks \ (DOMAIN b.tasks \cup touched.tasks) :
        Occurs(e.tasks[i]) /\ ~Kept(e.tasks[i])
  BY <1>4, <1>5 DEF Framed
<1>8. \A j \in DOMAIN b.tasks : Occurs(b.tasks[j]) =>
        (j \in DOMAIN e.tasks /\ SameKey(e.tasks[j], b.tasks[j])) \/ Unasked(b, e, b.tasks[j])
  BY <1>2, <1>4 DEF Framed, Unasked
<1>9. \A i \in b.links : i \in e.links \cup touched.links \cup DOMAIN e.tasks
  BY <1>2, <1>4 DEF Framed
<1>10. QED
  BY <1>2, <1>6, <1>7, <1>8, <1>9 DEF Framed

----------------------------------------------------------------------------
(* Rules are started. *)

Free(s) ==
  /\ s \in Series \ Rules
  /\ \A u \in Rules : db.series[u].rule # s
  /\ \A i \in Tasks : db.tasks[i].rule # s

LEMMA UnusedFree == \A s \in Unused : Free(s)
BY DEF Unused, Free

LEMMA NewRows ==
  ASSUME Sound(db, removed), NEW s, Free(s), NEW n \in SeriesRow,
         n.rule = s, n.start <= n.until, n.excluded = {}, NEW R, R = Put(db.series, s, n)
  PROVE  /\ Rows(R, Series, SeriesRow) /\ Segmented(R) /\ Agreed(R) /\ Excludes(R, removed)
         /\ DOMAIN R = DOMAIN db.series \cup {s} /\ R[s] = n
         /\ \A u \in DOMAIN db.series : R[u] = db.series[u]
         /\ \A task : Belongs(task, db.series) => Belongs(task, R)
<1>1. Rows(db.series, Series, SeriesRow) /\ s \in Series /\ s \notin DOMAIN db.series
  BY SoundFacts DEF Free, Rules
<1>2. /\ Rows(R, Series, SeriesRow) /\ DOMAIN R = DOMAIN db.series \cup {s} /\ R[s] = n
      /\ \A u \in DOMAIN db.series : R[u] = db.series[u]
  BY <1>1 DEF Rows, Put
<1>3. \A u \in DOMAIN db.series : R[u].rule # s
  BY <1>2 DEF Free, Rules
<1>4. Segmented(R)
  BY <1>2, <1>3 DEF Sound, Segmented
<1>5. Agreed(R)
  BY <1>2, <1>3 DEF Sound, Agreed
<1>6. Excludes(R, removed)
  BY <1>2 DEF Sound, Excludes
<1>7. \A task : Belongs(task, db.series) => Belongs(task, R)
  BY <1>2 DEF Belongs
<1>8. QED
  BY <1>2, <1>4, <1>5, <1>6, <1>7

LEMMA NewRow ==
  ASSUME NEW s \in Series, NEW start \in Day, NEW end \in 1..Forever, NEW pattern \in Pattern
  PROVE  LET n == NewSeries(s, start, end, pattern)
         IN  /\ n \in SeriesRow /\ n.rule = s /\ n.start <= n.until /\ n.excluded = {}
             /\ n.start = start /\ n.until = Forever
<1>1. start \in 1..Forever /\ Forever \in 1..Forever /\ start <= Forever
  BY Days
<1>2. QED
  BY <1>1 DEF NewSeries, SeriesRow

LEMMA StartGives ==
  ASSUME Sound(db, removed), NEW s, Free(s), NEW d \in Day, NEW pattern \in Pattern
  PROVE  Gives(CreateSeries(db, s, d, Forever, pattern), removed)
<1> DEFINE n == NewSeries(s, d, Forever, pattern)
           R == Put(db.series, s, n)
           e == [db EXCEPT !.series = Put(@, s, NewSeries(s, d, Forever, pattern))]
<1>1. CreateSeries(db, s, d, Forever, pattern) = Result(e, Nothing)
  BY DEF CreateSeries
<1>2. e = [db EXCEPT !.series = R]
  OBVIOUS
<1>3. n \in SeriesRow /\ n.rule = s /\ n.start <= n.until /\ n.excluded = {}
  <2>1. s \in Series /\ Forever \in 1..Forever
    BY Days DEF Free
  <2>2. QED
    BY <2>1, NewRow
<1> HIDE DEF n
<1>4. /\ Rows(R, Series, SeriesRow) /\ Segmented(R) /\ Agreed(R) /\ Excludes(R, removed)
      /\ \A task : Belongs(task, db.series) => Belongs(task, R)
  BY <1>3, NewRows
<1>5. IsDatabase(db)
  BY SoundFacts
<1> HIDE DEF R, e
<1>6. /\ IsDatabase(e) /\ e.tasks = db.tasks /\ e.series = R
      /\ e.focus = db.focus /\ e.links = db.links
  BY <1>2, <1>5 DEF IsDatabase, Part
<1>7. Typed(e)
  BY <1>4, <1>6 DEF Sound, Typed
<1>8. Members(e.tasks, R)
  BY <1>4, <1>6 DEF Sound, Members
<1>9. Sound(e, removed)
  BY <1>4, <1>6, <1>7, <1>8 DEF Sound
<1>10. QED
  BY <1>1, <1>9 DEF Gives, Result

LEMMA RepeatGives ==
  ASSUME Sound(db, removed), NEW t \in Tasks, NEW s, Free(s), NEW d \in Day, NEW pattern \in Pattern,
         CanRepeat(db, t, s, d, pattern)
  PROVE  Gives(RepeatTask(db, t, s, d, pattern), removed)
<1> DEFINE old == db.tasks[t]
           n == [NewSeries(s, d, Forever, pattern) EXCEPT !.text = old.text]
           R == Put(db.series, s, n)
           new == [old EXCEPT !.from = d, !.to = d, !.series = s, !.rule = s, !.day = d]
           T == [db.tasks EXCEPT ![t] = new]
           F == IF d = old.from THEN db.focus ELSE db.focus \ FocusOf(db, {t})
           e == [db EXCEPT !.series = Put(@, s, [NewSeries(s, d, Forever, pattern) EXCEPT !.text = old.text]),
                           !.focus = IF d = old.from THEN @ ELSE @ \ FocusOf(db, {t}),
                           !.tasks[t] = [@ EXCEPT !.from = d, !.to = d,
                                                  !.series = s, !.rule = s, !.day = d]]
<1>1. RepeatTask(db, t, s, d, pattern) = Result(e, Nothing)
  BY DEF RepeatTask
<1>2. e = [db EXCEPT !.series = R, !.focus = F, !.tasks = T]
  OBVIOUS
<1>3. /\ IsDatabase(db) /\ old \in TaskRow /\ t \in DOMAIN db.tasks /\ t \in Id
      /\ Rows(db.tasks, Id, TaskRow) /\ db.links \subseteq DOMAIN db.tasks
      /\ db.focus \subseteq [date : Day, task : Id] /\ removed \subseteq Series \X Day
  BY SoundFacts DEF Tasks
<1>4. s \in Series /\ s # None
  BY IdAssumption DEF Free
<1>5. /\ n \in SeriesRow /\ n.rule = s /\ n.start = d /\ n.start <= n.until /\ n.excluded = {}
      /\ RecursOn(n, d)
  <2> DEFINE m == NewSeries(s, d, Forever, pattern)
  <2>1. Forever \in 1..Forever /\ old.text \in {0, 1}
    BY <1>3, Days DEF TaskRow
  <2>2. m \in SeriesRow /\ m.rule = s /\ m.start <= m.until /\ m.excluded = {} /\ m.start = d
    BY <1>4, <2>1, NewRow
  <2>3. RecursOn(m, d)
    BY DEF CanRepeat
  <2> HIDE DEF m, old
  <2>4. n = [m EXCEPT !.text = old.text]
    BY DEF m, old
  <2> HIDE DEF n
  <2>5. QED
    BY <2>1, <2>2, <2>3, <2>4 DEF SeriesRow, RecursOn
<1>6. /\ new \in TaskRow /\ new.series = s /\ new.rule = s /\ new.day = d /\ new.from = d
      /\ new.status = old.status
  BY <1>3, <1>4 DEF TaskRow
<1>7. DOMAIN T = DOMAIN db.tasks /\ T[t] = new /\ \A i \in DOMAIN db.tasks : i # t => T[i] = db.tasks[i]
  BY <1>3
<1>8. Rows(T, Id, TaskRow)
  BY <1>3, <1>6 DEF Rows
<1> HIDE DEF n, new, T
<1>9. /\ Rows(R, Series, SeriesRow) /\ Segmented(R) /\ Agreed(R) /\ Excludes(R, removed)
      /\ DOMAIN R = DOMAIN db.series \cup {s} /\ R[s] = n
      /\ \A task : Belongs(task, db.series) => Belongs(task, R)
  BY <1>5, NewRows
<1> HIDE DEF R, F, e
<1>10. /\ IsDatabase(e) /\ e.tasks = T /\ e.series = R
       /\ e.focus = F /\ e.links = db.links
  BY <1>2, <1>3 DEF IsDatabase, Part
<1>11. F \subseteq db.focus
  BY DEF F
<1>12. Typed(e)
  BY <1>3, <1>8, <1>9, <1>10, <1>11 DEF Typed
<1>13. Belongs(new, R)
  BY <1>5, <1>6, <1>9 DEF Belongs, Covers, RecursOn
<1>14. Members(T, R)
  BY <1>7, <1>9, <1>13 DEF Sound, Members
<1>15. ~Occurs(old)
  BY DEF CanRepeat
<1>16. \A i \in DOMAIN db.tasks : db.tasks[i].rule # s
  BY DEF Free, Tasks
<1>17. Keyed(T)
  BY <1>6, <1>7, <1>3, <1>15, <1>16 DEF Sound, Keyed, SameKey
<1>18. \A x \in removed : x[1] # s
  BY DEF Sound, Excludes, Free, Rules
<1>19. Absent(T, removed)
  BY <1>6, <1>7, <1>18 DEF Sound, Absent
<1>20. Placed(T, F)
  <2> SUFFICES ASSUME NEW r \in F PROVE Focusable(T, r)
    BY DEF Placed
  <2>1. Focusable(db.tasks, r)
    BY <1>11 DEF Sound, Placed
  <2>2. r.task = t => d = old.from
    BY DEF F, FocusOf
  <2>3. QED
    BY <1>6, <1>7, <2>1, <2>2 DEF Focusable
<1>21. Limited(F)
  BY <1>11, LessFocus DEF Sound
<1>22. Sound(e, removed)
  BY <1>3, <1>7, <1>9, <1>10, <1>12, <1>14, <1>17, <1>19, <1>20, <1>21 DEF Sound
<1>23. QED
  BY <1>1, <1>22 DEF Gives, Result

----------------------------------------------------------------------------
(* Rules are changed and stopped. *)

SegmentsAfter(s, d) ==
  IF d = db.series[s].start THEN Without(db.series, {s} \cup Successors(db, s))
  ELSE [Without(db.series, Successors(db, s)) EXCEPT ![s] = Shortened(db, s, d)]

LEMMA SegmentTypes ==
  ASSUME NEW s \in SeriesRow
  PROVE  /\ s.rule \in Series /\ s.start \in Day /\ s.start \in Nat /\ s.until \in Nat
         /\ s.until \in 1..Forever /\ s.end \in 1..Forever /\ s.pattern \in Pattern
         /\ s.excluded \subseteq Day /\ s.text \in {0, 1} /\ s.until <= Forever
BY Days DEF SeriesRow

LEMMA Chained ==
  ASSUME Sound(db, removed), NEW s \in Rules
  PROVE  /\ \A u \in Successors(db, s) :
              /\ u \in DOMAIN db.series /\ u # s /\ db.series[u].rule = db.series[s].rule
              /\ db.series[s].until < db.series[u].start
         /\ \A u \in DOMAIN db.series \ Successors(db, s) :
              u # s /\ db.series[u].rule = db.series[s].rule =>
                db.series[u].until < db.series[s].start
<1>1. s \in DOMAIN db.series /\ \A u \in DOMAIN db.series : db.series[u] \in SeriesRow
  BY SoundFacts DEF Rules
<1>2. \A u \in DOMAIN db.series :
        /\ db.series[u].start \in Nat /\ db.series[u].until \in Nat
        /\ db.series[u].start <= db.series[u].until
  BY <1>1, SegmentTypes DEF Sound, Segmented
<1>3. \A u \in DOMAIN db.series :
        u # s /\ db.series[u].rule = db.series[s].rule =>
          db.series[s].until < db.series[u].start \/ db.series[u].until < db.series[s].start
  BY <1>1 DEF Sound, Segmented
<1>4. QED
  BY <1>1, <1>2, <1>3 DEF Successors

LEMMA ReplacementRow ==
  ASSUME Sound(db, removed), NEW s \in Rules, NEW d \in Day, NEW text \in {0, 1}, NEW pattern \in Pattern,
         NEW end \in 1..Forever, NEW r, r = Replacement(db, s, d, text, pattern, end)
  PROVE  /\ r \in SeriesRow /\ r.rule = db.series[s].rule /\ r.start = d /\ r.until = Forever
         /\ r.text = text
         /\ r.excluded = {x \in db.series[s].excluded : x >= d} \cup Excluded(db, Successors(db, s))
<1> DEFINE old == db.series[s]
           X == {x \in old.excluded : x >= d} \cup Excluded(db, Successors(db, s))
<1>1. old \in SeriesRow /\ \A u \in DOMAIN db.series : db.series[u] \in SeriesRow
  BY SoundFacts DEF Rules
<1>2. X \subseteq Day
  BY <1>1, SegmentTypes DEF Excluded, Successors
<1>3. r = [old EXCEPT !.start = d, !.until = Forever, !.end = end, !.pattern = pattern,
                      !.text = text, !.excluded = X]
  BY DEF Replacement
<1>4. Forever \in 1..Forever
  BY Days
<1> HIDE DEF X, old
<1>5. r.rule = old.rule /\ r.start = d /\ r.until = Forever /\ r.text = text /\ r.excluded = X
  BY <1>1, <1>3 DEF SeriesRow
<1>6. r \in SeriesRow
  BY <1>1, <1>2, <1>3, <1>4 DEF SeriesRow
<1>7. QED
  BY <1>5, <1>6 DEF X, old

LEMMA ShortenedRow ==
  ASSUME Sound(db, removed), NEW s \in Rules, NEW d \in Day, d > db.series[s].start,
         d <= db.series[s].until, NEW n, n = Shortened(db, s, d)
  PROVE  /\ n \in SeriesRow /\ n.rule = db.series[s].rule /\ n.start = db.series[s].start
         /\ n.until = d - 1 /\ n.start <= n.until /\ n.until <= db.series[s].until
         /\ n.excluded = {x \in db.series[s].excluded : x < d}
         /\ \A x \in Day : RecursOn(n, x) <=> RecursOn(db.series[s], x) /\ x < d
<1> DEFINE old == db.series[s]
           X == {x \in old.excluded : x < d}
<1>1. old \in SeriesRow
  BY SoundFacts DEF Rules
<1>2. /\ X \subseteq Day /\ old.start \in Nat /\ old.until \in Nat /\ old.start >= 1
      /\ old.start < d /\ d <= old.until
  BY <1>1, SegmentTypes, Days
<1>3. n = [old EXCEPT !.until = d - 1, !.excluded = X]
  BY DEF Shortened
<1>4. d \in Nat /\ d - 1 \in 1..Forever /\ old.start <= d - 1
  BY <1>2, Days
<1>5. /\ n \in SeriesRow /\ n.rule = old.rule /\ n.start = old.start /\ n.until = d - 1
      /\ n.excluded = X /\ n.end = old.end /\ n.pattern = old.pattern
  <2> HIDE DEF X, old
  <2>1. QED
    BY <1>1, <1>2, <1>3, <1>4 DEF SeriesRow
<1>6. ASSUME NEW x \in Day
      PROVE  RecursOn(n, x) <=> RecursOn(old, x) /\ x < d
  <2>1. x \in Nat
    BY Days
  <2>2. x \in n.excluded <=> x \in old.excluded /\ x < d
    BY <1>5
  <2> HIDE DEF old, X
  <2>3. QED
    BY <1>2, <1>4, <1>5, <2>1, <2>2 DEF RecursOn
<1>7. QED
  BY <1>2, <1>4, <1>5, <1>6

(* The segments after a rule was changed from a day on. *)
ChangedRows(R, s, new, r, d) ==
  /\ new \in DOMAIN R /\ R[new] = r /\ new # s /\ new \notin DOMAIN db.series
  /\ DOMAIN R \subseteq DOMAIN db.series \cup {new}
  /\ \A u \in DOMAIN db.series : u \in DOMAIN R \/ u \in Successors(db, s) \/ u = s
  /\ \A u \in DOMAIN R : u \notin Successors(db, s)
  /\ \A u \in DOMAIN R : u # new /\ u # s => u \in DOMAIN db.series /\ R[u] = db.series[u]
  /\ s \in DOMAIN R <=> d > db.series[s].start
  /\ s \in DOMAIN R => R[s] = Shortened(db, s, d)

LEMMA WhatChanges ==
  ASSUME Sound(db, removed), NEW s \in Rules, NEW new, Free(new), NEW d \in Day,
         WithinSegment(db, s, d), NEW r \in SeriesRow, NEW R, R = Put(SegmentsAfter(s, d), new, r)
  PROVE  ChangedRows(R, s, new, r, d) /\ Rows(R, Series, SeriesRow)
<1> DEFINE g == SegmentsAfter(s, d)
           old == db.series[s]
<1>1. /\ Rows(db.series, Series, SeriesRow) /\ new \in Series /\ new \notin DOMAIN db.series
      /\ s \in DOMAIN db.series /\ old \in SeriesRow /\ s \notin Successors(db, s)
      /\ new # s /\ new \notin Successors(db, s)
  BY SoundFacts, Chained DEF Rules, Free
<1>2. old.start \in Nat /\ d \in Nat /\ old.start <= d /\ d <= old.until
  BY <1>1, SegmentTypes, Days DEF WithinSegment
<1>3. CASE d = old.start
  <2>1. g = Without(db.series, {s} \cup Successors(db, s))
    BY <1>3 DEF SegmentsAfter
  <2> HIDE DEF g
  <2>2. /\ Rows(g, Series, SeriesRow) /\ DOMAIN g = DOMAIN db.series \ ({s} \cup Successors(db, s))
        /\ \A u \in DOMAIN g : g[u] = db.series[u]
    BY <1>1, <2>1 DEF Without, Rows
  <2>3. R = Put(g, new, r)
    BY DEF g
  <2>4. /\ Rows(R, Series, SeriesRow) /\ DOMAIN R = DOMAIN g \cup {new} /\ R[new] = r
        /\ \A u \in DOMAIN g : u # new => R[u] = g[u]
    BY <1>1, <2>2, <2>3 DEF Put, Rows
  <2>5. QED
    BY <1>1, <1>2, <1>3, <2>2, <2>4 DEF ChangedRows
<1>4. CASE d # old.start
  <2> DEFINE h == Without(db.series, Successors(db, s))
             n == Shortened(db, s, d)
  <2>1. g = [h EXCEPT ![s] = n]
    BY <1>4 DEF SegmentsAfter
  <2>2. d > old.start
    BY <1>2, <1>4
  <2>3. n \in SeriesRow
    BY <1>2, <2>2, ShortenedRow
  <2>4. /\ Rows(h, Series, SeriesRow) /\ DOMAIN h = DOMAIN db.series \ Successors(db, s)
        /\ \A u \in DOMAIN h : h[u] = db.series[u]
    BY <1>1 DEF Without, Rows
  <2> HIDE DEF g, h, n
  <2>5. /\ Rows(g, Series, SeriesRow) /\ DOMAIN g = DOMAIN h /\ g[s] = n
        /\ \A u \in DOMAIN g : u # s => g[u] = db.series[u]
    BY <1>1, <2>1, <2>3, <2>4 DEF Rows
  <2>6. R = Put(g, new, r)
    BY DEF g
  <2>7. /\ Rows(R, Series, SeriesRow) /\ DOMAIN R = DOMAIN g \cup {new} /\ R[new] = r
        /\ \A u \in DOMAIN g : u # new => R[u] = g[u]
    BY <1>1, <2>5, <2>6 DEF Put, Rows
  <2>8. QED
    BY <1>1, <2>2, <2>4, <2>5, <2>7 DEF ChangedRows, n
<1>5. QED
  BY <1>3, <1>4

LEMMA ChangedChain ==
  ASSUME Sound(db, removed), NEW s \in Rules, NEW new, NEW d \in Day, WithinSegment(db, s, d),
         NEW r \in SeriesRow, r.rule = db.series[s].rule, r.start = d, r.until = Forever,
         r.excluded = {x \in db.series[s].excluded : x >= d} \cup Excluded(db, Successors(db, s)),
         NEW R, ChangedRows(R, s, new, r, d)
  PROVE  /\ Segmented(R) /\ Agreed(R) /\ Excludes(R, removed)
         /\ \A u \in DOMAIN R \cap DOMAIN db.series :
              /\ R[u].rule = db.series[u].rule
              /\ \A x \in Day : RecursOn(R[u], x) => RecursOn(db.series[u], x)
         /\ \A u \in DOMAIN R \ {new} : R[u].rule = r.rule => R[u].until < d
         /\ \A task : Belongs(task, db.series)
                      /\ ~(task.series \in {s} \cup Successors(db, s) /\ task.day >= d)
                      => Belongs(task, R)
<1> DEFINE old == db.series[s]
           later == Successors(db, s)
<1>1. /\ \A u \in DOMAIN db.series :
           /\ db.series[u] \in SeriesRow
           /\ db.series[u].start \in Nat /\ db.series[u].until \in Nat
           /\ db.series[u].until <= Forever /\ db.series[u].excluded \subseteq Day
      /\ s \in DOMAIN db.series /\ d \in Nat /\ Forever \in Nat
  BY SoundFacts, SegmentTypes, Days DEF Rules
<1>2. old.start <= d /\ d <= old.until
  BY DEF WithinSegment
<1>3. s \in DOMAIN R =>
        /\ R[s].rule = old.rule /\ R[s].start = old.start
        /\ R[s].until = d - 1 /\ R[s].start <= R[s].until /\ R[s].until <= old.until
        /\ R[s].excluded = {x \in old.excluded : x < d}
        /\ \A x \in Day : RecursOn(R[s], x) <=> RecursOn(old, x) /\ x < d
  <2> SUFFICES ASSUME s \in DOMAIN R
               PROVE  /\ R[s].rule = old.rule /\ R[s].start = old.start
                      /\ R[s].until = d - 1 /\ R[s].start <= R[s].until /\ R[s].until <= old.until
                      /\ R[s].excluded = {x \in old.excluded : x < d}
                      /\ \A x \in Day : RecursOn(R[s], x) <=> RecursOn(old, x) /\ x < d
    OBVIOUS
  <2>1. d > old.start /\ R[s] = Shortened(db, s, d)
    BY DEF ChangedRows
  <2>2. QED
    BY <1>2, <2>1, ShortenedRow
<1>4. \A u \in DOMAIN R \ {new, s} : u \in DOMAIN db.series /\ u \notin later /\ R[u] = db.series[u]
  BY DEF ChangedRows
<1>5. /\ \A u \in later : /\ u \in DOMAIN db.series /\ db.series[u].rule = old.rule
                          /\ old.until < db.series[u].start
      /\ \A u \in DOMAIN db.series \ later :
           u # s /\ db.series[u].rule = old.rule => db.series[u].until < old.start
  BY Chained
<1>6. new \in DOMAIN R /\ R[new] = r /\ new # s /\ new \notin DOMAIN db.series
  BY DEF ChangedRows
<1> HIDE DEF old, later
<1>7. ASSUME NEW u \in DOMAIN R \ {new}
      PROVE  /\ u \in DOMAIN db.series /\ R[u].rule = db.series[u].rule
             /\ R[u].start = db.series[u].start /\ R[u].until <= db.series[u].until
             /\ R[u].start <= R[u].until /\ R[u].until \in Nat
             /\ R[u].excluded = {x \in db.series[u].excluded : u = s => x < d}
             /\ \A x \in Day : RecursOn(R[u], x) => RecursOn(db.series[u], x)
             /\ R[u].rule = r.rule => R[u].until < d
  <2>1. CASE u = s
    <3>1. d - 1 \in Nat /\ d - 1 < d
      BY <1>1, <1>2, <1>3, <2>1 DEF old
    <3>2. QED
      BY <1>1, <1>3, <2>1, <3>1 DEF old
  <2>2. CASE u # s
    <3>1. u \in DOMAIN db.series /\ u \notin later /\ R[u] = db.series[u]
      BY <1>4, <2>2
    <3>2. R[u].start <= R[u].until
      BY <3>1 DEF Sound, Segmented
    <3>3. R[u].rule = r.rule => R[u].until < d
      BY <1>1, <1>2, <1>5, <2>2, <3>1 DEF old
    <3>4. QED
      BY <1>1, <2>2, <3>1, <3>2, <3>3
  <2>3. QED
    BY <2>1, <2>2
<1>8. Segmented(R)
  <2>1. \A u \in DOMAIN R : R[u].start <= R[u].until
    BY <1>1, <1>6, <1>7, Days
  <2>2. ASSUME NEW u \in DOMAIN R, NEW v \in DOMAIN R, u # v, R[u].rule = R[v].rule
        PROVE  R[u].until < R[v].start \/ R[v].until < R[u].start
    <3>1. CASE u = new \/ v = new
      BY <1>6, <1>7, <2>2, <3>1
    <3>2. CASE u # new /\ v # new
      <4>1. db.series[u].until < db.series[v].start \/ db.series[v].until < db.series[u].start
        BY <1>7, <2>2, <3>2 DEF Sound, Segmented
      <4>2. QED
        BY <1>1, <1>7, <3>2, <4>1
    <3>3. QED
      BY <3>1, <3>2
  <2>3. QED
    BY <2>1, <2>2 DEF Segmented
<1>9. Agreed(R)
  <2> SUFFICES ASSUME NEW i \in DOMAIN R, NEW u \in DOMAIN R, R[i].rule = R[u].rule,
                      NEW x \in R[i].excluded
               PROVE  x <= R[i].until /\ (Covers(R[u], x) => x \in R[u].excluded)
    BY DEF Agreed
  <2>1. CASE i = new
    <3>1. PICK w \in DOMAIN db.series : db.series[w].rule = old.rule /\ x \in db.series[w].excluded
      BY <1>1, <1>5, <1>6, <2>1 DEF Excluded, old, later
    <3>2. x \in Day /\ x <= Forever /\ x \in Nat
      BY <1>1, <3>1, Days
    <3>3. ASSUME u # new, Covers(R[u], x)
          PROVE  x \in R[u].excluded
      <4>1. u \in DOMAIN db.series /\ db.series[u].rule = old.rule
        BY <1>6, <1>7, <2>1, <3>3 DEF old
      <4>2. Covers(db.series[u], x)
        BY <1>1, <1>7, <3>2, <3>3 DEF Covers
      <4>3. x \in db.series[u].excluded
        BY <3>1, <4>1, <4>2 DEF Sound, Agreed
      <4>4. u = s => x < d
        BY <1>1, <1>6, <1>7, <2>1, <3>2, <3>3 DEF Covers
      <4>5. QED
        BY <1>7, <3>3, <4>3, <4>4
    <3>4. QED
      BY <1>6, <2>1, <3>2, <3>3
  <2>2. CASE i # new
    <3>1. /\ i \in DOMAIN db.series /\ x \in db.series[i].excluded /\ (i = s => x < d)
          /\ R[i].rule = db.series[i].rule
      BY <1>7, <2>2
    <3>2. x \in Nat
      BY <1>1, <3>1, Days
    <3>3. x <= db.series[i].until
      BY <3>1 DEF Sound, Agreed
    <3>4. x <= R[i].until
      <4>1. CASE i = s
        BY <1>1, <1>3, <3>1, <3>2, <4>1
      <4>2. CASE i # s
        BY <1>4, <2>2, <3>3, <4>2
      <4>3. QED
        BY <4>1, <4>2
    <3>5. CASE u = new
      <4>1. R[i].until < d
        BY <1>6, <1>7, <2>2, <3>5
      <4>2. ~Covers(R[u], x)
        BY <1>1, <1>6, <1>7, <2>2, <3>2, <3>4, <3>5, <4>1 DEF Covers
      <4>3. QED
        BY <3>4, <4>2
    <3>6. CASE u # new
      <4>1. ASSUME Covers(R[u], x)
            PROVE  x \in R[u].excluded
        <5>1. u \in DOMAIN db.series /\ db.series[u].rule = db.series[i].rule
          BY <1>7, <3>1, <3>6
        <5>2. Covers(db.series[u], x)
          BY <1>1, <1>7, <3>2, <3>6, <4>1 DEF Covers
        <5>3. x \in db.series[u].excluded
          BY <3>1, <5>1, <5>2 DEF Sound, Agreed
        <5>4. u = s => x < d
          BY <1>1, <1>3, <3>2, <4>1 DEF Covers
        <5>5. QED
          BY <1>7, <3>6, <5>3, <5>4
      <4>2. QED
        BY <3>4, <4>1
    <3>7. QED
      BY <3>5, <3>6
  <2>3. QED
    BY <2>1, <2>2
<1>10. Excludes(R, removed)
  <2> SUFFICES ASSUME NEW x \in removed
               PROVE  \E u \in DOMAIN R : R[u].rule = x[1] /\ Covers(R[u], x[2]) /\ x[2] \in R[u].excluded
    BY DEF Excludes
  <2>1. PICK u \in DOMAIN db.series :
          db.series[u].rule = x[1] /\ Covers(db.series[u], x[2]) /\ x[2] \in db.series[u].excluded
    BY DEF Sound, Excludes
  <2>2. x[2] \in Day /\ x[2] \in Nat
    BY <1>1, <2>1, Days
  <2>3. CASE u \in later \/ (u = s /\ x[2] >= d)
    <3>1. r.rule = x[1]
      BY <1>5, <2>1, <2>3 DEF old
    <3>2. x[2] \in r.excluded
      BY <2>1, <2>3 DEF Excluded, later
    <3>3. d <= x[2]
      BY <1>1, <1>2, <1>5, <2>1, <2>2, <2>3 DEF Covers, old
    <3>4. Covers(r, x[2])
      BY <2>2, <3>3, Days DEF Covers
    <3>5. QED
      BY <1>6, <3>1, <3>2, <3>4
  <2>4. CASE u = s /\ x[2] < d
    <3>1. s \in DOMAIN R
      BY <1>1, <2>1, <2>2, <2>4 DEF ChangedRows, Covers
    <3>2. R[s].rule = x[1] /\ x[2] \in R[s].excluded
      BY <1>3, <2>1, <2>4, <3>1 DEF old
    <3>3. Covers(R[s], x[2])
      BY <1>1, <1>3, <2>1, <2>2, <2>4, <3>1 DEF Covers, old
    <3>4. QED
      BY <3>1, <3>2, <3>3
  <2>5. CASE u \notin later /\ u # s
    <3>1. u \in DOMAIN R /\ u # new
      BY <1>6, <2>5 DEF ChangedRows, later
    <3>2. QED
      BY <1>4, <2>1, <2>5, <3>1
  <2>6. QED
    BY <1>1, <2>2, <2>3, <2>4, <2>5
<1>11. ASSUME NEW task, Belongs(task, db.series), ~(task.series \in {s} \cup later /\ task.day >= d)
       PROVE  Belongs(task, R)
  <2> DEFINE u == task.series
  <2>1. /\ u \in DOMAIN db.series /\ db.series[u].rule = task.rule /\ task.day \in Day
        /\ Covers(db.series[u], task.day) /\ task.day \in Nat
        /\ ~task.exception => RecursOn(db.series[u], task.day) /\ task.from = task.day
    BY <1>11, Days DEF Belongs
  <2>2. u \notin later
    BY <1>1, <1>2, <1>5, <1>11, <2>1 DEF Covers, old
  <2>3. CASE u = s
    <3>1. task.day < d
      BY <1>1, <1>11, <2>1, <2>3
    <3>2. s \in DOMAIN R
      BY <1>1, <2>1, <2>3, <3>1 DEF ChangedRows, Covers
    <3>3. Covers(R[s], task.day)
      BY <1>1, <1>3, <2>1, <2>3, <3>1, <3>2 DEF Covers, old
    <3>4. QED
      BY <1>3, <2>1, <2>3, <3>1, <3>2, <3>3 DEF Belongs, old
  <2>4. CASE u # s
    <3>1. u \in DOMAIN R /\ u # new
      BY <1>6, <2>1, <2>2, <2>4 DEF ChangedRows, later
    <3>2. R[u] = db.series[u]
      BY <1>4, <2>4, <3>1
    <3>3. QED
      BY <2>1, <3>1, <3>2 DEF Belongs
  <2>5. QED
    BY <2>3, <2>4
<1>12. QED
  BY <1>6, <1>7, <1>8, <1>9, <1>10, <1>11 DEF later

(* Tasks that are dropped, and others of which only the segment and the    *)
(* text are rewritten.                                                     *)
Rewrites(old, new) ==
  /\ Occurs(new) <=> Occurs(old)
  /\ new.rule = old.rule /\ new.day = old.day /\ new.status = old.status /\ new.from = old.from

Rewrote(e, gone) ==
  /\ IsDatabase(e) /\ Rows(e.tasks, Id, TaskRow) /\ Rows(e.series, Series, SeriesRow)
  /\ DOMAIN e.tasks = DOMAIN db.tasks \ gone
  /\ \A i \in DOMAIN e.tasks : Rewrites(db.tasks[i], e.tasks[i])
  /\ e.focus = db.focus \ FocusOf(db, gone) /\ e.links = db.links \ gone

(* The rows, the focus and the links that a command leaves alone.          *)
ChangesOnly(e, T, S, F) ==
  /\ \A i \in DOMAIN db.tasks \ T : i \in DOMAIN e.tasks /\ e.tasks[i] = db.tasks[i]
  /\ \A u \in DOMAIN db.series \ S : u \in DOMAIN e.series /\ e.series[u] = db.series[u]
  /\ db.focus \ e.focus \subseteq FocusOf(db, F)
  /\ db.links \ e.links \subseteq F

LEMMA RewrittenSound ==
  ASSUME Sound(db, removed), NEW gone, NEW e, Rewrote(e, gone), Members(e.tasks, e.series),
         Segmented(e.series), Agreed(e.series), Excludes(e.series, removed)
  PROVE  Sound(e, removed)
<1>1. /\ db.focus \subseteq [date : Day, task : Id] /\ removed \subseteq Series \X Day
      /\ db.links \subseteq DOMAIN db.tasks
  BY SoundFacts DEF Tasks
<1>2. e.focus \subseteq db.focus /\ \A r \in e.focus : r.task \notin gone
  BY DEF Rewrote, FocusOf
<1>3. Typed(e)
  BY <1>1, <1>2 DEF Typed, Rewrote
<1>4. Keyed(e.tasks)
  BY DEF Sound, Keyed, SameKey, Rewrote, Rewrites
<1>5. Absent(e.tasks, removed)
  BY DEF Sound, Absent, Rewrote, Rewrites
<1>6. Placed(e.tasks, e.focus)
  BY <1>2 DEF Sound, Placed, Focusable, Rewrote, Rewrites
<1>7. Limited(e.focus)
  BY <1>2, LessFocus DEF Sound
<1>8. e.links \subseteq DOMAIN e.tasks
  BY <1>1 DEF Rewrote
<1>9. QED
  BY <1>1, <1>3, <1>4, <1>5, <1>6, <1>7, <1>8 DEF Sound

LEMMA RewrittenFramed ==
  ASSUME Sound(db, removed), NEW gone, NEW e, Rewrote(e, gone),
         NEW touched, gone \subseteq touched.tasks, touched.series \subseteq Series,
         touched.focus = FocusOf(db, gone), touched.links = LinksOf(db, gone),
         \A i \in DOMAIN e.tasks \ touched.tasks : e.tasks[i] = db.tasks[i],
         \A u \in Series \ touched.series :
           /\ u \in DOMAIN db.series <=> u \in DOMAIN e.series
           /\ u \in DOMAIN db.series => e.series[u] = db.series[u],
         \A u \in DOMAIN db.series \cap DOMAIN e.series :
           /\ e.series[u].rule = db.series[u].rule
           /\ \A x \in Day : RecursOn(e.series[u], x) => RecursOn(db.series[u], x),
         \A j \in DOMAIN db.tasks \cap gone : Unasked(db, e, db.tasks[j])
  PROVE  Framed(db, e, touched)
<1>1. /\ \A i \in DOMAIN db.tasks \ touched.tasks : i \in DOMAIN e.tasks /\ e.tasks[i] = db.tasks[i]
      /\ \A i \in DOMAIN e.tasks : i \in DOMAIN db.tasks
  BY DEF Rewrote
<1>2. \A j \in DOMAIN db.tasks : Occurs(db.tasks[j]) =>
        (j \in DOMAIN e.tasks /\ SameKey(e.tasks[j], db.tasks[j])) \/ Unasked(db, e, db.tasks[j])
  BY DEF Rewrote, Rewrites, SameKey
<1>3. /\ db.focus = e.focus \cup touched.focus /\ touched.links \subseteq db.links
      /\ \A i \in db.links : i \in e.links \cup touched.links \cup DOMAIN e.tasks
  BY DEF Rewrote, FocusOf, LinksOf
<1>4. QED
  BY <1>1, <1>2, <1>3 DEF Framed

(* Occurrences of a segment and its successors, and those of other rules.  *)
LEMMA OfTail ==
  ASSUME Sound(db, removed), NEW s \in Rules
  PROVE  /\ \A i \in LogicalTail(db, s) :
              /\ i \in DOMAIN db.tasks /\ Occurs(db.tasks[i]) /\ Belongs(db.tasks[i], db.series)
              /\ db.tasks[i].rule = db.series[s].rule
              /\ db.tasks[i].series \in {s} \cup Successors(db, s)
         /\ \A i \in DOMAIN db.tasks \ LogicalTail(db, s) :
              db.tasks[i].series \notin {s} \cup Successors(db, s)
<1>1. \A u \in {s} \cup Successors(db, s) :
        u \in DOMAIN db.series /\ u # None /\ db.series[u].rule = db.series[s].rule
  BY SoundFacts, IdAssumption DEF Rules, Successors
<1>2. ASSUME NEW i \in LogicalTail(db, s)
      PROVE  /\ i \in DOMAIN db.tasks /\ Occurs(db.tasks[i]) /\ Belongs(db.tasks[i], db.series)
             /\ db.tasks[i].rule = db.series[s].rule
             /\ db.tasks[i].series \in {s} \cup Successors(db, s)
  <2>1. i \in DOMAIN db.tasks /\ db.tasks[i].series \in {s} \cup Successors(db, s)
    BY DEF LogicalTail
  <2>2. Occurs(db.tasks[i])
    BY <1>1, <2>1 DEF Occurs
  <2>3. Belongs(db.tasks[i], db.series)
    BY <2>1, <2>2 DEF Sound, Members
  <2>4. QED
    BY <1>1, <2>1, <2>2, <2>3 DEF Belongs
<1>3. QED
  BY <1>2 DEF LogicalTail

(* No other segment of its rule asks for the day of an occurrence.         *)
LEMMA OnlyItsSegment ==
  ASSUME Sound(db, removed), NEW task, Belongs(task, db.series), NEW u \in DOMAIN db.series,
         u # task.series, db.series[u].rule = task.rule
  PROVE  ~RecursOn(db.series[u], task.day)
<1> DEFINE v == task.series
<1>1. /\ v \in DOMAIN db.series /\ task.day \in Nat /\ Covers(db.series[v], task.day)
      /\ db.series[v].rule = task.rule
  BY Days DEF Belongs
<1>2. db.series[u].until < db.series[v].start \/ db.series[v].until < db.series[u].start
  BY <1>1 DEF Sound, Segmented
<1>3. /\ db.series[u].start \in Nat /\ db.series[u].until \in Nat
      /\ db.series[v].start \in Nat /\ db.series[v].until \in Nat
  BY <1>1, SoundFacts, SegmentTypes DEF Rules
<1>4. QED
  BY <1>1, <1>2, <1>3 DEF Covers, RecursOn

LEMMA UpdateGives ==
  ASSUME Sound(db, removed), NEW s \in Rules, NEW new, Free(new), NEW d \in Day, NEW text \in {0, 1},
         NEW pattern \in Pattern, NEW end \in 1..Forever, NEW W \in SUBSET Day,
         CanUpdate(db, s, new, d, text, pattern, end)
  PROVE  /\ Gives(UpdateSeries(db, s, new, d, text, pattern, end, W), removed)
         /\ ChangesOnly(UpdateSeries(db, s, new, d, text, pattern, end, W).db, LogicalTail(db, s),
                        {s} \cup Successors(db, s), LogicalTail(db, s))
<1> DEFINE r == Replacement(db, s, d, text, pattern, end)
           A == Affected(db, s, d)
           gone == {i \in A : ~Follows(db.tasks[i], r, d)}
           stay == A \ gone
           k == DropTasks(db, gone)
           R == Put(SegmentsAfter(s, d), new, r)
           T == [i \in DOMAIN k.tasks |-> IF i \in stay THEN Rewritten(k.tasks[i], new, r) ELSE k.tasks[i]]
           m == [k EXCEPT !.series = R,
                          !.tasks = [i \in DOMAIN @ |-> IF i \in stay THEN Rewritten(@[i], new, r) ELSE @[i]]]
           e == Materialize(m, {new}, W)
           touched == [tasks |-> A \cup DOMAIN Made(m, {new}, W),
                       series |-> {s, new} \cup Successors(db, s),
                       focus |-> FocusOf(db, gone), links |-> LinksOf(db, gone)]
<1>1. UpdateSeries(db, s, new, d, text, pattern, end, W) = Result(e, touched)
  BY DEF UpdateSeries, Materialize, SegmentsAfter
<1>2. /\ touched.tasks = A \cup DOMAIN Made(m, {new}, W)
      /\ touched.series = {s, new} \cup Successors(db, s)
      /\ touched.focus = FocusOf(db, gone) /\ touched.links = LinksOf(db, gone)
  OBVIOUS
<1>3. m = [k EXCEPT !.series = R, !.tasks = T]
  OBVIOUS
<1>4. k = DropTasks(db, gone) /\ e = Materialize(m, {new}, W) /\ R = Put(SegmentsAfter(s, d), new, r)
  OBVIOUS
<1>5. WithinSegment(db, s, d) /\ new \in Series /\ new # None
  BY IdAssumption DEF CanUpdate, Free
<1>6. /\ r \in SeriesRow /\ r.rule = db.series[s].rule /\ r.start = d /\ r.until = Forever
      /\ r.text \in {0, 1}
      /\ r.excluded = {x \in db.series[s].excluded : x >= d} \cup Excluded(db, Successors(db, s))
  BY ReplacementRow
<1>7. \A i \in A : /\ i \in DOMAIN db.tasks /\ Occurs(db.tasks[i]) /\ Belongs(db.tasks[i], db.series)
                   /\ db.tasks[i].rule = r.rule /\ db.tasks[i].day >= d
                   /\ db.tasks[i].series \in {s} \cup Successors(db, s)
  BY <1>6, OfTail DEF Affected
<1>8. \A i \in DOMAIN db.tasks \ A :
        ~(db.tasks[i].series \in {s} \cup Successors(db, s) /\ db.tasks[i].day >= d)
  BY OfTail DEF Affected
<1>9. A \subseteq LogicalTail(db, s)
  BY DEF Affected
<1>10. gone \subseteq A /\ stay = A \ gone
  OBVIOUS
<1> HIDE DEF r, A, gone, stay, k, R, m, e, touched
<1>11. ChangedRows(R, s, new, r, d) /\ Rows(R, Series, SeriesRow)
  BY <1>4, <1>5, <1>6, WhatChanges
<1>12. /\ Segmented(R) /\ Agreed(R) /\ Excludes(R, removed)
       /\ \A u \in DOMAIN R \cap DOMAIN db.series :
            /\ R[u].rule = db.series[u].rule
            /\ \A x \in Day : RecursOn(R[u], x) => RecursOn(db.series[u], x)
       /\ \A u \in DOMAIN R \ {new} : R[u].rule = r.rule => R[u].until < d
       /\ \A task : Belongs(task, db.series)
                    /\ ~(task.series \in {s} \cup Successors(db, s) /\ task.day >= d)
                    => Belongs(task, R)
  BY <1>5, <1>6, <1>11, ChangedChain
<1>13. IsDatabase(db) /\ Rows(db.tasks, Id, TaskRow) /\ Rows(db.series, Series, SeriesRow)
  BY SoundFacts
<1>14. /\ IsDatabase(k) /\ k.tasks = Without(db.tasks, gone) /\ k.series = db.series
       /\ k.focus = db.focus \ FocusOf(db, gone) /\ k.links = db.links \ gone
  BY <1>4, <1>13, WhatDrops
<1>15. DOMAIN k.tasks = DOMAIN db.tasks \ gone /\ \A i \in DOMAIN k.tasks : k.tasks[i] = db.tasks[i]
  BY <1>13, <1>14 DEF Without, Rows
<1>16. /\ DOMAIN T = DOMAIN db.tasks \ gone
       /\ \A i \in DOMAIN T \cap stay : T[i] = Rewritten(db.tasks[i], new, r)
       /\ \A i \in DOMAIN T \ stay : T[i] = db.tasks[i]
       /\ T = [i \in DOMAIN T |-> T[i]]
  BY <1>15
<1> HIDE DEF T
<1>17. /\ IsDatabase(m) /\ m.tasks = T /\ m.series = R /\ m.focus = k.focus /\ m.links = k.links
  BY <1>3, <1>14 DEF IsDatabase, Part
<1>18. ASSUME NEW i \in DOMAIN T \cap stay
       PROVE  T[i] \in TaskRow /\ Rewrites(db.tasks[i], T[i]) /\ Belongs(T[i], R)
  <2> DEFINE task == db.tasks[i]
  <2>1. /\ task \in TaskRow /\ Occurs(task) /\ Belongs(task, db.series)
        /\ task.rule = r.rule /\ task.day >= d
    BY <1>7, <1>10, <1>13 DEF Rows
  <2>2. T[i] = Rewritten(task, new, r)
    BY <1>16
  <2>3. task.day \in Day /\ (~task.exception => task.from = task.day)
    BY <2>1 DEF Belongs
  <2> HIDE DEF task
  <2>4. /\ T[i] \in TaskRow /\ T[i].series = new /\ T[i].rule = task.rule /\ T[i].day = task.day
        /\ T[i].status = task.status /\ T[i].from = task.from
        /\ ~T[i].exception => RecursOn(r, task.day) /\ T[i].from = task.day
    <3>1. CASE Kept(task)
      <4>1. T[i] = [task EXCEPT !.series = new, !.exception = TRUE]
        BY <2>2, <3>1 DEF Rewritten, Detached
      <4>2. QED
        BY <1>5, <2>1, <4>1 DEF TaskRow
    <3>2. CASE ~Kept(task) /\ RecursOn(r, task.day)
      <4>1. T[i] = [task EXCEPT !.series = new, !.text = r.text, !.from = task.day, !.to = task.day]
        BY <2>2, <3>2 DEF Rewritten
      <4>2. task.from = task.day
        BY <2>3, <3>2 DEF Kept
      <4>3. QED
        BY <1>5, <1>6, <2>1, <2>3, <3>2, <4>1, <4>2 DEF TaskRow
    <3>3. CASE ~Kept(task) /\ ~RecursOn(r, task.day)
      <4>1. T[i] = [task EXCEPT !.series = new, !.text = r.text, !.exception = TRUE]
        BY <2>2, <3>3 DEF Rewritten
      <4>2. QED
        BY <1>5, <1>6, <2>1, <4>1 DEF TaskRow
    <3>4. QED
      BY <3>1, <3>2, <3>3
  <2>5. Covers(r, task.day) /\ new \in DOMAIN R /\ R[new] = r
    BY <1>6, <1>11, <2>1, <2>3, Days DEF Covers, ChangedRows
  <2>6. Belongs(T[i], R)
    BY <2>1, <2>3, <2>4, <2>5 DEF Belongs
  <2>7. Rewrites(task, T[i])
    BY <1>5, <2>1, <2>4 DEF Rewrites, Occurs
  <2>8. QED
    BY <2>4, <2>6, <2>7 DEF task
<1>19. ASSUME NEW i \in DOMAIN T \ stay
       PROVE  /\ T[i] = db.tasks[i] /\ i \in DOMAIN db.tasks /\ i \notin A
              /\ Occurs(T[i]) => Belongs(T[i], R)
  <2>1. T[i] = db.tasks[i] /\ i \in DOMAIN db.tasks /\ i \notin A
    BY <1>10, <1>16
  <2>2. Occurs(T[i]) => Belongs(T[i], db.series)
    BY <2>1 DEF Sound, Members
  <2>3. QED
    BY <1>8, <1>12, <2>1, <2>2
<1>20. Members(T, R)
  BY <1>18, <1>19 DEF Members
<1>21. Rewrote(m, gone)
  <2>1. Rows(T, Id, TaskRow)
    BY <1>13, <1>16, <1>18, <1>19 DEF Rows
  <2>2. \A i \in DOMAIN T : Rewrites(db.tasks[i], T[i])
    BY <1>18, <1>19 DEF Rewrites
  <2>3. QED
    BY <1>11, <1>14, <1>16, <1>17, <2>1, <2>2 DEF Rewrote
<1>22. Sound(m, removed)
  BY <1>12, <1>17, <1>20, <1>21, RewrittenSound
<1>23. ASSUME NEW j \in DOMAIN db.tasks \cap gone
       PROVE  Unasked(db, m, db.tasks[j])
  <2> SUFFICES ASSUME NEW u \in DOMAIN db.series \cap DOMAIN R, R[u].rule = db.tasks[j].rule
               PROVE  ~RecursOn(R[u], db.tasks[j].day)
    BY <1>17 DEF Unasked
  <2>1. /\ db.tasks[j].day >= d /\ db.tasks[j].rule = r.rule /\ db.tasks[j].day \in Nat
    BY <1>7, <1>10, Days DEF Belongs
  <2>2. R[u].until < d /\ R[u].until \in Nat /\ d \in Nat
    BY <1>11, <1>12, <2>1, SegmentTypes, Days DEF ChangedRows, Rows
  <2>3. QED
    BY <2>1, <2>2 DEF RecursOn
<1>24. Framed(db, m, touched)
  <2>1. gone \subseteq touched.tasks /\ touched.series \subseteq Series
    BY <1>2, <1>5, <1>10, <1>13 DEF Rules, Rows, Successors
  <2>2. \A i \in DOMAIN m.tasks \ touched.tasks : m.tasks[i] = db.tasks[i]
    BY <1>2, <1>10, <1>17, <1>19
  <2>3. \A u \in Series \ touched.series :
          /\ u \in DOMAIN db.series <=> u \in DOMAIN m.series
          /\ u \in DOMAIN db.series => m.series[u] = db.series[u]
    BY <1>2, <1>11, <1>17 DEF ChangedRows
  <2>4. QED
    BY <1>2, <1>12, <1>17, <1>21, <1>23, <2>1, <2>2, <2>3, RewrittenFramed
<1>25. {new} \in SUBSET DOMAIN m.series
  BY <1>11, <1>17 DEF ChangedRows
<1>26. Sound(e, removed)
  BY <1>4, <1>22, <1>25, MadeSound
<1>27. Framed(db, e, touched)
  BY <1>4, <1>22, <1>24, <1>25, MadeFramed
<1>28. ChangesOnly(e, LogicalTail(db, s), {s} \cup Successors(db, s), LogicalTail(db, s))
  <2> DEFINE M == Made(m, {new}, W)
             E == e.tasks
  <2>1. E = Over(M, T) /\ e.series = R /\ e.focus = m.focus /\ e.links = m.links
    BY <1>4, <1>17, <1>22, <1>25, MadeSound
  <2>2. DOMAIN M \cap DOMAIN T = {}
    BY <1>17, <1>22, <1>25, WhatIsMade
  <2> HIDE DEF M, E
  <2>3. \A i \in DOMAIN T : i \in DOMAIN E /\ E[i] = T[i]
    BY <2>1, <2>2 DEF Over
  <2>4. \A i \in DOMAIN db.tasks \ LogicalTail(db, s) : i \in DOMAIN T /\ T[i] = db.tasks[i]
    BY <1>10, <1>16, <1>9
  <2>5. \A i \in DOMAIN db.tasks \ LogicalTail(db, s) : i \in DOMAIN E /\ E[i] = db.tasks[i]
    BY <2>3, <2>4
  <2>6. \A u \in DOMAIN db.series \ ({s} \cup Successors(db, s)) :
          u \in DOMAIN R /\ R[u] = db.series[u]
    BY <1>11 DEF ChangedRows
  <2>7. db.focus \ e.focus \subseteq FocusOf(db, LogicalTail(db, s))
    BY <1>10, <1>14, <1>17, <1>9, <2>1 DEF FocusOf
  <2>8. db.links \ e.links \subseteq LogicalTail(db, s)
    BY <1>10, <1>14, <1>17, <1>9, <2>1
  <2>9. QED
    BY <2>1, <2>5, <2>6, <2>7, <2>8 DEF ChangesOnly, E
<1>29. QED
  BY <1>1, <1>26, <1>27, <1>28 DEF Gives, Result

(* A rule that was stopped keeps its segments up to the one that ends it.  *)
Ended(s, d) ==
  [db.series[s] EXCEPT !.until = Forever, !.end = d, !.excluded = Excluded(db, Chain(db, s))]

EndedRows(R, s, n, d) ==
  /\ Rows(R, Series, SeriesRow) /\ DOMAIN R = DOMAIN db.series \ Successors(db, s)
  /\ R[s] = n /\ \A u \in DOMAIN R \ {s} : R[u] = db.series[u]
  /\ n.rule = db.series[s].rule /\ n.start <= d /\ n.until = Forever
  /\ \A x \in Day : RecursOn(n, x) => x <= d
  /\ Segmented(R) /\ Agreed(R) /\ Excludes(R, removed)
  /\ \A u \in DOMAIN R :
       /\ u \in DOMAIN db.series /\ R[u].rule = db.series[u].rule
       /\ \A x \in Day : RecursOn(R[u], x) => RecursOn(db.series[u], x)
  /\ \A task : Belongs(task, db.series)
               /\ ~(task.series \in {s} \cup Successors(db, s) /\ task.day > d)
               => Belongs(task, R)

LEMMA StoppedChain ==
  ASSUME Sound(db, removed), NEW s \in Rules, NEW d \in Day, CanStop(db, s, d), NEW n, n = Ended(s, d),
         NEW R, R = Put(Without(db.series, Successors(db, s)), s, n)
  PROVE  EndedRows(R, s, n, d)
<1> DEFINE old == db.series[s]
           later == Successors(db, s)
           X == Excluded(db, Chain(db, s))
<1>1. /\ \A u \in DOMAIN db.series :
           /\ db.series[u] \in SeriesRow
           /\ db.series[u].start \in Nat /\ db.series[u].until \in Nat
           /\ db.series[u].until <= Forever /\ db.series[u].excluded \subseteq Day
      /\ s \in DOMAIN db.series /\ d \in Nat /\ Forever \in Nat /\ d \in 1..Forever /\ s \in Series
      /\ d < Forever /\ Rows(db.series, Series, SeriesRow) /\ Forever \in 1..Forever
  BY SoundFacts, SegmentTypes, Days DEF Rules, Forever
<1>2. old.start <= d /\ d <= old.until /\ d <= old.end
  BY DEF CanStop, WithinSegment
<1>3. /\ \A u \in later : /\ u \in DOMAIN db.series /\ u # s /\ db.series[u].rule = old.rule
                          /\ old.until < db.series[u].start
      /\ \A u \in DOMAIN db.series \ later :
           u # s /\ db.series[u].rule = old.rule => db.series[u].until < old.start
  BY Chained
<1>4. \A u \in DOMAIN db.series : db.series[u].rule = old.rule => db.series[u].excluded \subseteq X
  BY DEF Excluded, Chain
<1>5. ASSUME NEW x \in X
      PROVE  \E w \in DOMAIN db.series : db.series[w].rule = old.rule /\ x \in db.series[w].excluded
  BY DEF Excluded, Chain
<1>6. X \subseteq Day
  BY <1>1, <1>5
<1>7. n = [old EXCEPT !.until = Forever, !.end = d, !.excluded = X]
  BY DEF Ended
<1> HIDE DEF old, later, X
<1>8. /\ n \in SeriesRow /\ n.rule = old.rule /\ n.start = old.start /\ n.until = Forever
      /\ n.end = d /\ n.pattern = old.pattern /\ n.excluded = X
  BY <1>1, <1>6, <1>7 DEF SeriesRow, old
<1>9. /\ Rows(R, Series, SeriesRow) /\ DOMAIN R = DOMAIN db.series \ later
      /\ R[s] = n /\ \A u \in DOMAIN R \ {s} : R[u] = db.series[u]
  <2>1. s \notin later
    BY <1>3
  <2>2. R = Put(Without(db.series, later), s, n)
    BY DEF later
  <2>3. QED
    BY <1>1, <1>8, <2>1, <2>2 DEF Put, Without, Rows
<1>10. ASSUME NEW x \in Day, RecursOn(n, x)
       PROVE  x <= d /\ RecursOn(old, x)
  <2>1. x \in Nat /\ old.until \in Nat /\ old.end \in Nat /\ old.start \in Nat
    BY <1>1, Days, SegmentTypes DEF old
  <2>2. x \notin old.excluded
    BY <1>1, <1>4, <1>8, <1>10 DEF RecursOn, old
  <2>3. n.start <= x /\ x <= d /\ PatternAsks(n.pattern, x)
    BY <1>8, <1>10 DEF RecursOn
  <2>4. x <= old.until /\ x <= old.end
    <3>1. old.end \in Nat
      BY <1>1, SegmentTypes, Days DEF old
    <3>2. QED
      BY <1>1, <1>2, <2>1, <2>3, <3>1
  <2>5. QED
    BY <1>8, <2>2, <2>3, <2>4 DEF RecursOn
<1>11. \A u \in DOMAIN R :
         /\ u \in DOMAIN db.series /\ R[u].rule = db.series[u].rule
         /\ R[u].start = db.series[u].start /\ R[u].start \in Nat /\ R[u].until \in Nat
         /\ \A x \in Day : RecursOn(R[u], x) => RecursOn(db.series[u], x)
         /\ u # s => R[u] = db.series[u]
         /\ u # s /\ R[u].rule = n.rule => R[u].until < n.start
  <2> SUFFICES ASSUME NEW u \in DOMAIN R
               PROVE  /\ u \in DOMAIN db.series /\ R[u].rule = db.series[u].rule
                      /\ R[u].start = db.series[u].start /\ R[u].start \in Nat /\ R[u].until \in Nat
                      /\ \A x \in Day : RecursOn(R[u], x) => RecursOn(db.series[u], x)
                      /\ u # s => R[u] = db.series[u]
                      /\ u # s /\ R[u].rule = n.rule => R[u].until < n.start
    OBVIOUS
  <2>1. u \in DOMAIN db.series /\ u \notin later
    BY <1>9
  <2>2. CASE u = s
    <3>1. R[u] = n /\ db.series[u] = old
      BY <1>9, <2>2 DEF old
    <3>2. old.start \in Nat /\ Forever \in Nat
      BY <1>1 DEF old
    <3>3. QED
      BY <1>8, <1>10, <2>1, <2>2, <3>1, <3>2
  <2>3. CASE u # s
    <3>1. R[u] = db.series[u]
      BY <1>9, <2>3
    <3>2. R[u].rule = n.rule => R[u].until < n.start
      BY <1>3, <1>8, <2>1, <2>3, <3>1
    <3>3. QED
      BY <1>1, <2>1, <2>3, <3>1, <3>2
  <2>4. QED
    BY <2>2, <2>3
<1>12. Segmented(R)
  <2>1. ASSUME NEW u \in DOMAIN R
        PROVE  R[u].start <= R[u].until
    <3>1. CASE u = s
      <4>1. R[u].start = old.start /\ R[u].until = Forever
        BY <1>8, <1>9, <3>1
      <4>2. old.start \in Nat /\ old.start <= d /\ d < Forever /\ d \in Nat /\ Forever \in Nat
        BY <1>1, <1>2 DEF old
      <4>3. QED
        BY <4>1, <4>2
    <3>2. CASE u # s
      BY <1>11, <3>2 DEF Sound, Segmented
    <3>3. QED
      BY <3>1, <3>2
  <2>2. ASSUME NEW u \in DOMAIN R, NEW v \in DOMAIN R, u # v, R[u].rule = R[v].rule
        PROVE  R[u].until < R[v].start \/ R[v].until < R[u].start
    <3>1. CASE u = s \/ v = s
      BY <1>9, <1>11, <2>2, <3>1
    <3>2. CASE u # s /\ v # s
      BY <1>11, <2>2, <3>2 DEF Sound, Segmented
    <3>3. QED
      BY <3>1, <3>2
  <2>3. QED
    BY <2>1, <2>2 DEF Segmented
<1>13. Agreed(R)
  <2> SUFFICES ASSUME NEW i \in DOMAIN R, NEW u \in DOMAIN R, R[i].rule = R[u].rule,
                      NEW x \in R[i].excluded
               PROVE  x <= R[i].until /\ (Covers(R[u], x) => x \in R[u].excluded)
    BY DEF Agreed
  <2>1. CASE i = s
    <3>1. PICK w \in DOMAIN db.series : db.series[w].rule = old.rule /\ x \in db.series[w].excluded
      BY <1>5, <1>8, <1>9, <2>1
    <3>2. x <= Forever
      BY <1>1, <3>1, Days
    <3>3. u # s => (Covers(R[u], x) => x \in R[u].excluded)
      BY <1>8, <1>9, <1>11, <2>1, <3>1 DEF Sound, Agreed, Covers
    <3>4. QED
      BY <1>8, <1>9, <2>1, <3>2, <3>3
  <2>2. CASE i # s
    <3>1. i \in DOMAIN db.series /\ x \in db.series[i].excluded /\ R[i] = db.series[i]
      BY <1>11, <2>2
    <3>2. x <= R[i].until
      BY <3>1 DEF Sound, Agreed
    <3>3. CASE u = s
      <4>1. R[u] = n
        BY <1>9, <3>3
      <4>2. db.series[i].rule = old.rule
        BY <1>8, <3>1, <4>1
      <4>3. x \in R[u].excluded
        BY <1>4, <1>8, <3>1, <4>1, <4>2
      <4>4. QED
        BY <3>2, <4>3
    <3>4. CASE u # s
      BY <1>11, <3>1, <3>2, <3>4 DEF Sound, Agreed
    <3>5. QED
      BY <3>3, <3>4
  <2>3. QED
    BY <2>1, <2>2
<1>14. Excludes(R, removed)
  <2> SUFFICES ASSUME NEW x \in removed
               PROVE  \E u \in DOMAIN R : R[u].rule = x[1] /\ Covers(R[u], x[2]) /\ x[2] \in R[u].excluded
    BY DEF Excludes
  <2>1. PICK u \in DOMAIN db.series :
          db.series[u].rule = x[1] /\ Covers(db.series[u], x[2]) /\ x[2] \in db.series[u].excluded
    BY DEF Sound, Excludes
  <2>2. x[2] \in Day /\ x[2] \in Nat /\ x[2] <= Forever
    BY <1>1, <2>1, Days
  <2>3. CASE u \in later \/ u = s
    <3>1. n.rule = x[1] /\ x[2] \in n.excluded
      BY <1>3, <1>4, <1>8, <2>1, <2>3 DEF old
    <3>2. old.start <= x[2]
      BY <1>1, <1>2, <1>3, <2>1, <2>2, <2>3 DEF Covers, old
    <3>3. Covers(n, x[2])
      BY <1>8, <2>2, <3>2 DEF Covers
    <3>4. s \in DOMAIN R
      BY <1>1, <1>3, <1>9
    <3>5. QED
      BY <1>9, <3>1, <3>3, <3>4
  <2>4. CASE u \notin later /\ u # s
    BY <1>9, <2>1, <2>4
  <2>5. QED
    BY <2>3, <2>4
<1>15. ASSUME NEW task, Belongs(task, db.series), ~(task.series \in {s} \cup later /\ task.day > d)
       PROVE  Belongs(task, R)
  <2> DEFINE u == task.series
  <2>1. /\ u \in DOMAIN db.series /\ db.series[u].rule = task.rule /\ task.day \in Day
        /\ Covers(db.series[u], task.day) /\ task.day \in Nat
        /\ ~task.exception => RecursOn(db.series[u], task.day) /\ task.from = task.day
    BY <1>15, Days DEF Belongs
  <2>2. u \notin later
    BY <1>1, <1>2, <1>3, <1>15, <2>1 DEF Covers, old
  <2>3. CASE u = s
    <3>1. task.day <= d
      BY <1>1, <1>15, <2>1, <2>3
    <3>2. Covers(n, task.day)
      BY <1>1, <1>8, <2>1, <2>3, <3>1 DEF Covers, old
    <3>3. ASSUME RecursOn(old, task.day)
          PROVE  RecursOn(n, task.day)
      <4>1. task.day \notin X
        <5>1. ASSUME task.day \in X
              PROVE  FALSE
          <6>1. PICK w \in DOMAIN db.series :
                  db.series[w].rule = old.rule /\ task.day \in db.series[w].excluded
            BY <1>5, <5>1
          <6>2. task.day \in old.excluded
            BY <2>1, <2>3, <6>1 DEF Sound, Agreed, old
          <6>3. QED
            BY <3>3, <6>2 DEF RecursOn
        <5>2. QED
          BY <5>1
      <4>2. QED
        BY <1>8, <3>1, <3>2, <3>3, <4>1 DEF RecursOn, Covers
    <3>4. s \in DOMAIN R
      BY <1>1, <1>3, <1>9
    <3>5. QED
      BY <1>8, <1>9, <2>1, <2>3, <3>2, <3>3, <3>4 DEF Belongs, old
  <2>4. CASE u # s
    <3>1. u \in DOMAIN R
      BY <1>9, <2>1, <2>2
    <3>2. R[u] = db.series[u]
      BY <1>9, <2>4, <3>1
    <3>3. QED
      BY <2>1, <3>1, <3>2 DEF Belongs
  <2>5. QED
    BY <2>3, <2>4
<1>16. \A u \in DOMAIN R :
         /\ u \in DOMAIN db.series /\ R[u].rule = db.series[u].rule
         /\ \A x \in Day : RecursOn(R[u], x) => RecursOn(db.series[u], x)
  BY <1>11
<1>17. QED
  BY <1>2, <1>8, <1>9, <1>10, <1>12, <1>13, <1>14, <1>15, <1>16 DEF old, later, EndedRows

Later(s, d) == {i \in LogicalTail(db, s) : db.tasks[i].day > d}
Ending(s, d) == {i \in Later(s, d) : ~Kept(db.tasks[i])}

LEMMA StopGives ==
  ASSUME Sound(db, removed), NEW s \in Rules, NEW d \in Day, CanStop(db, s, d)
  PROVE  /\ Gives(StopSeries(db, s, d), removed)
         /\ ChangesOnly(StopSeries(db, s, d).db, Later(s, d), {s} \cup Successors(db, s), Ending(s, d))
<1> DEFINE later == Later(s, d)
           gone == Ending(s, d)
           n == Ended(s, d)
           k == DropTasks(db, gone)
           R == Put(Without(k.series, Successors(db, s)), s, n)
           T == [i \in DOMAIN k.tasks |-> IF i \in later THEN Detached(k.tasks[i], s) ELSE k.tasks[i]]
           e == [k EXCEPT !.series = Put(Without(@, Successors(db, s)), s, n),
                          !.tasks = [i \in DOMAIN @ |-> IF i \in later THEN Detached(@[i], s) ELSE @[i]]]
           touched == [tasks |-> later, series |-> {s} \cup Successors(db, s),
                       focus |-> FocusOf(db, gone), links |-> LinksOf(db, gone)]
<1>1. StopSeries(db, s, d) = Result(e, touched)
  BY DEF StopSeries, Ended, Later, Ending
<1>2. /\ touched.tasks = later
      /\ touched.series = {s} \cup Successors(db, s)
      /\ touched.focus = FocusOf(db, gone) /\ touched.links = LinksOf(db, gone)
  OBVIOUS
<1>3. e = [k EXCEPT !.series = R, !.tasks = T]
  OBVIOUS
<1>4. k = DropTasks(db, gone)
  OBVIOUS
<1>5. \A i \in later : /\ i \in DOMAIN db.tasks /\ Occurs(db.tasks[i]) /\ Belongs(db.tasks[i], db.series)
                       /\ db.tasks[i].rule = db.series[s].rule /\ db.tasks[i].day > d
                       /\ db.tasks[i].series \in {s} \cup Successors(db, s)
  BY OfTail DEF Later
<1>6. \A i \in DOMAIN db.tasks \ later :
        ~(db.tasks[i].series \in {s} \cup Successors(db, s) /\ db.tasks[i].day > d)
  BY OfTail DEF Later
<1>7. gone \subseteq later /\ n = Ended(s, d)
  BY DEF Ending
<1> HIDE DEF later, gone, n, k, e, touched
<1>8. /\ IsDatabase(db) /\ Rows(db.tasks, Id, TaskRow) /\ Rows(db.series, Series, SeriesRow)
      /\ s \in Series /\ s # None
  BY SoundFacts, IdAssumption DEF Rules
<1>9. /\ IsDatabase(k) /\ k.tasks = Without(db.tasks, gone) /\ k.series = db.series
      /\ k.focus = db.focus \ FocusOf(db, gone) /\ k.links = db.links \ gone
  BY <1>4, <1>8, WhatDrops
<1>10. DOMAIN k.tasks = DOMAIN db.tasks \ gone /\ \A i \in DOMAIN k.tasks : k.tasks[i] = db.tasks[i]
  BY <1>8, <1>9 DEF Without, Rows
<1>11. R = Put(Without(db.series, Successors(db, s)), s, n)
  BY <1>9
<1> HIDE DEF R
<1>12. EndedRows(R, s, n, d)
  BY <1>7, <1>11, StoppedChain
<1>13. /\ Rows(R, Series, SeriesRow) /\ DOMAIN R = DOMAIN db.series \ Successors(db, s)
       /\ R[s] = n /\ \A u \in DOMAIN R \ {s} : R[u] = db.series[u]
       /\ n.rule = db.series[s].rule /\ n.start <= d /\ n.until = Forever
       /\ \A x \in Day : RecursOn(n, x) => x <= d
       /\ Segmented(R) /\ Agreed(R) /\ Excludes(R, removed)
       /\ \A u \in DOMAIN R :
            /\ u \in DOMAIN db.series /\ R[u].rule = db.series[u].rule
            /\ \A x \in Day : RecursOn(R[u], x) => RecursOn(db.series[u], x)
       /\ \A task : Belongs(task, db.series)
                    /\ ~(task.series \in {s} \cup Successors(db, s) /\ task.day > d)
                    => Belongs(task, R)
  BY <1>12 DEF EndedRows
<1>14. s \notin Successors(db, s) /\ s \in DOMAIN R
  BY <1>13, Chained DEF Rules
<1>15. /\ DOMAIN T = DOMAIN db.tasks \ gone
       /\ \A i \in DOMAIN T \cap later : T[i] = Detached(db.tasks[i], s)
       /\ \A i \in DOMAIN T \ later : T[i] = db.tasks[i]
       /\ T = [i \in DOMAIN T |-> T[i]]
  BY <1>10
<1> HIDE DEF T
<1>16. /\ IsDatabase(e) /\ e.tasks = T /\ e.series = R /\ e.focus = k.focus /\ e.links = k.links
  BY <1>3, <1>9 DEF IsDatabase, Part
<1>17. ASSUME NEW i \in DOMAIN T \cap later
       PROVE  T[i] \in TaskRow /\ Rewrites(db.tasks[i], T[i]) /\ Belongs(T[i], R)
  <2> DEFINE task == db.tasks[i]
  <2>1. /\ task \in TaskRow /\ Occurs(task) /\ Belongs(task, db.series)
        /\ task.rule = db.series[s].rule /\ task.day > d
    BY <1>5, <1>8 DEF Rows
  <2>2. T[i] = [task EXCEPT !.series = s, !.exception = TRUE]
    BY <1>15 DEF Detached
  <2>3. task.day \in Day
    BY <2>1 DEF Belongs
  <2> HIDE DEF task
  <2>4. /\ T[i] \in TaskRow /\ T[i].series = s /\ T[i].rule = task.rule /\ T[i].day = task.day
        /\ T[i].status = task.status /\ T[i].from = task.from /\ T[i].exception
    BY <1>8, <2>1, <2>2 DEF TaskRow
  <2>5. Covers(n, task.day)
    <3>1. n.start \in Nat /\ d \in Nat /\ task.day \in Nat /\ task.day <= Forever
      BY <1>13, <1>14, <2>3, SegmentTypes, Days DEF Rows
    <3>2. QED
      BY <1>13, <2>1, <3>1 DEF Covers
  <2>6. Belongs(T[i], R)
    BY <1>13, <1>14, <2>1, <2>3, <2>4, <2>5 DEF Belongs
  <2>7. Rewrites(task, T[i])
    BY <1>8, <2>1, <2>4 DEF Rewrites, Occurs
  <2>8. QED
    BY <2>4, <2>6, <2>7 DEF task
<1>18. ASSUME NEW i \in DOMAIN T \ later
       PROVE  /\ T[i] = db.tasks[i] /\ i \in DOMAIN db.tasks
              /\ Occurs(T[i]) => Belongs(T[i], R)
  <2>1. T[i] = db.tasks[i] /\ i \in DOMAIN db.tasks
    BY <1>15
  <2>2. Occurs(T[i]) => Belongs(T[i], db.series)
    BY <2>1 DEF Sound, Members
  <2>3. QED
    BY <1>6, <1>13, <2>1, <2>2
<1>19. Members(T, R)
  BY <1>17, <1>18 DEF Members
<1>20. Rewrote(e, gone)
  <2>1. Rows(T, Id, TaskRow)
    BY <1>8, <1>15, <1>17, <1>18 DEF Rows
  <2>2. \A i \in DOMAIN T : Rewrites(db.tasks[i], T[i])
    BY <1>17, <1>18 DEF Rewrites
  <2>3. QED
    BY <1>9, <1>13, <1>15, <1>16, <2>1, <2>2 DEF Rewrote
<1>21. Sound(e, removed)
  BY <1>13, <1>16, <1>19, <1>20, RewrittenSound
<1>22. ASSUME NEW j \in DOMAIN db.tasks \cap gone
       PROVE  Unasked(db, e, db.tasks[j])
  <2> SUFFICES ASSUME NEW u \in DOMAIN db.series \cap DOMAIN R, R[u].rule = db.tasks[j].rule
               PROVE  ~RecursOn(R[u], db.tasks[j].day)
    BY <1>16 DEF Unasked
  <2>1. /\ db.tasks[j].day > d /\ db.tasks[j].day \in Day /\ Belongs(db.tasks[j], db.series)
        /\ db.tasks[j].series \in {s} \cup Successors(db, s)
    BY <1>5, <1>7 DEF Belongs
  <2>2. CASE u = s
    <3>1. ~(db.tasks[j].day <= d)
      BY <2>1, Days
    <3>2. QED
      BY <1>13, <2>1, <2>2, <3>1
  <2>3. CASE u # s
    <3>1. u # db.tasks[j].series /\ db.series[u].rule = db.tasks[j].rule /\ R[u] = db.series[u]
      BY <1>13, <2>1, <2>3
    <3>2. QED
      BY <2>1, <3>1, OnlyItsSegment
  <2>4. QED
    BY <2>2, <2>3
<1>23. Framed(db, e, touched)
  <2>1. gone \subseteq touched.tasks /\ touched.series \subseteq Series
    BY <1>2, <1>7, <1>8 DEF Rows, Successors
  <2>2. \A i \in DOMAIN e.tasks \ touched.tasks : e.tasks[i] = db.tasks[i]
    BY <1>2, <1>16, <1>18
  <2>3. \A u \in Series \ touched.series :
          /\ u \in DOMAIN db.series <=> u \in DOMAIN e.series
          /\ u \in DOMAIN db.series => e.series[u] = db.series[u]
    BY <1>2, <1>13, <1>16
  <2>4. QED
    BY <1>2, <1>13, <1>16, <1>20, <1>22, <2>1, <2>2, <2>3, RewrittenFramed
<1>24. ChangesOnly(e, later, {s} \cup Successors(db, s), gone)
  <2>1. \A i \in DOMAIN db.tasks \ later : i \in DOMAIN T /\ T[i] = db.tasks[i]
    BY <1>7, <1>15
  <2>2. \A u \in DOMAIN db.series \ ({s} \cup Successors(db, s)) :
          u \in DOMAIN R /\ R[u] = db.series[u]
    BY <1>13
  <2>3. db.focus \ e.focus \subseteq FocusOf(db, gone) /\ db.links \ e.links \subseteq gone
    BY <1>9, <1>16 DEF FocusOf
  <2>4. QED
    BY <1>16, <2>1, <2>2, <2>3 DEF ChangesOnly
<1>25. QED
  BY <1>1, <1>21, <1>23, <1>24 DEF Gives, Result, later, gone

----------------------------------------------------------------------------
(* Undo.                                                                   *)

RestoredRows(f, g, S, ids, row, n, h) ==
  /\ DOMAIN n = S /\ CreatedIn(n) = S \ DOMAIN g
  /\ DOMAIN h = (S \cap DOMAIN g) \cup (DOMAIN f \ (S \ DOMAIN g))
  /\ \A i \in S \cap DOMAIN g : h[i] = g[i]
  /\ \A i \in DOMAIN h \ S : h[i] = f[i]
  /\ h = [i \in DOMAIN h |-> h[i]]
  /\ Rows(h, ids, row)

LEMMA Restoring ==
  ASSUME NEW f, NEW g, NEW S, NEW ids, NEW row, Rows(f, ids, row), Rows(g, ids, row), None \notin row,
         NEW n, n = Snapshot(g, S), NEW h, h = Restored(f, n)
  PROVE  RestoredRows(f, g, S, ids, row, n, h)
<1>1. DOMAIN n = S /\ \A i \in S : n[i] = IF i \in DOMAIN g THEN g[i] ELSE None
  BY DEF Snapshot
<1>2. \A i \in DOMAIN g : g[i] \in row /\ g[i] # None
  BY DEF Rows
<1>3. CreatedIn(n) = S \ DOMAIN g
  BY <1>1, <1>2 DEF CreatedIn
<1> DEFINE c == S \ DOMAIN g
           p == Without(n, c)
           q == Without(f, c)
<1>4. h = Over(p, q)
  BY <1>3 DEF Restored
<1>5. DOMAIN p = S \cap DOMAIN g /\ \A i \in DOMAIN p : p[i] = g[i]
  BY <1>1 DEF Without
<1>6. DOMAIN q = DOMAIN f \ c /\ \A i \in DOMAIN q : q[i] = f[i]
  BY DEF Without
<1> HIDE DEF p, q
<1>7. /\ DOMAIN h = DOMAIN p \cup DOMAIN q /\ h = [i \in DOMAIN h |-> h[i]]
      /\ \A i \in DOMAIN h : h[i] = IF i \in DOMAIN p THEN p[i] ELSE q[i]
  BY <1>4 DEF Over
<1>8. \A i \in DOMAIN f : f[i] \in row
  BY DEF Rows
<1>9. DOMAIN h \subseteq ids /\ \A i \in DOMAIN h : h[i] \in row
  BY <1>2, <1>5, <1>6, <1>7, <1>8 DEF Rows
<1>10. Rows(h, ids, row)
  BY <1>7, <1>9 DEF Rows
<1>11. DOMAIN h = (S \cap DOMAIN g) \cup (DOMAIN f \ (S \ DOMAIN g))
  BY <1>5, <1>6, <1>7
<1>12. \A i \in S \cap DOMAIN g : h[i] = g[i]
  BY <1>5, <1>7
<1>13. \A i \in DOMAIN h \ S : h[i] = f[i]
  BY <1>5, <1>6, <1>7
<1>14. QED
  BY <1>1, <1>3, <1>7, <1>10, <1>11, <1>12, <1>13 DEF RestoredRows

(* What is back after an undo: everything there was, and tasks that the    *)
(* rules ask for.                                                          *)
IsBack(b, d, e) ==
  /\ \A i \in DOMAIN b.tasks : i \in DOMAIN e.tasks /\ e.tasks[i] = b.tasks[i]
  /\ \A i \in DOMAIN e.tasks \ DOMAIN b.tasks :
       /\ e.tasks[i].series \in DOMAIN b.series
       /\ RecursOn(b.series[e.tasks[i].series], e.tasks[i].day)
  /\ e.series = b.series /\ e.focus = b.focus
  /\ \A i \in b.links : i \in e.links \/ i \in DOMAIN d.tasks

LEMMA BackAgain ==
  ASSUME NEW b, NEW had, Sound(b, had), NEW d, NEW gone, Sound(d, gone),
         NEW touched, Framed(b, d, touched), NEW of, of = ChangesOf(b, touched),
         CanPutBack(d, of), NEW e, e = PutBack(d, of)
  PROVE  Sound(e, had) /\ IsBack(b, d, e)
<1> DEFINE M == MadeSince(d, of)
           k == DropTasks(d, M)
           T == Restored(k.tasks, of.tasks)
           R == Restored(k.series, of.series)
           F == k.focus \cup of.focus
           L == (k.links \ CreatedIn(of.tasks)) \cup of.links
<1>1. e = [k EXCEPT !.links = L, !.tasks = T, !.series = R, !.focus = F]
  <2> DEFINE c == [k EXCEPT !.links = @ \ CreatedIn(of.tasks)]
  <2>1. e = [c EXCEPT !.tasks = Restored(@, of.tasks), !.series = Restored(@, of.series),
                      !.focus = @ \cup of.focus, !.links = @ \cup of.links]
    BY DEF PutBack
  <2> DEFINE L1 == k.links \ CreatedIn(of.tasks)
  <2>2. c = [k EXCEPT !.links = L1]
    OBVIOUS
  <2>3. k = [x \in DOMAIN k |-> k[x]] /\ DOMAIN k = Part
    <3>1. IsDatabase(d)
      BY DEF Sound, Typed
    <3>2. IsDatabase(k)
      BY <3>1, WhatDrops
    <3>3. QED
      BY <3>2 DEF IsDatabase
  <2> HIDE DEF c, k, L1
  <2>4. c.tasks = k.tasks /\ c.series = k.series /\ c.focus = k.focus /\ c.links = L1
    BY <2>2, <2>3 DEF Part
  <2>5. e = [c EXCEPT !.tasks = T, !.series = R, !.focus = F, !.links = L]
    BY <2>1, <2>4 DEF L1
  <2> HIDE DEF T, R, F, L
  <2>6. e = [k EXCEPT !.links = L, !.tasks = T, !.series = R, !.focus = F]
    BY <2>2, <2>3, <2>5 DEF Part
  <2>7. QED
    BY <2>6
<1>2. /\ IsDatabase(d) /\ Rows(d.tasks, Id, TaskRow) /\ Rows(d.series, Series, SeriesRow)
      /\ Rows(b.tasks, Id, TaskRow) /\ Rows(b.series, Series, SeriesRow)
      /\ b.focus \subseteq [date : Day, task : Id] /\ d.links \subseteq DOMAIN d.tasks
      /\ b.links \subseteq DOMAIN b.tasks /\ had \subseteq Series \X Day
      /\ None \notin TaskRow /\ None \notin SeriesRow /\ None \notin Series
  BY IdAssumption DEF Sound, Typed
<1>3. /\ of.tasks = Snapshot(b.tasks, touched.tasks) /\ of.series = Snapshot(b.series, touched.series)
      /\ of.focus = touched.focus /\ of.links = touched.links
  BY DEF ChangesOf
<1>4. /\ IsDatabase(k) /\ k.tasks = Without(d.tasks, M) /\ k.series = d.series
      /\ k.focus = d.focus \ FocusOf(d, M) /\ k.links = d.links \ M
  BY <1>2, WhatDrops
<1> HIDE DEF k
<1>5. /\ Rows(k.tasks, Id, TaskRow) /\ DOMAIN k.tasks = DOMAIN d.tasks \ M
      /\ \A i \in DOMAIN k.tasks : k.tasks[i] = d.tasks[i]
  BY <1>2, <1>4 DEF Without, Rows
<1>6. /\ DOMAIN of.tasks = touched.tasks /\ CreatedIn(of.tasks) = touched.tasks \ DOMAIN b.tasks
      /\ DOMAIN T = (touched.tasks \cap DOMAIN b.tasks)
                      \cup (DOMAIN k.tasks \ (touched.tasks \ DOMAIN b.tasks))
      /\ \A i \in touched.tasks \cap DOMAIN b.tasks : T[i] = b.tasks[i]
      /\ \A i \in DOMAIN T \ touched.tasks : T[i] = k.tasks[i]
      /\ Rows(T, Id, TaskRow)
  <2> DEFINE f == k.tasks
             g == b.tasks
             S == touched.tasks
             n == of.tasks
  <2>1. Rows(f, Id, TaskRow) /\ Rows(g, Id, TaskRow) /\ None \notin TaskRow /\ n = Snapshot(g, S)
        /\ T = Restored(f, n)
    BY <1>2, <1>3, <1>5
  <2> HIDE DEF f, g, S, n, T
  <2>2. RestoredRows(f, g, S, Id, TaskRow, n, T)
    BY <2>1, Restoring
  <2>3. QED
    BY <2>2 DEF f, g, S, n, RestoredRows
<1>7. /\ CreatedIn(of.series) = touched.series \ DOMAIN b.series
      /\ DOMAIN R = (touched.series \cap DOMAIN b.series)
                      \cup (DOMAIN d.series \ (touched.series \ DOMAIN b.series))
      /\ \A i \in touched.series \cap DOMAIN b.series : R[i] = b.series[i]
      /\ \A i \in DOMAIN R \ touched.series : R[i] = d.series[i]
      /\ R = [i \in DOMAIN R |-> R[i]]
  <2> DEFINE f == d.series
             g == b.series
             S == touched.series
             n == of.series
  <2>1. Rows(f, Series, SeriesRow) /\ Rows(g, Series, SeriesRow) /\ None \notin SeriesRow
        /\ n = Snapshot(g, S) /\ R = Restored(f, n)
    BY <1>2, <1>3, <1>4
  <2> HIDE DEF f, g, S, n, R
  <2>2. RestoredRows(f, g, S, Series, SeriesRow, n, R)
    BY <2>1, Restoring
  <2>3. QED
    BY <2>2 DEF f, g, S, n, RestoredRows
<1> HIDE DEF T, R, F, L
<1>8. /\ IsDatabase(e) /\ e.tasks = T /\ e.series = R /\ e.focus = F /\ e.links = L
  BY <1>1, <1>4 DEF IsDatabase, Part
<1>9. R = b.series
  <2>1. touched.series \subseteq Series /\ DOMAIN b.series \subseteq Series /\ DOMAIN d.series \subseteq Series
    BY <1>2 DEF Framed, Rows
  <2>2. \A u \in Series \ touched.series :
          /\ u \in DOMAIN b.series <=> u \in DOMAIN d.series
          /\ u \in DOMAIN b.series => d.series[u] = b.series[u]
    BY DEF Framed
  <2>3. DOMAIN R = DOMAIN b.series /\ \A u \in DOMAIN R : R[u] = b.series[u]
    BY <1>7, <2>1, <2>2
  <2>4. b.series = [u \in DOMAIN b.series |-> b.series[u]]
    BY <1>2 DEF Rows
  <2>5. QED
    BY <1>7, <2>3, <2>4
<1>10. \A i \in M : /\ i \in DOMAIN d.tasks /\ i \notin touched.tasks
                    /\ d.tasks[i].series \in touched.series \ DOMAIN b.series
  BY <1>6, <1>7 DEF MadeSince
<1>11. \A i \in DOMAIN d.tasks \ touched.tasks :
         d.tasks[i].series \in touched.series \ DOMAIN b.series => i \in M
  BY <1>6, <1>7 DEF MadeSince
<1> HIDE DEF M
<1>12. M \cap DOMAIN b.tasks = {}
  <2> SUFFICES ASSUME NEW i \in M, i \in DOMAIN b.tasks
               PROVE  FALSE
    OBVIOUS
  <2>1. b.tasks[i] = d.tasks[i]
    BY <1>10 DEF Framed
  <2>2. touched.series \subseteq Series
    BY DEF Framed
  <2>3. Occurs(b.tasks[i])
    BY <1>2, <1>10, <2>1, <2>2 DEF Occurs
  <2>4. Belongs(b.tasks[i], b.series)
    BY <2>3 DEF Sound, Members
  <2>5. QED
    BY <1>10, <2>1, <2>4 DEF Belongs
<1>13. \A i \in DOMAIN b.tasks : i \in DOMAIN T /\ T[i] = b.tasks[i]
  <2> SUFFICES ASSUME NEW i \in DOMAIN b.tasks
               PROVE  i \in DOMAIN T /\ T[i] = b.tasks[i]
    OBVIOUS
  <2>1. CASE i \in touched.tasks
    BY <1>6, <2>1
  <2>2. CASE i \notin touched.tasks
    <3>1. i \in DOMAIN d.tasks /\ d.tasks[i] = b.tasks[i]
      BY <2>2 DEF Framed
    <3>2. i \in DOMAIN k.tasks /\ k.tasks[i] = b.tasks[i]
      BY <1>5, <1>12, <3>1
    <3>3. QED
      BY <1>6, <2>2, <3>2
  <2>3. QED
    BY <2>1, <2>2
<1>14. ASSUME NEW i \in DOMAIN T \ DOMAIN b.tasks
       PROVE  /\ i \in DOMAIN d.tasks /\ T[i] = d.tasks[i] /\ Occurs(T[i])
              /\ T[i].series \in DOMAIN d.series \cap DOMAIN b.series
              /\ d.series[T[i].series].rule = T[i].rule
              /\ RecursOn(d.series[T[i].series], T[i].day) /\ T[i].day \in Day
              /\ RecursOn(b.series[T[i].series], T[i].day)
              /\ Belongs(T[i], b.series)
  <2>1. i \notin touched.tasks /\ i \notin M /\ i \in DOMAIN d.tasks /\ T[i] = d.tasks[i]
    BY <1>5, <1>6
  <2> DEFINE u == T[i].series
  <2>2. Occurs(T[i]) /\ ~Kept(T[i])
    BY <2>1 DEF Framed
  <2>3. Belongs(T[i], d.series)
    BY <2>1, <2>2 DEF Sound, Members
  <2>4. /\ u \in DOMAIN d.series /\ d.series[u].rule = T[i].rule /\ T[i].day \in Day
        /\ RecursOn(d.series[u], T[i].day) /\ T[i].from = T[i].day
    BY <2>2, <2>3 DEF Belongs, Kept
  <2>5. u \in Series
    BY <1>2, <2>4 DEF Rows
  <2>6. u \in DOMAIN b.series
    <3>1. CASE u \in touched.series
      BY <1>11, <2>1, <3>1
    <3>2. CASE u \notin touched.series
      BY <2>4, <2>5, <3>2 DEF Framed
    <3>3. QED
      BY <3>1, <3>2
  <2>7. b.series[u].rule = T[i].rule /\ RecursOn(b.series[u], T[i].day)
    BY <2>4, <2>6 DEF Framed
  <2>8. Belongs(T[i], b.series)
    BY <2>4, <2>6, <2>7 DEF Belongs, Covers, RecursOn
  <2>9. QED
    BY <2>1, <2>2, <2>4, <2>6, <2>7, <2>8
<1>15. F = b.focus
  <2>1. b.focus = d.focus \cup touched.focus
    BY DEF Framed
  <2>2. \A r \in b.focus : r.task \in DOMAIN b.tasks
    BY DEF Sound, Placed, Focusable
  <2>3. FocusOf(d, M) = {}
    BY <1>12, <2>1, <2>2 DEF FocusOf
  <2>4. QED
    BY <1>3, <1>4, <2>1, <2>3 DEF F
<1>16. L \subseteq DOMAIN T
  <2> SUFFICES ASSUME NEW i \in L PROVE i \in DOMAIN T
    OBVIOUS
  <2>1. CASE i \in touched.links
    BY <1>2, <1>13, <2>1 DEF Framed
  <2>2. CASE i \in d.links \ M /\ i \notin touched.tasks \ DOMAIN b.tasks
    BY <1>2, <1>5, <1>6, <2>2
  <2>3. QED
    BY <1>3, <1>4, <1>6, <2>1, <2>2 DEF L
<1>17. \A i \in b.links : i \in L \/ i \in DOMAIN d.tasks
  BY <1>2, <1>3 DEF Framed, L
<1>18. Members(T, b.series)
  BY <1>13, <1>14 DEF Sound, Members
<1>19. Keyed(T)
  <2>1. ASSUME NEW i \in DOMAIN T \ DOMAIN b.tasks, NEW j \in DOMAIN b.tasks, SameKey(T[i], T[j])
        PROVE  FALSE
    <3>1. Occurs(b.tasks[j]) /\ T[i].rule = b.tasks[j].rule /\ T[i].day = b.tasks[j].day
      BY <1>13, <2>1 DEF SameKey
    <3>2. CASE j \in DOMAIN d.tasks /\ SameKey(d.tasks[j], b.tasks[j])
      <4>1. SameKey(d.tasks[i], d.tasks[j]) /\ i \in DOMAIN d.tasks
        BY <1>14, <3>1, <3>2 DEF SameKey
      <4>2. i = j
        BY <3>2, <4>1 DEF Sound, Keyed
      <4>3. QED
        BY <4>2
    <3>3. CASE Unasked(b, d, b.tasks[j])
      BY <1>14, <3>1, <3>3 DEF Unasked
    <3>4. QED
      BY <3>1, <3>2, <3>3 DEF Framed
  <2>2. ASSUME NEW i \in DOMAIN T, NEW j \in DOMAIN T, SameKey(T[i], T[j])
        PROVE  i = j
    <3>1. CASE i \in DOMAIN b.tasks /\ j \in DOMAIN b.tasks
      BY <1>13, <2>2, <3>1 DEF Sound, Keyed
    <3>2. CASE i \notin DOMAIN b.tasks /\ j \notin DOMAIN b.tasks
      BY <1>14, <2>2, <3>2 DEF Sound, Keyed
    <3>3. SameKey(T[j], T[i])
      BY <2>2 DEF SameKey
    <3>4. QED
      BY <2>1, <2>2, <3>1, <3>2, <3>3
  <2>3. ASSUME NEW i \in DOMAIN T, i \in Series \X Day
        PROVE  Occurs(T[i]) /\ i = OccurrenceId(T[i].rule, T[i].day)
    <3>1. CASE i \in DOMAIN b.tasks
      BY <1>13, <2>3, <3>1 DEF Sound, Keyed
    <3>2. CASE i \notin DOMAIN b.tasks
      BY <1>14, <2>3, <3>2 DEF Sound, Keyed
    <3>3. QED
      BY <3>1, <3>2
  <2>4. QED
    BY <2>2, <2>3 DEF Keyed
<1>20. Absent(T, had)
  <2> SUFFICES ASSUME NEW i \in DOMAIN T, Occurs(T[i]), <<T[i].rule, T[i].day>> \in had
               PROVE  FALSE
    BY DEF Absent
  <2>1. CASE i \in DOMAIN b.tasks
    BY <1>13, <2>1 DEF Sound, Absent
  <2>2. CASE i \notin DOMAIN b.tasks
    <3> DEFINE x == T[i].day
               v == T[i].series
    <3>1. PICK u \in DOMAIN b.series :
            b.series[u].rule = T[i].rule /\ Covers(b.series[u], x) /\ x \in b.series[u].excluded
      BY DEF Sound, Excludes
    <3>2. Belongs(T[i], b.series) /\ RecursOn(b.series[v], x)
      BY <1>14, <2>2
    <3>3. v \in DOMAIN b.series /\ b.series[v].rule = T[i].rule /\ Covers(b.series[v], x)
      BY <3>2 DEF Belongs
    <3>4. x \in b.series[v].excluded
      BY <3>1, <3>3 DEF Sound, Agreed
    <3>5. QED
      BY <3>2, <3>4 DEF RecursOn
  <2>3. QED
    BY <2>1, <2>2
<1>21. Placed(T, b.focus)
  BY <1>13 DEF Sound, Placed, Focusable
<1>22. Typed(e)
  BY <1>2, <1>6, <1>8, <1>9, <1>15 DEF Typed
<1>23. Sound(e, had)
  BY <1>2, <1>8, <1>9, <1>15, <1>16, <1>18, <1>19, <1>20, <1>21, <1>22 DEF Sound
<1>24. IsBack(b, d, e)
  BY <1>8, <1>9, <1>13, <1>14, <1>15, <1>17 DEF IsBack
<1>25. QED
  BY <1>23, <1>24

----------------------------------------------------------------------------
(* Every step keeps the invariant. *)

LEMMA BlankSound == Sound(Blank, {})
<1>1. /\ Blank.tasks = <<>> /\ Blank.series = <<>> /\ Blank.focus = {} /\ Blank.links = {}
      /\ IsDatabase(Blank)
  BY DEF Blank, IsDatabase, Part
<1>2. DOMAIN <<>> = {}
  OBVIOUS
<1>3. Rows(<<>>, Id, TaskRow) /\ Rows(<<>>, Series, SeriesRow)
  BY <1>2 DEF Rows
<1>4. Typed(Blank)
  BY <1>1, <1>3 DEF Typed
<1>5. Segmented(<<>>) /\ Agreed(<<>>) /\ Members(<<>>, <<>>) /\ Keyed(<<>>)
  BY <1>2 DEF Segmented, Agreed, Members, Keyed
<1>6. Excludes(<<>>, {}) /\ Absent(<<>>, {}) /\ Placed(<<>>, {})
  BY <1>2 DEF Excludes, Absent, Placed
<1>7. Limited({})
  <2> SUFFICES ASSUME NEW x \in Day
               PROVE  LET on == {r \in {} : r.date = x} IN IsFiniteSet(on) /\ Cardinality(on) <= MaxFocus
    BY DEF Limited
  <2>1. {r \in {} : r.date = x} = {}
    OBVIOUS
  <2>2. QED
    BY <2>1, FS_EmptySet, ChoicesAssumption
<1>8. QED
  BY <1>1, <1>4, <1>5, <1>6, <1>7 DEF Sound

LEMMA FramedBy ==
  ASSUME NEW b, NEW d, NEW p, NEW q, Framed(b, d, p),
         q.tasks = p.tasks, q.series = p.series, q.focus = p.focus, q.links = p.links
  PROVE  Framed(b, d, q)
BY DEF Framed

LEMMA WhatIsTouched ==
  ASSUME NEW d, NEW touched, NEW of, of = ChangesOf(d, touched)
  PROVE  /\ Touched(of).tasks = touched.tasks /\ Touched(of).series = touched.series
         /\ Touched(of).focus = touched.focus /\ Touched(of).links = touched.links
         /\ of = ChangesOf(d, Touched(of))
<1>1. /\ of.tasks = Snapshot(d.tasks, touched.tasks) /\ of.series = Snapshot(d.series, touched.series)
      /\ of.focus = touched.focus /\ of.links = touched.links
  BY DEF ChangesOf
<1>2. DOMAIN of.tasks = touched.tasks /\ DOMAIN of.series = touched.series
  BY <1>1 DEF Snapshot
<1>3. /\ Touched(of).tasks = touched.tasks /\ Touched(of).series = touched.series
      /\ Touched(of).focus = touched.focus /\ Touched(of).links = touched.links
  BY <1>1, <1>2 DEF Touched
<1>4. QED
  BY <1>3 DEF ChangesOf

LEMMA Executed ==
  ASSUME PlannerInv, NEW result, Execute(result), Gives(result, removed')
  PROVE  PlannerInv'
<1>1. db' = result.db /\ today' = today /\ Sound(db', removed') /\ today' \in Day
  BY DEF Execute, Gives, PlannerInv
<1>2. CASE result.touched = Nothing
  <2>1. undo'.held = FALSE
    BY <1>2 DEF Execute, Publish, NoUndo
  <2>2. QED
    BY <1>1, <2>1 DEF PlannerInv, Undoable
<1>3. CASE result.touched # Nothing
  <2>1. /\ undo'.of = ChangesOf(db, result.touched)
        /\ before'.db = db /\ before'.removed = removed
    BY <1>3 DEF Execute, Publish
  <2>2. Framed(db, db', result.touched)
    BY <1>1, <1>3 DEF Gives
  <2>3. Framed(db, db', Touched(undo'.of)) /\ undo'.of = ChangesOf(db, Touched(undo'.of))
    BY <2>1, <2>2, WhatIsTouched, FramedBy
  <2>4. Sound(db, removed)
    BY DEF PlannerInv
  <2>5. Undoable'
    BY <2>1, <2>3, <2>4 DEF Undoable
  <2>6. QED
    BY <1>1, <2>5 DEF PlannerInv
<1>4. QED
  BY <1>2, <1>3

LEMMA Linked ==
  ASSUME Sound(db, removed), NEW t \in Tasks, NEW e,
         e = [db EXCEPT !.links = IF t \in @ THEN @ \ {t} ELSE @ \cup {t}]
  PROVE  /\ Sound(e, removed)
         /\ \A b, touched : Framed(b, db, touched) => Framed(b, e, touched)
<1> DEFINE L == IF t \in db.links THEN db.links \ {t} ELSE db.links \cup {t}
<1>1. /\ IsDatabase(db) /\ db.links \subseteq DOMAIN db.tasks /\ t \in DOMAIN db.tasks
  BY SoundFacts DEF Tasks
<1>2. e = [db EXCEPT !.links = L] /\ L \subseteq DOMAIN db.tasks /\ db.links \subseteq L \cup {t}
  BY <1>1
<1> HIDE DEF L
<1>3. /\ IsDatabase(e) /\ e.tasks = db.tasks /\ e.series = db.series
      /\ e.focus = db.focus /\ e.links = L
  BY <1>1, <1>2 DEF IsDatabase, Part
<1>4. Typed(e)
  BY <1>3 DEF Sound, Typed
<1>5. Sound(e, removed)
  BY <1>2, <1>3, <1>4 DEF Sound
<1>6. ASSUME NEW b, NEW touched, Framed(b, db, touched)
      PROVE  Framed(b, e, touched)
  <2>1. \A i \in b.links : i \in e.links \cup touched.links \cup DOMAIN e.tasks
    BY <1>1, <1>2, <1>3, <1>6 DEF Framed
  <2>2. \A task : Unasked(b, db, task) => Unasked(b, e, task)
    BY <1>3 DEF Unasked
  <2>3. QED
    BY <1>3, <1>6, <2>1, <2>2 DEF Framed
<1>7. QED
  BY <1>5, <1>6

LEMMA WindowDays == \A n, d : Window(today, n, d) \subseteq Day
BY DEF Window

LEMMA SlotDays == \A slot \in Slot : slot[1] \in Day /\ slot[2] \in Day
BY ChoicesAssumption

LEMMA TaskStepKeeps ==
  ASSUME PlannerInv, NEW t \in Tasks, TaskStep(t)
  PROVE  PlannerInv'
<1>1. Sound(db, removed) /\ today \in Day
  BY DEF PlannerInv
<1>2. CASE Edit(t)
  <2>1. PICK slot \in Slot : /\ Execute(EditTask(db, t, 1, slot[1], slot[2]))
                             /\ removed' = removed
    BY <1>2 DEF Edit
  <2>2. Gives(EditTask(db, t, 1, slot[1], slot[2]), removed')
    BY <1>1, <2>1, SlotDays, EditGives
  <2>3. QED
    BY <2>1, <2>2, Executed
<1>3. CASE Retitle(t)
  <2>1. Execute(RetitleTask(db, t, 1 - db.tasks[t].text)) /\ removed' = removed
    BY <1>3 DEF Retitle
  <2>2. db.tasks[t].text \in {0, 1}
    BY <1>1, SoundFacts DEF TaskRow
  <2>3. 1 - db.tasks[t].text \in {0, 1}
    BY <2>2
  <2>4. Gives(RetitleTask(db, t, 1 - db.tasks[t].text), removed')
    BY <1>1, <2>1, <2>3, RetitleGives
  <2>5. QED
    BY <2>1, <2>4, Executed
<1>4. CASE Complete(t)
  <2>1. Execute(CompleteTask(db, t)) /\ removed' = removed
    BY <1>4 DEF Complete
  <2>2. Gives(CompleteTask(db, t), removed')
    BY <1>1, <2>1, CompleteGives
  <2>3. QED
    BY <2>1, <2>2, Executed
<1>5. CASE Reopen(t)
  <2>1. Execute(ReopenTask(db, t)) /\ removed' = removed
    BY <1>5 DEF Reopen
  <2>2. Gives(ReopenTask(db, t), removed')
    BY <1>1, <2>1, ReopenGives
  <2>3. QED
    BY <2>1, <2>2, Executed
<1>6. CASE Delete(t)
  <2>1. Execute(DeleteTask(db, t)) /\ Gives(DeleteTask(db, t), removed')
    BY <1>1, <1>6, DeleteGives DEF Delete
  <2>2. QED
    BY <2>1, Executed
<1>7. CASE Focus(t)
  <2>1. CanFocus(db, t, today) /\ Execute(SetTodayFocus(db, t, today)) /\ removed' = removed
    BY <1>7 DEF Focus
  <2>2. Gives(SetTodayFocus(db, t, today), removed')
    BY <1>1, <2>1, FocusGives
  <2>3. QED
    BY <2>1, <2>2, Executed
<1>8. CASE Unfocus(t)
  <2>1. Execute(RemoveTodayFocus(db, t, today)) /\ removed' = removed
    BY <1>8 DEF Unfocus
  <2>2. Gives(RemoveTodayFocus(db, t, today), removed')
    BY <1>1, <2>1, UnfocusGives
  <2>3. QED
    BY <2>1, <2>2, Executed
<1>9. CASE Repeat(t)
  <2>1. PICK s \in Unused, d \in Day, pattern \in Pattern :
          /\ CanRepeat(db, t, s, d, pattern)
          /\ Execute(RepeatTask(db, t, s, d, pattern))
          /\ removed' = removed
    BY <1>9 DEF Repeat
  <2>2. Free(s)
    BY UnusedFree
  <2>3. Gives(RepeatTask(db, t, s, d, pattern), removed')
    BY <1>1, <2>1, <2>2, RepeatGives
  <2>4. QED
    BY <2>1, <2>3, Executed
<1>10. CASE Link(t)
  <2>1. /\ db' = [db EXCEPT !.links = IF t \in @ THEN @ \ {t} ELSE @ \cup {t}]
        /\ UNCHANGED <<today, undo, changes, removed, before>>
    BY <1>10 DEF Link
  <2>2. /\ Sound(db', removed)
        /\ \A b, touched : Framed(b, db, touched) => Framed(b, db', touched)
    BY <1>1, <2>1, Linked
  <2>3. Undoable'
    BY <2>1, <2>2 DEF PlannerInv, Undoable
  <2>4. QED
    BY <1>1, <2>1, <2>2, <2>3 DEF PlannerInv
<1>11. QED
  BY <1>2, <1>3, <1>4, <1>5, <1>6, <1>7, <1>8, <1>9, <1>10 DEF TaskStep

LEMMA RuleStepKeeps ==
  ASSUME PlannerInv, NEW s \in Rules, UpdateRule(s) \/ StopRule(s)
  PROVE  PlannerInv'
<1>1. Sound(db, removed) /\ today \in Day
  BY DEF PlannerInv
<1>2. CASE UpdateRule(s)
  <2>1. PICK new \in Unused, d \in Day, pattern \in Pattern, end \in End :
          /\ CanUpdate(db, s, new, d, 1, pattern, end)
          /\ Execute(UpdateSeries(db, s, new, d, 1, pattern, end, Window(today, Ahead, today)))
          /\ removed' = removed
    BY <1>2 DEF UpdateRule
  <2>2. Free(new) /\ end \in 1..Forever /\ Window(today, Ahead, today) \in SUBSET Day
    BY UnusedFree, WindowDays, ChoicesAssumption
  <2>3. Gives(UpdateSeries(db, s, new, d, 1, pattern, end, Window(today, Ahead, today)), removed')
    BY <1>1, <2>1, <2>2, UpdateGives
  <2>4. QED
    BY <2>1, <2>3, Executed
<1>3. CASE StopRule(s)
  <2>1. PICK d \in Day : CanStop(db, s, d) /\ Execute(StopSeries(db, s, d)) /\ removed' = removed
    BY <1>3 DEF StopRule
  <2>2. Gives(StopSeries(db, s, d), removed')
    BY <1>1, <2>1, StopGives
  <2>3. QED
    BY <2>1, <2>2, Executed
<1>4. QED
  BY <1>2, <1>3

LEMMA LookKeeps ==
  ASSUME PlannerInv, NEW d \in Day, LookAt(d)
  PROVE  PlannerInv'
<1>1. Sound(db, removed) /\ today \in Day
  BY DEF PlannerInv
<1>2. /\ db' = Materialize(db, Rules, Window(today, Ahead, d))
      /\ UNCHANGED <<today, undo, changes, removed, before>>
  BY DEF LookAt
<1>3. Rules \in SUBSET DOMAIN db.series /\ Window(today, Ahead, d) \in SUBSET Day
  BY WindowDays DEF Rules
<1>4. Sound(db', removed)
  BY <1>1, <1>2, <1>3, MadeSound
<1>5. ASSUME undo.held
      PROVE  Framed(before.db, db', Touched(undo.of))
  <2>1. Framed(before.db, db, Touched(undo.of))
    BY <1>5 DEF PlannerInv, Undoable
  <2>2. QED
    BY <1>1, <1>2, <1>3, <2>1, MadeFramed
<1>6. Undoable'
  BY <1>2, <1>5 DEF PlannerInv, Undoable
<1>7. QED
  BY <1>1, <1>2, <1>4, <1>6 DEF PlannerInv

LEMMA UndoGives ==
  ASSUME PlannerInv, Undo
  PROVE  Sound(db', before.removed) /\ IsBack(before.db, db, db')
<1>1. /\ Sound(db, removed) /\ Sound(before.db, before.removed)
      /\ undo.of = ChangesOf(before.db, Touched(undo.of))
      /\ Framed(before.db, db, Touched(undo.of))
  BY DEF PlannerInv, Undoable, Undo
<1>2. CanPutBack(db, undo.of) /\ db' = PutBack(db, undo.of)
  BY DEF Undo
<1>3. QED
  BY <1>1, <1>2, BackAgain

LEMMA OtherStepKeeps ==
  ASSUME PlannerInv, CreateTasks \/ StartRule \/ Undo \/ Expire \/ Restore \/ Midnight
  PROVE  PlannerInv'
<1>1. Sound(db, removed) /\ today \in Day
  BY DEF PlannerInv
<1>2. CASE CreateTasks
  <2>1. PICK t \in Task \ Tasks, slot \in Slot :
          Execute(CreateTask(db, t, slot[1], slot[2])) /\ removed' = removed
    BY <1>2 DEF CreateTasks
  <2>2. Gives(CreateTask(db, t, slot[1], slot[2]), removed')
    BY <1>1, <2>1, SlotDays, CreateGives
  <2>3. QED
    BY <2>1, <2>2, Executed
<1>3. CASE StartRule
  <2>1. PICK s \in Unused, d \in Day, pattern \in Pattern :
          Execute(CreateSeries(db, s, d, Forever, pattern)) /\ removed' = removed
    BY <1>3 DEF StartRule
  <2>2. Gives(CreateSeries(db, s, d, Forever, pattern), removed')
    BY <1>1, <2>1, UnusedFree, StartGives
  <2>3. QED
    BY <2>1, <2>2, Executed
<1>4. CASE Undo
  <2>1. Sound(db', before.removed)
    BY <1>4, UndoGives
  <2>2. removed' = before.removed /\ undo'.held = FALSE /\ today' = today
    BY <1>4 DEF Undo, NoUndo
  <2>3. QED
    BY <1>1, <2>1, <2>2 DEF PlannerInv, Undoable
<1>5. CASE Expire
  <2>1. undo'.held = FALSE /\ UNCHANGED <<db, today, changes, removed>>
    BY <1>5 DEF Expire, NoUndo
  <2>2. QED
    BY <1>1, <2>1 DEF PlannerInv, Undoable
<1>6. CASE Restore
  <2>1. db' = Blank /\ removed' = {} /\ undo'.held = FALSE /\ today' = today
    BY <1>6 DEF Restore, NoUndo
  <2>2. QED
    BY <1>1, <2>1, BlankSound DEF PlannerInv, Undoable
<1>7. CASE Midnight
  <2>1. today' \in Day /\ UNCHANGED <<db, undo, changes, removed, before>>
    BY <1>7 DEF Midnight
  <2>2. Undoable'
    BY <2>1 DEF PlannerInv, Undoable
  <2>3. QED
    BY <1>1, <2>1, <2>2 DEF PlannerInv
<1>8. QED
  BY <1>2, <1>3, <1>4, <1>5, <1>6, <1>7

LEMMA InvInit == Init => PlannerInv
<1> SUFFICES ASSUME Init PROVE PlannerInv
  OBVIOUS
<1>1. db = Blank /\ today = 1 /\ removed = {} /\ undo.held = FALSE
  BY DEF Init, NoUndo
<1>2. QED
  BY <1>1, BlankSound, Days DEF PlannerInv, Undoable

LEMMA InvNext == PlannerInv /\ [Next]_vars => PlannerInv'
<1> SUFFICES ASSUME PlannerInv, [Next]_vars PROVE PlannerInv'
  OBVIOUS
<1>1. CASE Next
  BY <1>1, TaskStepKeeps, RuleStepKeeps, LookKeeps, OtherStepKeeps DEF Next
<1>2. CASE UNCHANGED vars
  BY <1>2 DEF vars, PlannerInv, Undoable
<1>3. QED
  BY <1>1, <1>2

----------------------------------------------------------------------------
(* Theorems. *)

(* The planner's database stays sound, and the receipt of undo is of the   *)
(* database before its command: what the commands of tasks and rules, the  *)
(* generation of occurrences and undo rely on (PlannerService).            *)
THEOREM PlannerSound == Spec => []PlannerInv
<1>1. QED
  BY InvInit, InvNext, PTL DEF Spec

LEMMA AbsentStays == PlannerInv => DeletedStays
BY DEF PlannerInv, Sound, Absent, DeletedStays, Tasks

(* The occurrence that somebody deleted never comes back, however the rule *)
(* is split, replaced or stopped afterwards, unless the deletion is undone *)
(* (deleteTask, updateRecurrenceSeries, stopRecurrenceSeries).             *)
THEOREM DeletedStaysAway == Spec => []DeletedStays
<1>1. QED
  BY PlannerSound, AbsentStays, PTL

LEMMA SegmentsIntact == PlannerInv => ChainIntact
<1> SUFFICES ASSUME PlannerInv PROVE ChainIntact
  OBVIOUS
<1>1. Sound(db, removed)
  BY DEF PlannerInv
<1>2. ASSUME NEW s \in Rules, NEW u \in Rules, NEW d \in Day, s # u,
             db.series[s].rule = db.series[u].rule,
             RecursOn(db.series[s], d), RecursOn(db.series[u], d)
      PROVE  FALSE
  <2>1. db.series[s].until < db.series[u].start \/ db.series[u].until < db.series[s].start
    BY <1>1, <1>2 DEF Sound, Segmented, Rules
  <2>2. db.series[s] \in SeriesRow /\ db.series[u] \in SeriesRow
    BY <1>1, SoundFacts
  <2>3. /\ db.series[s].start \in Nat /\ db.series[s].until \in Nat
        /\ db.series[u].start \in Nat /\ db.series[u].until \in Nat /\ d \in Nat
    BY <2>2, SegmentTypes, Days
  <2>4. QED
    BY <1>2, <2>1, <2>3 DEF RecursOn
<1>3. ASSUME NEW i \in Tasks, Occurs(db.tasks[i])
      PROVE  /\ db.tasks[i].series \in Rules
             /\ db.series[db.tasks[i].series].rule = db.tasks[i].rule
             /\ ~Kept(db.tasks[i]) => RecursOn(db.series[db.tasks[i].series], db.tasks[i].day)
  <2>1. Belongs(db.tasks[i], db.series)
    BY <1>1, <1>3 DEF Sound, Members, Tasks
  <2>2. QED
    BY <2>1 DEF Belongs, Kept, Rules
<1>4. QED
  BY <1>2, <1>3 DEF ChainIntact

(* The segments of a rule never ask for one day twice, every occurrence is *)
(* of a segment that exists, and one that nobody touched stands on a day   *)
(* its segment asks for (updateRecurrenceSeries, stopRecurrenceSeries,     *)
(* materializeRange, undo).                                                *)
THEOREM SegmentsStayIntact == Spec => []ChainIntact
<1>1. QED
  BY PlannerSound, SegmentsIntact, PTL

LEMMA FocusStaysUsable == PlannerInv => FocusUsable
<1> SUFFICES ASSUME PlannerInv PROVE FocusUsable
  OBVIOUS
<1>1. Sound(db, removed) /\ today \in Day
  BY DEF PlannerInv
<1>2. \A d \in Day : Cardinality(FocusedOn(db, d)) <= MaxFocus
  BY <1>1 DEF Sound, Limited, FocusedOn
<1>3. ASSUME NEW r \in FocusedOn(db, today)
      PROVE  r.task \in FocusShown(today)
  <2>1. r \in db.focus /\ r.date = today
    BY <1>3 DEF FocusedOn
  <2>2. Focusable(db.tasks, r)
    BY <1>1, <2>1 DEF Sound, Placed
  <2>3. r = [date |-> today, task |-> r.task]
    BY <1>1, <2>1, SoundFacts
  <2>4. r.task \in Tasks /\ db.tasks[r.task].to \in Nat /\ today \in Nat
    BY <1>1, <2>2, SoundFacts, Days DEF Focusable, Tasks, TaskRow
  <2>5. r.task \in Scheduled(today) \cup Overdue(today)
    BY <2>1, <2>2, <2>4 DEF Focusable, Scheduled, Overdue
  <2>6. QED
    BY <2>1, <2>2, <2>3, <2>5 DEF Focusable, FocusShown, StillOpen
<1>4. QED
  BY <1>2, <1>3 DEF FocusUsable

(* A day never has more focus than its limit, and what has a place in it   *)
(* is open and shown on that day (setTodayFocus, and every command that    *)
(* completes, moves, rewrites or deletes a task).                          *)
THEOREM FocusIsUsable == Spec => []FocusUsable
<1>1. QED
  BY PlannerSound, FocusStaysUsable, PTL

LEMMA UndoPutsBack == PlannerInv /\ Undo => PutsBack
<1> SUFFICES ASSUME PlannerInv, Undo PROVE PutsBack
  OBVIOUS
<1>1. IsBack(before.db, db, db')
  BY UndoGives
<1>2. QED
  BY <1>1 DEF IsBack, PutsBack, OnlyMade, Tasks

(* An undo puts the planner back as it was before the command, whatever    *)
(* was looked at, generated or linked in between; only occurrences that    *)
(* the rules ask for may have been added (undo, createChanges).            *)
THEOREM UndoPutsAllBack == Spec => UndoRestores
<1>1. PlannerInv /\ [Next]_vars => [changes' # changes /\ undo.held /\ Undo => PutsBack]_vars
  BY UndoPutsBack
<1>2. QED
  BY <1>1, PlannerSound, PTL DEF Spec, UndoRestores

----------------------------------------------------------------------------
(* Windows. *)

WindowTyped == window.kind = "stop" => window.day \in Day

LEMMA WindowTypedInit == WindowInit => WindowTyped
BY DEF WindowInit, NoWindow, WindowTyped

LEMMA Opened ==
  ASSUME NEW kind, NEW id, NEW day, NEW seen, Open(kind, id, day, seen), kind = "stop" => day \in Day
  PROVE  WindowTyped'
BY DEF Open, WindowTyped

LEMMA WindowTypedNext == WindowTyped /\ [WindowNext]_windowVars => WindowTyped'
<1> SUFFICES ASSUME WindowTyped, [WindowNext]_windowVars PROVE WindowTyped'
  OBVIOUS
<1>1. CASE UNCHANGED window
  BY <1>1 DEF WindowTyped
<1>2. CASE window' = NoWindow
  BY <1>2 DEF NoWindow, WindowTyped
<1>3. CASE \E t \in Tasks : OpenTask(t)
  BY <1>3, Opened DEF OpenTask
<1>4. CASE \E s \in Rules : OpenRule(s)
  BY <1>4, Opened DEF OpenRule
<1>5. CASE \E s \in Rules, d \in Day : PreviewStop(s, d)
  BY <1>5, Opened DEF PreviewStop
<1>6. QED
  BY <1>1, <1>2, <1>3, <1>4, <1>5
  DEF WindowNext, WindowStep, Close, SubmitTask, SubmitRule, SubmitStop, windowVars

(* A step with windows is a step of the planner. *)
LEMMA WindowStepIsStep ==
  ASSUME WindowTyped, [WindowNext]_windowVars
  PROVE  [Next]_vars
<1>1. CASE UNCHANGED vars
  BY <1>1
<1>2. CASE Next
  BY <1>2
<1>3. CASE SubmitTask
  <2>1. window.id \in Tasks /\ TaskStep(window.id)
    BY <1>3 DEF SubmitTask, TaskStep
  <2>2. QED
    BY <2>1 DEF Next
<1>4. CASE SubmitRule
  BY <1>4 DEF SubmitRule, Next
<1>5. CASE SubmitStop
  <2>1. window.id \in Rules /\ window.day \in Day /\ StopRule(window.id)
    BY <1>5 DEF SubmitStop, StopRule, WindowTyped
  <2>2. QED
    BY <2>1 DEF Next
<1>6. QED
  BY <1>1, <1>2, <1>3, <1>4, <1>5
  DEF WindowNext, WindowStep, OpenTask, OpenRule, PreviewStop, Open, Close, windowVars

SameOthers(t) == \A i \in DOMAIN db.tasks \ {t} : i \in DOMAIN db'.tasks /\ db'.tasks[i] = db.tasks[i]

LEMMA TaskWindow ==
  ASSUME Sound(db, removed), NEW t \in Tasks, Edit(t) \/ Retitle(t) \/ Repeat(t)
  PROVE  SameOthers(t)
<1>1. IsDatabase(db)
  BY SoundFacts
<1>2. CASE Edit(t)
  <2>1. PICK slot \in Slot : db' = EditTask(db, t, 1, slot[1], slot[2]).db
    BY <1>2 DEF Edit, Execute
  <2> DEFINE old == db.tasks[t]
             moves == <<old.from, old.to>> # <<slot[1], slot[2]>>
             new == IF moves THEN Moved([old EXCEPT !.text = 1], slot[1], slot[2])
                    ELSE [old EXCEPT !.text = 1, !.exception = Occurs(old)]
             T == [db.tasks EXCEPT ![t] = new]
             F == IF moves THEN db.focus \ FocusOf(db, {t}) ELSE db.focus
  <2>2. db' = [db EXCEPT !.tasks = T, !.focus = F]
    BY <2>1 DEF EditTask, Result
  <2>3. \A i \in DOMAIN db.tasks \ {t} : i \in DOMAIN T /\ T[i] = db.tasks[i]
    OBVIOUS
  <2> HIDE DEF T, F
  <2>4. db'.tasks = T
    BY <1>1, <2>2 DEF IsDatabase, Part
  <2>5. QED
    BY <2>3, <2>4 DEF SameOthers
<1>3. CASE Retitle(t)
  <2> DEFINE T == [db.tasks EXCEPT ![t] = [@ EXCEPT !.text = 1 - db.tasks[t].text,
                                                     !.exception = Occurs(db.tasks[t])]]
  <2>1. db' = [db EXCEPT !.tasks = T]
    BY <1>3 DEF Retitle, Execute, RetitleTask, Result
  <2>2. \A i \in DOMAIN db.tasks \ {t} : i \in DOMAIN T /\ T[i] = db.tasks[i]
    OBVIOUS
  <2> HIDE DEF T
  <2>3. db'.tasks = T
    BY <1>1, <2>1 DEF IsDatabase, Part
  <2>4. QED
    BY <2>2, <2>3 DEF SameOthers
<1>4. CASE Repeat(t)
  <2>1. PICK s \in Unused, d \in Day, pattern \in Pattern : db' = RepeatTask(db, t, s, d, pattern).db
    BY <1>4 DEF Repeat, Execute
  <2> DEFINE n == [NewSeries(s, d, Forever, pattern) EXCEPT !.text = db.tasks[t].text]
             R == Put(db.series, s, n)
             T == [db.tasks EXCEPT ![t] = [@ EXCEPT !.from = d, !.to = d,
                                                     !.series = s, !.rule = s, !.day = d]]
             F == IF d = db.tasks[t].from THEN db.focus ELSE db.focus \ FocusOf(db, {t})
  <2>2. db' = [db EXCEPT !.series = R, !.focus = F, !.tasks = T]
    BY <2>1 DEF RepeatTask, Result
  <2>3. \A i \in DOMAIN db.tasks \ {t} : i \in DOMAIN T /\ T[i] = db.tasks[i]
    OBVIOUS
  <2> HIDE DEF R, T, F
  <2>4. db'.tasks = T
    BY <1>1, <2>2 DEF IsDatabase, Part
  <2>5. QED
    BY <2>3, <2>4 DEF SameOthers
<1>5. QED
  BY <1>2, <1>3, <1>4

(* What is outside of the rows that were shown stays. *)
LEMMA OnlyShownRows ==
  ASSUME NEW rows, NEW new, NEW T, NEW seen, seen = Restrict(rows, T),
         \A i \in DOMAIN rows \ T : i \in DOMAIN new /\ new[i] = rows[i]
  PROVE  OnlyShown(rows, new, seen)
BY DEF OnlyShown, Restrict

LEMMA WhatIsShown ==
  ASSUME NEW S, NEW T, NEW F, NEW L
  PROVE  /\ Shown(S, T, F, L).series = Restrict(db.series, S)
         /\ Shown(S, T, F, L).tasks = Restrict(db.tasks, T)
         /\ Shown(S, T, F, L).focus = FocusOf(db, F)
         /\ Shown(S, T, F, L).links = LinksOf(db, L)
BY DEF Shown

CommitOnShown ==
  /\ OnlyShown(db.tasks, db'.tasks, window.seen.tasks)
  /\ window.kind # "task" => /\ OnlyShown(db.series, db'.series, window.seen.series)
                             /\ db.focus \ db'.focus \subseteq window.seen.focus
  /\ window.kind = "rule" => db.links \ db'.links \subseteq window.seen.links

LEMMA WindowCommits ==
  ASSUME PlannerInv, WindowTyped, WindowNext, Submitted
  PROVE  CommitOnShown
<1>1. Sound(db, removed)
  BY DEF PlannerInv
<1>2. CASE SubmitTask
  <2> DEFINE t == window.id
  <2>1. /\ window.kind = "task" /\ t \in Tasks /\ window.seen = Shown({}, {t} \cap Tasks, {}, {})
        /\ Edit(t) \/ Retitle(t) \/ Repeat(t)
    BY <1>2 DEF SubmitTask, TaskShown
  <2>2. SameOthers(t) /\ {t} \cap Tasks = {t}
    BY <1>1, <2>1, TaskWindow
  <2>3. window.seen.tasks = Restrict(db.tasks, {t})
    BY <2>1, <2>2, WhatIsShown
  <2>4. OnlyShown(db.tasks, db'.tasks, window.seen.tasks)
    BY <2>2, <2>3, OnlyShownRows DEF SameOthers
  <2>5. QED
    BY <2>1, <2>4 DEF CommitOnShown
<1>3. CASE SubmitRule
  <2> DEFINE s == window.id
             T == LogicalTail(db, s)
             S == {s} \cup Successors(db, s)
  <2>1. /\ window.kind = "rule" /\ s \in Rules /\ window.seen = Shown(S, T, T, T)
        /\ UpdateRule(s)
    BY <1>3 DEF SubmitRule, RuleShown
  <2>2. PICK new \in Unused, d \in Day, pattern \in Pattern, end \in End :
          /\ CanUpdate(db, s, new, d, 1, pattern, end)
          /\ Execute(UpdateSeries(db, s, new, d, 1, pattern, end, Window(today, Ahead, today)))
    BY <2>1 DEF UpdateRule
  <2>3. Free(new) /\ end \in 1..Forever /\ Window(today, Ahead, today) \in SUBSET Day
    BY UnusedFree, WindowDays, ChoicesAssumption
  <2>4. db' = UpdateSeries(db, s, new, d, 1, pattern, end, Window(today, Ahead, today)).db
    BY <2>2 DEF Execute
  <2>5. ChangesOnly(db', T, S, T)
    BY <1>1, <2>1, <2>2, <2>3, <2>4, UpdateGives
  <2> HIDE DEF s, T, S
  <2>6. /\ window.seen.series = Restrict(db.series, S) /\ window.seen.tasks = Restrict(db.tasks, T)
        /\ window.seen.focus = FocusOf(db, T) /\ window.seen.links = LinksOf(db, T)
    BY <2>1, WhatIsShown
  <2>7. /\ OnlyShown(db.tasks, db'.tasks, window.seen.tasks)
        /\ OnlyShown(db.series, db'.series, window.seen.series)
    BY <2>5, <2>6, OnlyShownRows DEF ChangesOnly
  <2>8. /\ db.focus \ db'.focus \subseteq window.seen.focus
        /\ db.links \ db'.links \subseteq window.seen.links
    BY <2>5, <2>6 DEF ChangesOnly, LinksOf
  <2>9. QED
    BY <2>7, <2>8 DEF CommitOnShown
<1>4. CASE SubmitStop
  <2> DEFINE s == window.id
             d == window.day
             T == Later(s, d)
             S == {s} \cup Successors(db, s)
             F == Ending(s, d)
  <2>1. /\ window.kind = "stop" /\ s \in Rules /\ d \in Day /\ CanStop(db, s, d)
        /\ window.seen = Shown(S, T, F, {})
        /\ db' = StopSeries(db, s, d).db
    BY <1>4 DEF SubmitStop, Impact, Later, Ending, Execute, WindowTyped
  <2>2. ChangesOnly(db', T, S, F)
    BY <1>1, <2>1, StopGives
  <2> HIDE DEF s, d, T, S, F
  <2>3. /\ window.seen.series = Restrict(db.series, S) /\ window.seen.tasks = Restrict(db.tasks, T)
        /\ window.seen.focus = FocusOf(db, F)
    BY <2>1, WhatIsShown
  <2>4. /\ OnlyShown(db.tasks, db'.tasks, window.seen.tasks)
        /\ OnlyShown(db.series, db'.series, window.seen.series)
    BY <2>2, <2>3, OnlyShownRows DEF ChangesOnly
  <2>5. db.focus \ db'.focus \subseteq window.seen.focus
    BY <2>2, <2>3 DEF ChangesOnly
  <2>6. QED
    BY <2>1, <2>4, <2>5 DEF CommitOnShown
<1>5. SubmitTask \/ SubmitRule \/ SubmitStop
  BY DEF WindowNext, WindowStep, OpenTask, OpenRule, PreviewStop, Open, Close, vars, Submitted, NoWindow
<1>6. QED
  BY <1>2, <1>3, <1>4, <1>5

(* A window changes only what its user has seen: no task or segment that   *)
(* another page added or changed behind it is rewritten or removed, and a  *)
(* rule takes no focus away, nor an update of it a link, that the window   *)
(* did not show (commands, recurrenceTailRevision,                         *)
(* calculateStopRecurrenceImpact).                                         *)
THEOREM WindowsCommitOnShown == WindowSpec => CommitsOnShown
<1>1. WindowInit => PlannerInv /\ WindowTyped
  BY InvInit, WindowTypedInit DEF WindowInit
<1>2. PlannerInv /\ WindowTyped /\ [WindowNext]_windowVars => (PlannerInv /\ WindowTyped)'
  BY InvNext, WindowTypedNext, WindowStepIsStep
<1>3. PlannerInv /\ WindowTyped /\ [WindowNext]_windowVars => [Submitted => CommitOnShown]_windowVars
  BY WindowCommits
<1>4. [Submitted => CommitOnShown]_windowVars
        <=> [Submitted =>
               /\ OnlyShown(db.tasks, db'.tasks, window.seen.tasks)
               /\ window.kind # "task" => /\ OnlyShown(db.series, db'.series, window.seen.series)
                                          /\ db.focus \ db'.focus \subseteq window.seen.focus
               /\ window.kind = "rule" => db.links \ db'.links \subseteq window.seen.links]_windowVars
  BY DEF CommitOnShown
<1>5. QED
  BY <1>1, <1>2, <1>3, <1>4, PTL DEF WindowSpec, CommitsOnShown

=============================================================================
