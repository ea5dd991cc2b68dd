------------------------------ MODULE NotionScan ------------------------------
(***************************************************************************)
(* Reading a Notion workspace into the store, table after table, while the *)
(* user edits, the outbox sends and people work in Notion.  The rows that  *)
(* matter are the occurrences of one recurrence rule, one for each day:    *)
(* the scan generates them, the outbox makes their pages, and a later scan *)
(* reads the pages back.  What a task says is known by the number of the   *)
(* last edit of the user that it includes.                                 *)
(***************************************************************************)
EXTENDS Naturals, FiniteSets, FiniteSetsExt, Functions

CONSTANTS
    Day,            \* the days of the window in which occurrences are made
    Reader,         \* processes that scan
    MaxEdits,       \* bound: edits of the user
    MaxRuleEdits,   \* bound: edits of the rule in Notion
    MaxScans        \* bound: attempts at a table

ASSUME ScanAssumption ==
    Day \subseteq Nat \ {0} /\ {MaxEdits, MaxRuleEdits, MaxScans} \subseteq Nat

VARIABLES
    active,     \* the connection is active under the credential of the vault
    binding,    \* changes with the credential and with the dataset
    revision,   \* the revision of the planner's data
    tasks,      \* Day -> the local task of the occurrence
    mapped,     \* Day -> "none", "create" or "page": the link of the task
    owed,       \* days with an outbox operation that is not settled
    series,     \* the local rule: its days, its mapping and generation fence
    marks,      \* table -> the last attempt and the last one that was applied
    scan,       \* Reader -> the scan under way
    pages,      \* Notion: Day -> the page of the occurrence
    copies,     \* Notion: Day -> pages made with the key of the occurrence
    rule,       \* Notion: the rule page
    edits       \* history variable: Day -> edits of the user

localVars == <<tasks, mapped, owed, series, marks, revision>>
notion == <<pages, copies, rule>>
connectionVars == <<active, binding>>
scanVars == <<connectionVars, localVars, scan, notion, edits>>

NoScan == [phase |-> "idle"]
NoTask == [here |-> FALSE, archived |-> FALSE, holds |-> 0]
NoPage == [there |-> FALSE, trash |-> FALSE, holds |-> 0]

ScanInit ==
    /\ active = TRUE /\ binding = 0 /\ revision = 0
    /\ tasks = [d \in Day |-> NoTask] /\ mapped = [d \in Day |-> "none"] /\ owed = {}
    /\ series = [known |-> FALSE, status |-> "none", days |-> {}, after |-> 0, pending |-> FALSE]
    /\ marks = [i \in 1..3 |-> [attempt |-> 0, applied |-> 0]]
    /\ scan = [p \in Reader |-> NoScan]
    /\ pages = [d \in Day |-> NoPage] /\ copies = [d \in Day |-> 0]
    /\ rule \in [days : SUBSET Day, trash : {FALSE}, edits : {0}]
    /\ edits = [d \in Day |-> 0]

Unresolved == owed # {}
Table(p) == scan[p].table
Current(p) == active /\ binding = scan[p].binding

(***************************************************************************)
(* One table: begin an attempt, read it whole, apply it in one transaction.*)
(***************************************************************************)

EnterScan(p) ==
    /\ scan[p] = NoScan /\ active /\ ~Unresolved
    /\ scan' = [scan EXCEPT ![p] =
         [phase |-> "begin", table |-> 1, binding |-> binding, attempt |-> 0, revision |-> 0,
          known |-> {d \in Day : mapped[d] = "page"}, rows |-> [d \in {} |-> 0],
          gone |-> {}, rule |-> rule]]
    /\ UNCHANGED <<connectionVars, localVars, notion, edits>>

\* The tasks are not read while a change waits to be sent.
MayBegin(p) == Table(p) = 3 => ~Unresolved

Begin(p) ==
    /\ scan[p].phase = "begin" /\ MayBegin(p)
    /\ LET k == marks[Table(p)].attempt + 1
       IN  /\ k <= MaxScans
           /\ marks' = [marks EXCEPT ![Table(p)].attempt = k]
           /\ scan' = [scan EXCEPT ![p].phase = "read", ![p].attempt = k, ![p].revision = revision]
    /\ UNCHANGED <<connectionVars, tasks, mapped, owed, series, revision, notion, edits>>

Live == {d \in Day : pages[d].there /\ ~pages[d].trash}

\* What a page says.  A page with a property that is missing, of another type
\* or incomplete has no row: the read is given up.
Row(d) == pages[d].holds

\* Every page of the table, and the known pages that are not among them: those
\* must be in the trash.
ReadTable(p) ==
    /\ scan[p].phase = "read"
    /\ LET missing == scan[p].known \ Live
       IN  /\ Table(p) = 3 => \A d \in missing : pages[d].trash
           /\ scan' = [scan EXCEPT ![p].phase = "apply", ![p].rule = rule,
                                   ![p].rows = [d \in Live |-> Row(d)],
                                   ![p].gone = missing]
    /\ UNCHANGED <<connectionVars, localVars, notion, edits>>

\* Bug: only the connection is compared when an answer arrives.
SupersededNever(p) == FALSE

\* A newer attempt at the table has begun: this answer comes too late.
Superseded(p) == marks[Table(p)].attempt # scan[p].attempt

Published(p) ==
    /\ marks' = [marks EXCEPT ![Table(p)].applied = scan[p].attempt]
    /\ scan' = [scan EXCEPT ![p] = IF Table(p) = 3 THEN NoScan
                                   ELSE [scan[p] EXCEPT !.phase = "begin", !.table = @ + 1]]

ApplyNodes(p) ==
    /\ scan[p].phase = "apply" /\ Table(p) = 1
    /\ Current(p) /\ ~Superseded(p)
    /\ Published(p)
    /\ UNCHANGED <<connectionVars, tasks, mapped, owed, series, revision, notion, edits>>

Latest(S) == IF S = {} THEN 0 ELSE Max(S)
Occurrences == {d \in Day : tasks[d].here}
Touched(changed) == revision' = IF changed THEN revision + 1 ELSE revision

\* An edited rule leaves the occurrences that exist and fences them off.
ApplyRules(p) ==
    /\ scan[p].phase = "apply" /\ Table(p) = 2
    /\ Current(p) /\ ~Superseded(p)
    /\ LET row == scan[p].rule
           edited == ~series.known \/ series.status # "active" \/ series.days # row.days
           after == Latest({series.after} \cup Occurrences)
       IN  IF row.trash
           THEN /\ series' = IF series.status = "active"
                             THEN [series EXCEPT !.status = "archived", !.after = after] ELSE series
                /\ Touched(series.status = "active")
           ELSE /\ series' = IF edited
                             THEN [known |-> TRUE, status |-> "active", days |-> row.days,
                                   after |-> after, pending |-> TRUE]
                             ELSE series
                /\ Touched(edited)
    /\ Published(p)
    /\ UNCHANGED <<connectionVars, tasks, mapped, owed, notion, edits>>

\* The tasks as their pages say, and those whose page is in the trash.
ReadTasks(p) ==
    [d \in Day |->
        IF d \in DOMAIN scan[p].rows
        THEN [here |-> TRUE, archived |-> FALSE, holds |-> scan[p].rows[d]]
        ELSE IF d \in scan[p].gone THEN [tasks[d] EXCEPT !.archived = TRUE]
        ELSE tasks[d]]

\* The days that the rule still has to make, past what it made before it was
\* edited.
Due(read) ==
    LET here == {d \in Day : read[d].here}
        after == IF series.pending THEN Latest({series.after} \cup here) ELSE series.after
    IN  IF series.status # "active" THEN {}
        ELSE {d \in series.days \ here : d > after}

\* Bug: a link that exists is not looked for.
UnlinkedAgain(read, link) == {d \in Day : read[d].here /\ ~read[d].archived}

\* Occurrences that have no link yet are linked and owed to Notion.
Unlinked(read, link) == {d \in Day : read[d].here /\ ~read[d].archived /\ link[d] = "none"}

\* Bug: an empty outbox is taken for data that did not move.
UndisturbedQueue(p) == ~Unresolved

\* The data did not move since the attempt began, and nothing waits.
Undisturbed(p) == ~Unresolved /\ revision = scan[p].revision

ApplyTasks(p) ==
    /\ scan[p].phase = "apply" /\ Table(p) = 3
    /\ Current(p) /\ ~Superseded(p) /\ Undisturbed(p)
    /\ LET read == ReadTasks(p)
           due == Due(read)
           link == [d \in Day |-> IF d \in DOMAIN scan[p].rows THEN "page" ELSE mapped[d]]
           made == [d \in Day |-> IF d \in due THEN [NoTask EXCEPT !.here = TRUE] ELSE read[d]]
           new == IF series.status = "active" THEN Unlinked(made, link) ELSE {}
       IN  /\ tasks' = made
           /\ mapped' = [d \in Day |-> IF d \in new THEN "create" ELSE link[d]]
           /\ owed' = owed \cup new
           /\ series' = IF series.status = "active"
                        THEN [series EXCEPT !.pending = FALSE,
                                            !.after = IF series.pending
                                                      THEN Latest({@} \cup {d \in Day : read[d].here}) ELSE @]
                        ELSE series
           /\ Touched(made # tasks)
    /\ Published(p)
    /\ UNCHANGED <<connectionVars, notion, edits>>

\* A request fails, also when it was repeated, the schema of the table is not
\* the expected one, an answer is refused, or the process ends.
GiveUp(p) ==
    /\ scan[p] # NoScan
    /\ scan' = [scan EXCEPT ![p] = NoScan]
    /\ UNCHANGED <<connectionVars, localVars, notion, edits>>

(***************************************************************************)
(* Around the scan.                                                        *)
(***************************************************************************)

\* The user edits an occurrence; the intent joins the edit's transaction.
Edit(d) ==
    /\ tasks[d].here /\ ~tasks[d].archived
    /\ SumFunction(edits) < MaxEdits
    /\ edits' = [edits EXCEPT ![d] = @ + 1]
    /\ tasks' = [tasks EXCEPT ![d].holds = edits'[d]]
    /\ owed' = owed \cup {d}
    /\ Touched(TRUE)
    /\ UNCHANGED <<connectionVars, mapped, series, marks, scan, notion>>

\* The outbox sends one intent and confirms it.
Send(d) ==
    /\ d \in owed /\ active
    /\ owed' = owed \ {d}
    /\ mapped' = [mapped EXCEPT ![d] = "page"]
    /\ pages' = [pages EXCEPT ![d] = [there |-> TRUE, trash |-> @.trash, holds |-> tasks[d].holds]]
    /\ copies' = [copies EXCEPT ![d] = IF mapped[d] = "page" THEN @ ELSE @ + 1]
    /\ UNCHANGED <<connectionVars, tasks, series, marks, revision, scan, rule, edits>>

\* Somebody moves a page to the trash or takes it out.
Trash(d) ==
    /\ pages[d].there
    /\ pages' = [pages EXCEPT ![d].trash = ~@]
    /\ UNCHANGED <<connectionVars, localVars, scan, copies, rule, edits>>

EditRule ==
    /\ rule.edits < MaxRuleEdits
    /\ \/ \E days \in SUBSET Day : days # rule.days /\ rule' = [rule EXCEPT !.days = days, !.edits = @ + 1]
       \/ rule' = [rule EXCEPT !.trash = ~@, !.edits = @ + 1]
    /\ UNCHANGED <<connectionVars, localVars, scan, pages, copies, edits>>

\* A pause, a disconnect or a new credential, and what ends it.
Fence ==
    /\ active /\ active' = FALSE
    /\ binding' \in {binding, 1}
    /\ UNCHANGED <<localVars, scan, notion, edits>>

Reconnect ==
    /\ ~active /\ active' = TRUE
    /\ UNCHANGED <<binding, localVars, scan, notion, edits>>

ScanStep(p) ==
    \/ EnterScan(p) \/ Begin(p) \/ ReadTable(p)
    \/ ApplyNodes(p) \/ ApplyRules(p) \/ ApplyTasks(p)
    \/ GiveUp(p)

ScanNext ==
    \/ \E p \in Reader : ScanStep(p)
    \/ \E d \in Day : Edit(d) \/ Send(d) \/ Trash(d)
    \/ EditRule \/ Fence \/ Reconnect

ScanSpec == ScanInit /\ [][ScanNext]_scanVars

(***************************************************************************)
(* Properties.                                                             *)
(***************************************************************************)

(* A scan never puts an edit of the user back: a task holds the last edit, *)
(* also one that was queued, sent and confirmed while the scan was reading.*)
EditsKept == \A d \in Day : tasks[d].here => tasks[d].holds = edits[d]

(* An answer that comes late never replaces what a later attempt at the    *)
(* same table has published.                                               *)
ReadsInOrder == [][\A i \in 1..3 : marks'[i].applied >= marks[i].applied]_scanVars

(* An occurrence gets one page, whoever scans, edits the rule, archives it *)
(* or takes it up again.                                                   *)
OnePagePerOccurrence == \A d \in Day : copies[d] <= 1

=============================================================================
