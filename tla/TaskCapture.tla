---------------------------- MODULE TaskCapture ----------------------------
(***************************************************************************)
(* Tasks captured from a conversation, as the API process keeps them: the  *)
(* capture of each request, the job that asks the model outside any        *)
(* transaction, and the operations that create tasks and remember it for   *)
(* requests that come again.                                               *)
(***************************************************************************)
EXTENDS Naturals, FiniteSets

CONSTANTS
    Captures,     \* identifiers clients give to requests; also those of captures
    Ops,          \* operation identifiers clients choose
    Drafts,       \* things to do, told apart by title and dates
    Days,         \* local dates (a change of the time zone is a change of date)
    NoRow,        \* marker: nothing there
    MaxEpoch      \* bound: restores of the dataset

ASSUME CaptureAssumption == Days # {} /\ MaxEpoch \in Nat

VARIABLES
    epoch, today,   \* the dataset and the local date
    tasks,          \* drafts that are open tasks now
    capture,        \* row of each capture
    operation,      \* what an operation that created tasks answered
    up,             \* the process accepts requests
    job,            \* the running extraction of each capture, lost with the process
    lost,           \* history variable: captures whose failure this process could not record
    made            \* history variable: how often a capture created tasks

captureVars == <<epoch, today, tasks, capture, operation, up, job, lost, made>>
worldVars == <<epoch, today, up>>

AutoOp(c) == <<"capture-auto", c>>      \* the operation of a direct capture
Operations == Ops \cup {AutoOp(c) : c \in Captures}

Mode == {"direct", "transcript"}
Status == {"running", "ready", "applied", "failed", "interrupted", "details_deleted"}
Job == [pc : {"begin", "call", "answered", "failing"}, aborted : BOOLEAN,
        drafts : SUBSET Drafts, unsure : SUBSET Drafts]
CaptureRow == [mode : Mode, status : Status, called : BOOLEAN, epoch : 0..MaxEpoch,
               day : Days, drafts : SUBSET Drafts, op : Operations \cup {NoRow}]

CaptureInit ==
    /\ epoch = 0 /\ today \in Days /\ tasks = {}
    /\ capture = [c \in Captures |-> NoRow]
    /\ operation = [o \in Operations |-> NoRow]
    /\ up = TRUE
    /\ job = [c \in Captures |-> NoRow]
    /\ lost = {}
    /\ made = [c \in Captures |-> 0]

NewJob == [pc |-> "begin", aborted |-> FALSE, drafts |-> {}, unsure |-> {}]
Running == {c \in Captures : capture[c] # NoRow /\ capture[c].status = "running"}
Ended(rs, s) == [c \in Captures |-> IF c \in rs THEN [capture[c] EXCEPT !.status = s] ELSE capture[c]]

\* The day, time zone and dataset are those the capture was made for.
Current(c) == capture[c].day = today /\ capture[c].epoch = epoch

(***************************************************************************)
(* Requests.  Every request is one transaction and has one answer: what    *)
(* the capture looks like, or why it was refused.                          *)
(***************************************************************************)

View(c, s, drafts, op) == [kind |-> "run", id |-> c, status |-> s, drafts |-> drafts, op |-> op]
ViewOf(c) == View(c, capture[c].status, capture[c].drafts, capture[c].op)
Refused == [kind |-> "refused"]       \* a client error other than 404
Missing == [kind |-> "missing"]       \* 404
RunView == [kind : {"run"}, id : Captures, status : Status, drafts : SUBSET Drafts,
            op : Operations \cup {NoRow}]
Answers == RunView \cup {Refused, Missing}

\* The marker is no identifier, no row and no answer.
ASSUME NoRowAssumption ==
    NoRow \notin Captures /\ NoRow \notin CaptureRow /\ NoRow \notin Answers

\* The same request is answered from its row; a job that never started starts.
CreateAgain(c, mode, answer) ==
    /\ capture[c] # NoRow
    /\ answer = IF capture[c].mode = mode THEN ViewOf(c) ELSE Refused
    /\ IF capture[c].mode = mode /\ c \in Running /\ ~capture[c].called /\ job[c] = NoRow
       THEN job' = [job EXCEPT ![c] = NewJob] /\ lost' = lost \ {c}
       ELSE UNCHANGED <<job, lost>>
    /\ UNCHANGED <<worldVars, tasks, capture, operation, made>>

\* A new request is refused while another capture runs, or without a model or a
\* time zone; otherwise its capture is stored and its job starts.
CreateNew(c, mode, answer) ==
    /\ capture[c] = NoRow
    /\ \/ answer = Refused /\ UNCHANGED <<capture, job>>
       \/ /\ Running = {}
          /\ capture' = [capture EXCEPT ![c] =
                 [mode |-> mode, status |-> "running", called |-> FALSE, epoch |-> epoch,
                  day |-> today, drafts |-> {}, op |-> NoRow]]
          /\ answer = View(c, "running", {}, NoRow)
          /\ job' = [job EXCEPT ![c] = NewJob]
    /\ UNCHANGED <<worldVars, tasks, operation, lost, made>>

Create(c, mode, answer) == CreateAgain(c, mode, answer) \/ CreateNew(c, mode, answer)

Get(c, answer) ==
    /\ answer = IF capture[c] = NoRow THEN Missing ELSE ViewOf(c)
    /\ UNCHANGED captureVars

\* The tasks, the capture and the operation are written together.
ApplyTasks(c, o, chosen) ==
    /\ capture' = [capture EXCEPT ![c].status = "applied", ![c].op = o]
    /\ tasks' = tasks \cup chosen
    /\ operation' = [operation EXCEPT ![o] =
                        [capture |-> c, tasks |-> chosen, status |-> "applied"]]
    /\ made' = [made EXCEPT ![c] = @ + 1]

MayApply(c, chosen) ==
    /\ capture[c].status = "ready"
    /\ Current(c)
    /\ chosen \subseteq capture[c].drafts

Apply(c, o, chosen, answer) ==
    /\ IF operation[o] # NoRow
       THEN /\ answer = IF operation[o].capture = c /\ operation[o].tasks = chosen
                        THEN View(c, operation[o].status, IF operation[o].status = "applied"
                                     THEN capture[c].drafts ELSE {}, o)
                        ELSE Refused
            /\ UNCHANGED <<tasks, capture, operation, made>>
       ELSE IF capture[c] = NoRow
       THEN answer = Missing /\ UNCHANGED <<tasks, capture, operation, made>>
       ELSE IF ~MayApply(c, chosen)
       THEN answer = Refused /\ UNCHANGED <<tasks, capture, operation, made>>
       ELSE /\ ApplyTasks(c, o, chosen)
            /\ answer = View(c, "applied", capture[c].drafts, o)
    /\ UNCHANGED <<worldVars, job, lost>>

Cancel(c, answer) ==
    /\ IF capture[c] = NoRow THEN answer = Missing /\ UNCHANGED <<capture, job>>
       ELSE /\ capture' = IF capture[c].status \in {"running", "ready"}
                          THEN Ended({c}, "interrupted") ELSE capture
            /\ answer = View(c, capture'[c].status, capture[c].drafts, capture[c].op)
            /\ job' = IF job[c] = NoRow THEN job ELSE [job EXCEPT ![c].aborted = TRUE]
    /\ UNCHANGED <<worldVars, tasks, operation, lost, made>>

(***************************************************************************)
(* The job of a capture.                                                   *)
(***************************************************************************)

EndJob(c) == job' = [job EXCEPT ![c] = NoRow]
Goto(c, pc) == job' = [job EXCEPT ![c].pc = pc]
JobOnly == UNCHANGED <<worldVars, tasks, capture, operation, lost, made>>
Wanted(c) == c \in Running /\ ~job[c].aborted

\* The call is recorded before the model is asked.
BeginCall(c) ==
    /\ up /\ job[c] # NoRow /\ job[c].pc = "begin"
    /\ IF ~Wanted(c) THEN EndJob(c) /\ JobOnly
       ELSE IF ~Current(c) THEN Goto(c, "failing") /\ JobOnly
       ELSE /\ capture' = [capture EXCEPT ![c].called = TRUE]
            /\ Goto(c, "call")
            /\ UNCHANGED <<worldVars, tasks, operation, lost, made>>

\* The model proposes drafts, some of them to be reviewed, or it fails: its
\* answer is invalid, 30 seconds pass, or the wait is aborted.
ModelAnswers(c) ==
    /\ up /\ job[c] # NoRow /\ job[c].pc = "call"
    /\ \/ Goto(c, "failing")
       \/ /\ ~job[c].aborted
          /\ \E drafts \in SUBSET Drafts : \E unsure \in SUBSET drafts :
                job' = [job EXCEPT ![c].pc = "answered", ![c].drafts = drafts, ![c].unsure = unsure]
    /\ JobOnly

\* Drafts that look like a task that exists are left to the user.
NeedsReview(c) == job[c].unsure \cup (job[c].drafts \cap tasks)

\* Mutant. The answer is stored without reading the capture again.
StillWantedAlways(c) == TRUE

StillWanted(c) == Wanted(c)

\* The drafts are stored if the capture still waits; a direct capture that is
\* beyond doubt creates its tasks in the same transaction.
Publish(c) ==
    /\ up /\ job[c] # NoRow /\ job[c].pc = "answered"
    /\ IF ~StillWanted(c) THEN EndJob(c) /\ JobOnly
       ELSE IF ~Current(c) THEN Goto(c, "failing") /\ JobOnly
       ELSE /\ EndJob(c)
            /\ IF capture[c].mode = "direct" /\ job[c].drafts # {} /\ NeedsReview(c) = {}
               THEN /\ capture' = [capture EXCEPT ![c].status = "applied",
                                       ![c].drafts = job[c].drafts, ![c].op = AutoOp(c)]
                    /\ tasks' = tasks \cup job[c].drafts
                    /\ operation' = [operation EXCEPT ![AutoOp(c)] =
                          [capture |-> c, tasks |-> job[c].drafts, status |-> "applied"]]
                    /\ made' = [made EXCEPT ![c] = @ + 1]
               ELSE /\ capture' = [capture EXCEPT ![c].status = "ready", ![c].drafts = job[c].drafts]
                    /\ UNCHANGED <<tasks, operation, made>>
            /\ UNCHANGED <<worldVars, lost>>

Fail(c) ==
    /\ up /\ job[c] # NoRow /\ job[c].pc = "failing"
    /\ EndJob(c)
    /\ capture' = IF c \in Running THEN Ended({c}, "failed") ELSE capture
    /\ UNCHANGED <<worldVars, tasks, operation, lost, made>>

\* A transaction of the job is rolled back by the database.
WriteFails(c) ==
    /\ up /\ job[c] # NoRow /\ job[c].pc \in {"begin", "answered"}
    /\ Goto(c, "failing") /\ JobOnly

\* So is the one that records the failure: the capture goes on without a job
\* until a user stops it, asks for it again or clears it, or a process starts.
FailLost(c) ==
    /\ up /\ job[c] # NoRow /\ job[c].pc = "failing" /\ c \in Running
    /\ EndJob(c)
    /\ lost' = lost \cup {c}
    /\ UNCHANGED <<worldVars, tasks, capture, operation, made>>

CaptureJob(c) ==
    \/ BeginCall(c) \/ ModelAnswers(c) \/ Publish(c) \/ Fail(c)
    \/ WriteFails(c) \/ FailLost(c)

(***************************************************************************)
(* Everything else.                                                        *)
(***************************************************************************)

\* Mutant. Clearing the history deletes the rows of captures and operations.
ClearCapturesForgets ==
    /\ capture' = [c \in Captures |-> NoRow]
    /\ operation' = [o \in Operations |-> NoRow]
    /\ UNCHANGED <<worldVars, tasks, job, lost, made>>

\* The history is cleared: rows lose their details but keep their identity.
ClearCaptures ==
    /\ capture' = [c \in Captures |-> IF capture[c] = NoRow THEN NoRow ELSE
          [capture[c] EXCEPT !.status = "details_deleted", !.called = TRUE,
                             !.drafts = {}, !.op = NoRow]]
    /\ operation' = [o \in Operations |-> IF operation[o] = NoRow THEN NoRow ELSE
          [operation[o] EXCEPT !.status = "details_deleted"]]
    /\ UNCHANGED <<worldVars, tasks, job, lost, made>>

\* A backup replaces the tasks; captures are agent rows and stay.
RestoreDataset ==
    /\ epoch < MaxEpoch
    /\ epoch' = epoch + 1 /\ tasks' = {}
    /\ UNCHANGED <<today, up, capture, operation, job, lost, made>>

DateChanges ==
    /\ today' \in Days \ {today}
    /\ UNCHANGED <<epoch, up, tasks, capture, operation, job, lost, made>>

\* Mutant. A start leaves the rows of the last process alone.
StartLazy == ~up /\ up' = TRUE /\ UNCHANGED <<epoch, today, tasks, capture, operation, job, lost, made>>

\* initialize(): extractions of the last process are interrupted.
Start ==
    /\ ~up /\ up' = TRUE
    /\ capture' = Ended(Running, "interrupted")
    /\ UNCHANGED <<epoch, today, tasks, operation, job, lost, made>>

\* close(): extractions are interrupted and their jobs given up.
Close ==
    /\ up /\ up' = FALSE
    /\ capture' = Ended(Running, "interrupted")
    /\ job' = [c \in Captures |-> NoRow] /\ lost' = {}
    /\ UNCHANGED <<epoch, today, tasks, operation, made>>

Crash ==
    /\ up /\ up' = FALSE
    /\ job' = [c \in Captures |-> NoRow] /\ lost' = {}
    /\ UNCHANGED <<epoch, today, tasks, capture, operation, made>>

Background ==
    \/ \E c \in Captures : CaptureJob(c)
    \/ up /\ (ClearCaptures \/ RestoreDataset)
    \/ DateChanges \/ Start \/ Close \/ Crash
=============================================================================
