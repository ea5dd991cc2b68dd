----------------------------- MODULE CapturePage -----------------------------
(***************************************************************************)
(* One browser tab that captures tasks, and the requests it sends.  What   *)
(* the tab must not forget is kept in the storage of its session; a reload *)
(* loses the rest.  An answer that does not come leaves the tab unsure.    *)
(***************************************************************************)
EXTENDS TaskCapture, Sequences

CONSTANTS MaxLine     \* bound: requests on their way

VARIABLES
    session,    \* what the tab stored: the capture, its request, a pending apply
    page,       \* what the tab shows and waits for
    line,       \* requests on their way; the server works on them in turn
    reply,      \* the answer to the request the tab waits for
    used        \* history variable: identifiers the tab has drawn

pageVars == <<session, page, line, reply, used>>
vars == <<captureVars, pageVars>>

EmptySession == [capture |-> NoRow, request |-> FALSE, mode |-> "direct", pending |-> NoRow]
FreshPage == [busy |-> "none", view |-> NoRow, unsure |-> "none", retry |-> FALSE]

PageInit ==
    /\ session = EmptySession /\ page = FreshPage
    /\ line = <<>> /\ reply = NoRow /\ used = {}

\* An apply the tab does not know the outcome of; the marker is none.
Pending == [op : Ops, tasks : SUBSET Drafts]
ASSUME NoPendingAssumption == NoRow \notin Pending

\* A request of the tab; an earlier one it gave up on is not answered to it.
Abandoned == [i \in DOMAIN line |-> [line[i] EXCEPT !.awaited = FALSE]]
Send(kind, s, busy) ==
    /\ Len(line) < MaxLine
    /\ line' = Append(Abandoned, [kind |-> kind, id |-> s.capture, mode |-> s.mode,
                                  pending |-> s.pending, awaited |-> TRUE])
    /\ page' = [page EXCEPT !.busy = busy, !.retry = FALSE]
    /\ reply' = NoRow

Idle == page.busy = "none" /\ UNCHANGED captureVars
Showing(s) == page.view # NoRow /\ page.view.status = s

(***************************************************************************)
(* What the user does.                                                     *)
(***************************************************************************)

StartCapture(c, mode) ==
    /\ Idle /\ session.capture = NoRow /\ c \notin used
    /\ session' = [session EXCEPT !.capture = c, !.request = TRUE, !.mode = mode]
    /\ used' = used \cup {c}
    /\ Send("create", session', "starting")

\* The tab asks how the capture stands: by itself while it runs, after a
\* reload, or because the user wants to know.
Confirm ==
    /\ Idle /\ session.capture # NoRow
    /\ Send("get", session, "checking")
    /\ UNCHANGED <<session, used>>

\* The same request once more, with its identifiers.
RetryOriginal ==
    /\ Idle /\ page.retry
    /\ IF session.pending # NoRow THEN Send("apply", session, "applying")
                                  ELSE session.request /\ Send("create", session, "starting")
    /\ UNCHANGED <<session, used>>

ApplyDrafts(o, chosen) ==
    /\ Idle /\ session.capture # NoRow /\ session.pending = NoRow /\ o \notin used
    /\ Showing("ready")
    /\ chosen # {} /\ chosen \subseteq page.view.drafts
    /\ session' = [session EXCEPT !.pending = [op |-> o, tasks |-> chosen]]
    /\ used' = used \cup {o}
    /\ Send("apply", session', "applying")

CancelCapture ==
    /\ Idle /\ session.capture # NoRow /\ Showing("running")
    /\ Send("cancel", session, "cancelling")
    /\ UNCHANGED <<session, used>>

\* Mutant. The tab may be cleared while it does not know what happened.
MayForgetUnsure == ~Showing("running")

MayForget ==
    /\ page.unsure = "none"
    /\ ~Showing("running")

\* The tab starts over and forgets the capture.
NewCapture ==
    /\ Idle /\ MayForget /\ session.capture # NoRow
    /\ session' = EmptySession /\ page' = FreshPage
    /\ UNCHANGED <<line, reply, used>>

\* The page is loaded again from its stored session.
Reload ==
    /\ UNCHANGED <<captureVars, session, used>> /\ reply' = NoRow
    /\ IF session.capture = NoRow
       THEN line' = Abandoned /\ page' = FreshPage
       ELSE /\ Len(line) < MaxLine
            /\ line' = Append(Abandoned, [kind |-> "get", id |-> session.capture,
                    mode |-> session.mode, pending |-> session.pending, awaited |-> TRUE])
            /\ page' = [FreshPage EXCEPT !.busy = "checking"]

(***************************************************************************)
(* Answers.                                                                *)
(***************************************************************************)

Terminal(s) == s \in {"applied", "failed", "interrupted", "details_deleted"}

\* accept(): the tab shows the run; a run that ended ends the pending apply.
AcceptedSession(v) ==
    [session EXCEPT !.pending = IF Terminal(v.status) THEN NoRow ELSE @,
                    !.request = @ /\ v.status # "details_deleted"]
Accepted(v) == [page EXCEPT !.busy = "none", !.view = v, !.unsure = "none", !.retry = FALSE]

Answered(busy, kind) ==
    /\ page.busy = busy /\ reply # NoRow /\ reply.kind = kind
    /\ reply' = NoRow
    /\ UNCHANGED <<captureVars, line, used>>

RunShown ==
    /\ \E busy \in {"starting", "checking", "applying", "cancelling"} : Answered(busy, "run")
    /\ session' = AcceptedSession(reply)
    /\ LET waits == session'.pending # NoRow /\ reply.status = "ready" IN
       page' = [Accepted(reply) EXCEPT
                  !.unsure = IF waits /\ page.busy \in {"checking", "applying"} THEN "apply" ELSE @,
                  !.retry = waits /\ page.busy = "checking"]

\* The request was refused for good; it can be changed and sent anew.
StartRefused ==
    /\ Answered("starting", "refused")
    /\ session' = [session EXCEPT !.request = FALSE, !.capture = NoRow]
    /\ page' = [page EXCEPT !.busy = "none", !.unsure = "none"]

ApplyRefused ==
    /\ Answered("applying", "refused") \/ Answered("applying", "missing")
    /\ session' = [session EXCEPT !.pending = NoRow]
    /\ page' = [page EXCEPT !.busy = "none", !.unsure = "none"]

UnsureOf(busy) ==
    IF busy = "applying" \/ (busy = "checking" /\ session.pending # NoRow) THEN "apply" ELSE "start"

\* The server does not know the capture: the original request may be sent again.
NotFound ==
    /\ Answered("checking", "missing") \/ Answered("cancelling", "missing")
    /\ page' = [page EXCEPT !.busy = "none", !.unsure = UnsureOf(page.busy),
                  !.retry = page.busy = "checking" /\ session.request /\ session.pending = NoRow]
    /\ UNCHANGED session

\* The network or the server fails, or 30 seconds pass: what became of the
\* request is not known.
NoAnswer ==
    /\ page.busy # "none"
    /\ page' = [page EXCEPT !.busy = "none", !.unsure = UnsureOf(page.busy), !.retry = FALSE]
    /\ line' = Abandoned /\ reply' = NoRow
    /\ UNCHANGED <<captureVars, session, used>>

(***************************************************************************)
(* Requests reach the server in the order they were sent, or never.        *)
(***************************************************************************)

Lose == line # <<>> /\ line' = Tail(line) /\ UNCHANGED <<captureVars, session, page, reply, used>>

Serve ==
    /\ up /\ line # <<>>
    /\ LET req == Head(line)
           Answer(a) == reply' = IF req.awaited THEN a ELSE reply
       IN  \/ /\ req.kind = "create"
              /\ \E a \in {Refused} \cup {View(req.id, s, drafts, op) :
                     s \in Status, drafts \in SUBSET Drafts, op \in Operations \cup {NoRow}} :
                   Create(req.id, req.mode, a) /\ Answer(a)
           \/ /\ req.kind = "get"
              /\ \E a \in {Missing} \cup (IF capture[req.id] = NoRow THEN {} ELSE {ViewOf(req.id)}) :
                   Get(req.id, a) /\ Answer(a)
           \/ /\ req.kind = "apply"
              /\ \E a \in {Missing, Refused} \cup {View(req.id, s, drafts, req.pending.op) :
                     s \in Status, drafts \in SUBSET Drafts} :
                   Apply(req.id, req.pending.op, req.pending.tasks, a) /\ Answer(a)
           \/ /\ req.kind = "cancel"
              /\ \E a \in {Missing} \cup {View(req.id, s, drafts, op) :
                     s \in Status, drafts \in SUBSET Drafts, op \in Operations \cup {NoRow}} :
                   Cancel(req.id, a) /\ Answer(a)
    /\ line' = Tail(line)
    /\ UNCHANGED <<session, page, used>>

PageStep ==
    \/ \E c \in Captures, mode \in Mode : StartCapture(c, mode)
    \/ \E o \in Ops, chosen \in SUBSET Drafts : ApplyDrafts(o, chosen)
    \/ Confirm \/ RetryOriginal \/ CancelCapture \/ NewCapture \/ Reload
    \/ RunShown \/ StartRefused \/ ApplyRefused \/ NotFound \/ NoAnswer
    \/ Lose

Init == CaptureInit /\ PageInit
Next == PageStep \/ Serve \/ (Background /\ UNCHANGED pageVars)
Spec == Init /\ [][Next]_vars

\* A process starts again, and its jobs run.
FairSpec == Spec /\ WF_vars(Start /\ UNCHANGED pageVars)
                 /\ \A c \in Captures : WF_vars(CaptureJob(c) /\ UNCHANGED pageVars)

(***************************************************************************)
(* Properties.                                                             *)
(***************************************************************************)

\* However often a request comes again, through lost answers, reloads, restarts
\* and a cleared history, one capture creates its tasks at most once.
CapturedOnce == \A c \in Captures : made[c] <= 1

\* Tasks appear only from the capture the tab still follows: what it lets go of,
\* to start another, can no longer create anything behind it.
LetGoIsOver == [][\A c \in Captures : made'[c] # made[c] => c = session.capture]_vars

\* When the tab shows that a capture failed or was stopped, no task was created.
StoppedMeansNothing ==
    page.view # NoRow /\ page.view.status \in {"failed", "interrupted"}
        => made[page.view.id] = 0

\* Every extraction ends, whatever the model does and whenever the process dies,
\* or its process could not write down that it failed; then the next start ends it.
CapturesEnd == \A c \in Captures : c \in Running ~> (c \notin Running \/ c \in lost)
=============================================================================
