# NewDay: a verification project

NewDay is a private day planner: a Next.js web application, an API process over
SQLite (`apps/api`), a core package of domain rules (`packages/core`) and an OAuth
broker (`apps/notion-oauth-worker`). Three things make it hard. Local edits of linked
tasks become write intents that a dispatcher sends to Notion, an API without
conditional writes, while people edit the same pages, processes stop between two
steps and a backup may replace the dataset. A language model is asked for plans and
task drafts, and its answers come late, after the planner, the day or the
preferences have changed. And recurring tasks are generated, edited, split, deleted
and undone from several pages at once. This directory models these parts in TLA+,
checks them with TLC and proves some of it with TLAPS.

## 1. Inventory

| Component | State | Operations | Interacts with | Hard because | Must be true |
| --- | --- | --- | --- | --- | --- |
| SQLite store, Notion rows (`storage/sqlite-planner-store.ts`) | tasks, mappings, outbox, connection, dataset epoch, quarantine and reviews, sender instances | enqueue, claim, recover, supersede, pause, defer, rebase, confirm, unknown, replace, open, close | every service; other API processes through the file | claims of several processes, owners that die, stale baselines | one open write per task, no live intent of an old dataset, no intent forgotten |
| Outbox dispatcher (`services/notion-outbox-dispatcher.ts`) | local variables of one dispatch | dispatch, reconcileUnknown, reconcileRestore | store transactions, remote reads and writes | every `await` lets other steps in | the requests of one process leave only behind every fence; no second create; no premature confirmation; the newest review wins |
| Notion sync service | two promise queues, a timer | drain, reconcile, review, pause, resume, polling | dispatcher, store | the drain stops at the first refused claim | intents are not stuck |
| Planner service, undo and commands | tasks, rules, focus, links; the latest receipt per process | commands, generation, undo, restore, previews | store, the pages, the dispatcher | undo after generation or a merge; stale windows; splits of rules | deleted occurrences stay away, undo restores exactly, a window commits what it showed |
| Three-way comparison (`notion-sync-reconcile.ts`) | none | reconcileNotionTask | dispatcher, scan | both sides move | no edit vanishes without a record |
| Structure service | connection, initialization steps | advance, review, reconnect, disconnect, credential fences | Notion, vault, store | lost answers of creates, restarts, replaced credentials | no object twice; active only on what was read |
| Notion scan and rules | attempt marks, read rows, generated occurrences | scan, apply, check missing, generate, link | store, Notion, undo | slow scans, edits during one | the newest reading wins, edits stay, one page per occurrence |
| OAuth service, vault, broker worker | tokens, revisions, attempts, sessions | authorize, claim, refresh, lease, disconnect | structure service, Notion | lost refresh answers, claims during disconnects | no revival after a disconnect, no replaced token in use |
| Agent runs and execution | runs, snapshots, proposals, ledger, jobs | create, answer, cancel, execute, retire, apply, revert | model, planner, preferences | late answers, restarts, retries | one current plan, applied at most once and only on what it was made from |
| Task capture, service and page | captures, drafts, receipts; the session of a tab | start, extract, apply, cancel, retry, reload | model, planner | lost answers, reloads, cleared history | tasks are created once, and not after the user let go |
| Store transactions, life service, routes, configuration, other pages, deployment scripts | rows or none | single transactions | everything | little, but for savepoints | see section 6 |

`PROJECT.json` lists every component with its status, and every hazard at its line
with the properties that cover it, or the reason why none does.

## 2. Modules

| Module | Models | Correspondence |
| --- | --- | --- |
| `NotionReconcile` | `reconcileNotionTask` | One operator per result of the function: `Merged`, `RemotePatch`, `Conflicts`. A field is atomic, a date range included. |
| `NotionMerge` | the comparison under repeated edits and sends | `Rebase` is `applyPreflightMerge`, `Push` the PATCH of the second comparison and its read-back. |
| `NotionOutbox` | the store | One action per committed transaction; `StoreNext` lets any caller run any transaction, so what holds of it is promised by the store alone. |
| `NotionProvider` | Notion's task pages (external) | Requests leave at once (`wire`) and are carried out later or never. Searches are resolved by the reader: an existing page may be missed. |
| `NotionDispatcher` | drain and dispatch of one process | `job[s].pc` names the `await` at which a dispatch stands. Reads, transactions and the departure of a request are separate steps. |
| `NotionIntent` | abstract specification | The life of one intent: waiting, attempted, then settled or isolated, never forgotten once attempted. |
| `NotionSync` | composition | Planner commands, undo, dispatchers, fences, backup and restore, several processes that stop and start, and Notion. |
| `OAuthBroker`, `CredentialVault` | the Durable Objects of the worker; the OAuth service with the vault | `Mint` and `rotated` are Notion's tokens. A refresh is split at its request and its answer. `sequence` is the vault's counter. |
| `NotionLease` | abstract specification | A lease has a revision, may be withdrawn at any moment, and a revision is granted once. |
| `NotionStructure` | structure service and gateway | `steps` are the rows of `notion_initialization_steps`; a creation is an attempt recorded before its request, found again by its title. |
| `NotionScan` | read service, gateway, rule service | `scan[p].phase` is the `await` of a scan; `marks` are the attempts and applied attempts of the tables; occurrences are days. |
| `RestoreReview` | `reconcileRestore` and the reviews in backups | One quarantined operation; `audit[p]` is a review between its observation and its record, `past` what the page has held, for the property. |
| `PlannerRules` | patterns, ends and occurrences | `RecursOn` is `recursOnDate`; with the clamp of short months. |
| `PlannerCommands` | planner commands and undo change sets | Functions from the database to the database, as the commands are transactions; refused commands are guards. |
| `Planner` | planner service | Commands, generation on a look at a day, receipts and their end, restore, midnight. `before` remembers the database that an undo must bring back, `removed` what people deleted, for the properties. |
| `PlannerWindows` | the pages that edit a rule, a task or confirm a stop | A window keeps what it read; the service compares it in the transaction of the command. |
| `AgentStore`, `AgentRun`, `AgentExecution`, `AgentPlanning` | planning rows, runs and their jobs, apply and revert, composition | `job[r].pc` is the `await` of a job. `asked`, `executed`, `touched`, `moved` are history variables. |
| `TaskCapture`, `CapturePage` | the capture service; the controller of the page and its session | `line` is what the page has sent, in order; any of it may be lost. `made` counts executions. |
| `MC...` | instances for TLC | Next-state relations in parts, with fewer actors each, so that each question gets larger bounds. |
| `NotionOutboxProofs`, `NotionSyncProofs`, `NotionReadingProofs`, `NotionStructureProofs`, `CredentialVaultProofs`, `CapturePageProofs`, `AgentPlanningProofs`, `PlannerProofs` | theorems | Proofs for all constants, one module per specification; `NotionReadingProofs` holds those of `NotionMerge`, `NotionScan` and `RestoreReview`. |

State that the code keeps and how it appears:

- Notion write path. `task[t]` holds the shared fields only (title, plan date,
  completion); `NoFields` means there is no row. `outbox[o]` is indexed by creation
  order. `owner` stands for the pair of process and store instance; `live` says which
  still run; identifiers are never reused in the model. `conn` merges the status with
  the reason of a plain pause, since no code reads the reason under another status.
  There is one workspace: no transaction relates two of them. `quarantine[o]` is the
  row of `notion_restore_quarantine` of an operation. Attempt counts and times are
  left out, so `SameIntent` accepts imports that the code refuses when one operation
  was attempted twice; a refused import is also always possible (`RestoreFails`).
- Credentials. Tokens are numbered as Notion mints them. The broker answers a repeated
  refresh from its record. A sequence number that `requireReauthorization` burns
  without a matching row is left out.
- Structure. A paused connection after an unknown write is not disconnected on a
  change of credential in the code either: the transport compares the revision at
  each use. `blank` counts restores of a backup that knows the workspace but no step:
  each of them can lead to one more root page, and `OneCreate` says exactly that.
- Scan. Applied attempts are compared per table. An edit of a task is queued, sent
  and confirmed by `Edit` and `Send`, which stand for the modules of the write path.
- Reviews. Reading row, connection, epoch and time is one step, since each is
  compared again at recording. "unclear" stands for ambiguous, incomplete and
  unreadable answers, "other" for a page that differs or is in the trash. A backup
  may carry any review that once was true.
- Planner. A row is compared as a whole by undo and by windows, so `updatedAt` is not
  kept. The revision shown with a stop does not cover the links of the tasks it
  removes, unlike that of an edit of the rule; `CommitsOnShown` says exactly that.
- Agent and capture. The dataset version, the generation of the history, the
  preferences' revision and the day are small numbers; what a model answers is any
  answer that the validation distinguishes.

Steps of two actors interleave at every `await`. Two places need a word:

- The last check of a dispatch and its request are two steps of one turn (`MaySend`,
  `Send`). `canDispatchNotionOutbox` is a plain SELECT that takes no lock, and the
  client is called in the same turn. So nothing else of this process comes between
  (`Free`: a command, an undo, a fence, a replacement, closing the store); another
  process may commit there, and the process may be killed there.
- A command of the same process reaches the transaction queue only after the
  previous one has committed, while the merge transaction is queued as soon as the
  check before it commits. So one command of the same process, not two, can pass
  between check and merge (`passed`). Commands of another process are not limited.

## 3. Runs

Deadlock is not checked: in every run the bounds stop the system.

| Run | Bounds | Shows |
| --- | --- | --- |
| `one_process` | 1 process, 3 intents, 1 restore, 1 edit in Notion | `TaskSyncedOrOwed`: no local change is lost. `PendingMatchesTask`: waiting intents stay claimable. `UndoCurrent`: undo never reaches behind a merge or restore. |
| `two_processes` | 2 processes at once; scene *shared*: 3 intents, processes stop; scene *restored*: 2 intents, one page, one process restores under the other | `SingleInFlight`, `LateSendsHeld` (a request that leaves behind the fence of the other process still is the one open attempt of its task, or stands in quarantine), `BaselineIsRemote` (confirmations are never premature), `LiveOpsCurrentEpoch`. |
| `restarts` | 2 processes one after the other, 2 intents, 1 restore, 1 edit in Notion | `AtMostOneCreate`, `NeverResent`; `WriteFence`: every request leaves under an active connection for the one attempt of its task; `ImplementsIntent`: the system implements `NotionIntent`. |
| `steady` | 2 processes, 2 intents, 1 edit, no symmetry | `AttemptEnds`, `ActiveDrains` under fairness. |
| `agent` | 2 runs, 2 operations, 2 requests, 1 task, failures that cannot be recorded, in parts | `OneCurrentPlan`, `CallCap`, `EndedRunStays`, `RunningHasJob` for runs; `AppliedUntouched`, `RevertedUntouched`, `ExecutedOnce` for executions. |
| `capture` | 1 capture, 1 draft, 2 operations, 2 days, 1 restore or clearing, 2 requests on their way | `CapturedOnce`, `StoppedMeansNothing`, `LetGoIsOver`; `CapturesEnd` under fairness, unless a failure could not be recorded. |
| `setup` | in parts, see below | `DisconnectHolds`, `LeaseUnrotated`, `ImplementsLease`; `OneCreate`, `ActiveReviewed`; `EditsKept`, `ReadsInOrder`, `OnePagePerOccurrence`; `SecondPatchAgrees`, `ConflictsAreLosses`; `LatestReview`. |
| `planner` | in parts, see below | `DeletedStays`, `ChainIntact`, `FocusUsable`, `UndoRestores`; `CommitsOnShown`. |
| `stuck_sending` | 1 process, 2 intents | violated: see below. |
| `reopened_restore` | 1 process, 1 intent, 1 restore | violated: see below. |
| `late_send` | 2 processes, 1 intent, 1 restore | violated: see below. |
| `stale_pending` | 2 processes, 4 intents, 3 values | violated: see below. |

*Write path.* All runs of `NotionSync` have one task, one field with two values (three
in `stale_pending`) and one or two pages that may carry its key. One task is enough:
every transaction but the fences reads and writes the rows of one task, and the fences
are global. One field is enough because fields only matter to the comparison, which
the part *merge* of `setup` checks on three. Three intents are what a task needs for
an attempt, a newer intent and one that supersedes it; two values distinguish a
conflict from an agreement, and the third in `stale_pending` lets an edit return to an
older value while Notion holds another. `BaselineIsRemote` is stated until somebody
edits in Notion, after which nobody can know what a page holds, or a backup brings
older baselines. `restarts` runs `SerialSpec`: one process at a time, as the unit of
the deployment runs the API, with crashes and restarts. `one_process` runs `Spec`,
which is the same with a single process.

*Agent.* A behaviour takes one part. *runs*: two runs with crashes, restarts,
cancellation, cleared history and a changed preference that makes them stale.
*changes*: one run, executed and taken back against planner edits, changed daily
inputs and one of a restore, a midnight, or changed preferences with an imported
archive. *cleared*: two runs with the history cleared between them. Names are used
in one order in place of a symmetry.

*Setup.* Credentials: two authorizations, three tokens, one refresh whose answers are
lost, late or repeated. Structure: one table and one relation besides the root (the
steps of further tables repeat theirs), two credentials, one restore. Scans: one
reader with two days or two readers with one day, one edit of a task, one of the rule,
two scans. Reviews: two reviewers, two ticks of the clock, one replacement, one change
of the page, which are what an observation that arrives late needs. Merge: three
fields and three values, which is every triple that one field can be in. The parts do
not share variables; a composition of the scan with the outbox would be the next step.

*Planner.* The calendar is Friday 27 February to Sunday 1 March with daily rules and
rules on the 31st, so that the clamp at the end of a month falls inside. The code
generates 31 days ahead; the model has a constant for it, one day in the run, so that
days inside and beyond it exist. A change of a rule may give it an end. Part *undo*
begins with a task and a rule whose first occurrences a page has shown; two segments,
three changes, midnight after the second, limit of focus one. Part *windows* begins
with a rule in two segments; one change behind the window and the command of the
window itself. One resource is linked, to a task or an occurrence (`FewLinks`).

Fairness. `steady` assumes weak fairness of the steps of each running process, since
the service polls every 30 seconds and its client bounds every read, and of a start
when nothing runs, since systemd restarts a crashed API and a deployment starts a
stopped one. `capture` assumes the same of a start and of the job of each extraction,
whose call of the model has a deadline. Nothing is assumed of Notion, of people, of
the page or of requests in flight. A capture whose failure could not be recorded is
left running while the process is up (`task-capture-service.ts:136`), and a run
likewise (`agent-run-service.ts:204`): such rows are in `lost`, which the next start
clears, and `CapturesEnd` and `RunningHasJob` are not claimed of them until then.
`steady` leaves out disconnects and restores: an attempt fenced by them may remain
`sending`, which is the first finding. Runs of the agent have no liveness property: a
run that waits for a clarification waits for its user; `RunningHasJob` says that every
other active run outside `lost` has somebody working on it.

Each property of a passing run has a mutant of a modelled definition (a dropped
guard, an overlooked status, a missing reset) under which TLC finds it violated; the
mutants stand beside the definitions they change and are marked as bugs.

### Disagreements found

1. `stuck_sending`: when the connection is disconnected (or paused by an unknown
   write of another task, or by a restore that does not record the send) while a
   preflight read fails, `pauseNotionUnsent` declines and `quarantineIfRestored`
   throws. The operation stays `sending` with a live owner and nobody working on it,
   although nothing was sent. It is recovered only when the process stops.
2. `reopened_restore`: `disconnect` overwrites `paused_after_restore` and `reconnect`
   then activates the workspace without looking at the quarantine, which the restore
   design rules out. Claims remain blocked while quarantine rows exist.
3. `late_send`: the comment of `canDispatchNotionOutbox` says that no restore can slip
   in between the check and the request, and the sync contract that a sender of a
   replaced dataset does not dispatch. With two processes on one database the other may
   commit its fence and the replacement right there, since the check takes no lock. The
   request then leaves for an operation of the old dataset, whose record stands in
   quarantine (`LateSendsHeld`). One process at a time cannot do this (`WriteFence` in
   `restarts`, and the theorem `Fenced`).
4. `stale_pending`: the merge recognises a newer intent by the values of the task. If
   another process changed the task and changed it back, the newer intent waits while
   the merge rewrites the task under it. The claim of that intent is then refused, and
   the drain stops at it, until a later command on the task supersedes it. One process
   at a time cannot do this (`one_process`, and the theorem `WaitingIsCurrent`).

## 4. Proofs

The properties below are proved for all values of the constants, each by an
inductive invariant: it holds at first, every action keeps it (a lemma per action),
and it implies the property.

| Module | Theorem | Property |
| --- | --- | --- |
| `NotionOutboxProofs` | `StoreTyped`, `IntentsCurrent`, `OneOpenWrite`, `NothingDropped` | types, `LiveOpsCurrentEpoch`, `SingleInFlight`, no local change is dropped: all of the store alone, with any callers |
| `NotionSyncProofs` | `IntentKept` | `ImplementsIntent` |
| | `SentOnce`, `LateSendsAccounted`, `NothingLost`, `OnePage` | `NeverResent`, `LateSendsHeld`, `TaskSyncedOrOwed`, `AtMostOneCreate` |
| | `BaselineKept` | `BaselineIsRemote` |
| | `WaitingIsCurrent`, `UndoIsCurrent`, `Fenced` (of `SerialSpec`) | `PendingMatchesTask`, `UndoCurrent`, `WriteFence` |
| `NotionReadingProofs` | `MergeTyped`, `MergeDecided`, `PatchesAgree`, `ConflictsRecorded` | types, no side that moved alone is lost, `SecondPatchAgrees`, `ConflictsAreLosses` |
| | `EditsNotUndone`, `OnePageEach`, `NewestPublished` | `EditsKept`, `OnePagePerOccurrence`, `ReadsInOrder` |
| | `NewestReview` | `LatestReview` |
| `NotionStructureProofs` | `WorkspaceTyped`, `ReviewedWhenActive`, `CreatedOnce` | types, `ActiveReviewed`, `OneCreate` |
| `CredentialVaultProofs` | `LeaseKept`, `DisconnectsHold`, `LeasesUnrotated` | `ImplementsLease`, `DisconnectHolds`, `LeaseUnrotated` |
| `CapturePageProofs` | `CaptureTyped`, `CreatesOnce`, `StoppedIsEmpty`, `OnlyFollowed` | types, `CapturedOnce`, `StoppedMeansNothing`, `LetGoIsOver` |
| `AgentPlanningProofs` | `PlanningTyped`, `OnePlanAtATime`, `CallsBounded`, `CarriedOutOnce`, `NoRunForgotten` | types, `OneCurrentPlan`, `CallCap`, `ExecutedOnce`, `RunningHasJob` |
| | `OutcomeKept`, `TakenAsPlanned`, `TakenBack` | `EndedRunStays`, `AppliedUntouched`, `RevertedUntouched` |
| `PlannerProofs` | `PlannerSound`, `DeletedStaysAway`, `SegmentsStayIntact`, `FocusIsUsable` | a sound database, `DeletedStays`, `ChainIntact`, `FocusUsable` |
| | `UndoPutsAllBack`, `WindowsCommitOnShown` | `UndoRestores`, `CommitsOnShown` |

The theorems are about the specifications themselves (`Spec`, `SerialSpec`,
`StoreSpec`, `ScanSpec`, ...). The runs check instances in parts and scenes that begin
in the middle; the theorems cover every behaviour from the start, also those that take
actions of several parts.

### Assumptions

Each module of the model declares what it needs of its constants, and no proof needs
more: markers such as `NoRow`, `NoFields` or `NoSender` are not values of the kind
they stand for; bounds are natural numbers, and Notion mints a positive number of
tokens; there is at least one day; the inputs of a day come from `DailyInput`; and the
local date is at most one day ahead; days and the numbers of tables and relations are
natural numbers. A calendar has days of a month (`CalendarAssumption`); the id of an
occurrence is made of its key and no other task has such an id (`IdAssumption`; the
code gives every other task a UUID); what a user chooses lies in the calendar and the
limit of focus is a natural number (`ChoicesAssumption`). Nothing is assumed of how
many tasks, rules, changes, processes, pages, runs or captures there are.

### Arguments

*The store* (`StoreSafe`, `StoreKept`). Types are needed because a change of status
must leave the task and the dataset of a row alone, which is only so for a row that is
an operation. Every transaction but two *stays current* and *opens none*
(`StaysCurrent`, `OpensNone`); a claim opens a write where the guard says there is
none, and a replacement leaves nothing live. The backup has its own type, because a
replacement installs its rows. For `NothingDropped`, the latest intent of a linked
task either is resolved with the values of the task or stands for them (`Owed`), in
the database and in every backup.

*The write path* (`SyncSafe`, `OpSafe`, `PageSafe`, `LiveApart`). Each step of
commands, dispatchers and Notion is one transaction of the store or none
(`StepOfStore`), which lets the proofs use what was proved of the store. `OpSafe` adds
that an operation that is being sent is owned by the process whose dispatch works on
it (`Owns`), and that nothing was ever sent for an intent that waits (`IssuedOnce`); a
step that lets an intent wait again therefore has to know that its owner's dispatch is
over or has not sent its request. Between its last check and its request a process has
sent nothing, and its attempt is still being sent or was isolated by a replacement
(`SendHeld`), whatever other processes commit meanwhile; and no two processes stand
there for one task (`SendersApart`). `LateSendsHeld` follows. `PageSafe` adds what
Notion may still receive: while a create of a task is on its way or has arrived, no
other can be claimed, because the task knows its page, is not linked, the quarantine
is not empty, or the attempt that sent it is still open (`CreatesBarred`); a process
about to send a create finds none on its way or arrived (`CreatesFirst`); and the
pages that anyone names exist (`PagesKnown`). `LiveApart` says that a live row is not
in quarantine, and that the backup does not know it as finished, which is what the map
to `NotionIntent` needs at a restore.

*Baselines* (`InStep`, `RemoteTrue`). That a confirmation is never premature is a fact
about requests that arrive late, and not inductive by itself. `InStep` says that a
dispatch works with the values and the baseline of its row. `RemoteTrue` says of each
task that nothing is on its way and the page holds the baseline (`AtRest`), or that
one open attempt has sent its request, which either may still arrive and then turns the
baseline into the values of the attempt (`Flying`), or is over and the page holds
these values (`Landed`); and of each dispatch, that what it read of the page is still
true where it uses it (`JobTrue`). A read that shows the values of the attempt hence
proves that its request has landed. A lost request need not be told apart: the page
still holds the baseline, and no read confirms it. There is nothing to merge in these
behaviours; what merges do to baselines is in `MergeDecided` and `PatchesAgree`.

*One process at a time* (`InMemory`, `Serial`). A process that does not run holds no
dispatch, no receipt of undo and no restore under way. Waiting intents are then
current because a merge is: every waiting intent holds the values of its task and the
baseline of its link (`WaitRow`); an attempt holds the values of its task unless a
newer intent waits (`TryRow`); and a process at the merge has either no newer intent,
or has let pass the one command that can come between its check and the merge, after
which the task differs from what the attempt wanted, so that the merge recognises the
newer intent (`MergeReady`). That commands run between the awaits of the one process,
at most one in that gap, is what a second process breaks (`stale_pending`). That the
last check still holds when the request leaves (`StillFree`) is so because nobody else
runs and the process does nothing in between; `WriteFence` follows. For undo, a merge
and a restore drop the receipt, and a command replaces it, in the step in which they
change the task.

*Reading* (`MergeTypeOK`; `ScanInv`; `ReviewInv`). The comparison needs only types. A
scan needs that its reading has missed nothing as long as the revision of the data is
the one it read under (`ReadsSound`): an edit that was queued, sent and confirmed
while the tables were read has moved the revision, and the apply refuses. `Holding`
says what task and page hold unless owed, `Linked` that an occurrence is linked from
the moment it is made. A review needs that what is observed but not yet recorded was
true at its time (`AuditsSeen`), since the page moves on before it is recorded.

*The structure* (`StructureInv`). That an active connection was reviewed needs that
confirmed steps were read under the revision the connection is bound to
(`BoundReads`), and that a review about to rebind has confirmed all it reviews
(`CallChecked`). That nothing is made twice needs that a call about to create finds
nothing there (`CallChecked`, `MadeOnce`); the root may be made once more per restore
of a backup without it (`RootRecorded`), and a restore under a call may leave steps
without a root, which stay fenced (`RootlessFenced`).

*Credentials* (`VaultInv`). Every start, claim, request and answer under way belongs
to one authorization (`OwnTokens`, `Answered`), numbers of what started before a
disconnect are not above it (`Ordered`), an attempt names one token (`AttemptsNamed`,
`RefreshesAsked`), and the token of a lease was never asked for (`Fresh`). Otherwise a
late answer of a refresh would bring back a credential.

*Captures* (`CaptureInv`, `PageInv`). Who created tasks says so in a status from which
nothing creates (`MadeRecorded`, `OperationsRecorded`). The tab's part is harder: an
answer may be older than the row it tells of, so it says only what cannot become
untrue any more (`Agrees`); what the tab has sent names the capture it
follows, in the order of the line (`LineOrdered`); a tab without a doubt has nothing on
its way (`Settled`); and a refused request has started nothing (`RefusedNothing`).

*Planning* (`PlanningInv`). Versions of the planner only grow (`NotLater`). A snapshot
whose inputs were touched has an overtaken version (`SnapshotVersions`), as has the
receipt of an operation after which the planner changed (`LedgerVersions`); comparing
versions therefore suffices for `AppliedUntouched` and `RevertedUntouched`. What was
executed leaves a receipt, or its marker in a cleared history (`LedgerRemembers`).
`OnePlan` says that there is one active run or one waiting proposal; `CallsCounted`
that the call is counted before the model is asked, also where the row is gone;
`Launched` that a running run has a job that still waits or a launch to come, or is in
`lost`, which a start empties.

*Planner* (`PlannerInv`: `Sound`, `Undoable`). A sound database has segments of one
rule that cover different days (`Segmented`) and agree on the days taken out of it
(`Agreed`): a stop merges the days of the whole chain into one segment, which would
otherwise lose an occurrence another segment asks for. A deleted day is among the
exclusions of the segment that covers it (`Excludes`), so neither a split nor a
replacement forgets it, and key and id of an occurrence are its own (`Keyed`), so that
the conflict of ids at which generation throws never arises. Rows of tasks are not
deleted without their focus (`Placed`). For undo, the database before the command was
sound, the receipt is what that database holds of the rows it changed, and everything
else has stayed or was generated since (`Framed`). A segment that outlives the command
asks for no day it did not ask for before, so what was generated since either goes
with a segment that the command made or is one the old rules ask for. A window commits
on what it showed because the command compares these rows before it changes them, and
changes no other.

### What stays with TLC

Every safety property of the passing runs is stated by a theorem. The rest is:

- Liveness under fairness (`AttemptEnds`, `ActiveDrains`, `CapturesEnd`): TLAPS does
  not reason about `ENABLED`.
- `WaitingIsCurrent`, `UndoIsCurrent` and `Fenced` assume one process at a time. Of
  several, `PendingMatchesTask` and `WriteFence` are false, as `stale_pending` and
  `late_send` show.
- `RecursOn` against dates of real months: the calendar is a constant, of which the
  proofs use only that its days exist.

## 5. How a command travels

A page reads a day, a task or a rule (`Planner.LookAt` generates what the rules ask
for) and opens a window (`PlannerWindows`). Its command runs in one transaction
(`PlannerCommands`) that leaves a change set for undo (`Planner`). If the task is
linked, the same transaction writes an intent (`NotionOutbox`), which a drain claims
and sends (`NotionDispatcher`) to Notion (`NotionProvider`) under the connection that
the structure service made active (`NotionStructure`) with the lease of a credential
(`CredentialVault`, `OAuthBroker`). What people do in Notion comes back at the
preflight of a send (`NotionReconcile`) or by a scan (`NotionScan`). A restore fences
all of this and isolates what was under way, which is then reviewed
(`RestoreReview`). Proposals and captures (`AgentPlanning`, `CapturePage`) end in the
same commands, guarded by the version of the planner.

## 6. Not modelled

- Two workspaces, conflict records as rows, schema migrations, validation of backups,
  timers other than the Retry-After deadline and the expiry of sessions, receipts and
  broker records.
- Database writes that fail, but for the record of a failed run and of a failed
  extraction (`AgentRun.FailLost`, `TaskCapture.FailLost`). A dispatcher whose
  confirmation or whose record of an unknown outcome cannot be written leaves the
  operation `sending` under a live owner until the process stops; `AttemptEnds` is
  about a database that accepts these writes.
- Notion: its search index may miss a page for ever; a page whose identity does not
  match and an incomplete search are one outcome.
- Structure and scan: `verifyRestoredStructure` only reads; the record of a scan's
  last error and the tree of areas and projects do not guard anything.
- Reviews: two operations of a backup with one identity.
- Planner: the deprecated `updateTask`, tasks without dates, the archived flag,
  batches other than details with a new date, receipts of several clients, a second
  process, and series owned by Notion (they are in `NotionScan` and
  `NotionSync`). A restore brings an empty planner. Patterns on weekdays
  are modelled but not in the run.
- Store transactions: commits are taken as atomic; savepoints, their callbacks and
  the event context are not modelled.
- Other pages: the sequence numbers by which they drop late answers of reads.
- The components marked `not_modelled` in `PROJECT.json`: adapters, routes, rendering,
  deployment and evaluation scripts.

## 7. Plan

1. The scan composed with the outbox: its write of a stale connection row never lifts
   a fence.
2. Savepoints and callbacks as a refinement of atomic transactions.
