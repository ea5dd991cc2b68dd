----------------------------- MODULE NotionProvider -----------------------------
(***************************************************************************)
(* Notion itself, as far as apps/api/src/services/notion-task-transport.ts *)
(* relies on it.  A create or PATCH request leaves the process at once and *)
(* is carried out later or never, whatever the response said; a search by  *)
(* client key may miss pages that exist; people edit pages.                *)
(***************************************************************************)
EXTENDS NotionReconcile, Integers, FiniteSets

CONSTANTS
  Task,       \* local task identifiers: the client key of a page names one
  Copy,       \* remote pages that may carry the key of one task
  NoFields,   \* a page that does not exist
  NoCopy,     \* a request that names no page: a create
  OpId,       \* operations on whose behalf requests are issued
  MaxRemote   \* bound: edits made by people in Notion

VARIABLES
  remote,       \* shared fields of each page
  wire,         \* write requests sent and not carried out yet
  issued,       \* write requests ever sent for each operation
  remoteEdits   \* edits made by people so far

Pages(t) == {c \in Copy : remote[t][c] # NoFields}

ProviderInit ==
  /\ remote = [t \in Task |-> [c \in Copy |-> NoFields]]
  /\ wire = {}
  /\ issued = [o \in OpId |-> 0]
  /\ remoteEdits = 0

(* createPage and updatePage: one HTTP request leaves the process. *)
Issue(request) ==
  /\ wire' = wire \cup {request}
  /\ issued' = [issued EXCEPT ![request.op] = @ + 1]
  /\ UNCHANGED <<remote, remoteEdits>>

LandCreate(request, copy) ==
  /\ request.copy = NoCopy
  /\ copy \notin Pages(request.task)
  /\ remote' = [remote EXCEPT ![request.task][copy] = request.fields]
  /\ wire' = wire \ {request}
  /\ UNCHANGED <<issued, remoteEdits>>

(* A PATCH carries the changed properties only. *)
LandUpdate(request) ==
  /\ request.copy \in Copy
  /\ remote' = [remote EXCEPT ![request.task][request.copy] =
       [f \in Field |-> IF f \in request.only THEN request.fields[f] ELSE @[f]]]
  /\ wire' = wire \ {request}
  /\ UNCHANGED <<issued, remoteEdits>>

Lose(request) ==
  /\ wire' = wire \ {request}
  /\ UNCHANGED <<remote, issued, remoteEdits>>

RemoteEdit(t, copy, new) ==
  /\ remoteEdits < MaxRemote
  /\ copy \in Pages(t)
  /\ new # remote[t][copy]
  /\ remote' = [remote EXCEPT ![t][copy] = new]
  /\ remoteEdits' = remoteEdits + 1
  /\ UNCHANGED <<wire, issued>>

ProviderNext ==
  \/ \E request \in wire :
       \/ \E copy \in Copy : LandCreate(request, copy)
       \/ LandUpdate(request)
       \/ Lose(request)
  \/ \E t \in Task, copy \in Copy, new \in TaskFields : RemoteEdit(t, copy, new)

=============================================================================
