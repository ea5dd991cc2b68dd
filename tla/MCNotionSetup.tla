----------------------------- MODULE MCNotionSetup -----------------------------
(***************************************************************************)
(* The life of a credential, the structure of a workspace, the scans of    *)
(* its tables, the comparison of task and page and the review of a         *)
(* quarantined operation, each on a small instance.  What one of them promises the next is an abstract            *)
(* specification or a flag, so a behaviour takes the steps of one part and *)
(* the others rest.                                                        *)
(***************************************************************************)
EXTENDS CredentialVault, NotionStructure, NotionScan, NotionMerge, RestoreReview

CONSTANTS p1, p2, a

VARIABLE part

allVars == <<part, vaultVars, workspaceVars, scanVars, mergeVars, reviewVars>>

Parts == {"credential", "structure", "one reader", "one day", "merge", "review"}

MCInit ==
    /\ part \in Parts
    /\ VaultInit /\ WorkspaceInit /\ ScanInit /\ MergeInit /\ ReviewInit
    /\ part = "merge" \/ baseline \in [Field -> {a}]
    /\ page = "absent"
    /\ rule.days # {} => part \in {"one reader", "one day"}

\* One reader and two days, or two readers and one day.
ReadersRest == part = "one reader" => scan'[p2] = NoScan
DaysRest == part = "one day" => 2 \notin rule.days \cup rule'.days

MCNext ==
    /\ UNCHANGED part
    /\ \/ /\ part = "credential" /\ VaultNext
          /\ UNCHANGED <<workspaceVars, scanVars, mergeVars, reviewVars>>
       \/ /\ part = "structure" /\ WorkspaceNext
          /\ UNCHANGED <<vaultVars, scanVars, mergeVars, reviewVars>>
       \/ /\ part \in {"one reader", "one day"}
          /\ ScanNext /\ ReadersRest /\ DaysRest
          /\ UNCHANGED <<vaultVars, workspaceVars, mergeVars, reviewVars>>
       \/ /\ part = "merge" /\ MergeNext
          /\ UNCHANGED <<vaultVars, workspaceVars, scanVars, reviewVars>>
       \/ /\ part = "review" /\ ReviewNext
          /\ UNCHANGED <<vaultVars, workspaceVars, scanVars, mergeVars>>

MCSpec == MCInit /\ [][MCNext]_allVars
=============================================================================
