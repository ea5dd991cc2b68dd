----------------------------- MODULE NotionLease -----------------------------
(***************************************************************************)
(* What the credential vault promises to those who read and write Notion:  *)
(* a lease is named by its revision, is withdrawn at any moment, and never *)
(* comes back; the next lease has a revision that was never given before.  *)
(***************************************************************************)
EXTENDS Naturals

VARIABLES
    lease,     \* the revision of the credential that may be used, 0 for none
    issued     \* the highest number drawn

leaseVars == <<lease, issued>>

LeaseInit == lease = 0 /\ issued = 0

Grant == issued' = issued + 1 /\ lease' = issued'
Withdraw == lease' = 0 /\ issued' \in {issued, issued + 1}
Draw == issued' = issued + 1 /\ UNCHANGED lease

LeaseNext == Grant \/ Withdraw \/ Draw

LeaseSpec == LeaseInit /\ [][LeaseNext]_leaseVars

=============================================================================
