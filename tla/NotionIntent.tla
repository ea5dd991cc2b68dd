------------------------------ MODULE NotionIntent ------------------------------
(***************************************************************************)
(* What the outbox promises of each local write intent, whatever the       *)
(* processes, the network and restores do.  An intent waits until it is    *)
(* withdrawn in favour of a newer one, settled, or attempted; once it is   *)
(* attempted its write may have reached Notion, so it can only be settled  *)
(* or isolated for a person to look at.  Nothing brings it back to waiting, *)
(* and no replacement of the dataset forgets it.                           *)
(***************************************************************************)
CONSTANT Intent

VARIABLE phase

Phase == {"none", "waiting", "attempted", "settled", "withdrawn", "isolated",
          "forgotten"}

IntentInit == phase = [i \in Intent |-> "none"]

(* A new intent, and the older waiting intents it withdraws.               *)
Record(i, older) ==
  /\ phase[i] = "none"
  /\ \A j \in older : phase[j] = "waiting"
  /\ phase' = [j \in Intent |-> IF j = i THEN "waiting"
                                ELSE IF j \in older THEN "withdrawn" ELSE phase[j]]

Withdraw(i) ==
  /\ phase[i] = "waiting"
  /\ phase' = [phase EXCEPT ![i] = "withdrawn"]

(* From here on the write may have happened. *)
Attempt(i) ==
  /\ phase[i] = "waiting"
  /\ phase' = [phase EXCEPT ![i] = "attempted"]

(* Notion was seen to hold the values of i; waiting intents that want the  *)
(* same values are settled with it.                                        *)
Settle(i, same) ==
  /\ phase[i] \in {"waiting", "attempted"}
  /\ \A j \in same : phase[j] = "waiting"
  /\ phase' = [j \in Intent |-> IF j \in {i} \cup same THEN "settled" ELSE phase[j]]

(* A process stops: the attempts it had claimed are presumed sent.         *)
Presume(set) ==
  /\ \A i \in set : phase[i] = "waiting"
  /\ phase' = [i \in Intent |-> IF i \in set THEN "attempted" ELSE phase[i]]

(* The dataset is replaced: an attempted intent is isolated, an isolated   *)
(* one stays so, and the others are as the backup has them.                *)
Outcome(from) ==
  CASE from = "none" -> {"none"}
    [] from = "isolated" -> {"isolated"}
    [] from = "attempted" -> {"isolated"}
    [] from = "waiting" -> {"isolated", "forgotten"}
    [] from \in {"settled", "withdrawn", "forgotten"} ->
         {"settled", "withdrawn", "isolated", "forgotten"}

Replace ==
  /\ phase' \in [Intent -> Phase]
  /\ \A i \in Intent : phase'[i] \in Outcome(phase[i])

IntentNext ==
  \/ \E i \in Intent : \/ \E older \in SUBSET Intent : Record(i, older)
                       \/ Withdraw(i) \/ Attempt(i)
                       \/ \E same \in SUBSET Intent : Settle(i, same)
  \/ \E set \in SUBSET Intent : Presume(set)
  \/ Replace

IntentSpec == IntentInit /\ [][IntentNext]_phase

=============================================================================
