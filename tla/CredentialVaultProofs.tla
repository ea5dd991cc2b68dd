------------------------- MODULE CredentialVaultProofs -------------------------
(***************************************************************************)
(* What the vault promises, for any authorizations, tokens and refreshes.  *)
(*                                                                         *)
(* LeaseKept: it implements NotionLease.  Each step grants a lease under a *)
(* new revision, withdraws the one there is, draws a number, or leaves     *)
(* both alone.                                                             *)
(*                                                                         *)
(* DisconnectsHold, LeasesUnrotated: from an inductive invariant that ties *)
(* every number, token and answer under way to the authorization it stems  *)
(* from.                                                                   *)
(***************************************************************************)
EXTENDS CredentialVault, TLAPS

\* What the refinement needs to know: a refresh that begins gets an identifier
\* that is not the 0 of "none", and the credential is a row with its columns.
AttemptsCounted == attempts \in Nat
IsRow(c) ==
  c = [token |-> c.token, status |-> c.status, attempt |-> c.attempt, revision |-> c.revision]
RowShaped == IsRow(credential)
VaultShape == AttemptsCounted /\ RowShaped

LEMMA ShapeInitially == VaultInit => VaultShape
  BY DEF VaultInit, VaultShape, AttemptsCounted, RowShaped, IsRow, NoCredential

\* A step that leaves the row alone and draws no number does nothing to the
\* lease, and one that only draws a number is a Draw.
LEMMA RowAlone ==
  ASSUME UNCHANGED credential, sequence' = sequence \/ sequence' = sequence + 1
  PROVE  [Promise!LeaseNext]_(Promise!leaseVars)
  BY DEF Lease, Leased, Promise!LeaseNext, Promise!Draw, Promise!leaseVars

\* The steps of the broker, and those of requests that only ask or hear.
LEMMA BrokerAlone ==
  ASSUME BrokerStep
  PROVE  UNCHANGED <<credential, sequence, attempts>>
<1>1. ASSUME NEW t \in Token, ExchangeEnds(t)
      PROVE  UNCHANGED <<credential, sequence, attempts>>
  BY <1>1 DEF ExchangeEnds, vaultRows
<1> QED
  BY <1>1 DEF BrokerStep, vaultRows

LEMMA RequestAlone ==
  ASSUME NEW a \in Auth,
         \/ StartAuthorization(a) \/ StartAnswered(a) \/ PutPending(a)
         \/ RemovePending(a) \/ AskClaim(a) \/ AcknowledgeClaim(a)
  PROVE  /\ UNCHANGED <<credential, attempts>>
         /\ sequence' = sequence \/ sequence' = sequence + 1
  BY DEF StartAuthorization, StartAnswered, PutPending, RemovePending, AskClaim,
         AcknowledgeClaim, vaultRows

\* A claim that is stored, or refused because of a disconnect.
LEMMA StoreClaimedKeeps ==
  ASSUME NEW a \in Auth, VaultShape, StoreClaimed(a)
  PROVE  VaultShape' /\ [Promise!LeaseNext]_(Promise!leaseVars)
<1>1. CASE pending[a] <= cut
  <2>1. UNCHANGED <<credential, sequence, attempts>>
    BY <1>1 DEF StoreClaimed
  <2> QED
    BY <2>1, RowAlone DEF VaultShape, AttemptsCounted, RowShaped, IsRow
<1>2. CASE ~(pending[a] <= cut)
  <2>1. /\ sequence' = sequence + 1 /\ UNCHANGED attempts
        /\ credential' = [token |-> claims[a], status |-> "active",
                          attempt |-> 0, revision |-> sequence']
    BY <1>2 DEF StoreClaimed
  <2>2. Promise!Grant
    BY <2>1 DEF Promise!Grant, Lease, Leased
  <2> QED
    BY <2>1, <2>2 DEF Promise!LeaseNext, VaultShape, AttemptsCounted, RowShaped, IsRow
<1> QED
  BY <1>1, <1>2

\* A refresh that begins takes the lease away; one that is repeated finds it
\* taken.
LEMMA BeginRefreshKeeps ==
  ASSUME VaultShape, BeginRefresh
  PROVE  VaultShape' /\ [Promise!LeaseNext]_(Promise!leaseVars)
<1>1. UNCHANGED sequence
  BY DEF BeginRefresh
<1>2. CASE credential.attempt # 0
  <2>1. UNCHANGED <<credential, attempts>>
    BY <1>2 DEF BeginRefresh
  <2> QED
    BY <1>1, <2>1, RowAlone DEF VaultShape, AttemptsCounted, RowShaped, IsRow
<1>3. CASE credential.attempt = 0
  <2>1. /\ attempts' = attempts + 1
        /\ credential' = [credential EXCEPT !.attempt = attempts']
    BY <1>3 DEF BeginRefresh
  <2>2. attempts' \in Nat /\ attempts' # 0
    BY <2>1 DEF VaultShape, AttemptsCounted
  <2>3. credential' = [token |-> credential.token, status |-> credential.status,
                       attempt |-> attempts', revision |-> credential.revision]
    BY <2>1 DEF VaultShape, RowShaped, IsRow
  <2>4. Promise!Withdraw
    BY <1>1, <2>2, <2>3 DEF Promise!Withdraw, Lease, Leased
  <2> QED
    BY <2>2, <2>3, <2>4 DEF Promise!LeaseNext, VaultShape, AttemptsCounted, RowShaped, IsRow
<1> QED
  BY <1>2, <1>3

\* What the answer to a refresh does, and a disconnect.
LEMMA AnswerKeeps ==
  ASSUME VaultShape, NEW r \in answers, CompleteRefresh(r) \/ RequireReauthorization(r)
  PROVE  VaultShape' /\ [Promise!LeaseNext]_(Promise!leaseVars)
<1>1. CASE CompleteRefresh(r)
  <2>1. Promise!Grant
    BY <1>1 DEF CompleteRefresh, Promise!Grant, Lease, Leased
  <2> QED
    BY <1>1, <2>1 DEF CompleteRefresh, Promise!LeaseNext, VaultShape, AttemptsCounted,
                      RowShaped, IsRow
<1>2. CASE RequireReauthorization(r)
  <2>1. credential' = [token |-> credential.token, status |-> "reauthorization_required",
                       attempt |-> credential.attempt, revision |-> sequence']
    BY <1>2 DEF RequireReauthorization, VaultShape, RowShaped, IsRow
  <2>2. Promise!Withdraw
    BY <1>2, <2>1 DEF RequireReauthorization, Promise!Withdraw, Lease, Leased
  <2> QED
    BY <1>2, <2>1, <2>2 DEF RequireReauthorization, Promise!LeaseNext, VaultShape,
                            AttemptsCounted, RowShaped, IsRow
<1> QED
  BY <1>1, <1>2

LEMMA DisconnectKeeps ==
  ASSUME VaultShape, DisconnectVault
  PROVE  VaultShape' /\ [Promise!LeaseNext]_(Promise!leaseVars)
<1>1. Promise!Withdraw
  BY DEF DisconnectVault, NoCredential, Promise!Withdraw, Lease, Leased
<1> QED
  BY <1>1 DEF DisconnectVault, NoCredential, Promise!LeaseNext, VaultShape, AttemptsCounted,
              RowShaped, IsRow

\* Every step keeps the shape and is a step of the promise.
LEMMA StepKeeps ==
  ASSUME VaultShape, [VaultNext]_vaultVars
  PROVE  VaultShape' /\ [Promise!LeaseNext]_(Promise!leaseVars)
<1>1. ASSUME UNCHANGED <<credential, attempts>>, sequence' = sequence \/ sequence' = sequence + 1
      PROVE  VaultShape' /\ [Promise!LeaseNext]_(Promise!leaseVars)
  BY <1>1, RowAlone DEF VaultShape, AttemptsCounted, RowShaped, IsRow
<1>2. CASE UNCHANGED vaultVars
  BY <1>1, <1>2 DEF vaultVars, vaultRows
<1>3. CASE BrokerStep
  BY <1>1, <1>3, BrokerAlone
<1>4. ASSUME NEW a \in Auth,
             \/ StartAuthorization(a) \/ StartAnswered(a) \/ PutPending(a)
             \/ RemovePending(a) \/ AskClaim(a) \/ AcknowledgeClaim(a)
      PROVE  VaultShape' /\ [Promise!LeaseNext]_(Promise!leaseVars)
  BY <1>1, <1>4, RequestAlone
<1>5. ASSUME NEW a \in Auth, StoreClaimed(a)
      PROVE  VaultShape' /\ [Promise!LeaseNext]_(Promise!leaseVars)
  BY <1>5, StoreClaimedKeeps
<1>6. CASE BeginRefresh
  BY <1>6, BeginRefreshKeeps
<1>7. CASE \E q \in asking : AskRefresh(q)
  BY <1>1, <1>7 DEF AskRefresh, vaultRows
<1>8. CASE \E r \in answers : CompleteRefresh(r) \/ RequireReauthorization(r)
  BY <1>8, AnswerKeeps
<1>9. CASE DisconnectVault
  BY <1>9, DisconnectKeeps
<1>10. CASE RestartVault
  BY <1>1, <1>10 DEF RestartVault, vaultRows
<1> QED
  BY <1>2, <1>3, <1>4, <1>5, <1>6, <1>7, <1>8, <1>9, <1>10 DEF VaultNext, VaultStep

\* The vault implements NotionLease: whatever answers of claims and refreshes are
\* lost, repeated or late, a lease that was withdrawn never comes back under its
\* revision (storeClaimed, beginRefresh, completeRefresh, disconnect).
THEOREM LeaseKept == VaultSpec => ImplementsLease
<1>1. VaultInit => Promise!LeaseInit
  BY DEF VaultInit, NoCredential, Promise!LeaseInit, Lease, Leased
<1> QED
  BY <1>1, ShapeInitially, StepKeeps, PTL DEF VaultSpec, ImplementsLease, Promise!LeaseSpec

(***************************************************************************)
(* The inductive invariant behind LeaseUnrotated and DisconnectHolds.      *)
(***************************************************************************)

Minted == 1..Len(minted)
MintedOrNone == Minted \cup {NoToken}

SessionStatus == {"none", "pending", "cancelled", "exchanging", "ready", "failed",
                  "claimed", "spent", "expired"}
RefreshStatus == {"none", "exchanging", "ready", "failed", "expired"}

VaultTypeOK ==
  /\ minted \in Seq(Auth) /\ Len(minted) <= MaxToken /\ rotated \subseteq Minted
  /\ sequence \in Nat /\ cut \in Nat /\ attempts \in Nat
  /\ pending \in [Auth -> Nat] /\ begun \in [Auth -> Nat]
  /\ claims \in [Auth -> MintedOrNone]
  /\ session \in [Auth -> [status : SessionStatus, token : MintedOrNone]]
  /\ refreshing \in [Token -> [status : RefreshStatus, attempt : Nat, token : MintedOrNone]]
  /\ credential \in [token : MintedOrNone, attempt : Nat, revision : Nat,
                     status : {"none", "active", "reauthorization_required"}]
  /\ asking \subseteq [token : Minted, attempt : 1..attempts]
  /\ answers \subseteq [attempt : Nat, token : MintedOrNone]
  /\ asked \subseteq Auth /\ severed \subseteq asked

\* What was reserved before the last disconnect is not above its number.
Ordered ==
  /\ cut <= sequence
  /\ \A a \in Auth : begun[a] <= sequence /\ pending[a] <= sequence
  /\ \A a \in severed : begun[a] <= cut /\ pending[a] <= cut

\* A session and a claim hold a token of their own authorization.
OwnTokens ==
  \A a \in Auth : /\ session[a].token # NoToken => minted[session[a].token] = a
                  /\ claims[a] # NoToken => minted[claims[a]] = a

\* An authorization is stored once, and only then are its tokens refreshed.
Stored(a) == a \in asked /\ begun[a] = 0 /\ pending[a] = 0
StoredOnce ==
  /\ \A a \in Auth : begun[a] # 0 \/ pending[a] # 0 => a \in asked
  /\ \A a \in Auth : pending[a] # 0 => begun[a] = 0
  /\ credential.token # NoToken => Stored(minted[credential.token])
  /\ \A q \in asking : Stored(minted[q.token])

\* An attempt belongs to one token; the credential's is the latest.
AttemptsNamed ==
  /\ \A q, p \in asking : q.attempt = p.attempt => q.token = p.token
  /\ credential.status = "active" => credential.token # NoToken
  /\ credential.attempt # 0 =>
        /\ credential.attempt = attempts
        /\ \E q \in asking : q.attempt = attempts /\ q.token = credential.token

\* The broker refreshes, and Notion replaces, only what was asked for.
RefreshesAsked ==
  /\ \A t \in Token : refreshing[t].status \in {"exchanging", "ready", "failed"} =>
        \E q \in asking : q.attempt = refreshing[t].attempt /\ q.token = t
  /\ \A t \in rotated : \E q \in asking : q.token = t

\* The answer to an attempt is of the same authorization as its token, and only
\* later attempts may ask to refresh it in turn.
Answers(x, t) ==
  /\ \E q \in asking : q.attempt = x /\ (t # NoToken => minted[t] = minted[q.token])
  /\ t # NoToken => \A q \in asking : q.token = t => q.attempt > x
Answered ==
  /\ \A r \in answers : Answers(r.attempt, r.token)
  /\ \A t \in Token : refreshing[t].status = "ready" =>
        Answers(refreshing[t].attempt, refreshing[t].token)

\* Nobody has asked to refresh the token of a lease.
Fresh == Leased => \A q \in asking : q.token # credential.token

VaultInv ==
  /\ VaultTypeOK /\ Ordered /\ OwnTokens /\ StoredOnce /\ AttemptsNamed
  /\ RefreshesAsked /\ Answered /\ Fresh /\ DisconnectHolds

LEMMA InvInitially == VaultInit => VaultInv
<1> SUFFICES ASSUME VaultInit
             PROVE  VaultInv
  OBVIOUS
<1>1. minted = <<>> /\ minted \in Seq(Auth) /\ Len(minted) = 0
  BY DEF VaultInit, BrokerInit
<1>2. VaultTypeOK
  BY <1>1, MaxTokenAssumption
     DEF VaultInit, BrokerInit, VaultTypeOK, Minted, MintedOrNone, NoSession, NoRefresh,
         NoCredential, NoToken, SessionStatus, RefreshStatus
<1>3. /\ Ordered /\ OwnTokens /\ StoredOnce /\ AttemptsNamed
      /\ RefreshesAsked /\ Answered /\ Fresh /\ DisconnectHolds
  BY DEF VaultInit, BrokerInit, Ordered, OwnTokens, StoredOnce, AttemptsNamed,
         RefreshesAsked, Answered, Fresh,
         DisconnectHolds, Leased, NoSession, NoRefresh, NoCredential, NoToken
<1> QED
  BY <1>2, <1>3 DEF VaultInv

\* Notion mints a token: the others keep their numbers and their authorizations.
LEMMA MintAppends ==
  ASSUME minted \in Seq(Auth), NEW a \in Auth, Mint(a)
  PROVE  /\ minted' \in Seq(Auth) /\ Newest = Len(minted) + 1 /\ Len(minted') = Len(minted) + 1
         /\ Newest \in Minted' /\ Minted \subseteq Minted'
         /\ \A i \in Minted : minted'[i] = minted[i]
         /\ minted'[Newest] = a /\ Len(minted') <= MaxToken
  BY MaxTokenAssumption DEF Mint, Newest, Minted

\* Steps of a session or of a claim that leave rows, refreshes and answers alone.
LEMMA SessionKeeps ==
  ASSUME VaultInv,
         UNCHANGED <<minted, rotated, refreshing, vaultRows, begun, asking, answers, history>>,
         session' \in [Auth -> [status : SessionStatus, token : MintedOrNone]],
         claims' \in [Auth -> MintedOrNone],
         OwnTokens'
  PROVE  VaultInv'
<1>1. VaultTypeOK'
  BY DEF VaultInv, VaultTypeOK, vaultRows, history, Minted, MintedOrNone
<1>2. Ordered' /\ StoredOnce' /\ AttemptsNamed' /\ RefreshesAsked' /\ Fresh' /\ DisconnectHolds'
  BY DEF VaultInv, Ordered, StoredOnce, Stored, AttemptsNamed, RefreshesAsked, Fresh,
         Leased, DisconnectHolds,
         vaultRows, history
<1>3. Answered'
  BY DEF VaultInv, Answered, Answers, vaultRows, history
<1> QED
  BY <1>1, <1>2, <1>3 DEF VaultInv

LEMMA SessionStepKeeps ==
  ASSUME VaultInv, NEW a \in Auth,
         \/ StartAnswered(a) \/ AskClaim(a) \/ AcknowledgeClaim(a)
         \/ /\ CancelSession(a) \/ BeginCallback(a) \/ FailSession(a) \/ SessionExpires(a)
            /\ UNCHANGED <<vaultRows, vaultRequests, history>>
  PROVE  VaultInv'
<1>1. UNCHANGED <<minted, rotated, refreshing, vaultRows, begun, asking, answers, history>>
  BY DEF StartAnswered, AskClaim, AcknowledgeClaim, CancelSession, BeginCallback, FailSession,
         SessionExpires, BeginSession, ClaimSession, AcknowledgeSession, vaultRequests
<1>2. PICK status \in SessionStatus, token \in {NoToken, session[a].token} :
        session' = [session EXCEPT ![a] = [status |-> status, token |-> token]]
  BY DEF StartAnswered, AskClaim, AcknowledgeClaim, CancelSession, BeginCallback, FailSession,
         SessionExpires, BeginSession, ClaimSession, AcknowledgeSession, SetSession, SessionStatus
<1>3. PICK claim \in {NoToken, session[a].token, claims[a]} : claims' = [claims EXCEPT ![a] = claim]
  BY DEF VaultInv, VaultTypeOK, StartAnswered, AskClaim, AcknowledgeClaim, vaultRequests
<1>4. /\ session' \in [Auth -> [status : SessionStatus, token : MintedOrNone]]
      /\ claims' \in [Auth -> MintedOrNone]
  BY <1>2, <1>3 DEF VaultInv, VaultTypeOK, MintedOrNone
<1>5. OwnTokens'
  BY <1>1, <1>2, <1>3 DEF VaultInv, VaultTypeOK, OwnTokens
<1> QED
  BY <1>1, <1>4, <1>5, SessionKeeps

\* The tokens that the row and the requests name are of known authorizations.
LEMMA NamesKnown ==
  ASSUME VaultInv
  PROVE  /\ credential.token # NoToken => minted[credential.token] \in Auth
         /\ \A q \in asking : minted[q.token] \in Auth
  BY DEF VaultInv, VaultTypeOK, Minted, MintedOrNone

\* A start reserves its number; the row that waits for the claim takes it over.
LEMMA StartKeeps ==
  ASSUME VaultInv, NEW a \in Auth, StartAuthorization(a)
  PROVE  VaultInv'
<1>1. /\ a \notin asked /\ asked' = asked \cup {a} /\ sequence' = sequence + 1
      /\ begun' = [begun EXCEPT ![a] = sequence + 1]
      /\ UNCHANGED <<session, refreshing, minted, rotated, pending, credential, cut, attempts,
                     claims, asking, answers, severed>>
  BY DEF StartAuthorization, brokerVars
<1>2. VaultTypeOK'
  BY <1>1 DEF VaultInv, VaultTypeOK, Minted, MintedOrNone
<1>3. Ordered'
  BY <1>1 DEF VaultInv, VaultTypeOK, Ordered
<1>4. StoredOnce'
  BY <1>1 DEF VaultInv, VaultTypeOK, StoredOnce, Stored
<1>5. OwnTokens' /\ AttemptsNamed' /\ RefreshesAsked' /\ Answered' /\ Fresh' /\ DisconnectHolds'
  BY <1>1 DEF VaultInv, OwnTokens, AttemptsNamed, RefreshesAsked, Answered, Answers, Fresh,
              Leased, DisconnectHolds
<1> QED
  BY <1>2, <1>3, <1>4, <1>5 DEF VaultInv

LEMMA PendingKeeps ==
  ASSUME VaultInv, NEW a \in Auth, PutPending(a) \/ RemovePending(a)
  PROVE  VaultInv'
<1>1. PICK n \in {0, begun[a]}, m \in {0, begun[a]} :
        /\ pending' = [pending EXCEPT ![a] = n] /\ begun' = [begun EXCEPT ![a] = m]
        /\ n # 0 => m = 0
        /\ begun[a] # 0 \/ pending[a] # 0
  <2>1. CASE PutPending(a)
    BY <2>1 DEF PutPending, StartSequence
  <2>2. CASE RemovePending(a)
    <3>1. begun' = [begun EXCEPT ![a] = begun[a]]
      BY <2>2 DEF VaultInv, VaultTypeOK, RemovePending, vaultRequests
    <3> QED
      BY <2>2, <3>1 DEF RemovePending
  <2> QED
    BY <2>1, <2>2
<1>2. UNCHANGED <<session, refreshing, minted, rotated, sequence, credential, cut, attempts,
                  claims, asking, answers, asked, severed>>
  BY DEF PutPending, RemovePending, brokerVars, vaultRequests, history
<1>3. VaultTypeOK'
  <2>1. pending' \in [Auth -> Nat] /\ begun' \in [Auth -> Nat]
    BY <1>1 DEF VaultInv, VaultTypeOK
  <2> QED
    BY <1>2, <2>1 DEF VaultInv, VaultTypeOK, Minted, MintedOrNone
<1>4. Ordered'
  BY <1>1, <1>2 DEF VaultInv, VaultTypeOK, Ordered
<1>5. StoredOnce'
  <2>1. \A b \in Auth : Stored(b) => Stored(b)'
    BY <1>1, <1>2 DEF VaultInv, VaultTypeOK, Stored
  <2>2. \A b \in Auth : /\ begun'[b] # 0 \/ pending'[b] # 0 => b \in asked'
                        /\ pending'[b] # 0 => begun'[b] = 0
    BY <1>1, <1>2 DEF VaultInv, VaultTypeOK, StoredOnce
  <2> QED
    BY <1>2, <2>1, <2>2, NamesKnown DEF VaultInv, StoredOnce, Stored
<1>6. OwnTokens' /\ AttemptsNamed' /\ RefreshesAsked' /\ Answered' /\ Fresh' /\ DisconnectHolds'
  BY <1>1, <1>2 DEF VaultInv, OwnTokens, AttemptsNamed, RefreshesAsked, Answered, Answers,
                    Fresh, Leased, DisconnectHolds
<1> QED
  BY <1>3, <1>4, <1>5, <1>6 DEF VaultInv

\* A claim is stored only if its start is later than the last disconnect, and
\* then nobody can have asked to refresh its token.
LEMMA ClaimedKeeps ==
  ASSUME VaultInv, NEW a \in Auth, StoreClaimed(a)
  PROVE  VaultInv'
<1>1. /\ claims[a] # NoToken /\ pending[a] # 0 /\ pending' = [pending EXCEPT ![a] = 0]
      /\ \/ UNCHANGED <<sequence, credential>>
         \/ /\ ~(pending[a] <= cut) /\ sequence' = sequence + 1
            /\ credential' = [token |-> claims[a], status |-> "active",
                              attempt |-> 0, revision |-> sequence']
      /\ UNCHANGED <<session, refreshing, minted, rotated, cut, attempts, begun,
                     claims, asking, answers, asked, severed>>
  BY DEF StoreClaimed, brokerVars, history
<1>2. VaultTypeOK'
  <2>1. /\ sequence' \in Nat /\ pending' \in [Auth -> Nat]
        /\ credential' \in [token : MintedOrNone, attempt : Nat, revision : Nat,
                            status : {"none", "active", "reauthorization_required"}]
    BY <1>1 DEF VaultInv, VaultTypeOK
  <2> QED
    BY <1>1, <2>1 DEF VaultInv, VaultTypeOK, Minted, MintedOrNone
<1>3. Ordered'
  BY <1>1 DEF VaultInv, VaultTypeOK, Ordered
<1>4. /\ claims[a] \in Minted /\ minted[claims[a]] = a
      /\ \A q \in asking : q.token # claims[a]
  BY <1>1 DEF VaultInv, VaultTypeOK, OwnTokens, StoredOnce, Stored, MintedOrNone
<1>5. StoredOnce'
  <2>1. \A b \in Auth : Stored(b) => Stored(b)'
    BY <1>1 DEF VaultInv, VaultTypeOK, Stored
  <2>2. Stored(a)'
    BY <1>1 DEF VaultInv, VaultTypeOK, StoredOnce, Stored
  <2>3. \A b \in Auth : /\ begun'[b] # 0 \/ pending'[b] # 0 => b \in asked'
                        /\ pending'[b] # 0 => begun'[b] = 0
    BY <1>1 DEF VaultInv, VaultTypeOK, StoredOnce
  <2> QED
    BY <1>1, <1>4, <2>1, <2>2, <2>3, NamesKnown DEF VaultInv, StoredOnce, Stored
<1>6. OwnTokens' /\ Answered'
  BY <1>1 DEF VaultInv, OwnTokens, Answered, Answers
<1>7. AttemptsNamed' /\ RefreshesAsked'
  BY <1>1 DEF VaultInv, AttemptsNamed, RefreshesAsked
<1>8. Fresh'
  BY <1>1, <1>4 DEF VaultInv, Fresh, Leased
<1>9. DisconnectHolds'
  BY <1>1, <1>4 DEF VaultInv, VaultTypeOK, Ordered, DisconnectHolds
<1> QED
  BY <1>2, <1>3, <1>5, <1>6, <1>7, <1>8, <1>9 DEF VaultInv

\* A disconnect is later than every start there has been.
LEMMA CutKeeps ==
  ASSUME VaultInv, DisconnectVault
  PROVE  VaultInv'
<1>1. /\ sequence' = sequence + 1 /\ cut' = sequence + 1 /\ severed' = asked
      /\ credential' = NoCredential
      /\ UNCHANGED <<session, refreshing, minted, rotated, pending, attempts, begun, claims,
                     asking, answers, asked>>
  BY DEF DisconnectVault, brokerVars, vaultRequests
<1>2. VaultTypeOK'
  BY <1>1 DEF VaultInv, VaultTypeOK, Minted, MintedOrNone, NoCredential, NoToken
<1>3. Ordered'
  BY <1>1 DEF VaultInv, VaultTypeOK, Ordered
<1>4. OwnTokens' /\ Answered'
  BY <1>1 DEF VaultInv, OwnTokens, Answered, Answers
<1>5. StoredOnce' /\ AttemptsNamed' /\ RefreshesAsked' /\ Fresh' /\ DisconnectHolds'
  BY <1>1 DEF VaultInv, StoredOnce, Stored, AttemptsNamed, RefreshesAsked, Fresh, Leased,
              DisconnectHolds,
              NoCredential, NoToken
<1> QED
  BY <1>2, <1>3, <1>4, <1>5 DEF VaultInv

\* A restart forgets what requests held.
LEMMA RestartKeeps ==
  ASSUME VaultInv, RestartVault
  PROVE  VaultInv'
<1>1. /\ begun' = [b \in Auth |-> 0] /\ claims' = [b \in Auth |-> NoToken] /\ answers' = {}
      /\ UNCHANGED <<session, refreshing, minted, rotated, sequence, pending, credential, cut,
                     attempts, asking, asked, severed>>
  BY DEF RestartVault, brokerVars, vaultRows, history
<1>2. VaultTypeOK'
  BY <1>1 DEF VaultInv, VaultTypeOK, Minted, MintedOrNone, NoToken
<1>3. Ordered' /\ OwnTokens'
  BY <1>1 DEF VaultInv, VaultTypeOK, Ordered, OwnTokens
<1>4. StoredOnce'
  <2>1. \A b \in Auth : Stored(b) => Stored(b)'
    BY <1>1 DEF Stored
  <2> QED
    BY <1>1, <2>1, NamesKnown DEF VaultInv, StoredOnce, Stored
<1>5. AttemptsNamed' /\ RefreshesAsked' /\ Answered' /\ Fresh' /\ DisconnectHolds'
  BY <1>1 DEF VaultInv, AttemptsNamed, RefreshesAsked, Answered, Answers, Fresh, Leased,
              DisconnectHolds
<1> QED
  BY <1>2, <1>3, <1>4, <1>5 DEF VaultInv

\* A refresh that begins names the leased token, which nobody has asked for yet.
LEMMA BeginKeeps ==
  ASSUME VaultInv, BeginRefresh
  PROVE  VaultInv'
<1>1. PICK x \in Nat :
        /\ credential' = [credential EXCEPT !.attempt = x]
        /\ asking' = asking \cup {[token |-> credential.token, attempt |-> x]}
        /\ attempts' = x /\ x # 0
        /\ \/ x = attempts /\ credential.attempt = attempts
           \/ x = attempts + 1 /\ credential.attempt = 0
  <2>1. CASE credential.attempt # 0
    <3>1. credential' = [credential EXCEPT !.attempt = credential.attempt]
      BY <2>1 DEF BeginRefresh, VaultInv, VaultTypeOK
    <3> QED
      BY <2>1, <3>1 DEF BeginRefresh, VaultInv, VaultTypeOK, AttemptsNamed
  <2>2. CASE credential.attempt = 0
    BY <2>2 DEF BeginRefresh, VaultInv, VaultTypeOK
  <2> QED
    BY <2>1, <2>2
<1>2. /\ credential.status = "active" /\ credential.token \in Minted
      /\ UNCHANGED <<session, refreshing, minted, rotated, sequence, pending, cut, begun, claims,
                     answers, asked, severed>>
  BY DEF BeginRefresh, brokerVars, history, VaultInv, VaultTypeOK, AttemptsNamed,
         RefreshesAsked, MintedOrNone
<1>3. VaultTypeOK'
  <2>1. asking' \subseteq [token : Minted, attempt : 1..x]
    BY <1>1, <1>2 DEF VaultInv, VaultTypeOK
  <2> QED
    BY <1>1, <1>2, <2>1 DEF VaultInv, VaultTypeOK, Minted, MintedOrNone
<1>4. Ordered' /\ OwnTokens' /\ DisconnectHolds' /\ Fresh'
  BY <1>1, <1>2 DEF VaultInv, VaultTypeOK, Ordered, OwnTokens, DisconnectHolds, Fresh, Leased
<1>5. StoredOnce'
  BY <1>1, <1>2 DEF VaultInv, VaultTypeOK, StoredOnce, Stored, Minted, NoToken
<1>6. ASSUME NEW q \in asking, q.attempt = x
      PROVE  q.token = credential.token
  <2>1. q.attempt <= attempts /\ attempts \in Nat
    BY DEF VaultInv, VaultTypeOK
  <2>2. credential.attempt = attempts /\ attempts # 0
    BY <1>1, <1>6, <2>1
  <2> QED
    BY <1>1, <1>6, <2>1, <2>2 DEF VaultInv, AttemptsNamed
<1>7. AttemptsNamed'
  <2>1. \A q, p \in asking' : q.attempt = p.attempt => q.token = p.token
    BY <1>1, <1>6 DEF VaultInv, AttemptsNamed
  <2>2. credential'.token = credential.token /\ credential'.attempt = x
    BY <1>1 DEF VaultInv, VaultTypeOK
  <2>3. \E q \in asking' : q.attempt = x /\ q.token = credential.token
    <3> DEFINE new == [token |-> credential.token, attempt |-> x]
    <3>1. new \in asking' /\ new.attempt = x /\ new.token = credential.token
      BY <1>1
    <3> QED
      BY <3>1
  <2>4. credential.token # NoToken
    BY <1>2 DEF Minted, NoToken
  <2> QED
    BY <1>1, <1>2, <2>1, <2>2, <2>3, <2>4 DEF AttemptsNamed
<1>8. ASSUME NEW y, NEW t, Answers(y, t)
      PROVE  Answers(y, t)'
  <2>1. PICK p \in asking : p.attempt = y /\ (t # NoToken => minted[t] = minted[p.token])
    BY <1>8 DEF Answers
  <2>2. ASSUME t # NoToken, t = credential.token, x = attempts + 1
        PROVE  x > y
    BY <2>1, <2>2 DEF VaultInv, VaultTypeOK
  <2>3. ASSUME t # NoToken, t = credential.token, x = attempts, credential.attempt = attempts
        PROVE  x > y
    BY <1>1, <1>8, <2>3 DEF VaultInv, AttemptsNamed, RefreshesAsked, Answers
  <2> QED
    BY <1>1, <1>2, <1>8, <2>1, <2>2, <2>3 DEF Answers
<1>9. Answered'
  BY <1>2, <1>8 DEF VaultInv, Answered
<1>10. RefreshesAsked'
  BY <1>1, <1>2 DEF VaultInv, RefreshesAsked
<1> QED
  BY <1>3, <1>4, <1>5, <1>7, <1>9, <1>10 DEF VaultInv

\* The answer to the row's attempt is of the row's authorization, and nobody has
\* asked to refresh it.
LEMMA CompleteKeeps ==
  ASSUME VaultInv, NEW r \in answers, CompleteRefresh(r)
  PROVE  VaultInv'
<1>1. /\ r.token # NoToken /\ credential.attempt = r.attempt /\ sequence' = sequence + 1
      /\ credential' = [token |-> r.token, status |-> "active", attempt |-> 0,
                        revision |-> sequence']
      /\ UNCHANGED <<session, refreshing, minted, rotated, pending, cut, attempts, begun, claims,
                     asking, answers, asked, severed>>
  BY DEF CompleteRefresh, brokerVars, history
<1>2. PICK q \in asking : q.attempt = r.attempt /\ minted[r.token] = minted[q.token]
  BY <1>1 DEF VaultInv, Answered, Answers
<1>3. r.attempt = attempts /\ q.token = credential.token /\ credential.token # NoToken
  <2>1. r.attempt # 0
    BY <1>2 DEF VaultInv, VaultTypeOK
  <2> QED
    BY <1>1, <1>2, <2>1 DEF VaultInv, VaultTypeOK, AttemptsNamed, Minted, NoToken
<1>4. \A p \in asking : p.token # r.token
  BY <1>1, <1>3 DEF VaultInv, VaultTypeOK, Answered, Answers
<1>5. VaultTypeOK'
  <2>1. r.token \in MintedOrNone /\ sequence' \in Nat
    BY <1>1 DEF VaultInv, VaultTypeOK
  <2>2. credential' \in [token : MintedOrNone, attempt : Nat, revision : Nat,
                       status : {"none", "active", "reauthorization_required"}]
    BY <1>1, <2>1
  <2> QED
    BY <1>1, <2>1, <2>2 DEF VaultInv, VaultTypeOK, Minted, MintedOrNone
<1>6. Ordered' /\ OwnTokens' /\ Answered'
  BY <1>1 DEF VaultInv, VaultTypeOK, Ordered, OwnTokens, Answered, Answers
<1>7. StoredOnce' /\ DisconnectHolds'
  BY <1>1, <1>2, <1>3 DEF VaultInv, StoredOnce, Stored, DisconnectHolds
<1>8. AttemptsNamed' /\ RefreshesAsked' /\ Fresh'
  BY <1>1, <1>4 DEF VaultInv, AttemptsNamed, RefreshesAsked, Fresh, Leased
<1> QED
  BY <1>5, <1>6, <1>7, <1>8 DEF VaultInv

\* A refusal leaves the row's attempt and takes only its status.
LEMMA ReauthorizeKeeps ==
  ASSUME VaultInv, NEW r \in answers, RequireReauthorization(r)
  PROVE  VaultInv'
<1>1. /\ sequence' = sequence + 1
      /\ UNCHANGED <<session, refreshing, minted, rotated, pending, cut, attempts, begun, claims,
                     asking, answers, asked, severed>>
  BY DEF RequireReauthorization, brokerVars, vaultRequests, history
<1>2. credential' = [credential EXCEPT !.status = "reauthorization_required",
                                       !.revision = sequence']
  BY DEF RequireReauthorization
<1>3. sequence \in Nat /\ sequence' \in Nat
  BY <1>1 DEF VaultInv, VaultTypeOK
<1>4. /\ credential'.token = credential.token /\ credential'.attempt = credential.attempt
      /\ credential'.status = "reauthorization_required"
      /\ credential' \in [token : MintedOrNone, attempt : Nat, revision : Nat,
                          status : {"none", "active", "reauthorization_required"}]
  <2>1. credential \in [token : MintedOrNone, attempt : Nat, revision : Nat,
                       status : {"none", "active", "reauthorization_required"}]
    BY DEF VaultInv, VaultTypeOK
  <2> QED
    BY <1>2, <1>3, <2>1
<1>5. VaultTypeOK'
  BY <1>1, <1>3, <1>4 DEF VaultInv, VaultTypeOK, Minted, MintedOrNone
<1>6. Ordered' /\ OwnTokens' /\ Answered'
  BY <1>1 DEF VaultInv, VaultTypeOK, Ordered, OwnTokens, Answered, Answers
<1>7. StoredOnce' /\ DisconnectHolds' /\ AttemptsNamed' /\ RefreshesAsked' /\ Fresh'
  BY <1>1, <1>4 DEF VaultInv, StoredOnce, Stored, DisconnectHolds, AttemptsNamed, RefreshesAsked,
                    Fresh, Leased
<1> QED
  BY <1>5, <1>6, <1>7 DEF VaultInv

\* Notion mints nothing, or one token more.
Mints == UNCHANGED minted \/ \E a \in Auth : Mint(a)

LEMMA MintsKeep ==
  ASSUME minted \in Seq(Auth), Len(minted) <= MaxToken, Mints
  PROVE  /\ minted' \in Seq(Auth) /\ Len(minted') <= MaxToken /\ Minted \subseteq Minted'
         /\ \A i \in Minted : minted'[i] = minted[i]
<1>1. CASE UNCHANGED minted
  BY <1>1 DEF Minted
<1>2. CASE \E a \in Auth : Mint(a)
  BY <1>2, MintAppends
<1> QED
  BY <1>1, <1>2 DEF Mints

\* What an answer says does not depend on later tokens.
LEMMA AnswersKeep ==
  ASSUME VaultInv, Mints, UNCHANGED asking, NEW x, NEW t \in MintedOrNone, Answers(x, t)
  PROVE  Answers(x, t)'
<1>1. \A i \in Minted : minted'[i] = minted[i]
  BY MintsKeep DEF VaultInv, VaultTypeOK
<1>2. \A q \in asking : q.token \in Minted
  BY DEF VaultInv, VaultTypeOK
<1> QED
  BY <1>1, <1>2 DEF Answers, MintedOrNone

\* A step of the broker leaves the rows alone: what is left to show is what the
\* sessions, the refreshes and the answers say.
LEMMA BrokerKeeps ==
  ASSUME VaultInv, Mints, UNCHANGED <<vaultRows, begun, claims, asking, history>>,
         session' \in [Auth -> [status : SessionStatus, token : MintedOrNone']],
         refreshing' \in [Token -> [status : RefreshStatus, attempt : Nat, token : MintedOrNone']],
         answers' \subseteq [attempt : Nat, token : MintedOrNone'],
         rotated' \subseteq Minted',
         \A a \in Auth : session'[a].token # NoToken => minted'[session'[a].token] = a,
         RefreshesAsked', Answered'
  PROVE  VaultInv'
<1>1. /\ minted' \in Seq(Auth) /\ Len(minted') <= MaxToken /\ Minted \subseteq Minted'
      /\ \A i \in Minted : minted'[i] = minted[i]
  BY MintsKeep DEF VaultInv, VaultTypeOK
<1>2. MintedOrNone \subseteq MintedOrNone'
  BY <1>1 DEF MintedOrNone
<1>3. UNCHANGED <<sequence, pending, credential, cut, attempts, begun, claims, asking,
                  asked, severed>>
  BY DEF vaultRows, history
<1>4. VaultTypeOK'
  <2>1. claims' \in [Auth -> MintedOrNone']
    BY <1>2, <1>3 DEF VaultInv, VaultTypeOK
  <2>2. credential' \in [token : MintedOrNone', attempt : Nat, revision : Nat,
                        status : {"none", "active", "reauthorization_required"}]
    BY <1>2, <1>3 DEF VaultInv, VaultTypeOK
  <2>3. asking' \subseteq [token : Minted', attempt : 1..attempts']
    BY <1>1, <1>3 DEF VaultInv, VaultTypeOK
  <2> QED
    BY <1>1, <1>3, <2>1, <2>2, <2>3 DEF VaultInv, VaultTypeOK
<1>5. Ordered' /\ AttemptsNamed' /\ Fresh'
  BY <1>3 DEF VaultInv, Ordered, AttemptsNamed, Fresh, Leased
<1>6. OwnTokens'
  <2>1. \A a \in Auth : claims[a] # NoToken => claims[a] \in Minted /\ minted[claims[a]] = a
    BY DEF VaultInv, VaultTypeOK, OwnTokens, MintedOrNone
  <2> QED
    BY <1>1, <1>3, <2>1 DEF OwnTokens
<1>7. /\ credential.token # NoToken => minted'[credential.token] = minted[credential.token]
      /\ \A q \in asking : minted'[q.token] = minted[q.token]
  BY <1>1 DEF VaultInv, VaultTypeOK, MintedOrNone
<1>8. StoredOnce' /\ DisconnectHolds'
  BY <1>3, <1>7 DEF VaultInv, StoredOnce, Stored, DisconnectHolds
<1> QED
  BY <1>4, <1>5, <1>6, <1>8 DEF VaultInv

LEMMA FinishKeeps ==
  ASSUME VaultInv, NEW a \in Auth, FinishSession(a),
         UNCHANGED <<vaultRows, vaultRequests, history>>
  PROVE  VaultInv'
<1>1. /\ Mint(a) /\ UNCHANGED <<refreshing, rotated, begun, claims, asking, answers>>
      /\ session' = [session EXCEPT ![a] = [status |-> "ready", token |-> Newest]]
  BY DEF FinishSession, SetSession, vaultRequests
<1>2. Mints /\ minted \in Seq(Auth)
  BY <1>1 DEF Mints, VaultInv, VaultTypeOK
<1>3. /\ Newest \in Minted' /\ Minted \subseteq Minted' /\ minted'[Newest] = a
      /\ \A i \in Minted : minted'[i] = minted[i]
  BY <1>1, <1>2, MintAppends
<1>4. /\ session' \in [Auth -> [status : SessionStatus, token : MintedOrNone']]
      /\ \A b \in Auth : session'[b].token # NoToken => minted'[session'[b].token] = b
  BY <1>1, <1>3 DEF VaultInv, VaultTypeOK, OwnTokens, MintedOrNone, SessionStatus
<1>5. /\ refreshing' \in [Token -> [status : RefreshStatus, attempt : Nat, token : MintedOrNone']]
      /\ answers' \subseteq [attempt : Nat, token : MintedOrNone'] /\ rotated' \subseteq Minted'
  <2>1. MintedOrNone \subseteq MintedOrNone'
    BY <1>3 DEF MintedOrNone
  <2> QED
    BY <1>1, <1>3, <2>1 DEF VaultInv, VaultTypeOK
<1>6. RefreshesAsked'
  BY <1>1 DEF VaultInv, RefreshesAsked
<1>7. Answered'
  <2>1. \A r \in answers : Answers(r.attempt, r.token)'
    BY <1>1, <1>2, AnswersKeep DEF VaultInv, VaultTypeOK, Answered
  <2>2. \A t \in Token : refreshing[t].status = "ready" =>
          Answers(refreshing[t].attempt, refreshing[t].token)'
    BY <1>1, <1>2, AnswersKeep DEF VaultInv, VaultTypeOK, Answered
  <2> QED
    BY <1>1, <2>1, <2>2 DEF Answered, Answers
<1> QED
  BY <1>1, <1>2, <1>4, <1>5, <1>6, <1>7, BrokerKeeps

\* A step of one refresh, and the answer that a request may hear of it.
LEMMA RefreshKeeps ==
  ASSUME VaultInv, Mints, UNCHANGED <<session, vaultRows, begun, claims, asking, history>>,
         NEW t \in Token,
         NEW record \in [status : RefreshStatus, attempt : Nat, token : MintedOrNone'],
         refreshing' = [refreshing EXCEPT ![t] = record],
         record.status \in {"exchanging", "ready", "failed"} =>
            \E q \in asking : q.attempt = record.attempt /\ q.token = t,
         record.status = "ready" => Answers(record.attempt, record.token)',
         \A r \in answers' : \/ r \in answers
                             \/ /\ r \in [attempt : Nat, token : MintedOrNone']
                                /\ Answers(r.attempt, r.token)',
         \A i \in rotated' : i \in rotated \/ \E q \in asking : q.token = i
  PROVE  VaultInv'
<1>1. /\ Minted \subseteq Minted' /\ MintedOrNone \subseteq MintedOrNone'
      /\ \A i \in Minted : minted'[i] = minted[i]
  BY MintsKeep DEF VaultInv, VaultTypeOK, MintedOrNone
<1>2. /\ session' \in [Auth -> [status : SessionStatus, token : MintedOrNone']]
      /\ \A a \in Auth : session'[a].token # NoToken => minted'[session'[a].token] = a
  <2>1. \A a \in Auth : session[a].token # NoToken =>
          session[a].token \in Minted /\ minted[session[a].token] = a
    BY DEF VaultInv, VaultTypeOK, OwnTokens, MintedOrNone
  <2>2. session' \in [Auth -> [status : SessionStatus, token : MintedOrNone']]
    BY <1>1 DEF VaultInv, VaultTypeOK
  <2> QED
    BY <1>1, <2>1, <2>2
<1>3. refreshing' \in [Token -> [status : RefreshStatus, attempt : Nat, token : MintedOrNone']]
  BY <1>1 DEF VaultInv, VaultTypeOK
<1>4. answers' \subseteq [attempt : Nat, token : MintedOrNone']
  BY <1>1 DEF VaultInv, VaultTypeOK
<1>5. rotated' \subseteq Minted'
  BY <1>1 DEF VaultInv, VaultTypeOK
<1>6. RefreshesAsked'
  BY DEF VaultInv, VaultTypeOK, RefreshesAsked
<1>7. Answered'
  <2>1. ASSUME NEW r \in answers
        PROVE  Answers(r.attempt, r.token)'
    <3>1. Answers(r.attempt, r.token) /\ r.token \in MintedOrNone
      BY DEF VaultInv, VaultTypeOK, Answered
    <3> QED
      BY <3>1, AnswersKeep
  <2>2. ASSUME NEW u \in Token, NEW x, NEW y, refreshing[u].status = "ready",
               x = refreshing[u].attempt, y = refreshing[u].token
        PROVE  Answers(x, y)'
    <3>1. Answers(x, y) /\ y \in MintedOrNone
      BY <2>2 DEF VaultInv, VaultTypeOK, Answered
    <3> QED
      BY <3>1, AnswersKeep
  <2>3. \A u \in Token : u # t => refreshing'[u] = refreshing[u]
    BY DEF VaultInv, VaultTypeOK
  <2>4. refreshing'[t] = record
    BY DEF VaultInv, VaultTypeOK
  <2>5. \A u \in Token : refreshing'[u].status = "ready" =>
          (\A x, y : x = refreshing'[u].attempt /\ y = refreshing'[u].token => Answers(x, y)')
    BY <2>2, <2>3, <2>4
  <2> QED
    BY <2>1, <2>5 DEF Answered, Answers
<1> QED
  BY <1>2, <1>3, <1>4, <1>5, <1>6, <1>7, BrokerKeeps

\* The broker looks at a request: it starts the refresh, or repeats what it knows.
LEMMA AskKeeps ==
  ASSUME VaultInv, NEW q \in asking, AskRefresh(q)
  PROVE  VaultInv'
<1> DEFINE t == q.token
<1>0. t \in Token /\ q.attempt \in Nat
  BY MaxTokenAssumption DEF VaultInv, VaultTypeOK, Minted, Token
<1>1. PICK kept \in [status : RefreshStatus, attempt : Nat, token : MintedOrNone] :
        kept = refreshing[t]
  BY <1>0 DEF VaultInv, VaultTypeOK
<1>2. UNCHANGED <<session, minted, rotated, vaultRows, begun, claims, asking, history>>
  BY DEF AskRefresh, StartExchange, brokerVars
<1>3. Mints /\ MintedOrNone' = MintedOrNone
  BY <1>2 DEF Mints, MintedOrNone, Minted
<1>4. CASE RefreshAction(t, q.attempt) = "start"
  <2> DEFINE record == [status |-> "exchanging", attempt |-> q.attempt, token |-> kept.token]
  <2>1. refreshing' = [refreshing EXCEPT ![t] = record] /\ UNCHANGED answers
    <3>1. /\ refreshing' = [refreshing EXCEPT ![t].status = "exchanging", ![t].attempt = q.attempt]
          /\ UNCHANGED answers
      BY <1>4 DEF AskRefresh, StartExchange
    <3>2. refreshing \in [Token -> [status : RefreshStatus, attempt : Nat, token : MintedOrNone]]
      BY DEF VaultInv, VaultTypeOK
    <3>3. \A u \in Token : u # t => refreshing'[u] = refreshing[u]
      BY <3>1, <3>2
    <3>4. refreshing'[t] = record
      BY <1>0, <1>1, <3>1, <3>2
    <3>5. refreshing' = [u \in Token |-> refreshing'[u]]
      BY <3>1, <3>2
    <3> QED
      BY <1>0, <3>1, <3>2, <3>3, <3>4, <3>5
  <2>2. record \in [status : RefreshStatus, attempt : Nat, token : MintedOrNone']
    BY <1>0, <1>1, <1>3 DEF RefreshStatus
  <2> QED
    BY <1>0, <1>1, <1>2, <1>3, <2>1, <2>2, RefreshKeeps
<1>5. CASE RefreshAction(t, q.attempt) # "start"
  <2>1. UNCHANGED refreshing
    BY <1>5 DEF AskRefresh, brokerVars
  <2>2. refreshing' = [refreshing EXCEPT ![t] = kept]
    BY <1>1, <2>1 DEF VaultInv, VaultTypeOK
  <2>3. PICK u \in MintedOrNone :
          /\ answers' = answers \cup {[attempt |-> q.attempt, token |-> u]}
          /\ Answers(q.attempt, u)
    <3>1. CASE RefreshAction(t, q.attempt) = "ready"
      <4>1. kept.status = "ready" /\ kept.attempt = q.attempt
        BY <1>1, <3>1 DEF RefreshAction
      <4>2. Answers(q.attempt, kept.token)
        BY <1>0, <1>1, <4>1 DEF VaultInv, Answered
      <4> QED
        BY <1>0, <1>1, <3>1, <4>2 DEF AskRefresh, Hear
    <3>2. CASE RefreshAction(t, q.attempt) # "ready"
      <4>1. Answers(q.attempt, NoToken) /\ NoToken \in MintedOrNone
        BY DEF Answers, MintedOrNone
      <4> QED
        BY <1>5, <3>2, <4>1 DEF AskRefresh, Hear
    <3> QED
      BY <3>1, <3>2
  <2>4. Answers(q.attempt, u)'
    BY <1>2, <1>3, <2>3, AnswersKeep
  <2>5. kept.status \in {"exchanging", "ready", "failed"} =>
          \E p \in asking : p.attempt = kept.attempt /\ p.token = t
    BY <1>0, <1>1 DEF VaultInv, RefreshesAsked
  <2>6. ASSUME kept.status = "ready"
        PROVE  Answers(kept.attempt, kept.token)'
    <3>1. Answers(kept.attempt, kept.token)
      BY <1>0, <1>1, <2>6 DEF VaultInv, Answered
    <3> QED
      BY <1>2, <1>3, <3>1, AnswersKeep
  <2>7. \A r \in answers' : \/ r \in answers
                            \/ /\ r \in [attempt : Nat, token : MintedOrNone']
                               /\ Answers(r.attempt, r.token)'
    <3> DEFINE heard == [attempt |-> q.attempt, token |-> u]
    <3>1. heard \in [attempt : Nat, token : MintedOrNone'] /\ Answers(heard.attempt, heard.token)'
      BY <1>0, <1>1, <1>3, <2>4
    <3> QED
      BY <2>3, <3>1
  <2>8. kept \in [status : RefreshStatus, attempt : Nat, token : MintedOrNone']
    BY <1>0, <1>1, <1>3
  <2> QED
    BY <1>0, <1>1, <1>2, <1>3, <2>2, <2>5, <2>6, <2>7, <2>8, RefreshKeeps
<1> QED
  BY <1>4, <1>5

\* Notion answers the broker: the new token is of the old one's authorization, and
\* nobody can have asked to refresh it.
LEMMA ExchangedKeeps ==
  ASSUME VaultInv, NEW t \in Token, Exchanged(t),
         UNCHANGED answers \/ Hear(refreshing[t].attempt, Newest),
         UNCHANGED <<vaultRows, begun, claims, asking, history>>
  PROVE  VaultInv'
<1>1. PICK kept \in [status : RefreshStatus, attempt : Nat, token : MintedOrNone] :
        kept = refreshing[t]
  BY DEF VaultInv, VaultTypeOK
<1>2. PICK q \in asking : q.attempt = kept.attempt /\ q.token = t
  BY <1>1 DEF Exchanged, VaultInv, RefreshesAsked
<1>3. /\ t \in Minted /\ minted[t] \in Auth /\ Mint(minted[t]) /\ minted \in Seq(Auth)
      /\ \A p \in asking : p.token \in Minted
  BY <1>2 DEF Exchanged, VaultInv, VaultTypeOK, Minted
<1>4. PICK new : new = Newest
  OBVIOUS
<1>5. /\ new = Len(minted) + 1 /\ new \in Minted' /\ minted'[new] = minted[t]
      /\ \A i \in Minted : minted'[i] = minted[i]
  BY <1>3, <1>4, MintAppends
<1>6. Mints
  BY <1>3 DEF Mints
<1>7. Answers(kept.attempt, new)'
  <2>1. \A p \in asking : p.token # new
    BY <1>3, <1>5 DEF Minted
  <2> QED
    BY <1>2, <1>3, <1>5, <2>1 DEF Answers
<1> DEFINE record == [status |-> "ready", attempt |-> kept.attempt, token |-> new]
<1>8. record \in [status : RefreshStatus, attempt : Nat, token : MintedOrNone']
  BY <1>1, <1>5 DEF RefreshStatus, MintedOrNone
<1>9. refreshing' = [refreshing EXCEPT ![t] = record]
  <2>1. refreshing \in [Token -> [status : RefreshStatus, attempt : Nat, token : MintedOrNone]]
    BY DEF VaultInv, VaultTypeOK
  <2>2. refreshing' = [refreshing EXCEPT ![t].status = "ready", ![t].token = new]
    BY <1>4 DEF Exchanged
  <2>3. \A u \in Token : u # t => refreshing'[u] = refreshing[u]
    BY <2>1, <2>2
  <2>4. refreshing'[t] = record
    BY <1>1, <2>1, <2>2
  <2>5. refreshing' = [u \in Token |-> refreshing'[u]]
    BY <2>1, <2>2
  <2> QED
    BY <2>1, <2>3, <2>4, <2>5
<1>10. \A r \in answers' : \/ r \in answers
                          \/ /\ r \in [attempt : Nat, token : MintedOrNone']
                             /\ Answers(r.attempt, r.token)'
  <2> DEFINE heard == [attempt |-> kept.attempt, token |-> new]
  <2>1. heard \in [attempt : Nat, token : MintedOrNone'] /\ Answers(heard.attempt, heard.token)'
    BY <1>1, <1>5, <1>7 DEF MintedOrNone
  <2> QED
    BY <1>1, <1>4, <2>1 DEF Hear
<1>11. \A i \in rotated' : i \in rotated \/ \E p \in asking : p.token = i
  BY <1>2 DEF Exchanged
<1>12. UNCHANGED session
  BY DEF Exchanged
<1> QED
  BY <1>2, <1>6, <1>7, <1>8, <1>9, <1>10, <1>11, <1>12, RefreshKeeps

LEMMA FailedKeeps ==
  ASSUME VaultInv, NEW t \in Token, ExchangeFailed(t),
         UNCHANGED answers \/ Hear(refreshing[t].attempt, NoToken),
         UNCHANGED <<vaultRows, begun, claims, asking, history>>
  PROVE  VaultInv'
<1>1. PICK kept \in [status : RefreshStatus, attempt : Nat, token : MintedOrNone] :
        kept = refreshing[t]
  BY DEF VaultInv, VaultTypeOK
<1>2. PICK q \in asking : q.attempt = kept.attempt /\ q.token = t
  BY <1>1 DEF ExchangeFailed, VaultInv, RefreshesAsked
<1>3. minted[t] \in Auth
  BY <1>2 DEF VaultInv, VaultTypeOK, Minted
<1>4. Mints
  BY <1>3 DEF ExchangeFailed, Mints
<1>5. MintedOrNone \subseteq MintedOrNone'
  BY <1>4, MintsKeep DEF VaultInv, VaultTypeOK, MintedOrNone
<1> DEFINE record == [status |-> "failed", attempt |-> kept.attempt, token |-> kept.token]
<1>6. record \in [status : RefreshStatus, attempt : Nat, token : MintedOrNone']
  BY <1>1, <1>5 DEF RefreshStatus
<1>7. refreshing' = [refreshing EXCEPT ![t] = record]
  <2>1. refreshing \in [Token -> [status : RefreshStatus, attempt : Nat, token : MintedOrNone]]
    BY DEF VaultInv, VaultTypeOK
  <2>2. refreshing' = [refreshing EXCEPT ![t].status = "failed"]
    BY DEF ExchangeFailed
  <2>3. \A u \in Token : u # t => refreshing'[u] = refreshing[u]
    BY <2>1, <2>2
  <2>4. refreshing'[t] = record
    BY <1>1, <2>1, <2>2
  <2>5. refreshing' = [u \in Token |-> refreshing'[u]]
    BY <2>1, <2>2
  <2> QED
    BY <2>1, <2>3, <2>4, <2>5
<1>8. \A r \in answers' : \/ r \in answers
                         \/ /\ r \in [attempt : Nat, token : MintedOrNone']
                            /\ Answers(r.attempt, r.token)'
  <2> DEFINE heard == [attempt |-> kept.attempt, token |-> NoToken]
  <2>1. heard \in [attempt : Nat, token : MintedOrNone'] /\ Answers(heard.attempt, heard.token)'
    BY <1>1, <1>2 DEF Answers, MintedOrNone
  <2> QED
    BY <1>1, <2>1 DEF Hear
<1>9. \A i \in rotated' : i \in rotated \/ \E p \in asking : p.token = i
  BY <1>2 DEF ExchangeFailed
<1>10. UNCHANGED session
  BY DEF ExchangeFailed
<1> QED
  BY <1>2, <1>4, <1>6, <1>7, <1>8, <1>9, <1>10, RefreshKeeps

\* The broker forgets a refresh.
LEMMA ForgetKeeps ==
  ASSUME VaultInv, NEW t \in Token, RefreshExpires(t) \/ RefreshForgotten(t),
         UNCHANGED <<vaultRows, vaultRequests, history>>
  PROVE  VaultInv'
<1>1. PICK record \in [status : {"none", "expired"}, attempt : {0}, token : {NoToken}] :
        refreshing' = [refreshing EXCEPT ![t] = record]
  BY DEF RefreshExpires, RefreshForgotten, NoRefresh
<1>2. UNCHANGED <<session, minted, rotated, begun, claims, asking, answers>>
  BY DEF RefreshExpires, RefreshForgotten, vaultRequests
<1>3. Mints /\ record \in [status : RefreshStatus, attempt : Nat, token : MintedOrNone']
  BY <1>2 DEF Mints, RefreshStatus, MintedOrNone
<1> QED
  BY <1>1, <1>2, <1>3, RefreshKeeps

\* Every step keeps the invariant.
LEMMA VaultInvKept ==
  ASSUME VaultInv, [VaultNext]_vaultVars
  PROVE  VaultInv'
<1>1. CASE UNCHANGED vaultVars
  <2>1. UNCHANGED <<session, refreshing, minted, rotated, vaultRows, begun, claims, asking, answers,
                    history>>
    BY <1>1 DEF vaultVars, brokerVars, vaultRequests
  <2>2. /\ session' \in [Auth -> [status : SessionStatus, token : MintedOrNone]]
        /\ claims' \in [Auth -> MintedOrNone] /\ OwnTokens'
    BY <2>1 DEF VaultInv, VaultTypeOK, OwnTokens
  <2> QED
    BY <2>1, <2>2, SessionKeeps
<1>2. ASSUME NEW a \in Auth,
             \/ StartAuthorization(a) \/ StartAnswered(a) \/ PutPending(a) \/ RemovePending(a)
             \/ AskClaim(a) \/ StoreClaimed(a) \/ AcknowledgeClaim(a)
      PROVE  VaultInv'
  BY <1>2, StartKeeps, SessionStepKeeps, PendingKeeps, ClaimedKeeps
<1>3. CASE VaultStep
  BY <1>2, <1>3, BeginKeeps, AskKeeps, CompleteKeeps, ReauthorizeKeeps, CutKeeps, RestartKeeps
     DEF VaultStep
<1>4. ASSUME NEW a \in Auth,
             \/ CancelSession(a) \/ BeginCallback(a) \/ FinishSession(a) \/ FailSession(a)
             \/ SessionExpires(a),
             UNCHANGED <<vaultRows, vaultRequests, history>>
      PROVE  VaultInv'
  BY <1>4, SessionStepKeeps, FinishKeeps
<1>5. ASSUME NEW t \in Token, ExchangeEnds(t)
      PROVE  VaultInv'
  BY <1>5, ExchangedKeeps, FailedKeeps DEF ExchangeEnds
<1>6. CASE BrokerStep
  BY <1>4, <1>5, <1>6, ForgetKeeps DEF BrokerStep
<1> QED
  BY <1>1, <1>3, <1>6 DEF VaultNext

LEMMA VaultInvHolds == VaultSpec => []VaultInv
  BY InvInitially, VaultInvKept, PTL DEF VaultSpec

\* storeClaimed compares the sequence a start reserved with that of the last
\* disconnect, and a refresh stays with the authorization of the token it replaces:
\* a disconnect holds against every start, claim and refresh under way.
THEOREM DisconnectsHold == VaultSpec => []DisconnectHolds
<1>1. VaultInv => DisconnectHolds
  BY DEF VaultInv
<1> QED
  BY <1>1, VaultInvHolds, PTL

\* beginRefresh takes the lease before the broker is asked, and what
\* completeRefresh stores was never asked for: however the answers of the broker
\* are lost, repeated or late, the token of a lease is one Notion has not replaced.
THEOREM LeasesUnrotated == VaultSpec => []LeaseUnrotated
<1>1. VaultInv => LeaseUnrotated
  BY DEF VaultInv, Fresh, RefreshesAsked, LeaseUnrotated
<1> QED
  BY <1>1, VaultInvHolds, PTL

==============================================================================
