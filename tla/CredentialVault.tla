--------------------------- MODULE CredentialVault ---------------------------
(***************************************************************************)
(* The API's side of an authorization: the vault, a database of its own,   *)
(* and the requests that start, claim and refresh.  One Notion workspace:  *)
(* the rows of two workspaces never meet.                                  *)
(***************************************************************************)
EXTENDS OAuthBroker

CONSTANTS MaxAttempt      \* bound: refreshes that are begun

VARIABLES
    sequence,     \* the counter that orders starts, claims and disconnects
    pending,      \* Auth -> the sequence of its start, 0 without a row
    credential,   \* the row of the workspace
    cut,          \* the sequence of the last disconnect, 0 if there was none
    attempts,     \* attempt identifiers drawn so far
    begun,        \* Auth -> the sequence a start in flight has reserved
    claims,       \* Auth -> the token a claim request holds
    asking,       \* refresh requests on their way to the broker
    answers,      \* answers to refreshes that some request holds
    asked,        \* history variable: authorizations the user has started
    severed       \* history variable: those started before the last disconnect

vaultRows == <<sequence, pending, credential, cut, attempts>>
vaultRequests == <<begun, claims, asking, answers>>
history == <<asked, severed>>

NoCredential == [token |-> NoToken, status |-> "none", attempt |-> 0, revision |-> 0]

VaultInit ==
    /\ BrokerInit
    /\ sequence = 0 /\ pending = [a \in Auth |-> 0]
    /\ credential = NoCredential /\ cut = 0 /\ attempts = 0
    /\ begun = [a \in Auth |-> 0] /\ claims = [a \in Auth |-> NoToken]
    /\ asking = {} /\ answers = {}
    /\ asked = {} /\ severed = {}

\* A fault: the credential stays in use while its refresh is undecided.
LeasedAnyway == credential.status = "active"

\* A credential may be used while no refresh of it is undecided.
Leased == credential.status = "active" /\ credential.attempt = 0
Lease == IF Leased THEN credential.revision ELSE 0

\* A fault: the order is drawn when the broker has answered.
StartSequenceLate(a) == sequence + 1

StartSequence(a) == begun[a]

(***************************************************************************)
(* Starting and claiming.                                                  *)
(***************************************************************************)

\* The order is reserved before the broker is asked.
StartAuthorization(a) ==
    /\ a \notin asked
    /\ asked' = asked \cup {a}
    /\ sequence' = sequence + 1
    /\ begun' = [begun EXCEPT ![a] = sequence']
    /\ UNCHANGED <<brokerVars, pending, credential, cut, attempts,
                   claims, asking, answers, severed>>

StartAnswered(a) ==
    /\ begun[a] # 0 /\ BeginSession(a)
    /\ UNCHANGED <<vaultRows, vaultRequests, history>>

PutPending(a) ==
    /\ begun[a] # 0 /\ session[a].status # "none"
    /\ pending' = [pending EXCEPT ![a] = StartSequence(a)]
    /\ begun' = [begun EXCEPT ![a] = 0]
    /\ UNCHANGED <<brokerVars, sequence, credential, cut, attempts,
                   claims, asking, answers, history>>

\* The user gives the authorization up, or the row's ten minutes are over.
RemovePending(a) ==
    /\ pending[a] # 0
    /\ pending' = [pending EXCEPT ![a] = 0]
    /\ UNCHANGED <<brokerVars, sequence, credential, cut, attempts, vaultRequests, history>>

\* A claim request holds the broker's answer until it stores it.
AskClaim(a) ==
    /\ pending[a] # 0 /\ ClaimSession(a)
    /\ claims' = [claims EXCEPT ![a] = session[a].token]
    /\ UNCHANGED <<vaultRows, begun, asking, answers, history>>

StoreClaimed(a) ==
    /\ claims[a] # NoToken /\ pending[a] # 0
    /\ IF pending[a] <= cut
       THEN UNCHANGED <<sequence, credential>>
       ELSE /\ sequence' = sequence + 1
            /\ credential' = [token |-> claims[a], status |-> "active",
                              attempt |-> 0, revision |-> sequence']
    /\ pending' = [pending EXCEPT ![a] = 0]
    /\ UNCHANGED <<brokerVars, cut, attempts, begun, claims, asking, answers, history>>

\* Stored or refused, the broker may drop its copy.
AcknowledgeClaim(a) ==
    /\ claims[a] # NoToken /\ pending[a] = 0
    /\ AcknowledgeSession(a)
    /\ claims' = [claims EXCEPT ![a] = NoToken]
    /\ UNCHANGED <<vaultRows, begun, asking, answers, history>>

(***************************************************************************)
(* Refreshing.  The attempt is durable before the broker is asked, and     *)
(* asking again repeats it.                                                *)
(***************************************************************************)

BeginRefresh ==
    /\ credential.status = "active"
    /\ IF credential.attempt # 0
       THEN UNCHANGED <<credential, attempts>>
       ELSE /\ attempts < MaxAttempt
            /\ attempts' = attempts + 1
            /\ credential' = [credential EXCEPT !.attempt = attempts']
    /\ asking' = asking \cup {[token |-> credential.token, attempt |-> credential'.attempt]}
    /\ UNCHANGED <<brokerVars, sequence, pending, cut, begun, claims, answers, history>>

Hear(x, t) == answers' = answers \cup {[attempt |-> x, token |-> t]}

\* The broker looks at a request.  "inflight" tells the user to come back.
AskRefresh(q) ==
    LET action == RefreshAction(q.token, q.attempt)
    IN  /\ q \in asking /\ action # "inflight"
        /\ CASE action = "start" -> StartExchange(q.token, q.attempt) /\ UNCHANGED answers
             [] action = "ready" -> Hear(q.attempt, refreshing[q.token].token) /\ UNCHANGED brokerVars
             [] OTHER            -> Hear(q.attempt, NoToken) /\ UNCHANGED brokerVars
        /\ UNCHANGED <<vaultRows, begun, claims, asking, history>>

\* Notion has answered the broker; the broker's answer may be lost.
ExchangeEnds(t) ==
    /\ \/ Exchanged(t) /\ (UNCHANGED answers \/ Hear(refreshing[t].attempt, Newest))
       \/ ExchangeFailed(t) /\ (UNCHANGED answers \/ Hear(refreshing[t].attempt, NoToken))
    /\ UNCHANGED <<vaultRows, begun, claims, asking, history>>

\* A fault: the refreshed credential keeps its revision.
CompleteRefreshInPlace(r) ==
    /\ r \in answers /\ r.token # NoToken /\ credential.attempt = r.attempt
    /\ credential' = [credential EXCEPT !.token = r.token, !.status = "active", !.attempt = 0]
    /\ UNCHANGED <<brokerVars, sequence, pending, cut, attempts, vaultRequests, history>>

CompleteRefresh(r) ==
    /\ r \in answers /\ r.token # NoToken /\ credential.attempt = r.attempt
    /\ sequence' = sequence + 1
    /\ credential' = [token |-> r.token, status |-> "active", attempt |-> 0, revision |-> sequence']
    /\ UNCHANGED <<brokerVars, pending, cut, attempts, begun, claims, asking, answers, history>>

\* The attempt stays on the row: only a new authorization clears it.
RequireReauthorization(r) ==
    /\ r \in answers /\ r.token = NoToken
    /\ credential.attempt = r.attempt /\ credential.status = "active"
    /\ sequence' = sequence + 1
    /\ credential' = [credential EXCEPT !.status = "reauthorization_required",
                                        !.revision = sequence']
    /\ UNCHANGED <<brokerVars, pending, cut, attempts, vaultRequests, history>>

DisconnectVault ==
    /\ credential # NoCredential
    /\ sequence' = sequence + 1
    /\ credential' = NoCredential
    /\ cut' = sequence'
    /\ severed' = asked
    /\ UNCHANGED <<brokerVars, pending, attempts, vaultRequests, asked>>

\* The process ends: rows stay, the answers its requests held are lost.
RestartVault ==
    /\ begun' = [a \in Auth |-> 0] /\ claims' = [a \in Auth |-> NoToken]
    /\ answers' = {}
    /\ UNCHANGED <<brokerVars, vaultRows, asking, history>>

VaultStep ==
    \/ \E a \in Auth :
         \/ StartAuthorization(a) \/ StartAnswered(a) \/ PutPending(a) \/ RemovePending(a)
         \/ AskClaim(a) \/ StoreClaimed(a) \/ AcknowledgeClaim(a)
    \/ BeginRefresh
    \/ \E q \in asking : AskRefresh(q)
    \/ \E r \in answers : CompleteRefresh(r) \/ RequireReauthorization(r)
    \/ DisconnectVault \/ RestartVault

BrokerStep ==
    \/ \E a \in Auth :
         /\ \/ CancelSession(a) \/ BeginCallback(a) \/ FinishSession(a) \/ FailSession(a)
            \/ SessionExpires(a)
         /\ UNCHANGED <<vaultRows, vaultRequests, history>>
    \/ \E t \in Token : ExchangeEnds(t)
    \/ \E t \in Token :
         /\ RefreshExpires(t) \/ RefreshForgotten(t)
         /\ UNCHANGED <<vaultRows, vaultRequests, history>>

vaultVars == <<brokerVars, vaultRows, vaultRequests, history>>
VaultNext == VaultStep \/ BrokerStep
VaultSpec == VaultInit /\ [][VaultNext]_vaultVars

(***************************************************************************)
(* Properties.                                                             *)
(***************************************************************************)

(* After a disconnect no credential of an authorization that the user had  *)
(* started before it is stored or comes back by a refresh, however long    *)
(* the start, the claim or the refresh was on its way.                     *)
DisconnectHolds ==
    credential.token # NoToken => minted[credential.token] \notin severed

(* A token that Notion has replaced is never offered for use, whatever     *)
(* answers of the refresh were lost, repeated or late.                     *)
LeaseUnrotated == Leased => credential.token \notin rotated

(* The vault keeps the promise of NotionLease: a credential that was       *)
(* withdrawn - disconnected, replaced, or in doubt while it is refreshed - *)
(* is never offered again under the revision that others compare with.     *)
Promise == INSTANCE NotionLease WITH lease <- Lease, issued <- sequence
ImplementsLease == Promise!LeaseSpec

=============================================================================
