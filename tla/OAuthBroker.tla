----------------------------- MODULE OAuthBroker -----------------------------
(***************************************************************************)
(* The broker between the API and Notion's token endpoint.  One durable    *)
(* object holds each authorization session, another each refresh, found    *)
(* by the fingerprint of the token it replaces; both are deleted when they *)
(* expire.  Notion itself is known by the tokens it has minted and by      *)
(* those a refresh has replaced.                                           *)
(***************************************************************************)
EXTENDS Naturals, Sequences

CONSTANTS
    Auth,         \* authorization sessions, by their random state
    MaxToken      \* bound: tokens that Notion mints

ASSUME MaxTokenAssumption == MaxToken \in Nat \ {0}

VARIABLES
    session,      \* Auth -> the authorization record
    refreshing,   \* token -> the record of its refresh
    minted,       \* Notion: the authorization each token stems from
    rotated       \* Notion: the tokens a refresh has replaced

brokerVars == <<session, refreshing, minted, rotated>>

Token == 1..MaxToken
NoToken == 0

NoSession == [status |-> "none", token |-> NoToken]
NoRefresh == [status |-> "none", attempt |-> 0, token |-> NoToken]

BrokerInit ==
    /\ session = [a \in Auth |-> NoSession]
    /\ refreshing = [t \in Token |-> NoRefresh]
    /\ minted = <<>> /\ rotated = {}

Mint(a) == Len(minted) < MaxToken /\ minted' = Append(minted, a)
Newest == Len(minted')

(***************************************************************************)
(* Authorization sessions.                                                 *)
(***************************************************************************)

SetSession(a, status, token) ==
    session' = [session EXCEPT ![a] = [status |-> status, token |-> token]]

BeginSession(a) ==
    /\ session[a].status = "none"
    /\ SetSession(a, "pending", NoToken)
    /\ UNCHANGED <<refreshing, minted, rotated>>

\* Notion sends the browser back, with an error or with a code.
CancelSession(a) ==
    /\ session[a].status = "pending"
    /\ SetSession(a, "cancelled", NoToken)
    /\ UNCHANGED <<refreshing, minted, rotated>>

BeginCallback(a) ==
    /\ session[a].status = "pending"
    /\ SetSession(a, "exchanging", NoToken)
    /\ UNCHANGED <<refreshing, minted, rotated>>

FinishSession(a) ==
    /\ session[a].status = "exchanging"
    /\ Mint(a)
    /\ SetSession(a, "ready", Newest)
    /\ UNCHANGED <<refreshing, rotated>>

FailSession(a) ==
    /\ session[a].status = "exchanging"
    /\ SetSession(a, "failed", NoToken)
    /\ UNCHANGED <<refreshing, minted, rotated>>

\* The same claim is answered again until it is acknowledged.
Claimable(a) == session[a].status \in {"ready", "claimed"}

ClaimSession(a) ==
    /\ Claimable(a)
    /\ SetSession(a, "claimed", session[a].token)
    /\ UNCHANGED <<refreshing, minted, rotated>>

AcknowledgeSession(a) ==
    /\ session[a].status = "claimed"
    /\ SetSession(a, "spent", NoToken)
    /\ UNCHANGED <<refreshing, minted, rotated>>

\* Its ten minutes are over.
SessionExpires(a) ==
    /\ session[a].status \notin {"none", "expired"}
    /\ SetSession(a, "expired", NoToken)
    /\ UNCHANGED <<refreshing, minted, rotated>>

(***************************************************************************)
(* Refreshes.  Only the request that finds no record asks Notion.          *)
(***************************************************************************)

RefreshAction(t, x) ==
    LET record == refreshing[t]
    IN  IF record.status = "none" THEN "start"
        ELSE IF record.attempt # x \/ record.status = "expired" THEN "conflict"
        ELSE IF record.status = "exchanging" THEN "inflight"
        ELSE record.status

StartExchange(t, x) ==
    /\ RefreshAction(t, x) = "start"
    /\ refreshing' = [refreshing EXCEPT ![t].status = "exchanging", ![t].attempt = x]
    /\ UNCHANGED <<session, minted, rotated>>

\* Notion replaces a token once.
Exchanged(t) ==
    /\ refreshing[t].status = "exchanging" /\ t \notin rotated
    /\ Mint(minted[t])
    /\ rotated' = rotated \cup {t}
    /\ refreshing' = [refreshing EXCEPT ![t].status = "ready", ![t].token = Newest]
    /\ UNCHANGED session

\* Notion refuses, or its answer is lost after it has replaced the token.
ExchangeFailed(t) ==
    /\ refreshing[t].status = "exchanging"
    /\ \/ UNCHANGED <<minted, rotated>>
       \/ t \notin rotated /\ rotated' = rotated \cup {t} /\ Mint(minted[t])
    /\ refreshing' = [refreshing EXCEPT ![t].status = "failed"]
    /\ UNCHANGED session

\* A day later the record no longer answers, and then it is deleted.
RefreshExpires(t) ==
    /\ refreshing[t].status \notin {"none", "expired"}
    /\ refreshing' = [refreshing EXCEPT ![t] = [NoRefresh EXCEPT !.status = "expired"]]
    /\ UNCHANGED <<session, minted, rotated>>

RefreshForgotten(t) ==
    /\ refreshing[t].status = "expired"
    /\ refreshing' = [refreshing EXCEPT ![t] = NoRefresh]
    /\ UNCHANGED <<session, minted, rotated>>

=============================================================================
