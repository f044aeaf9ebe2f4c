------------------------------ MODULE OidcLogin ------------------------------
(***************************************************************************)
(* Sign-in through an OpenID Connect provider: auth/oidc.py (pending       *)
(* flows, the JWKS cache, validation of the ID token), the handlers of     *)
(* routers/oidc_router.py, and the session tokens as                       *)
(* routers/session_router.py reads them back.                              *)
(*                                                                         *)
(* The handlers are coroutines of one event loop: a callback is one step   *)
(* for each stretch between two awaits, and other callbacks, rotations of  *)
(* the provider's keys and restarts fall between its steps.                *)
(*                                                                         *)
(* Limitations: one provider (the code keys its caches by issuer, and the  *)
(* issuer is one environment variable); the discovery document never       *)
(* changes, so its cache only decides whether a step waits; the provider's *)
(* check of the code and of the PKCE verifier is the provider's.           *)
(***************************************************************************)
EXTENDS Integers, FiniteSets

CONSTANTS
    Flows,       \* the values of the "state" parameter the server hands out
    Callbacks,   \* the requests to the callback route; also the jti each issues
    Orgs,        \* the organization slugs
    MaxKeys,     \* bound: signing keys the provider ever publishes
    MaxRestarts, \* bound: restarts of the server process
    NoOrg        \* no organization: of a flow not started, of a decode without audience

ASSUME BoundsAssumption ==
    /\ MaxKeys \in Nat \ {0}
    /\ MaxRestarts \in Nat
    /\ NoOrg \notin Orgs

VARIABLES
    pending,       \* pending[s]: the entry of _PENDING_FLOWS under state s
    startedFor,    \* history: the organization whose start route handed out s
    published,     \* the keys the provider's JWKS endpoint serves
    newest,        \* the key the provider published last
    cache,         \* _JWKS_CACHE of the provider; {} when absent or past its TTL
    call,          \* call[c]: the local state of a callback request
    revoked,       \* _REVOKED_JTIS
    lapsed,        \* session tokens whose exp has passed
    introspected,  \* introspected[c]: the last answer about the session of c
    restarts

vars == <<pending, startedFor, published, newest, cache, call, revoked, lapsed, introspected,
          restarts>>

Keys == 1 .. MaxKeys

\* What can be wrong with an ID token: "claims" is a wrong audience or issuer, or
\* an at_hash (jwt.decode gets no access token to compare it with and refuses),
\* "future" an iat more than five minutes ahead.
Flaws == {"none", "expired", "future", "claims"}

Tokens == [key : Keys, nonce : Flows, flaw : Flaws]

\* Where a callback is: waiting for the token endpoint, for the JWKS endpoint
\* in the first and in the second pass, for the UserInfo endpoint, or answered.
Waiting == {"exchanging", "keys", "freshkeys", "userinfo"}
Answers == {"session", "badflow", "badtoken", "badsignature", "failed", "lost"}

\* flow, org and token mean something from the step that sets them on; keys is
\* what the JWKS endpoint has answered and the callback has not read yet.
Idle == [at : {"idle"}]
Calls ==
    Idle
      \cup [at : Waiting \cup Answers, flow : Flows, org : Orgs, token : Tokens \cup {<<>>},
            keys : SUBSET Keys]

Entries == [at : {"absent", "spent"}] \cup [at : {"stored", "overdue"}, org : Orgs]

\* A state has one entry, a cached or served key set consists of published
\* keys, and a callback is at one of its awaits or answered.
TypeOK ==
    /\ pending \in [Flows -> Entries]
    /\ startedFor \in [Flows -> Orgs \cup {NoOrg}]
    /\ published \in SUBSET Keys /\ newest \in published
    /\ cache \subseteq 1 .. newest
    /\ call \in [Callbacks -> Calls]
    /\ \A c \in Callbacks :
          call[c].at \in {"keys", "freshkeys", "userinfo", "session"} => call[c].token # <<>>
    /\ revoked \subseteq Callbacks /\ lapsed \subseteq Callbacks
    /\ introspected \in [Callbacks -> {"none", "active", "inactive"}]
    /\ restarts \in 0 .. MaxRestarts

Init ==
    /\ pending = [s \in Flows |-> [at |-> "absent"]]
    /\ startedFor = [s \in Flows |-> NoOrg]
    /\ published = {1} /\ newest = 1
    /\ cache = {}
    /\ call = [c \in Callbacks |-> [at |-> "idle"]]
    /\ revoked = {} /\ lapsed = {}
    /\ introspected = [c \in Callbacks |-> "none"]
    /\ restarts = 0

sessionVars == <<revoked, lapsed, introspected>>
providerVars == <<published, newest>>

-----------------------------------------------------------------------------
(* The provider and the clock.                                             *)

PublishKey ==
    /\ newest < MaxKeys
    /\ newest' = newest + 1
    /\ published' = published \cup {newest'}
    /\ UNCHANGED <<pending, startedFor, cache, call, sessionVars, restarts>>

WithdrawKey(k) ==
    /\ k \in published /\ k # newest
    /\ published' = published \ {k}
    /\ UNCHANGED <<pending, startedFor, newest, cache, call, sessionVars, restarts>>

\* The cached keys reach the age at which get_jwks no longer returns them.
CacheExpires ==
    /\ cache # {}
    /\ cache' = {}
    /\ UNCHANGED <<pending, startedFor, providerVars, call, sessionVars, restarts>>

FlowLapses(s) ==
    /\ pending[s].at = "stored"
    /\ pending' = [pending EXCEPT ![s].at = "overdue"]
    /\ UNCHANGED <<startedFor, providerVars, cache, call, sessionVars, restarts>>

-----------------------------------------------------------------------------
(* GET /start: the flow is stored, overdue ones are purged, and only then  *)
(* is the discovery document awaited, whose failure leaves the flow        *)
(* stored.                                                                 *)

Purged(flows) ==
    [s \in Flows |-> IF flows[s].at = "overdue" THEN [at |-> "spent"] ELSE flows[s]]

StartFlow(s, o) ==
    /\ pending[s].at = "absent"
    /\ pending' = [Purged(pending) EXCEPT ![s] = [at |-> "stored", org |-> o]]
    /\ startedFor' = [startedFor EXCEPT ![s] = o]
    /\ UNCHANGED <<providerVars, cache, call, sessionVars, restarts>>

-----------------------------------------------------------------------------
(* GET /callback, up to its first await.                                   *)

\* Defective variants, for mutation: the entry is read and left in place; the
\* entry is marked, its contents kept.
Peeked(s) == pending
Marked(s) == [pending EXCEPT ![s].at = "spent"]

\* consume_flow pops the entry before it looks at its age.
Popped(s) == [pending EXCEPT ![s] = [at |-> "spent"]]

Answered(c, answer) == call' = [call EXCEPT ![c].at = answer]

\* A callback for state s at the route of organization o.  An error parameter
\* of the provider is answered before the flow is looked up.
Receive(c, s, o, at) ==
    /\ call[c].at = "idle"
    /\ call' = [call EXCEPT ![c] = [at |-> at, flow |-> s, org |-> o, token |-> <<>>, keys |-> {}]]
    /\ UNCHANGED <<startedFor, providerVars, cache, sessionVars, restarts>>

CallbackWithError(c, s, o) == Receive(c, s, o, "failed") /\ UNCHANGED pending

CallbackRefused(c, s, o) ==
    /\ \/ pending[s].at \in {"spent", "overdue"}
       \/ pending[s].at = "stored" /\ pending[s].org # o
    /\ Receive(c, s, o, "badflow")
    /\ pending' = Popped(s)

CallbackAccepted(c, s, o) ==
    /\ pending[s] = [at |-> "stored", org |-> o]
    /\ Receive(c, s, o, "exchanging")
    /\ pending' = Popped(s)

-----------------------------------------------------------------------------
(* validate_id_token.                                                      *)

\* jwt.decode with a set of keys: the signature is checked before the claims,
\* and each key is tried until one decodes the token.
Decodes(token, keys) == token.key \in keys /\ token.flaw \notin {"expired", "claims"}

\* Defective variant, for mutation: no second pass after a key rotation.
FirstPassOnly(c, token, keys) ==
    IF Decodes(token, keys)
    THEN IF token.nonce = call[c].flow /\ token.flaw # "future" THEN "userinfo" ELSE "badtoken"
    ELSE "badsignature"

\* First pass: expiry, the nonce and a future iat answer at once; any other
\* refusal by every key flushes the cache and asks for fresh keys.
FirstPass(c, token, keys) ==
    IF Decodes(token, keys)
    THEN IF token.nonce = call[c].flow /\ token.flaw # "future" THEN "userinfo" ELSE "badtoken"
    ELSE IF token.key \in keys /\ token.flaw = "expired" THEN "badtoken" ELSE "freshkeys"

\* Defective variant, for mutation: the second pass leaves the nonce out.
SecondPassAnyNonce(c, token, keys) ==
    IF ~Decodes(token, keys) THEN "badsignature" ELSE "userinfo"

\* Second pass: the iat is not looked at again.
SecondPass(c, token, keys) ==
    IF ~Decodes(token, keys) THEN "badsignature"
    ELSE IF token.nonce = call[c].flow THEN "userinfo" ELSE "badtoken"

\* The token endpoint has answered: with cached keys the first pass follows
\* without another await, else get_jwks sends for the keys.  The token may be
\* signed with any key the provider has used so far, withdrawn meanwhile or not.
TokenArrives(c, token) ==
    /\ call[c].at = "exchanging"
    /\ token.key <= newest
    /\ LET next == IF cache = {} THEN "keys" ELSE FirstPass(c, token, cache)
       IN  /\ call' = [call EXCEPT ![c].token = token, ![c].at = next]
           /\ cache' = IF next = "freshkeys" THEN {} ELSE cache
    /\ UNCHANGED <<pending, startedFor, providerVars, sessionVars, restarts>>

\* The JWKS endpoint serves the keys of this moment; the answer travels.
ServeKeys(c) ==
    /\ call[c].at \in {"keys", "freshkeys"} /\ call[c].keys = {}
    /\ call' = [call EXCEPT ![c].keys = published]
    /\ UNCHANGED <<pending, startedFor, providerVars, cache, sessionVars, restarts>>

\* The served keys arrive in the first pass: cached, whatever is there by now,
\* and tried; a failing first pass flushes the cache again.
KeysArrive(c) ==
    /\ call[c].at = "keys" /\ call[c].keys # {}
    /\ LET next == FirstPass(c, call[c].token, call[c].keys)
       IN  /\ call' = [call EXCEPT ![c].at = next, ![c].keys = {}]
           /\ cache' = IF next = "freshkeys" THEN {} ELSE call[c].keys
    /\ UNCHANGED <<pending, startedFor, providerVars, sessionVars, restarts>>

FreshKeysArrive(c) ==
    /\ call[c].at = "freshkeys" /\ call[c].keys # {}
    /\ call' = [call EXCEPT ![c].at = SecondPass(c, call[c].token, call[c].keys), ![c].keys = {}]
    /\ cache' = call[c].keys
    /\ UNCHANGED <<pending, startedFor, providerVars, sessionVars, restarts>>

\* UserInfo has answered: the session token is signed and returned.
IssueSession(c) ==
    /\ call[c].at = "userinfo"
    /\ Answered(c, "session")
    /\ UNCHANGED <<pending, startedFor, providerVars, cache, sessionVars, restarts>>

\* An endpoint answers with an error or not at all, or no signing key is
\* configured: the callback ends in a 400, 500 or 502 and stores nothing.
Fail(c) ==
    /\ call[c].at \in Waiting
    /\ Answered(c, "failed")
    /\ UNCHANGED <<pending, startedFor, providerVars, cache, sessionVars, restarts>>

-----------------------------------------------------------------------------
(* session_router: reading a session token back.                           *)

Sessions == {c \in Callbacks : call[c].at = "session"}

SessionLapses(c) ==
    /\ c \in Sessions \ lapsed
    /\ lapsed' = lapsed \cup {c}
    /\ UNCHANGED <<pending, startedFor, providerVars, cache, call, revoked, introspected, restarts>>

\* python-jose refuses a token whose aud is not the audience the caller names,
\* and a caller that names none expects none.
JwtDecodes(c, audience) == c \notin lapsed /\ call[c].org = audience

\* The token's aud is the organization; _verify_token names no audience.
VerifyToken(c) == JwtDecodes(c, NoOrg) /\ c \notin revoked

\* POST /token/revoke reads the claims without verification.
TokenRevoke(c) ==
    /\ c \in Sessions
    /\ revoked' = revoked \cup {c}
    /\ UNCHANGED <<pending, startedFor, providerVars, cache, call, lapsed, introspected, restarts>>

\* revoke_jti of a token that verifies; one that does not is let pass.
RevokedIfValid(c) == IF VerifyToken(c) THEN revoked \cup {c} ELSE revoked

\* POST /session/revoke, which answers the same either way.
RevokeSession(c) ==
    /\ c \in Sessions
    /\ revoked' = RevokedIfValid(c)
    /\ UNCHANGED <<pending, startedFor, providerVars, cache, call, lapsed, introspected, restarts>>

\* GET /session/logout with the token as id_token_hint; it redirects either way.
Logout(c) ==
    /\ c \in Sessions
    /\ revoked' = RevokedIfValid(c)
    /\ UNCHANGED <<pending, startedFor, providerVars, cache, call, lapsed, introspected, restarts>>

\* POST /token/introspect.
Introspect(c) ==
    /\ c \in Sessions
    /\ introspected' = [introspected EXCEPT ![c] = IF VerifyToken(c) THEN "active" ELSE "inactive"]
    /\ UNCHANGED <<pending, startedFor, providerVars, cache, call, revoked, lapsed, restarts>>

-----------------------------------------------------------------------------
\* All of the server's state is in memory; the session tokens are not.
Restart ==
    /\ restarts < MaxRestarts
    /\ restarts' = restarts + 1
    /\ pending' = [s \in Flows |-> IF pending[s].at = "absent" THEN pending[s] ELSE [at |-> "spent"]]
    /\ cache' = {}
    /\ call' = [c \in Callbacks |->
                   IF call[c].at \in Waiting THEN [call[c] EXCEPT !.at = "lost", !.keys = {}]
                   ELSE call[c]]
    /\ revoked' = {}
    /\ UNCHANGED <<startedFor, providerVars, lapsed, introspected>>

Next ==
    \/ PublishKey \/ CacheExpires \/ Restart
    \/ \E k \in Keys : WithdrawKey(k)
    \/ \E s \in Flows : FlowLapses(s) \/ \E o \in Orgs : StartFlow(s, o)
    \/ \E c \in Callbacks, s \in Flows, o \in Orgs :
          CallbackWithError(c, s, o) \/ CallbackRefused(c, s, o) \/ CallbackAccepted(c, s, o)
    \/ \E c \in Callbacks :
          \/ \E token \in Tokens : TokenArrives(c, token)
          \/ ServeKeys(c) \/ KeysArrive(c) \/ FreshKeysArrive(c)
          \/ IssueSession(c) \/ Fail(c)
          \/ SessionLapses(c) \/ TokenRevoke(c) \/ RevokeSession(c) \/ Logout(c) \/ Introspect(c)

Spec == Init /\ [][Next]_vars

-----------------------------------------------------------------------------
(* Properties.                                                             *)

\* A flow starts at most one session, however its callbacks overlap: while
\* the first waits for the provider, a second with the same state is refused.
OneSessionPerFlow ==
    \A c, d \in Callbacks :
       /\ call[c].at \in Waiting \cup {"session"} /\ call[d].at \in Waiting \cup {"session"}
       /\ call[c].flow = call[d].flow
       => c = d

\* A session of an organization rests on a flow that this organization's start
\* route handed out and that is used up, and on a token made for this flow,
\* unexpired and with the right claims, whichever pass accepted it and whoever
\* filled the cache.  Nothing is claimed of iat; see IatInThePast.
SessionsSound ==
    \A c \in Sessions :
       /\ startedFor[call[c].flow] = call[c].org
       /\ pending[call[c].flow].at = "spent"
       /\ call[c].token.nonce = call[c].flow
       /\ call[c].token.flaw \notin {"expired", "claims"}

\* What the comment at auth/oidc.py:279 says: no session rests on a token whose
\* iat is in the future.
IatInThePast == \A c \in Sessions : call[c].token.flaw # "future"

\* Key rotation costs no sign-in: a token with the right claims is refused for
\* its signature only if its key is withdrawn, even when the cache was stale or
\* a slow fetch of another callback put older keys back.
RotationTolerated ==
    \A c \in Callbacks :
       /\ call[c].at = "badsignature" /\ call[c].token.flaw \notin {"expired", "claims"}
       => call[c].token.key \notin published

\* What the docstring of token_introspect says: a session token that is neither
\* expired nor revoked is reported active.
ValidTokenActive ==
    [][\A c \in Callbacks :
          introspected'[c] = "inactive" /\ introspected[c] = "none" => c \in revoked \cup lapsed]_vars

=============================================================================
