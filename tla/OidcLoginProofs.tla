--------------------------- MODULE OidcLoginProofs ---------------------------
(***************************************************************************)
(* Proofs about the sign-in flow, for any number of flows, callbacks and   *)
(* organizations and any history of the provider's keys: its state is well *)
(* typed, a flow yields one session, a session rests on a flow of its own  *)
(* organization and a token made for it, and key rotation costs nobody the *)
(* sign-in.                                                                *)
(***************************************************************************)
EXTENDS OidcLogin, TLAPS

-----------------------------------------------------------------------------
(* The inductive invariant.                                                *)

\* A callback that has been received.
Received ==
    [at : Waiting \cup Answers, flow : Flows, org : Orgs, token : Tokens \cup {<<>>},
     keys : SUBSET Keys]

\* The provider serves keys it has published, tokens are signed with such
\* keys, and answers of the JWKS endpoint consist of them.
KeysOK ==
    /\ published \subseteq 1 .. newest
    /\ \A c \in Callbacks :
          call[c].at # "idle" =>
             /\ call[c].keys \subseteq 1 .. newest
             /\ call[c].token # <<>> => call[c].token.key <= newest
             /\ call[c].at = "badsignature" => call[c].token # <<>>
             /\ call[c].at = "exchanging" => call[c].keys = {}

\* Callbacks that may still end in a session, or have.
Live(c) == call[c].at \in Waiting \cup {"session"}

\* A stored entry names the organization that started the flow.  The entry of a
\* live callback was of its organization and is popped, and no other live
\* callback had it.
FlowsOK ==
    /\ \A s \in Flows : pending[s].at \in {"stored", "overdue"} => pending[s].org = startedFor[s]
    /\ \A c \in Callbacks : Live(c) =>
          pending[call[c].flow].at = "spent" /\ startedFor[call[c].flow] = call[c].org
    /\ OneSessionPerFlow

\* Whoever passed the validation has a token made for its flow.
TokensOK ==
    \A c \in Callbacks :
       call[c].at \in {"userinfo", "session"} =>
          /\ call[c].token.nonce = call[c].flow
          /\ call[c].token.flaw \notin {"expired", "claims"}

\* The fresh keys that are on their way lack the key of the token only if the
\* provider has withdrawn it, for ever.
FreshOK ==
    \A c \in Callbacks :
       call[c].at = "freshkeys" /\ call[c].keys # {} =>
          call[c].token.key \in call[c].keys \/ call[c].token.key \notin published

Inv == TypeOK /\ KeysOK /\ FlowsOK /\ TokensOK /\ FreshOK /\ RotationTolerated

-----------------------------------------------------------------------------
(* Typing of the calls.                                                    *)

\* What a received callback consists of.
LEMMA ReceivedFields ==
    ASSUME TypeOK, NEW c \in Callbacks, call[c].at # "idle"
    PROVE  /\ call[c] \in Received
           /\ call[c].at \in Waiting \cup Answers
           /\ call[c].flow \in Flows /\ call[c].org \in Orgs
           /\ call[c].token \in Tokens \cup {<<>>}
           /\ call[c].keys \in SUBSET Keys
<1>1. call[c] \in Idle \cup Received
  BY DEF TypeOK, Calls, Received
<1>2. call[c] \in Received
  BY <1>1 DEF Idle
<1> QED
  BY <1>2 DEF Received

\* The fields of a token.
LEMMA TokenFields ==
    ASSUME NEW t \in Tokens \cup {<<>>}, t # <<>>
    PROVE  t \in Tokens /\ t.key \in Keys /\ t.nonce \in Flows /\ t.flaw \in Flaws
BY DEF Tokens

\* The empty tuple, which stands for no token, is none.
LEMMA NoTokenIsNone == <<>> \notin Tokens
<1>1. \A t \in Tokens : DOMAIN t = {"key", "nonce", "flaw"}
  BY DEF Tokens
<1>2. DOMAIN <<>> = {}
  OBVIOUS
<1> QED
  BY <1>1, <1>2

\* Keys are numbers.
LEMMA KeysAreNumbers ==
    Keys \subseteq Int /\ MaxKeys \in Nat /\ 1 \in Keys
BY BoundsAssumption DEF Keys

-----------------------------------------------------------------------------
(* The invariant holds at the start, and the provider and the clock keep   *)
(* it.                                                                     *)

\* Nothing has happened yet.
LEMMA InvInit == Init => Inv
<1> SUFFICES ASSUME Init PROVE Inv
  OBVIOUS
<1> USE KeysAreNumbers, BoundsAssumption
<1>1. TypeOK
  BY DEF Init, TypeOK, Entries, Calls, Idle, Waiting, Answers
<1>2. KeysOK /\ FlowsOK /\ TokensOK /\ FreshOK /\ RotationTolerated
  BY DEF Init, KeysOK, FlowsOK, OneSessionPerFlow, Live, TokensOK, FreshOK, RotationTolerated, Waiting
<1> QED
  BY <1>1, <1>2 DEF Inv

\* A new key is none that any token or answer in progress knows of, and a
\* withdrawn one never comes back; the clock only ages flows and the cache.
LEMMA ProviderKeepsInv ==
    ASSUME Inv,
           PublishKey \/ CacheExpires \/ (\E k \in Keys : WithdrawKey(k)) \/ (\E s \in Flows : FlowLapses(s))
    PROVE  Inv'
<1> USE KeysAreNumbers, BoundsAssumption, ReceivedFields
<1>1. TypeOK'
  <2>1. CASE PublishKey
    BY <2>1 DEF Inv, TypeOK, PublishKey, sessionVars, Keys
  <2>2. CASE CacheExpires
    BY <2>2 DEF Inv, TypeOK, CacheExpires, sessionVars, providerVars
  <2>3. CASE \E k \in Keys : WithdrawKey(k)
    BY <2>3 DEF Inv, TypeOK, WithdrawKey, sessionVars
  <2>4. ASSUME NEW s \in Flows, FlowLapses(s) PROVE TypeOK'
    <3>1. [pending[s] EXCEPT !.at = "overdue"] \in Entries
      BY <2>4 DEF Inv, TypeOK, FlowLapses, Entries
    <3> QED
      BY <2>4, <3>1 DEF Inv, TypeOK, FlowLapses, sessionVars, providerVars
  <2> QED
    BY <2>1, <2>2, <2>3, <2>4
<1>2. KeysOK'
  <2>1. newest \in Int /\ newest' \in Int /\ newest <= newest' /\ call' = call
    BY DEF Inv, TypeOK, PublishKey, CacheExpires, WithdrawKey, FlowLapses, providerVars
  <2>2. published' \subseteq 1 .. newest'
    BY <2>1 DEF Inv, KeysOK, TypeOK, PublishKey, CacheExpires, WithdrawKey, FlowLapses, providerVars, Keys
  <2>3. ASSUME NEW c \in Callbacks, call[c].at # "idle", call[c].token # <<>>
        PROVE  call[c].token.key <= newest'
    <3>1. call[c].token \in Tokens \cup {<<>>}
      BY <2>3, ReceivedFields DEF Inv
    <3>2. call[c].token.key \in Int
      BY <2>3, <3>1, TokenFields
    <3> QED
      BY <2>1, <2>3, <3>2 DEF Inv, KeysOK
  <2> QED
    BY <2>1, <2>2, <2>3 DEF Inv, KeysOK
<1>3. FlowsOK'
  BY DEF Inv, FlowsOK, OneSessionPerFlow, Live, PublishKey, CacheExpires, WithdrawKey, FlowLapses, TypeOK, Entries, Waiting
<1>4. TokensOK'
  BY DEF Inv, TokensOK, PublishKey, CacheExpires, WithdrawKey, FlowLapses
<1>5. FreshOK'
  BY DEF Inv, FreshOK, TypeOK, KeysOK, PublishKey, CacheExpires, WithdrawKey, FlowLapses, providerVars, Keys
<1>6. RotationTolerated'
  <2> SUFFICES ASSUME NEW c \in Callbacks, call[c].at = "badsignature",
                      call[c].token.flaw \notin {"expired", "claims"}, call[c].token.key \in published'
               PROVE  FALSE
    BY DEF RotationTolerated, PublishKey, CacheExpires, WithdrawKey, FlowLapses
  <2>1. call[c].token.key \notin published /\ call[c].token.key <= newest
    BY DEF Inv, RotationTolerated, KeysOK
  <2> QED
    BY <2>1 DEF Inv, TypeOK, PublishKey, CacheExpires, WithdrawKey, FlowLapses, providerVars
<1> QED
  BY <1>1, <1>2, <1>3, <1>4, <1>5, <1>6 DEF Inv

-----------------------------------------------------------------------------
(* The routes.                                                             *)

\* GET /start: a fresh state is stored; the overdue ones, which no live
\* callback has, are purged.
LEMMA StartFlowKeepsInv ==
    ASSUME Inv, NEW s \in Flows, NEW o \in Orgs, StartFlow(s, o)
    PROVE  Inv'
<1>1. \A f \in Flows : Purged(pending)[f] \in Entries
  BY DEF Inv, TypeOK, Purged, Entries
<1>2. pending' \in [Flows -> Entries]
  BY <1>1 DEF StartFlow, Purged, Entries
<1>3. \A f \in Flows : pending[f].at = "spent" => pending'[f].at = "spent"
  BY DEF StartFlow, Purged, Inv, TypeOK
<1>4. TypeOK'
  BY <1>2 DEF Inv, TypeOK, StartFlow, providerVars, sessionVars
<1>5. FlowsOK'
  <2>1. pending'[s].org = o /\ startedFor'[s] = o
    BY DEF StartFlow, Purged, Inv, TypeOK
  <2>2. \A f \in Flows \ {s} :
           pending'[f] \in {pending[f], [at |-> "spent"]} /\ startedFor'[f] = startedFor[f]
    BY DEF StartFlow, Purged, Inv, TypeOK
  <2>3. \A c \in Callbacks : Live(c) => call[c].flow \in Flows \ {s}
    BY ReceivedFields DEF Inv, FlowsOK, Live, Waiting, StartFlow
  <2>4. \A c \in Callbacks : Live(c)' => Live(c) /\ call'[c] = call[c]
    BY DEF Live, StartFlow
  <2> QED
    BY <1>3, <2>1, <2>2, <2>3, <2>4 DEF Inv, FlowsOK, OneSessionPerFlow, Live
<1>6. KeysOK' /\ TokensOK' /\ FreshOK' /\ RotationTolerated'
  BY DEF Inv, KeysOK, TokensOK, FreshOK, RotationTolerated, StartFlow, providerVars
<1> QED
  BY <1>4, <1>5, <1>6 DEF Inv

\* GET /callback up to its first await: the entry is popped, and whoever goes
\* on found it stored, so no other live callback had it.
LEMMA ReceiveKeepsInv ==
    ASSUME Inv, NEW c \in Callbacks, NEW s \in Flows, NEW o \in Orgs,
           CallbackWithError(c, s, o) \/ CallbackRefused(c, s, o) \/ CallbackAccepted(c, s, o)
    PROVE  Inv'
<1>1. PICK at \in {"failed", "badflow", "exchanging"} :
        /\ Receive(c, s, o, at)
        /\ at # "exchanging" => pending' \in {pending, Popped(s)}
        /\ at = "exchanging" => pending[s] = [at |-> "stored", org |-> o] /\ pending' = Popped(s)
  BY DEF CallbackWithError, CallbackRefused, CallbackAccepted
<1> DEFINE received == [at |-> at, flow |-> s, org |-> o, token |-> <<>>, keys |-> {}]
<1>2. received \in Received
  BY DEF Received, Waiting, Answers
<1>3. /\ call[c].at = "idle"
      /\ call' = [call EXCEPT ![c] = received]
      /\ call \in [Callbacks -> Calls]
      /\ UNCHANGED <<startedFor, published, newest, cache, revoked, lapsed, introspected, restarts>>
  BY <1>1 DEF Receive, Inv, TypeOK, providerVars, sessionVars
<1>4. \A d \in Callbacks : d # c => call'[d] = call[d]
  BY <1>3
<1>5. call'[c] = received
  BY <1>3
<1>6. pending' \in [Flows -> Entries]
  BY <1>1 DEF Popped, Inv, TypeOK, Entries
<1>7. \A f \in Flows : pending[f].at = "spent" => pending'[f].at = "spent"
  BY <1>1 DEF Popped, Inv, TypeOK
<1>8. TypeOK'
  <2>1. call' \in [Callbacks -> Calls]
    BY <1>2, <1>3 DEF Calls, Received
  <2> QED
    BY <1>1, <1>3, <1>4, <1>5, <1>6, <2>1 DEF Inv, TypeOK
<1>9. FlowsOK'
  <2>1. ASSUME NEW d \in Callbacks, d # c, Live(d), at = "exchanging" PROVE call[d].flow # s
    BY <1>1, <2>1 DEF Inv, FlowsOK
  <2>2. \A d \in Callbacks : d # c /\ Live(d) => call[d].flow \in Flows
    BY ReceivedFields DEF Inv, Live, Waiting
  <2>3. at = "exchanging" => pending'[s].at = "spent"
    BY <1>1 DEF Popped, Inv, TypeOK
  <2>4. Live(c)' => at = "exchanging"
    BY <1>5 DEF Live, Waiting
  <2>5. \A f \in Flows : pending'[f] \in {pending[f], [at |-> "spent"]}
    BY <1>1 DEF Popped, Inv, TypeOK
  <2>6. startedFor' = startedFor /\ (at = "exchanging" => startedFor[s] = o)
    BY <1>1, <1>3 DEF Inv, FlowsOK
  <2> QED
    BY <1>4, <1>5, <1>7, <2>1, <2>2, <2>3, <2>4, <2>5, <2>6 DEF Inv, FlowsOK, OneSessionPerFlow, Live
<1>10. KeysOK' /\ TokensOK' /\ FreshOK' /\ RotationTolerated'
  BY <1>3, <1>4, <1>5 DEF Inv, KeysOK, TokensOK, FreshOK, RotationTolerated
<1> QED
  BY <1>8, <1>9, <1>10 DEF Inv

\* What holds of one callback in a state that satisfies the invariant.
CallOK(x) ==
    /\ x.at \in {"keys", "freshkeys", "userinfo", "session", "badsignature"} => x.token # <<>>
    /\ x.keys \subseteq 1 .. newest
    /\ x.token # <<>> => x.token.key <= newest
    /\ x.at = "exchanging" => x.keys = {}
    /\ x.at \in {"userinfo", "session"} => x.token.nonce = x.flow /\ x.token.flaw \notin {"expired", "claims"}
    /\ x.at = "freshkeys" /\ x.keys # {} => x.token.key \in x.keys \/ x.token.key \notin published
    /\ x.at = "badsignature" /\ x.token.flaw \notin {"expired", "claims"} => x.token.key \notin published

\* A waiting callback has what the invariant says of it.
LEMMA WaitingOK ==
    ASSUME Inv, NEW c \in Callbacks, call[c].at \in Waiting
    PROVE  CallOK(call[c])
BY DEF Inv, TypeOK, KeysOK, TokensOK, FreshOK, RotationTolerated, CallOK, Waiting

\* A waiting callback that moves on with the flow it popped keeps the
\* invariant when the callback itself does.
LEMMA MoveKeepsInv ==
    ASSUME Inv, NEW c \in Callbacks, call[c].at \in Waiting,
           NEW x \in Received, x.flow = call[c].flow, x.org = call[c].org, CallOK(x),
           call' = [call EXCEPT ![c] = x],
           cache' \subseteq 1 .. newest,
           UNCHANGED <<pending, startedFor, providerVars, sessionVars, restarts>>
    PROVE  Inv'
<1>1. UNCHANGED <<pending, startedFor, published, newest, revoked, lapsed, introspected, restarts>>
  BY DEF providerVars, sessionVars
<1>2. call' \in [Callbacks -> Calls]
  BY DEF Inv, TypeOK, Calls, Received
<1>3. call'[c] = x /\ \A d \in Callbacks : d # c => call'[d] = call[d]
  BY DEF Inv, TypeOK
<1>4. TypeOK'
  BY <1>1, <1>2, <1>3 DEF Inv, TypeOK, CallOK
<1>5. FlowsOK'
  BY <1>1, <1>3 DEF Inv, FlowsOK, OneSessionPerFlow, Live
<1>6. KeysOK' /\ TokensOK' /\ FreshOK' /\ RotationTolerated'
  BY <1>1, <1>3 DEF Inv, KeysOK, TokensOK, FreshOK, RotationTolerated, CallOK
<1> QED
  BY <1>4, <1>5, <1>6 DEF Inv

\* Where the two passes of the validation lead, and what they have checked.
LEMMA FirstPassLeads ==
    ASSUME NEW c, NEW token, NEW keys
    PROVE  /\ FirstPass(c, token, keys) \in {"userinfo", "badtoken", "freshkeys"}
           /\ FirstPass(c, token, keys) = "userinfo" =>
                 token.nonce = call[c].flow /\ token.flaw \notin {"expired", "claims"}
BY DEF FirstPass, Decodes

LEMMA SecondPassLeads ==
    ASSUME NEW c, NEW token, NEW keys
    PROVE  /\ SecondPass(c, token, keys) \in {"userinfo", "badtoken", "badsignature"}
           /\ SecondPass(c, token, keys) = "userinfo" =>
                 token.nonce = call[c].flow /\ token.flaw \notin {"expired", "claims"}
           /\ SecondPass(c, token, keys) = "badsignature" =>
                 token.key \notin keys \/ token.flaw \in {"expired", "claims"}
BY DEF SecondPass, Decodes

\* The token endpoint has answered.
LEMMA TokenArrivesKeepsInv ==
    ASSUME Inv, NEW c \in Callbacks, NEW token \in Tokens, TokenArrives(c, token)
    PROVE  Inv'
<1> DEFINE next == IF cache = {} THEN "keys" ELSE FirstPass(c, token, cache)
           x == [call[c] EXCEPT !.token = token, !.at = next]
<1>1. call[c] \in Received /\ call[c].keys \in SUBSET Keys
  BY ReceivedFields DEF TokenArrives, Inv
<1>2. next \in {"keys", "userinfo", "badtoken", "freshkeys"}
      /\ (next = "userinfo" => token.nonce = call[c].flow /\ token.flaw \notin {"expired", "claims"})
  BY FirstPassLeads
<1>3. x \in Received /\ x.flow = call[c].flow /\ x.org = call[c].org
      /\ x.at = next /\ x.token = token /\ x.keys = call[c].keys
  BY <1>1, <1>2 DEF Received, Waiting, Answers
<1>4. call[c].keys = {}
  BY DEF TokenArrives, Inv, KeysOK
<1>5. token # <<>> /\ token.key <= newest
  BY NoTokenIsNone DEF TokenArrives
<1>6. CallOK(x)
  BY <1>2, <1>3, <1>4, <1>5 DEF CallOK
<1>7. call' = [call EXCEPT ![c] = x]
  <2>1. call' = [call EXCEPT ![c] = [[call[c] EXCEPT !.token = token] EXCEPT !.at = next]]
    BY DEF TokenArrives, Inv, TypeOK
  <2> QED
    BY <2>1
<1>8. cache' \subseteq 1 .. newest
  BY DEF TokenArrives, Inv, TypeOK
<1> HIDE DEF next, x
<1> QED
  BY <1>3, <1>6, <1>7, <1>8, MoveKeepsInv DEF TokenArrives, Waiting

\* The JWKS endpoint serves every key that is published.
LEMMA ServeKeysKeepsInv ==
    ASSUME Inv, NEW c \in Callbacks, ServeKeys(c)
    PROVE  Inv'
<1> DEFINE x == [call[c] EXCEPT !.keys = published]
<1>1. call[c] \in Received /\ call[c].at \in {"keys", "freshkeys"} /\ published \subseteq Keys
      /\ published \subseteq 1 .. newest
  BY ReceivedFields DEF ServeKeys, Inv, TypeOK, KeysOK
<1>2. x \in Received /\ x.flow = call[c].flow /\ x.org = call[c].org
      /\ x.at = call[c].at /\ x.token = call[c].token
      /\ x.keys = published
  BY <1>1 DEF Received
<1>3. CallOK(call[c])
  BY <1>1, WaitingOK DEF Waiting
<1>4. CallOK(x)
  BY <1>1, <1>2, <1>3 DEF CallOK
<1>5. call' = [call EXCEPT ![c] = x] /\ cache' \subseteq 1 .. newest
  BY DEF ServeKeys, Inv, TypeOK
<1> HIDE DEF x
<1> QED
  BY <1>1, <1>2, <1>4, <1>5, MoveKeepsInv DEF ServeKeys, Waiting

\* A callback that has read the served keys and goes on to next.
LEMMA ReadKeys ==
    ASSUME Inv, NEW c \in Callbacks, call[c].at \in {"keys", "freshkeys"},
           NEW next \in {"userinfo", "badtoken", "freshkeys", "badsignature"},
           next = "userinfo" =>
              call[c].token.nonce = call[c].flow /\ call[c].token.flaw \notin {"expired", "claims"},
           next = "badsignature" =>
              call[c].token.key \notin published \/ call[c].token.flaw \in {"expired", "claims"},
           call' = [call EXCEPT ![c].at = next, ![c].keys = {}],
           cache' \subseteq 1 .. newest,
           UNCHANGED <<pending, startedFor, providerVars, sessionVars, restarts>>
    PROVE  Inv'
<1> DEFINE x == [[call[c] EXCEPT !.at = next] EXCEPT !.keys = {}]
<1>1. call[c] \in Received
  BY ReceivedFields DEF Inv
<1>2. x \in Received /\ x.flow = call[c].flow /\ x.org = call[c].org
      /\ x.at = next /\ x.token = call[c].token /\ x.keys = {}
  BY <1>1 DEF Received, Waiting, Answers
<1>3. CallOK(call[c])
  BY WaitingOK DEF Waiting
<1>4. CallOK(x)
  BY <1>2, <1>3 DEF CallOK
<1>5. call' = [call EXCEPT ![c] = x]
  BY DEF Inv, TypeOK
<1> HIDE DEF x
<1> QED
  BY <1>2, <1>4, <1>5, MoveKeepsInv DEF Waiting

\* The served keys arrive in the first pass, or in the second, which finds the
\* key of the token among them unless it is withdrawn.
LEMMA KeysArriveKeepsInv ==
    ASSUME Inv, NEW c \in Callbacks, KeysArrive(c) \/ FreshKeysArrive(c)
    PROVE  Inv'
<1>1. call[c].at \in {"keys", "freshkeys"} /\ call[c].keys \subseteq 1 .. newest
  BY DEF KeysArrive, FreshKeysArrive, Inv, KeysOK
<1>2. CASE KeysArrive(c)
  <2> DEFINE next == FirstPass(c, call[c].token, call[c].keys)
  <2>1. cache' \subseteq 1 .. newest
    BY <1>1, <1>2 DEF KeysArrive
  <2>2. call' = [call EXCEPT ![c].at = next, ![c].keys = {}]
    BY <1>2 DEF KeysArrive
  <2>3. next \in {"userinfo", "badtoken", "freshkeys"}
        /\ (next = "userinfo" =>
              call[c].token.nonce = call[c].flow /\ call[c].token.flaw \notin {"expired", "claims"})
    BY FirstPassLeads
  <2> HIDE DEF next
  <2> QED
    BY <1>1, <1>2, <2>1, <2>2, <2>3, ReadKeys DEF KeysArrive
<1>3. CASE FreshKeysArrive(c)
  <2> DEFINE next == SecondPass(c, call[c].token, call[c].keys)
  <2>1. cache' \subseteq 1 .. newest
    BY <1>1, <1>3 DEF FreshKeysArrive
  <2>2. call' = [call EXCEPT ![c].at = next, ![c].keys = {}]
    BY <1>3 DEF FreshKeysArrive
  <2>3. /\ next \in {"userinfo", "badtoken", "badsignature"}
        /\ next = "userinfo" =>
              call[c].token.nonce = call[c].flow /\ call[c].token.flaw \notin {"expired", "claims"}
        /\ next = "badsignature" =>
              call[c].token.key \notin call[c].keys \/ call[c].token.flaw \in {"expired", "claims"}
    BY SecondPassLeads
  <2>4. call[c].token.key \in call[c].keys \/ call[c].token.key \notin published
    BY <1>3 DEF FreshKeysArrive, Inv, FreshOK
  <2> HIDE DEF next
  <2> QED
    BY <1>1, <1>3, <2>1, <2>2, <2>3, <2>4, ReadKeys DEF FreshKeysArrive
<1> QED
  BY <1>2, <1>3

\* The last await ends in a session, any of them may end in a failure.
LEMMA AnswerKeepsInv ==
    ASSUME Inv, NEW c \in Callbacks, IssueSession(c) \/ Fail(c)
    PROVE  Inv'
<1>1. PICK answer \in {"session", "failed"} :
         /\ answer = "session" => call[c].at = "userinfo"
         /\ call[c].at \in Waiting
         /\ call' = [call EXCEPT ![c].at = answer]
         /\ UNCHANGED <<pending, startedFor, providerVars, cache, sessionVars, restarts>>
  BY DEF IssueSession, Fail, Answered, Waiting
<1> DEFINE x == [call[c] EXCEPT !.at = answer]
<1>2. call[c] \in Received
  BY <1>1, ReceivedFields DEF Inv, Waiting
<1>3. x \in Received /\ x.flow = call[c].flow /\ x.org = call[c].org
      /\ x.at = answer /\ x.token = call[c].token
      /\ x.keys = call[c].keys
  BY <1>2 DEF Received, Waiting, Answers
<1>4. CallOK(x)
  BY <1>1, <1>3, WaitingOK DEF CallOK
<1>5. call' = [call EXCEPT ![c] = x] /\ cache' \subseteq 1 .. newest
  BY <1>1 DEF Inv, TypeOK
<1> HIDE DEF x
<1> QED
  BY <1>1, <1>3, <1>4, <1>5, MoveKeepsInv

\* Reading session tokens back touches no flow, callback or key.
LEMMA SessionKeepsInv ==
    ASSUME Inv, NEW c \in Callbacks,
           SessionLapses(c) \/ TokenRevoke(c) \/ RevokeSession(c) \/ Logout(c) \/ Introspect(c)
    PROVE  Inv'
<1>1. UNCHANGED <<pending, startedFor, published, newest, cache, call, restarts>>
  BY DEF SessionLapses, TokenRevoke, RevokeSession, Logout, Introspect, providerVars
<1>2. /\ revoked' \subseteq Callbacks /\ lapsed' \subseteq Callbacks
      /\ introspected' \in [Callbacks -> {"none", "active", "inactive"}]
  BY DEF Inv, TypeOK, SessionLapses, TokenRevoke, RevokeSession, Logout, Introspect, RevokedIfValid
<1>3. TypeOK'
  BY <1>1, <1>2 DEF Inv, TypeOK
<1>4. KeysOK' /\ FlowsOK' /\ TokensOK' /\ FreshOK' /\ RotationTolerated'
  BY <1>1 DEF Inv, KeysOK, FlowsOK, OneSessionPerFlow, Live, TokensOK, FreshOK, RotationTolerated
<1> QED
  BY <1>3, <1>4 DEF Inv

\* A restart ends the waiting callbacks and leaves the sessions issued.
LEMMA RestartKeepsInv ==
    ASSUME Inv, Restart
    PROVE  Inv'
<1> DEFINE ended(c) == [[call[c] EXCEPT !.at = "lost"] EXCEPT !.keys = {}]
<1>1. ASSUME NEW c \in Callbacks, call[c].at \in Waiting
      PROVE  /\ call'[c] \in Received /\ call'[c].at = "lost" /\ call'[c].keys = {}
             /\ call'[c].token = call[c].token
  <2>1. call[c] \in Received
    BY <1>1, ReceivedFields DEF Inv, Waiting
  <2>2. call'[c] = ended(c)
    BY <1>1 DEF Restart
  <2> QED
    BY <2>1, <2>2 DEF Received, Answers
<1>2. ASSUME NEW c \in Callbacks, call[c].at \notin Waiting PROVE call'[c] = call[c]
  BY <1>2 DEF Restart
<1>3. call' \in [Callbacks -> Calls]
  <2>1. \A c \in Callbacks : call'[c] \in Calls
    BY <1>1, <1>2 DEF Inv, TypeOK, Calls, Received
  <2>2. call' = [c \in Callbacks |-> call'[c]]
    BY DEF Restart
  <2> QED
    BY <2>1, <2>2
<1>4. pending' \in [Flows -> Entries]
  BY DEF Restart, Inv, TypeOK, Entries
<1>5. TypeOK'
  <2>1. restarts' \in 0 .. MaxRestarts
    <3>1. restarts \in 0 .. MaxRestarts /\ restarts < MaxRestarts /\ restarts' = restarts + 1
      BY DEF Restart, Inv, TypeOK
    <3> QED
      BY <3>1, BoundsAssumption
  <2>2. \A c \in Callbacks :
          call'[c].at \in {"keys", "freshkeys", "userinfo", "session"} => call'[c].token # <<>>
    BY <1>1, <1>2 DEF Inv, TypeOK
  <2> QED
    BY <1>3, <1>4, <2>1, <2>2 DEF Restart, Inv, TypeOK, providerVars
<1>6. FlowsOK'
  <2>1. \A c \in Callbacks : Live(c)' => Live(c) /\ call'[c] = call[c] /\ call[c].flow \in Flows
    BY <1>1, <1>2, ReceivedFields DEF Live, Waiting, Inv
  <2>2. \A f \in Flows :
           /\ pending[f].at = "spent" => pending'[f].at = "spent"
           /\ pending'[f].at \notin {"stored", "overdue"}
           /\ startedFor'[f] = startedFor[f]
    BY DEF Restart, Inv, TypeOK, Entries
  <2> QED
    BY <2>1, <2>2 DEF Inv, FlowsOK, OneSessionPerFlow, Live
<1>7. KeysOK' /\ TokensOK' /\ FreshOK' /\ RotationTolerated'
  <2>1. UNCHANGED <<published, newest>>
    BY DEF Restart, providerVars
  <2>2. KeysOK'
    BY <2>1, <1>1, <1>2 DEF Inv, KeysOK, Waiting
  <2>3. TokensOK' /\ FreshOK' /\ RotationTolerated'
    BY <2>1, <1>1, <1>2 DEF Inv, TokensOK, FreshOK, RotationTolerated
  <2> QED
    BY <2>2, <2>3
<1> QED
  BY <1>5, <1>6, <1>7 DEF Inv

-----------------------------------------------------------------------------
(* The theorems.                                                           *)

\* The invariant is inductive.
LEMMA InvInductive == Inv /\ [Next]_vars => Inv'
<1> SUFFICES ASSUME Inv, [Next]_vars PROVE Inv'
  OBVIOUS
<1>1. CASE UNCHANGED vars
  BY <1>1 DEF vars, Inv, TypeOK, KeysOK, FlowsOK, OneSessionPerFlow, Live, TokensOK, FreshOK, RotationTolerated
<1>2. CASE Next
  BY <1>2, ProviderKeepsInv, StartFlowKeepsInv, ReceiveKeepsInv, TokenArrivesKeepsInv, ServeKeysKeepsInv,
     KeysArriveKeepsInv, AnswerKeepsInv, SessionKeepsInv, RestartKeepsInv DEF Next
<1> QED
  BY <1>1, <1>2

LEMMA Invariant == Spec => []Inv
BY InvInit, InvInductive, PTL DEF Spec

\* The flows, the caches and the calls are what the code keeps.
THEOREM TypeCorrect == Spec => []TypeOK
<1>1. Inv => TypeOK
  BY DEF Inv
<1> QED
  BY <1>1, Invariant, PTL

\* consume_flow pops the entry before the first await, so of any number of
\* callbacks with one state at most one is let through.
THEOREM OneSessionPerFlowHolds == Spec => []OneSessionPerFlow
<1>1. Inv => OneSessionPerFlow
  BY DEF Inv, FlowsOK
<1> QED
  BY <1>1, Invariant, PTL

\* Whichever pass of validate_id_token accepted the token of a session, it is
\* unexpired, has the right claims and was made for the session's flow, which
\* the session's own organization started and which is spent.
THEOREM SessionsSoundHolds == Spec => []SessionsSound
<1>1. Inv => SessionsSound
  BY DEF Inv, FlowsOK, TokensOK, SessionsSound, Sessions, Live
<1> QED
  BY <1>1, Invariant, PTL

\* However stale the cached keys were and whatever a slow fetch put back, a
\* token with the right claims is refused for its signature only when the
\* provider has withdrawn its key.
THEOREM RotationToleratedHolds == Spec => []RotationTolerated
<1>1. Inv => RotationTolerated
  BY DEF Inv
<1> QED
  BY <1>1, Invariant, PTL

=============================================================================
