------------------------- MODULE TenantAccessProofs -------------------------
(***************************************************************************)
(* Proofs about the access of an organization, for any number of keys,     *)
(* sessions, providers, relations, assets and overlapping requests: the    *)
(* tables are well typed, answers stay backed by them, revocations and     *)
(* deletions are final, and so is the loss of the last admin key.          *)
(***************************************************************************)
EXTENDS TenantAccess, TLAPS

-----------------------------------------------------------------------------
(* Rows and requests by their type.                                        *)

KeyLookups == [at : {"lookedup"}, key : Keys, seen : KeyRows]
SessionLookups == [at : {"lookedup"}, session : Sessions, seen : SessionRows]
Upserts ==
    [at : {"provider"}, row : ProviderTypes, seen : ProviderRows \cup {NoRow}, new : ProviderRows]
Loads == [at : {"rotate", "delete"}, row : Assets, seen : {"active", "rotated"}]

\* No table holds NoRow as a row.
LEMMA NoRowIsNone ==
    /\ NoRow \notin KeyRows /\ NoRow \notin SessionRows /\ NoRow \notin ProviderRows
    /\ NoRow \notin AssetRows
<1>1. "none" \notin Roles /\ NoRow.role = "none"
  BY RolesAssumption DEF NoRow
<1>2. NoRow \notin KeyRows /\ NoRow \notin SessionRows /\ NoRow \notin ProviderRows
  BY <1>1 DEF KeyRows, SessionRows, ProviderRows
<1>3. DOMAIN NoRow = {"role"}
  BY DEF NoRow
<1>4. \A row \in AssetRows : DOMAIN row = {"kind", "status", "deleted"}
  BY DEF AssetRows, CredentialRows, PrincipalRows
<1> QED
  BY <1>2, <1>3, <1>4

\* A request past the look-up of a credential says which kind it was.
LEMMA LookupKinds ==
    ASSUME NEW x \in Calls, x.at = "lookedup"
    PROVE  /\ x \in KeyLookups \cup SessionLookups
           /\ "key" \in DOMAIN x <=> x \in KeyLookups
           /\ "session" \in DOMAIN x <=> x \in SessionLookups
<1>1. x \in KeyLookups \cup SessionLookups
  BY DEF Calls, KeyLookups, SessionLookups
<1>2. x \in KeyLookups => DOMAIN x = {"at", "key", "seen"}
  BY DEF KeyLookups
<1>3. x \in SessionLookups => DOMAIN x = {"at", "session", "seen"}
  BY DEF SessionLookups
<1> QED
  BY <1>1, <1>2, <1>3

\* The other requests have one shape per phase.
LEMMA CallShapes ==
    ASSUME NEW x \in Calls
    PROVE  /\ x.at = "authenticated" => x \in [at : {"authenticated"}, auth : Auths]
           /\ x.at = "provider" => x \in Upserts
           /\ x.at = "tuple" => x \in [at : {"tuple"}, row : Relations]
           /\ x.at \in {"rotate", "delete"} => x \in Loads
           /\ x.at = "answered" => x \in [at : {"answered"}, reply : Replies]
BY DEF Calls, Upserts, Loads

-----------------------------------------------------------------------------
(* The inductive invariant.                                                *)

\* Only a deleted credential reads "revoked".
AssetsOK == \A a \in Assets : asset[a] # NoRow => asset[a].deleted \/ asset[a].status # "revoked"

\* What a reply says holds of the tables.
Backed(reply) ==
    /\ reply.what = "key" => apiKey[reply.row] # NoRow
    /\ reply.what = "revoked" => apiKey[reply.row] # NoRow /\ ~apiKey[reply.row].active
    /\ reply.what = "session" => session[reply.row] # NoRow
    /\ reply.what = "provider" => provider[reply.row] # NoRow
    /\ reply.what = "tuple" => reply.row \in tuples
    /\ reply.what = "asset" => asset[reply.row] # NoRow
    /\ reply.what = "deleted" =>
          /\ asset[reply.row] # NoRow /\ asset[reply.row].deleted
          /\ asset[reply.row].kind = "credential" => asset[reply.row].status # "active"
    /\ reply.what = "permitted" => Permitted(reply.row.auth, reply.row.use)

\* A request between two transactions works on rows that exist.
RequestOK(x) ==
    /\ x.at = "lookedup" /\ "key" \in DOMAIN x => apiKey[x.key] # NoRow
    /\ x.at = "provider" /\ x.seen # NoRow => provider[x.row] # NoRow
    /\ x.at \in {"rotate", "delete"} => asset[x.row] # NoRow
    /\ x.at = "rotate" => asset[x.row].kind = "credential"
    /\ x.at = "answered" => Backed(x.reply)

Inv == TypeOK /\ AssetsOK /\ \A r \in Requests : RequestOK(call[r])

\* How the tables may change: rows stay, revoked stays revoked, deleted stays
\* deleted, a credential never becomes active again, tuples are only added.
TablesGrow ==
    /\ \A k \in Keys : apiKey[k] # NoRow =>
          apiKey'[k] # NoRow /\ (~apiKey[k].active => ~apiKey'[k].active)
    /\ \A s \in Sessions : session[s] # NoRow => session'[s] # NoRow
    /\ \A t \in ProviderTypes : provider[t] # NoRow => provider'[t] # NoRow
    /\ tuples \subseteq tuples'
    /\ \A a \in Assets : asset[a] # NoRow =>
          /\ asset'[a] # NoRow /\ asset'[a].kind = asset[a].kind
          /\ asset[a].deleted => asset'[a].deleted
          /\ asset[a].status # "active" => asset'[a].status # "active"

\* The replies by what they say.
LEMMA ReplyRows ==
    ASSUME NEW reply \in Replies
    PROVE  /\ reply.what \in {"key", "revoked", "session", "provider", "tuple", "asset", "deleted", "permitted"}
           /\ reply.what \in {"key", "revoked"} => reply.row \in Keys
           /\ reply.what = "session" => reply.row \in Sessions
           /\ reply.what = "provider" => reply.row \in ProviderTypes
           /\ reply.what \in {"asset", "deleted"} => reply.row \in Assets
BY DEF Replies

\* The property as the invariant has it.
LEMMA BackedAnswers == Inv => AnswersBacked
<1> SUFFICES ASSUME Inv, NEW r \in Requests, call[r].at = "answered"
             PROVE  LET reply == call[r].reply IN
                    CASE reply.what = "key" -> apiKey[reply.row] # NoRow
                      [] reply.what = "revoked" -> ~apiKey[reply.row].active
                      [] reply.what = "session" -> session[reply.row] # NoRow
                      [] reply.what = "provider" -> provider[reply.row] # NoRow
                      [] reply.what = "tuple" -> reply.row \in tuples
                      [] reply.what = "asset" -> asset[reply.row] # NoRow
                      [] reply.what = "deleted" ->
                            LET row == asset[reply.row] IN
                            row.deleted /\ (row.kind = "credential" => row.status # "active")
                      [] reply.what = "permitted" -> Permitted(reply.row.auth, reply.row.use)
  BY DEF AnswersBacked
<1>1. Backed(call[r].reply)
  BY DEF Inv, RequestOK
<1>2. call[r].reply \in Replies
  BY CallShapes DEF Inv, TypeOK
<1> QED
  BY <1>1, <1>2, ReplyRows DEF Backed

\* What a request relies on survives the steps of the others.
LEMMA GrowthKeepsRequests ==
    ASSUME Inv, TablesGrow, NEW r \in Requests, call'[r] = call[r]
    PROVE  RequestOK(call[r])'
<1> DEFINE x == call[r]
<1>1. x \in Calls /\ RequestOK(x)
  BY DEF Inv, TypeOK
<1>2. x.at = "lookedup" /\ "key" \in DOMAIN x => apiKey'[x.key] # NoRow
  BY <1>1, LookupKinds DEF RequestOK, TablesGrow, KeyLookups
<1>3. x.at = "provider" /\ x.seen # NoRow => provider'[x.row] # NoRow
  BY <1>1, CallShapes DEF RequestOK, TablesGrow, Upserts
<1>4. /\ x.at \in {"rotate", "delete"} => asset'[x.row] # NoRow
      /\ x.at = "rotate" => asset'[x.row].kind = "credential"
  BY <1>1, CallShapes DEF RequestOK, TablesGrow, Loads
<1>5. ASSUME x.at = "answered" PROVE Backed(x.reply) /\ x.reply \in Replies
  BY <1>1, <1>5, CallShapes DEF RequestOK
<1>6. ASSUME NEW reply \in Replies, Backed(reply) PROVE Backed(reply)'
  <2>1. reply.what = "permitted" => Permitted(reply.row.auth, reply.row.use)'
    BY <1>6 DEF Backed, Permitted, TablesGrow
  <2> QED
    BY <1>6, <2>1, ReplyRows DEF Backed, TablesGrow
<1> QED
  BY <1>2, <1>3, <1>4, <1>5, <1>6 DEF RequestOK, Backed

\* A step of one request.
LEMMA StepKeepsInv ==
    ASSUME Inv, TablesGrow, TypeOK', AssetsOK', NEW r \in Requests, RequestOK(call[r])',
           \A q \in Requests \ {r} : call'[q] = call[q]
    PROVE  Inv' /\ TablesGrow
BY GrowthKeepsRequests DEF Inv

\* A step of one request that leaves the tables alone.
LEMMA ReadKeepsInv ==
    ASSUME Inv, NEW r \in Requests, NEW x \in Calls, RequestOK(x),
           call' = [call EXCEPT ![r] = x],
           UNCHANGED <<apiKey, session, provider, tuples, asset>>
    PROVE  Inv' /\ TablesGrow
<1>1. TypeOK'
  BY DEF Inv, TypeOK
<1>2. TablesGrow /\ AssetsOK'
  BY DEF TablesGrow, Inv, AssetsOK
<1>3. call'[r] = x /\ \A q \in Requests \ {r} : call'[q] = call[q]
  BY DEF Inv, TypeOK
<1>4. RequestOK(call[r])'
  BY <1>3 DEF RequestOK, Backed, Permitted
<1> QED
  BY <1>1, <1>2, <1>3, <1>4, StepKeepsInv

-----------------------------------------------------------------------------
(* The steps.                                                              *)

\* One key, nothing else.
LEMMA InvInit == Init => Inv
<1> SUFFICES ASSUME Init PROVE Inv
  OBVIOUS
<1>1. TypeOK
  BY RolesAssumption, RootKeyAssumption DEF Init, TypeOK, KeyRows, Calls
<1>2. AssetsOK /\ \A r \in Requests : RequestOK(call[r])
  BY DEF Init, AssetsOK, RequestOK
<1> QED
  BY <1>1, <1>2 DEF Inv

\* Requests begin, look credentials up and load rows, or end.
LEMMA ReadsKeepInv ==
    ASSUME Inv, NEW r \in Requests,
           \/ Forget(r)
           \/ \E k \in Keys : LookUpKey(r, k)
           \/ \E s \in Sessions : LookUpSession(r, s)
           \/ AuthenticateSession(r)
           \/ \E t \in ProviderTypes, new \in ProviderPayloads : LoadProvider(r, t, new)
           \/ \E x \in Relations : MissTuple(r, x)
           \/ \E a \in Assets : LoadCredential(r, a) \/ LoadPrincipal(r, a)
    PROVE  Inv' /\ TablesGrow
<1> USE NoRowIsNone
<1>1. CASE Forget(r)
  <2>1. [at |-> "idle"] \in Calls /\ RequestOK([at |-> "idle"])
    BY DEF Calls, RequestOK
  <2> QED
    BY <1>1, <2>1, ReadKeepsInv DEF Forget
<1>2. ASSUME NEW k \in Keys, LookUpKey(r, k) PROVE Inv' /\ TablesGrow
  <2> DEFINE x == [at |-> "lookedup", key |-> k, seen |-> apiKey[k]]
  <2>1. x \in Calls
    BY <1>2 DEF LookUpKey, Inv, TypeOK, Calls
  <2>2. RequestOK(x)
    BY <1>2 DEF LookUpKey, RequestOK
  <2> QED
    BY <1>2, <2>1, <2>2, ReadKeepsInv DEF LookUpKey
<1>3. ASSUME NEW s \in Sessions, LookUpSession(r, s) PROVE Inv' /\ TablesGrow
  <2> DEFINE x == [at |-> "lookedup", session |-> s, seen |-> session[s]]
  <2>1. x \in Calls
    BY <1>3 DEF LookUpSession, Inv, TypeOK, Calls
  <2>2. RequestOK(x)
    BY DEF RequestOK
  <2> QED
    BY <1>3, <2>1, <2>2, ReadKeepsInv DEF LookUpSession
<1>4. CASE AuthenticateSession(r)
  <2> DEFINE x == [at |-> "authenticated", auth |-> [kind |-> "session", role |-> call[r].seen.role]]
  <2>1. call[r].seen \in SessionRows
    BY <1>4, LookupKinds DEF AuthenticateSession, Inv, TypeOK, SessionLookups
  <2>2. x \in Calls /\ RequestOK(x)
    BY <2>1 DEF Calls, Auths, SessionRows, RequestOK
  <2> QED
    BY <1>4, <2>2, ReadKeepsInv DEF AuthenticateSession, Authenticated
<1>5. ASSUME NEW t \in ProviderTypes, NEW new \in ProviderPayloads, LoadProvider(r, t, new) PROVE Inv' /\ TablesGrow
  <2> DEFINE x == [at |-> "provider", row |-> t, seen |-> provider[t], new |-> new]
  <2>1. x \in Calls /\ RequestOK(x)
    BY DEF Calls, RequestOK, Inv, TypeOK, ProviderPayloads
  <2> QED
    BY <1>5, <2>1, ReadKeepsInv DEF LoadProvider
<1>6. ASSUME NEW x \in Relations, MissTuple(r, x) PROVE Inv' /\ TablesGrow
  <2>1. [at |-> "tuple", row |-> x] \in Calls /\ RequestOK([at |-> "tuple", row |-> x])
    BY DEF Calls, RequestOK
  <2> QED
    BY <1>6, <2>1, ReadKeepsInv DEF MissTuple
<1>7. ASSUME NEW a \in Assets, LoadCredential(r, a) \/ LoadPrincipal(r, a) PROVE Inv' /\ TablesGrow
  <2>1. PICK use \in {"rotate", "delete"}, kind \in {"credential", "principal"} :
          LoadAsset(r, a, kind, use) /\ (use = "rotate" => kind = "credential")
    BY <1>7 DEF LoadCredential, LoadPrincipal
  <2> DEFINE x == [at |-> use, row |-> a, seen |-> asset[a].status]
  <2>2. asset[a] \in AssetRows /\ asset[a] # NoRow /\ ~asset[a].deleted /\ asset[a].kind = kind
    BY <2>1 DEF LoadAsset, Inv, TypeOK
  <2>3. asset[a].status \in {"active", "rotated"}
    BY <2>2 DEF Inv, AssetsOK, AssetRows, CredentialRows, PrincipalRows
  <2>4. x \in Calls /\ RequestOK(x)
    BY <2>1, <2>2, <2>3 DEF Calls, RequestOK
  <2> QED
    BY <2>1, <2>4, ReadKeepsInv DEF LoadAsset
<1> QED
  BY <1>1, <1>2, <1>3, <1>4, <1>5, <1>6, <1>7

\* Answers that change nothing: what was found is there, what is permitted is
\* permitted by the tuples of the moment.
LEMMA LooksKeepInv ==
    ASSUME Inv, NEW r \in Requests,
           \/ \E x \in Relations : FindTuple(r, x) \/ CheckTuple(r, x)
           \/ \E use \in RecordUses : UseRecord(r, use)
    PROVE  Inv' /\ TablesGrow
<1>1. ASSUME NEW x \in Relations, FindTuple(r, x) \/ CheckTuple(r, x) PROVE Inv' /\ TablesGrow
  <2> DEFINE a == [at |-> "answered", reply |-> [what |-> "tuple", row |-> x]]
  <2>1. a \in Calls
    BY DEF Calls, Replies
  <2>2. RequestOK(a)
    BY <1>1 DEF RequestOK, Backed, FindTuple, CheckTuple
  <2> QED
    BY <1>1, <2>1, <2>2, ReadKeepsInv DEF FindTuple, CheckTuple, Answer
<1>2. ASSUME NEW use \in RecordUses, UseRecord(r, use) PROVE Inv' /\ TablesGrow
  <2> DEFINE a == [at |-> "answered", reply |-> [what |-> "permitted", row |-> [auth |-> call[r].auth, use |-> use]]]
  <2>1. call[r].auth \in Auths
    BY <1>2, CallShapes DEF UseRecord, Inv, TypeOK
  <2>2. a \in Calls
    BY <2>1 DEF Calls, Replies
  <2>3. RequestOK(a)
    BY <1>2 DEF RequestOK, Backed, UseRecord
  <2> QED
    BY <1>2, <2>2, <2>3, ReadKeepsInv DEF UseRecord, Answer
<1> QED
  BY <1>1, <1>2

\* A step that ends a request with an answer after it wrote a table.
LEMMA WriteKeepsInv ==
    ASSUME Inv, TablesGrow, AssetsOK',
           apiKey' \in [Keys -> KeyRows \cup {NoRow}],
           session' \in [Sessions -> SessionRows \cup {NoRow}],
           provider' \in [ProviderTypes -> ProviderRows \cup {NoRow}],
           tuples' \subseteq Relations,
           asset' \in [Assets -> AssetRows \cup {NoRow}],
           NEW r \in Requests, NEW reply \in Replies, Backed(reply)',
           call' = [call EXCEPT ![r] = [at |-> "answered", reply |-> reply]]
    PROVE  Inv' /\ TablesGrow
<1> DEFINE a == [at |-> "answered", reply |-> reply]
<1>1. a \in Calls
  BY DEF Calls
<1>2. call'[r] = a /\ \A q \in Requests \ {r} : call'[q] = call[q]
  BY DEF Inv, TypeOK
<1>3. TypeOK'
  BY <1>1 DEF Inv, TypeOK
<1>4. RequestOK(call[r])'
  BY <1>2 DEF RequestOK, Backed
<1> QED
  BY <1>2, <1>3, <1>4, StepKeepsInv

\* authenticate writes last_used_at only: the key is as active as it is by now.
LEMMA AuthenticateKeyKeepsInv ==
    ASSUME Inv, NEW r \in Requests, AuthenticateKey(r)
    PROVE  Inv' /\ TablesGrow
<1> DEFINE k == call[r].key
           x == [at |-> "authenticated", auth |-> [kind |-> "api_key", role |-> call[r].seen.role]]
<1>1. k \in Keys /\ call[r].seen \in KeyRows
  BY LookupKinds DEF AuthenticateKey, Inv, TypeOK, KeyLookups
<1>2. apiKey[k] \in KeyRows /\ apiKey[k] # NoRow
  BY <1>1, NoRowIsNone DEF AuthenticateKey, Inv, TypeOK, RequestOK
<1>3. apiKey' = [apiKey EXCEPT ![k] = [apiKey[k] EXCEPT !.used = TRUE]]
  BY <1>1 DEF AuthenticateKey, Touched, Inv, TypeOK
<1>4. [apiKey[k] EXCEPT !.used = TRUE] \in KeyRows /\ [apiKey[k] EXCEPT !.used = TRUE].active = apiKey[k].active
  BY <1>2 DEF KeyRows
<1>5. apiKey' \in [Keys -> KeyRows \cup {NoRow}]
  BY <1>3, <1>4 DEF Inv, TypeOK
<1>6. TablesGrow
  BY <1>1, <1>3, <1>4, NoRowIsNone DEF AuthenticateKey, TablesGrow, Inv, TypeOK
<1>7. x \in Calls
  BY <1>1 DEF Calls, Auths, KeyRows
<1>8. call' = [call EXCEPT ![r] = x]
  BY DEF AuthenticateKey, Authenticated
<1>9. TypeOK' /\ AssetsOK'
  BY <1>5, <1>7, <1>8 DEF AuthenticateKey, Inv, TypeOK, AssetsOK
<1>10. RequestOK(call[r])' /\ \A q \in Requests \ {r} : call'[q] = call[q]
  BY <1>8 DEF Inv, TypeOK, RequestOK
<1> QED
  BY <1>6, <1>9, <1>10, StepKeepsInv

\* Keys are created in free rows and revoked in theirs.
LEMMA KeysKeepInv ==
    ASSUME Inv, NEW r \in Requests, NEW k \in Keys,
           RevokeApiKey(r, k) \/ \E role \in Roles : CreateApiKey(r, k, role)
    PROVE  Inv' /\ TablesGrow
<1>1. ASSUME NEW role \in Roles, CreateApiKey(r, k, role) PROVE Inv' /\ TablesGrow
  <2> DEFINE row == [role |-> role, active |-> TRUE, used |-> FALSE]
             reply == [what |-> "key", row |-> k]
  <2>0. row \in KeyRows
    BY DEF KeyRows
  <2>1. row \in KeyRows /\ row # NoRow
    BY <2>0, NoRowIsNone
  <2>2. apiKey' = [apiKey EXCEPT ![k] = row] /\ apiKey[k] = NoRow
        /\ UNCHANGED <<session, provider, tuples, asset>>
    BY <1>1 DEF CreateApiKey
  <2>3. apiKey' \in [Keys -> KeyRows \cup {NoRow}] /\ apiKey'[k] = row
    BY <2>1, <2>2 DEF Inv, TypeOK
  <2>4. TablesGrow
    BY <2>1, <2>2 DEF TablesGrow, Inv, TypeOK
  <2>5. reply \in Replies /\ Backed(reply)'
    BY <2>1, <2>3 DEF Replies, Backed
  <2> HIDE DEF row, reply
  <2> QED
    BY <1>1, <2>2, <2>3, <2>4, <2>5, WriteKeepsInv DEF CreateApiKey, Answer, reply, Inv, TypeOK, AssetsOK
<1>2. CASE RevokeApiKey(r, k)
  <2> DEFINE row == [apiKey[k] EXCEPT !.active = FALSE]
             reply == [what |-> "revoked", row |-> k]
  <2>1. apiKey[k] \in KeyRows
    BY <1>2 DEF RevokeApiKey, Inv, TypeOK
  <2>2. row \in KeyRows /\ row # NoRow /\ ~row.active
    BY <2>1, NoRowIsNone DEF KeyRows
  <2>3. apiKey' = [apiKey EXCEPT ![k] = row] /\ UNCHANGED <<session, provider, tuples, asset>>
    BY <1>2 DEF RevokeApiKey, Inv, TypeOK
  <2>4. apiKey' \in [Keys -> KeyRows \cup {NoRow}] /\ apiKey'[k] = row
    BY <2>2, <2>3 DEF Inv, TypeOK
  <2>5. TablesGrow
    BY <2>2, <2>3 DEF TablesGrow, Inv, TypeOK
  <2>6. reply \in Replies /\ Backed(reply)'
    BY <2>2, <2>4 DEF Replies, Backed
  <2> HIDE DEF row, reply
  <2> QED
    BY <1>2, <2>3, <2>4, <2>5, <2>6, WriteKeepsInv DEF RevokeApiKey, Answer, reply, Inv, TypeOK, AssetsOK
<1> QED
  BY <1>1, <1>2

\* An upsert inserts a row or changes columns of the one there is.
LEMMA UpsertKeepsInv ==
    ASSUME Inv, NEW r \in Requests, InsertProvider(r) \/ UpdateProvider(r)
    PROVE  Inv' /\ TablesGrow
<1>0. call[r] \in Upserts
  BY CallShapes DEF InsertProvider, UpdateProvider, Inv, TypeOK
<1> PICK t \in ProviderTypes : t = call[r].row
  BY <1>0 DEF Upserts
<1> DEFINE seen == call[r].seen
           new == call[r].new
           reply == [what |-> "provider", row |-> t]
<1>1. /\ seen \in ProviderRows \cup {NoRow} /\ new \in ProviderRows
      /\ seen # NoRow => provider[t] # NoRow
  BY <1>0 DEF Upserts, Inv, RequestOK
<1>2. PICK row \in ProviderRows : provider' = [provider EXCEPT ![t] = row]
  <2>1. CASE InsertProvider(r)
    <3> DEFINE row == IF provider[t] = NoRow THEN new ELSE provider[t]
    <3>1. row \in ProviderRows
      BY <1>1 DEF Inv, TypeOK
    <3>2. provider' = [provider EXCEPT ![t] = row]
      BY <2>1, <1>1 DEF InsertProvider, Inv, TypeOK
    <3> QED
      BY <3>1, <3>2
  <2>2. CASE UpdateProvider(r)
    <3> DEFINE row == [role |-> IF new.role # seen.role THEN new.role ELSE provider[t].role,
                       client |-> IF new.client # seen.client THEN new.client ELSE provider[t].client]
    <3>1. provider[t] \in ProviderRows
      BY <1>1, <2>2 DEF UpdateProvider, Inv, TypeOK
    <3>2. row \in ProviderRows
      BY <1>1, <3>1 DEF ProviderRows
    <3>3. provider' = [provider EXCEPT ![t] = row]
      BY <2>2, <1>1 DEF UpdateProvider, Inv, TypeOK
    <3> QED
      BY <3>2, <3>3
  <2> QED
    BY <2>1, <2>2
<1>3. UNCHANGED <<apiKey, session, tuples, asset>> /\ call' = [call EXCEPT ![r] = [at |-> "answered", reply |-> reply]]
  BY DEF InsertProvider, UpdateProvider, Answer
<1>4. row # NoRow
  BY <1>2, NoRowIsNone
<1>5. provider' \in [ProviderTypes -> ProviderRows \cup {NoRow}] /\ provider'[t] = row
  BY <1>1, <1>2 DEF Inv, TypeOK
<1>6. TablesGrow
  BY <1>1, <1>2, <1>3, <1>4 DEF TablesGrow, Inv, TypeOK
<1>7. reply \in Replies /\ Backed(reply)'
  BY <1>1, <1>4, <1>5 DEF Replies, Backed
<1> HIDE DEF reply
<1> QED
  BY <1>3, <1>5, <1>6, <1>7, WriteKeepsInv DEF Inv, TypeOK, AssetsOK

\* A session is stored in a free row and answered.
LEMMA SessionKeepsInv ==
    ASSUME Inv, NEW r \in Requests, NEW s \in Sessions, NEW t \in ProviderTypes, NEW asked \in Asked,
           CreateSession(r, s, t, asked)
    PROVE  Inv' /\ TablesGrow
<1> DEFINE row == [role |-> SessionRole(t, asked), live |-> TRUE]
           reply == [what |-> "session", row |-> s]
<1>1. provider[t] \in ProviderRows
  BY DEF CreateSession, Configured, Inv, TypeOK
<1>2. row \in SessionRows /\ row # NoRow
  <2>1. SessionRole(t, asked) \in Roles
    BY <1>1 DEF SessionRole, ProviderRows
  <2>2. row \in SessionRows
    BY <2>1 DEF SessionRows
  <2> QED
    BY <2>2, NoRowIsNone
<1>3. session' = [session EXCEPT ![s] = row] /\ UNCHANGED <<apiKey, provider, tuples, asset>>
      /\ call' = [call EXCEPT ![r] = [at |-> "answered", reply |-> reply]]
  BY DEF CreateSession, StoreSession, Answer
<1>4. session' \in [Sessions -> SessionRows \cup {NoRow}] /\ session'[s] = row
  BY <1>2, <1>3 DEF Inv, TypeOK
<1>5. TablesGrow
  BY <1>2, <1>3 DEF TablesGrow, Inv, TypeOK
<1>6. reply \in Replies /\ Backed(reply)'
  BY <1>2, <1>4 DEF Replies, Backed
<1> HIDE DEF row, reply
<1> QED
  BY <1>3, <1>4, <1>5, <1>6, WriteKeepsInv DEF Inv, TypeOK, AssetsOK

\* A session ends; its row stays.
LEMMA ExpiryKeepsInv ==
    ASSUME Inv, NEW s \in Sessions, SessionExpires(s)
    PROVE  Inv' /\ TablesGrow
<1> DEFINE row == [session[s] EXCEPT !.live = FALSE]
<1>1. session[s] \in SessionRows
  BY DEF SessionExpires, Inv, TypeOK
<1>2. row \in SessionRows /\ row # NoRow
  BY <1>1, NoRowIsNone DEF SessionRows
<1>3. session' = [session EXCEPT ![s] = row] /\ UNCHANGED <<apiKey, provider, tuples, asset, call>>
  BY DEF SessionExpires, Inv, TypeOK
<1>4. session' \in [Sessions -> SessionRows \cup {NoRow}]
  BY <1>2, <1>3 DEF Inv, TypeOK
<1>5. TablesGrow
  BY <1>2, <1>3 DEF TablesGrow, Inv, TypeOK
<1>6. TypeOK' /\ AssetsOK'
  BY <1>3, <1>4 DEF Inv, TypeOK, AssetsOK
<1> HIDE DEF row
<1> QED
  BY <1>3, <1>5, <1>6, GrowthKeepsRequests DEF Inv

\* A tuple is inserted, or found to be there by the unique constraint.
LEMMA TupleKeepsInv ==
    ASSUME Inv, NEW r \in Requests, InsertTuple(r)
    PROVE  Inv' /\ TablesGrow
<1> PICK x \in Relations : x = call[r].row
  BY CallShapes DEF InsertTuple, Inv, TypeOK
<1> DEFINE reply == [what |-> "tuple", row |-> x]
<1>1. tuples' = tuples \cup {x} /\ UNCHANGED <<apiKey, session, provider, asset>>
      /\ call' = [call EXCEPT ![r] = [at |-> "answered", reply |-> reply]]
  BY DEF InsertTuple, Answer
<1>2. tuples' \subseteq Relations
  BY <1>1 DEF Inv, TypeOK
<1>3. TablesGrow
  BY <1>1 DEF TablesGrow
<1>4. reply \in Replies /\ Backed(reply)'
  BY <1>1 DEF Replies, Backed
<1> HIDE DEF reply
<1> QED
  BY <1>1, <1>2, <1>3, <1>4, WriteKeepsInv DEF Inv, TypeOK, AssetsOK

\* A credential or a principal is stored in a free row.
LEMMA StoreKeepsInv ==
    ASSUME Inv, NEW r \in Requests, NEW a \in Assets, AddCredential(r, a) \/ AddPrincipal(r, a)
    PROVE  Inv' /\ TablesGrow
<1> PICK kind \in {"credential", "principal"} : StoreAsset(r, a, kind)
  BY DEF AddCredential, AddPrincipal
<1> DEFINE row == [kind |-> kind, status |-> "active", deleted |-> FALSE]
           reply == [what |-> "asset", row |-> a]
<1>1. row \in AssetRows /\ row.status # "revoked"
  BY DEF AssetRows, CredentialRows, PrincipalRows
<1>2. row # NoRow
  BY <1>1, NoRowIsNone
<1>3. asset[a] = NoRow /\ asset' = [asset EXCEPT ![a] = row] /\ UNCHANGED <<apiKey, session, provider, tuples>>
      /\ call' = [call EXCEPT ![r] = [at |-> "answered", reply |-> reply]]
  BY DEF StoreAsset, Answer
<1> HIDE DEF row
<1>4. asset' \in [Assets -> AssetRows \cup {NoRow}] /\ asset'[a] = row /\ \A b \in Assets \ {a} : asset'[b] = asset[b]
  BY <1>1, <1>3 DEF Inv, TypeOK
<1>5. TablesGrow /\ AssetsOK'
  BY <1>1, <1>2, <1>3, <1>4 DEF TablesGrow, Inv, TypeOK, AssetsOK
<1>6. reply \in Replies /\ Backed(reply)'
  BY <1>2, <1>4 DEF Replies, Backed
<1> HIDE DEF reply
<1> QED
  BY <1>3, <1>4, <1>5, <1>6, WriteKeepsInv DEF Inv, TypeOK

\* A row that was loaded is marked rotated or deleted, whatever became of it
\* since: it never loses its mark of deletion or becomes active again.
LEMMA MarkKeepsInv ==
    ASSUME Inv, NEW r \in Requests,
           RotateCredential(r) \/ DeleteCredential(r) \/ DeletePrincipal(r)
    PROVE  Inv' /\ TablesGrow
<1>0. call[r] \in Loads
  BY CallShapes DEF RotateCredential, DeleteCredential, DeletePrincipal, Inv, TypeOK
<1> PICK a \in Assets : a = call[r].row
  BY <1>0 DEF Loads
<1> DEFINE old == asset[a]
<1>1. /\ old \in AssetRows /\ old # NoRow
      /\ old.status = "revoked" => old.deleted
      /\ call[r].at = "rotate" => old.kind = "credential"
  BY DEF RotateCredential, DeleteCredential, DeletePrincipal, Inv, TypeOK, RequestOK, AssetsOK
<1>2. PICK row \in AssetRows, what \in {"asset", "deleted"} :
         /\ WriteAsset(r, row, what)
         /\ row.kind = old.kind
         /\ old.deleted => row.deleted
         /\ old.status # "active" => row.status # "active"
         /\ row.status = "revoked" => row.deleted
         /\ what = "deleted" => row.deleted /\ (row.kind = "credential" => row.status # "active")
  <2>1. CASE RotateCredential(r)
    <3> DEFINE row == IF call[r].seen = "rotated" THEN old ELSE [old EXCEPT !.status = "rotated"]
    <3>1. old \in CredentialRows
      BY <1>1, <2>1 DEF RotateCredential, AssetRows, PrincipalRows
    <3>2. /\ row \in CredentialRows /\ row.kind = old.kind /\ row.deleted = old.deleted
          /\ row = old \/ row.status = "rotated"
      BY <3>1 DEF CredentialRows
    <3>3. WriteAsset(r, row, "asset")
      BY <2>1 DEF RotateCredential
    <3> HIDE DEF row
    <3> QED
      BY <1>1, <3>2, <3>3 DEF AssetRows
  <2>2. CASE DeleteCredential(r)
    <3> DEFINE row == [old EXCEPT !.deleted = TRUE, !.status = "revoked"]
    <3>1. old \in CredentialRows
      BY <1>1, <2>2 DEF DeleteCredential, AssetRows, PrincipalRows
    <3>2. row \in CredentialRows /\ row.kind = old.kind /\ row.deleted /\ row.status = "revoked"
      BY <3>1 DEF CredentialRows
    <3>3. WriteAsset(r, row, "deleted")
      BY <2>2 DEF DeleteCredential
    <3> HIDE DEF row
    <3> QED
      BY <3>2, <3>3 DEF AssetRows
  <2>3. CASE DeletePrincipal(r)
    <3> DEFINE row == [old EXCEPT !.deleted = TRUE]
    <3>1. old \in PrincipalRows
      BY <1>1, <2>3 DEF DeletePrincipal, AssetRows, CredentialRows
    <3>2. row \in PrincipalRows /\ row.kind = old.kind /\ row.deleted /\ row.status = old.status
          /\ row.kind # "credential" /\ row.status = "active"
      BY <3>1 DEF PrincipalRows
    <3>3. WriteAsset(r, row, "deleted")
      BY <2>3 DEF DeletePrincipal
    <3> HIDE DEF row
    <3> QED
      BY <3>2, <3>3 DEF AssetRows
  <2> QED
    BY <2>1, <2>2, <2>3
<1> DEFINE reply == [what |-> what, row |-> a]
<1>3. asset' = [asset EXCEPT ![a] = row] /\ UNCHANGED <<apiKey, session, provider, tuples>>
      /\ call' = [call EXCEPT ![r] = [at |-> "answered", reply |-> reply]]
  BY <1>2 DEF WriteAsset, Answer
<1>4. row # NoRow
  BY NoRowIsNone
<1>5. asset' \in [Assets -> AssetRows \cup {NoRow}] /\ asset'[a] = row /\ \A b \in Assets \ {a} : asset'[b] = asset[b]
  BY <1>3 DEF Inv, TypeOK
<1>6. TablesGrow /\ AssetsOK'
  BY <1>2, <1>3, <1>4, <1>5 DEF TablesGrow, Inv, TypeOK, AssetsOK
<1>7. reply \in Replies /\ Backed(reply)'
  BY <1>2, <1>4, <1>5 DEF Replies, Backed
<1> HIDE DEF reply
<1> QED
  BY <1>3, <1>5, <1>6, <1>7, WriteKeepsInv DEF Inv, TypeOK

-----------------------------------------------------------------------------
(* The theorems.                                                           *)

\* Every step keeps the invariant and lets the tables grow only.
LEMMA InvInductive == Inv /\ [Next]_vars => Inv' /\ TablesGrow
<1> SUFFICES ASSUME Inv, [Next]_vars PROVE Inv' /\ TablesGrow
  OBVIOUS
<1>1. CASE UNCHANGED vars
  <2>1. TablesGrow
    BY <1>1 DEF vars, TablesGrow
  <2>2. TypeOK' /\ AssetsOK'
    BY <1>1 DEF vars, Inv, TypeOK, AssetsOK
  <2>3. \A r \in Requests : call'[r] = call[r]
    BY <1>1 DEF vars
  <2> QED
    BY <2>1, <2>2, <2>3, GrowthKeepsRequests DEF Inv
<1>2. ASSUME NEW s \in Sessions, SessionExpires(s) PROVE Inv' /\ TablesGrow
  BY <1>2, ExpiryKeepsInv
<1>3. ASSUME NEW r \in Requests,
             \/ Forget(r) \/ AuthenticateKey(r) \/ AuthenticateSession(r)
             \/ InsertProvider(r) \/ UpdateProvider(r) \/ InsertTuple(r)
             \/ RotateCredential(r) \/ DeleteCredential(r) \/ DeletePrincipal(r)
      PROVE  Inv' /\ TablesGrow
  BY <1>3, ReadsKeepInv, AuthenticateKeyKeepsInv, UpsertKeepsInv, TupleKeepsInv, MarkKeepsInv
<1>4. ASSUME NEW r \in Requests, NEW a \in Assets,
             \/ AddCredential(r, a) \/ LoadCredential(r, a)
             \/ AddPrincipal(r, a) \/ LoadPrincipal(r, a)
      PROVE  Inv' /\ TablesGrow
  BY <1>4, StoreKeepsInv, ReadsKeepInv
<1>5. ASSUME NEW r \in Requests, NEW k \in Keys,
             LookUpKey(r, k) \/ RevokeApiKey(r, k) \/ \E role \in Roles : CreateApiKey(r, k, role)
      PROVE  Inv' /\ TablesGrow
  BY <1>5, KeysKeepInv, ReadsKeepInv
<1>6. ASSUME NEW r \in Requests, NEW t \in ProviderTypes,
             \/ \E new \in ProviderPayloads : LoadProvider(r, t, new)
             \/ \E s \in Sessions, asked \in Asked : CreateSession(r, s, t, asked)
      PROVE  Inv' /\ TablesGrow
  BY <1>6, SessionKeepsInv, ReadsKeepInv
<1>7. ASSUME NEW r \in Requests,
             \/ \E s \in Sessions : LookUpSession(r, s)
             \/ \E x \in Relations : FindTuple(r, x) \/ CheckTuple(r, x) \/ MissTuple(r, x)
             \/ \E use \in RecordUses : UseRecord(r, use)
      PROVE  Inv' /\ TablesGrow
  BY <1>7, LooksKeepInv, ReadsKeepInv
<1> QED
  BY <1>1, <1>2, <1>3, <1>4, <1>5, <1>6, <1>7 DEF Next

\* The invariant holds of every behaviour, whatever the number of requests.
THEOREM Invariant == Spec => []Inv
BY InvInit, InvInductive, PTL DEF Spec


\* The tables and the requests are well typed.
THEOREM TypeCorrect == Spec => []TypeOK
<1>1. Inv => TypeOK
  BY DEF Inv
<1> QED
  BY <1>1, Invariant, PTL

\* What a client was told stays true of the tables.
THEOREM AnswersBackedHolds == Spec => []AnswersBacked
BY BackedAnswers, Invariant, PTL

\* A revoked key stays revoked and a deleted asset deleted, although a request
\* that read the row before writes it after.
THEOREM RevocationFinalHolds == Spec => RevocationFinal
<1>1. Inv /\ [Next]_vars =>
        [/\ \A k \in Keys : apiKey[k] # NoRow /\ ~apiKey[k].active => ~apiKey'[k].active
         /\ \A a \in Assets : asset[a] # NoRow /\ asset[a].deleted => asset'[a].deleted]_vars
  BY InvInductive DEF TablesGrow
<1> QED
  BY <1>1, Invariant, PTL DEF Spec, RevocationFinal

\* Nobody who is locked out creates, finds or brings along an admin key.
LEMMA LockedOutStays == Inv /\ LockedOut /\ [Next]_vars => LockedOut'
<1> SUFFICES ASSUME Inv, LockedOut, [Next]_vars PROVE LockedOut'
  OBVIOUS
<1> DEFINE Carries(x) ==
             \/ x.at = "lookedup" /\ "key" \in DOMAIN x /\ x.seen.role = "admin"
             \/ x.at = "authenticated" /\ ApiKeyAdmin(x.auth)
<1>0. TypeOK /\ NoRow.role # "admin"
  BY DEF Inv, NoRow
<1>1. /\ \A k \in Keys : ~(apiKey[k].role = "admin" /\ apiKey[k].active)
      /\ \A r \in Requests : ~Carries(call[r])
  BY DEF LockedOut, ActiveAdminKeys, AdminKeyAtWork
<1>2. SUFFICES /\ \A k \in Keys : ~(apiKey'[k].role = "admin" /\ apiKey'[k].active)
               /\ \A r \in Requests : ~Carries(call'[r])
  BY DEF LockedOut, ActiveAdminKeys, AdminKeyAtWork
\* The keys: one is touched, one revoked, none created.
<1>3. ASSUME NEW k \in Keys, apiKey'[k].role = "admin", apiKey'[k].active PROVE FALSE
  <2>1. CASE apiKey' = apiKey
    BY <1>1, <1>3, <2>1
  <2>2. ASSUME NEW r \in Requests, AuthenticateKey(r) PROVE FALSE
    <3>1. call[r].key \in Keys /\ apiKey[call[r].key] \in KeyRows
      BY <2>2, <1>0, LookupKinds DEF AuthenticateKey, TypeOK, KeyLookups, Inv, RequestOK
    <3>2. apiKey'[k].role = apiKey[k].role /\ apiKey'[k].active = apiKey[k].active
      BY <2>2, <3>1, <1>0 DEF AuthenticateKey, Touched, TypeOK, KeyRows
    <3> QED
      BY <1>1, <1>3, <3>2
  <2>3. ASSUME NEW r \in Requests, NEW j \in Keys, RevokeApiKey(r, j) PROVE FALSE
    BY <2>3, <1>0, <1>1 DEF RevokeApiKey, ApiKeyAdmin
  <2>4. ASSUME NEW r \in Requests, NEW j \in Keys, NEW role \in Roles, CreateApiKey(r, j, role) PROVE FALSE
    BY <2>4, <1>0, <1>1 DEF CreateApiKey, ApiKeyAdmin
  <2>5. ASSUME NEW r \in Requests,
               \/ Forget(r) \/ AuthenticateSession(r)
               \/ InsertProvider(r) \/ UpdateProvider(r) \/ InsertTuple(r)
               \/ RotateCredential(r) \/ DeleteCredential(r) \/ DeletePrincipal(r)
        PROVE  FALSE
    BY <2>1, <2>5 DEF Forget, AuthenticateSession, InsertProvider, UpdateProvider, InsertTuple,
       RotateCredential, DeleteCredential, DeletePrincipal, WriteAsset
  <2>6. ASSUME NEW r \in Requests,
               \/ \E a \in Assets :
                     \/ AddCredential(r, a) \/ LoadCredential(r, a)
                     \/ AddPrincipal(r, a) \/ LoadPrincipal(r, a)
               \/ \E j \in Keys : LookUpKey(r, j)
               \/ \E s \in Sessions : LookUpSession(r, s)
        PROVE  FALSE
    BY <2>1, <2>6 DEF AddCredential, AddPrincipal, StoreAsset, LoadCredential, LoadPrincipal, LoadAsset,
       LookUpKey, LookUpSession
  <2>7. ASSUME NEW r \in Requests, NEW t \in ProviderTypes,
               \/ \E new \in ProviderPayloads : LoadProvider(r, t, new)
               \/ \E s \in Sessions, asked \in Asked : CreateSession(r, s, t, asked)
        PROVE  FALSE
    BY <2>1, <2>7 DEF LoadProvider, CreateSession
  <2>8. ASSUME NEW r \in Requests,
               \/ \E x \in Relations : FindTuple(r, x) \/ CheckTuple(r, x) \/ MissTuple(r, x)
               \/ \E use \in RecordUses : UseRecord(r, use)
        PROVE  FALSE
    BY <2>1, <2>8 DEF FindTuple, CheckTuple, MissTuple, UseRecord
  <2>9. ASSUME NEW s \in Sessions, SessionExpires(s) PROVE FALSE
    BY <2>1, <2>9 DEF SessionExpires
  <2>10. CASE UNCHANGED vars
    BY <2>1, <2>10 DEF vars
  <2> HIDE DEF Carries
  <2> QED
    BY <2>2, <2>3, <2>4, <2>5, <2>6, <2>7, <2>8, <2>9, <2>10 DEF Next
\* The requests: a key is found active and carries the role it was found with.
<1>4. ASSUME NEW q \in Requests, Carries(call'[q]) PROVE FALSE
  <2>1. CASE call' = call
    BY <1>1, <1>4, <2>1
  <2>2. ASSUME NEW r \in Requests, NEW x, call' = [call EXCEPT ![r] = x], ~Carries(x) PROVE FALSE
    BY <1>0, <1>1, <1>4, <2>2 DEF TypeOK
  <2>3. ASSUME NEW r \in Requests, NEW at \in {"idle", "provider", "tuple", "rotate", "delete", "answered"},
               NEW x, x.at = at, call' = [call EXCEPT ![r] = x]
        PROVE  FALSE
    BY <2>2, <2>3
  <2>4. ASSUME NEW r \in Requests, NEW what, NEW row, Answer(r, what, row) PROVE FALSE
    BY <2>3, <2>4 DEF Answer
  <2>5. ASSUME NEW r \in Requests, NEW k \in Keys, LookUpKey(r, k) PROVE FALSE
    <3> DEFINE x == [at |-> "lookedup", key |-> k, seen |-> apiKey[k]]
    <3>1. ~Carries(x)
      BY <1>1, <2>5 DEF LookUpKey
    <3> QED
      BY <3>1, <2>2, <2>5 DEF LookUpKey
  <2>6. ASSUME NEW r \in Requests, NEW s \in Sessions, LookUpSession(r, s) PROVE FALSE
    <3> DEFINE x == [at |-> "lookedup", session |-> s, seen |-> session[s]]
    <3>1. ~Carries(x)
      OBVIOUS
    <3> QED
      BY <3>1, <2>2, <2>6 DEF LookUpSession
  <2>7. ASSUME NEW r \in Requests, AuthenticateKey(r) PROVE FALSE
    <3> DEFINE x == [at |-> "authenticated", auth |-> [kind |-> "api_key", role |-> call[r].seen.role]]
    <3>1. ~Carries(x)
      BY <1>1, <2>7 DEF AuthenticateKey, ApiKeyAdmin
    <3> QED
      BY <3>1, <2>2, <2>7 DEF AuthenticateKey, Authenticated
  <2>8. ASSUME NEW r \in Requests, AuthenticateSession(r) PROVE FALSE
    <3> DEFINE x == [at |-> "authenticated", auth |-> [kind |-> "session", role |-> call[r].seen.role]]
    <3>1. ~Carries(x)
      BY DEF ApiKeyAdmin
    <3> QED
      BY <3>1, <2>2, <2>8 DEF AuthenticateSession, Authenticated
  <2>9. ASSUME NEW r \in Requests, Forget(r) PROVE FALSE
    BY <2>3, <2>9 DEF Forget
  <2>10. ASSUME NEW r \in Requests, NEW t, NEW new, LoadProvider(r, t, new) PROVE FALSE
    BY <2>3, <2>10 DEF LoadProvider
  <2>11. ASSUME NEW r \in Requests, NEW x, MissTuple(r, x) PROVE FALSE
    BY <2>3, <2>11 DEF MissTuple
  <2>12. ASSUME NEW r \in Requests, NEW a, LoadCredential(r, a) \/ LoadPrincipal(r, a) PROVE FALSE
    BY <2>3, <2>12 DEF LoadCredential, LoadPrincipal, LoadAsset
  <2> HIDE DEF Carries
  <2>13. ASSUME NEW r \in Requests,
                \/ InsertProvider(r) \/ UpdateProvider(r) \/ InsertTuple(r)
                \/ RotateCredential(r) \/ DeleteCredential(r) \/ DeletePrincipal(r)
         PROVE  FALSE
    BY <2>4, <2>13 DEF InsertProvider, UpdateProvider, InsertTuple, RotateCredential, DeleteCredential,
       DeletePrincipal, WriteAsset
  <2>14. ASSUME NEW r \in Requests,
                \/ \E a \in Assets : AddCredential(r, a) \/ AddPrincipal(r, a)
                \/ \E k \in Keys : RevokeApiKey(r, k) \/ \E role \in Roles : CreateApiKey(r, k, role)
                \/ \E t \in ProviderTypes, s \in Sessions, asked \in Asked : CreateSession(r, s, t, asked)
                \/ \E x \in Relations : FindTuple(r, x) \/ CheckTuple(r, x)
                \/ \E use \in RecordUses : UseRecord(r, use)
         PROVE  FALSE
    BY <2>4, <2>14 DEF AddCredential, AddPrincipal, StoreAsset, RevokeApiKey, CreateApiKey, CreateSession,
       FindTuple, CheckTuple, UseRecord
  <2>15. ASSUME NEW s \in Sessions, SessionExpires(s) PROVE FALSE
    BY <2>1, <2>15 DEF SessionExpires
  <2>16. CASE UNCHANGED vars
    BY <2>1, <2>16 DEF vars
  <2> QED
    BY <2>5, <2>6, <2>7, <2>8, <2>9, <2>10, <2>11, <2>12, <2>13, <2>14, <2>15, <2>16 DEF Next
<1> QED
  BY <1>3, <1>4

\* Once no active admin key is left and no request holds one, no session and no
\* other key ever brings one back.
THEOREM LockoutPermanentHolds == Spec => LockoutPermanent
<1>1. Inv /\ [Next]_vars => [LockedOut => LockedOut']_vars
  BY LockedOutStays
<1> QED
  BY <1>1, Invariant, PTL DEF Spec, LockoutPermanent

=============================================================================
