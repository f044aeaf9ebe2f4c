---------------------------- MODULE TenantAccess ----------------------------
(***************************************************************************)
(* Access of one organization: API keys, browser sessions, identity        *)
(* providers, FGA tuples, and the credentials and principals of a          *)
(* blueprint (services.py, with the routes and the dependencies            *)
(* require_auth, require_api_key_admin and require_role of main.py, and    *)
(* the tokens of security.py).                                             *)
(*                                                                         *)
(* Handlers run in a thread pool.  A request authenticates in a            *)
(* transaction of its own (read the row, write last_used_at, commit) and   *)
(* then acts in another; other requests come between any two of its        *)
(* transactions and between the reads and the commit of one.  A commit     *)
(* writes the columns that differ from what was read.                      *)
(*                                                                         *)
(* Limitations: raw keys, hashes and signed tokens are the identity of     *)
(* their row; labels, names and audit rows are left out; every relation of *)
(* a tuple concerns one subject and one record.                            *)
(***************************************************************************)
EXTENDS Integers

CONSTANTS
    Keys,           \* the API keys that ever exist
    RootKey,        \* the one bootstrap issues
    Sessions,       \* the browser sessions that ever exist
    ProviderTypes,  \* "oidc", "saml"
    Clients,        \* values of a provider's descriptive columns
    Assets,         \* the credentials and principals of the blueprint that ever exist
    Relations,      \* relations of the subject to the record that may be granted
    Roles,          \* the roles that occur
    Requests        \* requests in progress at a time

ASSUME RolesAssumption == "admin" \in Roles /\ Roles \subseteq {"admin", "writer", "reader"}
ASSUME RelationsAssumption == Relations \subseteq {"viewer", "editor", "owner"}
ASSUME RootKeyAssumption == RootKey \in Keys

VARIABLES
    apiKey,     \* apiKey[k]: row of api_keys
    session,    \* session[s]: row of user_sessions
    provider,   \* provider[t]: row of identity_provider_configs
    tuples,     \* authorization_tuples; the unique constraint makes it a set
    asset,      \* asset[a]: row of blueprint_credentials or blueprint_principals
    call        \* call[r]: a request in progress, or its answer

vars == <<apiKey, session, provider, tuples, asset, call>>

NoRow == [role |-> "none"]

KeyRows == [role : Roles, active : BOOLEAN, used : BOOLEAN]
SessionRows == [role : Roles, live : BOOLEAN]
ProviderRows == [role : Roles, client : Clients]

\* status is rotation_status; a payload that brings another one than "active" is
\* left out.
CredentialRows ==
    [kind : {"credential"}, status : {"active", "rotated", "revoked"}, deleted : BOOLEAN]

\* A principal has no status.
PrincipalRows == [kind : {"principal"}, status : {"active"}, deleted : BOOLEAN]

AssetRows == CredentialRows \cup PrincipalRows

\* What require_auth hands to the handler.
Auths == [kind : {"api_key", "session"}, role : Roles]

\* What the routes of agent records ask permission for.
RecordUses == {"read", "deprovision"}

Replies ==
    [what : {"key", "revoked"}, row : Keys] \cup [what : {"session"}, row : Sessions]
      \cup [what : {"provider"}, row : ProviderTypes] \cup [what : {"tuple"}, row : Relations]
      \cup [what : {"asset", "deleted"}, row : Assets]
      \cup [what : {"permitted"}, row : [auth : Auths, use : RecordUses]]

Calls ==
    [at : {"idle"}]
      \cup [at : {"lookedup"}, key : Keys, seen : KeyRows]
      \cup [at : {"lookedup"}, session : Sessions, seen : SessionRows]
      \cup [at : {"authenticated"}, auth : Auths]
      \cup [at : {"provider"}, row : ProviderTypes, seen : ProviderRows \cup {NoRow}, new : ProviderRows]
      \cup [at : {"tuple"}, row : Relations]
      \cup [at : {"rotate", "delete"}, row : Assets, seen : {"active", "rotated"}]
      \cup [at : {"answered"}, reply : Replies]

Init ==
    /\ apiKey = [k \in Keys |->
                    IF k = RootKey THEN [role |-> "admin", active |-> TRUE, used |-> FALSE] ELSE NoRow]
    /\ session = [s \in Sessions |-> NoRow]
    /\ provider = [t \in ProviderTypes |-> NoRow]
    /\ tuples = {}
    /\ asset = [a \in Assets |-> NoRow]
    /\ call = [r \in Requests |-> [at |-> "idle"]]

Answer(r, what, row) ==
    call' = [call EXCEPT ![r] = [at |-> "answered", reply |-> [what |-> what, row |-> row]]]

\* The client has its answer, or the request ended in a 401, 403, 404 or 500.
Forget(r) ==
    /\ call[r].at # "idle"
    /\ call' = [call EXCEPT ![r] = [at |-> "idle"]]
    /\ UNCHANGED <<apiKey, session, provider, tuples, asset>>

-----------------------------------------------------------------------------
(* require_auth: authenticate and authenticate_session.                    *)

\* Defective variant, for mutation: whatever the query returns is a key.
LookUpKeyUnchecked(r, k) ==
    /\ call[r].at = "idle"
    /\ call' = [call EXCEPT ![r] = [at |-> "lookedup", key |-> k, seen |-> apiKey[k]]]
    /\ UNCHANGED <<apiKey, session, provider, tuples, asset>>

LookUpKey(r, k) ==
    /\ call[r].at = "idle"
    /\ apiKey[k] # NoRow /\ apiKey[k].active
    /\ call' = [call EXCEPT ![r] = [at |-> "lookedup", key |-> k, seen |-> apiKey[k]]]
    /\ UNCHANGED <<apiKey, session, provider, tuples, asset>>

\* The token's own exp is the row's expires_at cut to seconds: it never admits
\* a session the row refuses.
LookUpSession(r, s) ==
    /\ call[r].at = "idle"
    /\ session[s] # NoRow /\ session[s].live
    /\ call' = [call EXCEPT ![r] = [at |-> "lookedup", session |-> s, seen |-> session[s]]]
    /\ UNCHANGED <<apiKey, session, provider, tuples, asset>>

\* Defective variant, for mutation: the row is written as it was read.
TouchedWhole(k, seen) == [apiKey EXCEPT ![k] = [seen EXCEPT !.used = TRUE]]

\* last_used_at is the only column authenticate writes.
Touched(k, seen) == [apiKey EXCEPT ![k].used = TRUE]

Authenticated(r, kind) ==
    call' = [call EXCEPT ![r] =
                [at |-> "authenticated", auth |-> [kind |-> kind, role |-> call[r].seen.role]]]

AuthenticateKey(r) ==
    /\ call[r].at = "lookedup" /\ "key" \in DOMAIN call[r]
    /\ apiKey' = Touched(call[r].key, call[r].seen)
    /\ Authenticated(r, "api_key")
    /\ UNCHANGED <<session, provider, tuples, asset>>

AuthenticateSession(r) ==
    /\ call[r].at = "lookedup" /\ "session" \in DOMAIN call[r]
    /\ Authenticated(r, "session")
    /\ UNCHANGED <<apiKey, session, provider, tuples, asset>>

\* require_role("admin"): a key or a session.
AdminRole(auth) == auth.role = "admin"

\* require_role("admin", "writer").
WriterRole(auth) == auth.role \in {"admin", "writer"}

\* Defective variant, for mutation: the role is asked for, the kind is not.
AdminOfAnyKind(auth) == auth.role = "admin"

\* require_api_key_admin.
ApiKeyAdmin(auth) == auth.kind = "api_key" /\ auth.role = "admin"

-----------------------------------------------------------------------------
(* API keys.                                                               *)

CreateApiKey(r, k, role) ==
    /\ call[r].at = "authenticated" /\ ApiKeyAdmin(call[r].auth)
    /\ apiKey[k] = NoRow
    /\ apiKey' = [apiKey EXCEPT ![k] = [role |-> role, active |-> TRUE, used |-> FALSE]]
    /\ Answer(r, "key", k)
    /\ UNCHANGED <<session, provider, tuples, asset>>

\* Also of the key the request itself came with, and of the last admin key.
RevokeApiKey(r, k) ==
    /\ call[r].at = "authenticated" /\ ApiKeyAdmin(call[r].auth)
    /\ apiKey[k] # NoRow
    /\ apiKey' = [apiKey EXCEPT ![k].active = FALSE]
    /\ Answer(r, "revoked", k)
    /\ UNCHANGED <<session, provider, tuples, asset>>

-----------------------------------------------------------------------------
(* upsert_identity_provider: read the row, set every column, commit.       *)

\* What the payload may ask for.
ProviderPayloads == ProviderRows

LoadProvider(r, t, new) ==
    /\ call[r].at = "authenticated" /\ ApiKeyAdmin(call[r].auth)
    /\ call' = [call EXCEPT ![r] = [at |-> "provider", row |-> t, seen |-> provider[t], new |-> new]]
    /\ UNCHANGED <<apiKey, session, provider, tuples, asset>>

\* An INSERT fails on the unique constraint when another request was faster.
InsertProvider(r) ==
    /\ call[r].at = "provider" /\ call[r].seen = NoRow
    /\ LET t == call[r].row IN
          /\ provider' = [provider EXCEPT ![t] = IF @ = NoRow THEN call[r].new ELSE @]
          /\ Answer(r, "provider", t)
    /\ UNCHANGED <<apiKey, session, tuples, asset>>

\* An UPDATE names the columns in which the payload differs from the row as it
\* was read: two overlapping upserts may leave columns of both.
UpdateProvider(r) ==
    /\ call[r].at = "provider" /\ call[r].seen # NoRow
    /\ LET t == call[r].row
           seen == call[r].seen
           new == call[r].new
       IN  /\ provider' =
                 [provider EXCEPT ![t] =
                    [role |-> IF new.role # seen.role THEN new.role ELSE @.role,
                     client |-> IF new.client # seen.client THEN new.client ELSE @.client]]
           /\ Answer(r, "provider", t)
    /\ UNCHANGED <<apiKey, session, tuples, asset>>

-----------------------------------------------------------------------------
(* Browser sessions: the callback of OIDC and the ACS of SAML in main.py,  *)
(* which need a configured provider and no credentials.                    *)

\* get_identity_provider; every provider is enabled.
Configured(t) == provider[t] # NoRow

\* A role of the payload, or none.
Asked == Roles \cup {"default"}

SessionRole(t, asked) == IF asked \in Roles THEN asked ELSE provider[t].role

\* _create_session; the token names the row.
StoreSession(s, role) == session' = [session EXCEPT ![s] = [role |-> role, live |-> TRUE]]

CreateSession(r, s, t, asked) ==
    /\ call[r].at = "idle"
    /\ Configured(t)
    /\ session[s] = NoRow
    /\ StoreSession(s, SessionRole(t, asked))
    /\ Answer(r, "session", s)
    /\ UNCHANGED <<apiKey, provider, tuples, asset>>

\* expires_at passes; nothing ends a session before.
SessionExpires(s) ==
    /\ session[s] # NoRow /\ session[s].live
    /\ session' = [session EXCEPT ![s].live = FALSE]
    /\ UNCHANGED <<apiKey, provider, tuples, asset, call>>

-----------------------------------------------------------------------------
(* create_authorization_tuple: check, then insert; and the check route.     *)

FindTuple(r, x) ==
    /\ call[r].at = "authenticated" /\ AdminRole(call[r].auth)
    /\ x \in tuples
    /\ Answer(r, "tuple", x)
    /\ UNCHANGED <<apiKey, session, provider, tuples, asset>>

\* check_authorization_tuple, answering that it is allowed.
CheckTuple(r, x) ==
    /\ call[r].at = "authenticated"
    /\ x \in tuples
    /\ Answer(r, "tuple", x)
    /\ UNCHANGED <<apiKey, session, provider, tuples, asset>>

MissTuple(r, x) ==
    /\ call[r].at = "authenticated" /\ AdminRole(call[r].auth)
    /\ x \notin tuples
    /\ call' = [call EXCEPT ![r] = [at |-> "tuple", row |-> x]]
    /\ UNCHANGED <<apiKey, session, provider, tuples, asset>>

\* Defective variant, for mutation: the insert is not committed.
InsertTupleUncommitted(r) ==
    /\ call[r].at = "tuple"
    /\ Answer(r, "tuple", call[r].row)
    /\ UNCHANGED <<apiKey, session, provider, tuples, asset>>

\* Created, or refused by the unique constraint (a 500) because an overlapping
\* request created it.
InsertTuple(r) ==
    /\ call[r].at = "tuple"
    /\ tuples' = tuples \cup {call[r].row}
    /\ Answer(r, "tuple", call[r].row)
    /\ UNCHANGED <<apiKey, session, provider, asset>>

-----------------------------------------------------------------------------
(* ensure_record_permission, in the routes of agent records.               *)

RelationPermissions(relation) == IF relation = "owner" THEN RecordUses ELSE {"read"}

RolePermissions(role) == IF role = "admin" THEN RecordUses ELSE {"read"}

\* The role permits, but a session of a reader reads by a tuple of its subject;
\* a key has no subject.
Permitted(auth, use) ==
    \/ use \in RolePermissions(auth.role)
       /\ ~(auth.kind = "session" /\ auth.role = "reader" /\ use = "read")
    \/ auth.kind = "session" /\ \E x \in tuples : use \in RelationPermissions(x)

UseRecord(r, use) ==
    /\ call[r].at = "authenticated"
    /\ Permitted(call[r].auth, use)
    /\ Answer(r, "permitted", [auth |-> call[r].auth, use |-> use])
    /\ UNCHANGED <<apiKey, session, provider, tuples, asset>>

-----------------------------------------------------------------------------
(* Credentials and principals of a blueprint.  Ids are not unique: a       *)
(* request for an id loads any row that has it.                            *)

StoreAsset(r, a, kind) ==
    /\ asset[a] = NoRow
    /\ asset' = [asset EXCEPT ![a] = [kind |-> kind, status |-> "active", deleted |-> FALSE]]
    /\ Answer(r, "asset", a)
    /\ UNCHANGED <<apiKey, session, provider, tuples>>

AddCredential(r, a) ==
    /\ call[r].at = "authenticated" /\ WriterRole(call[r].auth)
    /\ StoreAsset(r, a, "credential")

AddPrincipal(r, a) ==
    /\ call[r].at = "authenticated" /\ WriterRole(call[r].auth)
    /\ StoreAsset(r, a, "principal")

\* The query leaves deleted rows out.
LoadAsset(r, a, kind, use) ==
    /\ call[r].at = "authenticated" /\ WriterRole(call[r].auth)
    /\ asset[a] # NoRow /\ asset[a].kind = kind /\ ~asset[a].deleted
    /\ call' = [call EXCEPT ![r] = [at |-> use, row |-> a, seen |-> asset[a].status]]
    /\ UNCHANGED <<apiKey, session, provider, tuples, asset>>

LoadCredential(r, a) == \E use \in {"rotate", "delete"} : LoadAsset(r, a, "credential", use)

LoadPrincipal(r, a) == LoadAsset(r, a, "principal", "delete")

WriteAsset(r, row, what) ==
    /\ asset' = [asset EXCEPT ![call[r].row] = row]
    /\ Answer(r, what, call[r].row)
    /\ UNCHANGED <<apiKey, session, provider, tuples>>

\* The status is written when it differs from the one read: a credential that
\* another request deleted in between stays deleted and reads "rotated".
RotateCredential(r) ==
    /\ call[r].at = "rotate"
    /\ LET row == asset[call[r].row] IN
          WriteAsset(r, IF call[r].seen = "rotated" THEN row ELSE [row EXCEPT !.status = "rotated"], "asset")

\* The row stays and is marked; a second deletion marks it again.
DeleteCredential(r) ==
    /\ call[r].at = "delete" /\ asset[call[r].row].kind = "credential"
    /\ WriteAsset(r, [asset[call[r].row] EXCEPT !.deleted = TRUE, !.status = "revoked"], "deleted")

DeletePrincipal(r) ==
    /\ call[r].at = "delete" /\ asset[call[r].row].kind = "principal"
    /\ WriteAsset(r, [asset[call[r].row] EXCEPT !.deleted = TRUE], "deleted")

-----------------------------------------------------------------------------
Next ==
    \/ \E r \in Requests :
          \/ Forget(r) \/ AuthenticateKey(r) \/ AuthenticateSession(r)
          \/ InsertProvider(r) \/ UpdateProvider(r) \/ InsertTuple(r)
          \/ RotateCredential(r) \/ DeleteCredential(r) \/ DeletePrincipal(r)
          \/ \E a \in Assets :
                \/ AddCredential(r, a) \/ LoadCredential(r, a)
                \/ AddPrincipal(r, a) \/ LoadPrincipal(r, a)
          \/ \E k \in Keys :
                \/ LookUpKey(r, k) \/ RevokeApiKey(r, k)
                \/ \E role \in Roles : CreateApiKey(r, k, role)
          \/ \E t \in ProviderTypes :
                \/ \E new \in ProviderPayloads : LoadProvider(r, t, new)
                \/ \E s \in Sessions, asked \in Asked : CreateSession(r, s, t, asked)
          \/ \E s \in Sessions : LookUpSession(r, s)
          \/ \E x \in Relations : FindTuple(r, x) \/ CheckTuple(r, x) \/ MissTuple(r, x)
          \/ \E use \in RecordUses : UseRecord(r, use)
    \/ \E s \in Sessions : SessionExpires(s)

Spec == Init /\ [][Next]_vars

-----------------------------------------------------------------------------
(* Properties.                                                             *)

\* The tables and the requests in progress hold what the schema allows.
TypeOK ==
    /\ apiKey \in [Keys -> KeyRows \cup {NoRow}]
    /\ session \in [Sessions -> SessionRows \cup {NoRow}]
    /\ provider \in [ProviderTypes -> ProviderRows \cup {NoRow}]
    /\ tuples \subseteq Relations
    /\ asset \in [Assets -> AssetRows \cup {NoRow}]
    /\ call \in [Requests -> Calls]

\* A revoked key stays revoked and a deleted credential or principal deleted,
\* although a request that read the row before writes it after (the touch of
\* last_used_at, a rotation).
RevocationFinal ==
    [][/\ \A k \in Keys : apiKey[k] # NoRow /\ ~apiKey[k].active => ~apiKey'[k].active
       /\ \A a \in Assets : asset[a] # NoRow /\ asset[a].deleted => asset'[a].deleted]_vars

ActiveAdminKeys == {k \in Keys : apiKey[k].role = "admin" /\ apiKey[k].active}

\* A request that came with an admin key and may still create one.
AdminKeyAtWork ==
    \E r \in Requests :
       \/ call[r].at = "lookedup" /\ "key" \in DOMAIN call[r] /\ call[r].seen.role = "admin"
       \/ call[r].at = "authenticated" /\ ApiKeyAdmin(call[r].auth)

\* Nobody can act as the administrator of the organization's keys any more.
LockedOut == ActiveAdminKeys = {} /\ ~AdminKeyAtWork

\* The last admin key can be revoked, and then there is never one again: no
\* session, whatever its role, and no key without the admin role brings it
\* back; only a request authenticated before may.
LockoutPermanent == [][LockedOut => LockedOut']_vars

\* What a client was told stays true of the tables: a created row is there, a
\* revoked key is inactive, a deleted credential is deleted and not active, a creation refused because the row exists (two
\* overlapping creations of one provider or tuple) found it to exist, and who
\* was let at a record once would be again, whatever is granted meanwhile.
AnswersBacked ==
    \A r \in Requests :
       call[r].at = "answered" =>
          LET reply == call[r].reply IN
          CASE reply.what = "key" -> apiKey[reply.row] # NoRow
            [] reply.what = "revoked" -> ~apiKey[reply.row].active
            [] reply.what = "session" -> session[reply.row] # NoRow
            [] reply.what = "provider" -> provider[reply.row] # NoRow
            [] reply.what = "tuple" -> reply.row \in tuples
            [] reply.what = "asset" -> asset[reply.row] # NoRow
            [] reply.what = "deleted" ->
                  LET row == asset[reply.row] IN
                  row.deleted /\ (row.kind = "credential" => row.status # "active")
            [] reply.what = "permitted" -> Permitted(reply.row.auth, reply.row.use)

=============================================================================
