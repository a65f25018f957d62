------------------------------ MODULE OAuthGrants ------------------------------
(***************************************************************************)
(* The OAuth authorization server: a user approves a client and gets an    *)
(* authorization code; the client redeems it for an access and a refresh   *)
(* token; the refresh token is rotated at each use; the user disconnects   *)
(* the client, or a credential presented twice does.                       *)
(*                                                                         *)
(* Requests run concurrently, each in a Handler, and every SQL statement   *)
(* commits on its own except in the transaction that revokes a grant, so a *)
(* request is a sequence of steps.  A statement that reads a row in a      *)
(* sub-select and updates it reads its snapshot, taken when it starts: it  *)
(* is two steps.  The clock is left out: any row may pass its expires_at,  *)
(* and then the day after it, at any moment.                               *)
(***************************************************************************)
EXTENDS Naturals, FiniteSets

CONSTANTS
  Handler,   \* requests served at the same time
  User,
  Client,    \* registered clients; registering one gives it no access
  Grant,     \* row ids of oauth_grants
  Code,      \* authorization codes (rows of oauth_auth_codes)
  Access,    \* access tokens (rows of oauth_access_tokens)
  Refresh,   \* refresh tokens (rows of oauth_refresh_tokens)
  None,      \* SQL NULL, or no row
  MaxRequests,  \* bound: requests served in a behaviour
  MaxLapses     \* bound: deadlines passed in a behaviour

\* model.ScopeRead and model.ScopeReadWrite, the wider one last.
Scope == {"read", "read_write"}

\* Where a row stands: expires_at ahead, behind, or more than a day behind.
Age == {"live", "expired", "stale"}

GrantRow == [user : User, client : Client, scope : Scope, revoked : BOOLEAN]
CodeRow == [user : User, client : Client, scope : Scope, used : BOOLEAN, age : Age]
AccessRow == [grant : Grant, scope : Scope, age : Age]
RefreshRow == [grant : Grant, used : BOOLEAN, age : Age]

ASSUME BoundsAssumption == MaxRequests \in Nat /\ MaxLapses \in Nat

ASSUME NoneAssumption ==
  /\ None \notin GrantRow /\ None \notin CodeRow
  /\ None \notin AccessRow /\ None \notin RefreshRow
  /\ None \notin Grant /\ None \notin Code /\ None \notin Refresh

ASSUME CredentialsDiffer ==
  Code \cap Access = {} /\ Code \cap Refresh = {} /\ Access \cap Refresh = {}

VARIABLES
  grants,    \* table oauth_grants
  codes,     \* table oauth_auth_codes
  access,    \* table oauth_access_tokens
  refresh,   \* table oauth_refresh_tokens
  minted,    \* the random credentials handed out so far; none is drawn twice
  req,       \* per handler: the request it serves and its local variables
  consent,   \* history: what users have approved
  sent,      \* how many requests have been served
  lapsed     \* how many deadlines have passed

bounds == <<sent, lapsed>>
vars == <<grants, codes, access, refresh, minted, req, consent, bounds>>

PC == {"idle", "code", "consume_code", "redeem", "replayed",
       "consume_refresh", "issue", "issue_refresh", "revoke", "revoke_commit"}

Request ==
  [pc : PC,
   user : User \cup {None}, client : Client \cup {None}, scope : Scope \cup {None},
   grant : Grant \cup {None},          \* the grant the request works on
   cred : Code \cup Refresh \cup {None},  \* the code or refresh token presented
   seen : BOOLEAN,                     \* used_at was set in the snapshot
   dropped : SUBSET Access]            \* the access tokens a revocation deletes

NoRequest ==
  [pc |-> "idle", user |-> None, client |-> None, scope |-> None, grant |-> None,
   cred |-> None, seen |-> FALSE, dropped |-> {}]

Ability == [user : User, client : Client, scope : Scope]

TypeOK ==
  /\ grants \in [Grant -> GrantRow \cup {None}]
  /\ codes \in [Code -> CodeRow \cup {None}]
  /\ access \in [Access -> AccessRow \cup {None}]
  /\ refresh \in [Refresh -> RefreshRow \cup {None}]
  /\ minted \subseteq Code \cup Access \cup Refresh
  /\ req \in [Handler -> Request]
  /\ consent \subseteq Ability
  /\ sent \in 0..MaxRequests
  /\ lapsed \in 0..MaxLapses

-----------------------------------------------------------------------------
(* Rows *)

Rows(table) == {x \in DOMAIN table : table[x] # None}

LiveGrants(u, c) ==
  {g \in Rows(grants) : grants[g].user = u /\ grants[g].client = c /\ ~grants[g].revoked}

\* INSERT ... ON CONFLICT (user_id, client_id) WHERE revoked_at IS NULL DO UPDATE:
\* the live grant of the pair takes the scope, or a new row does.
UpsertGrantInserts(u, c, s, g) ==
  /\ grants[g] = None
  /\ grants' = [grants EXCEPT
       ![g] = [user |-> u, client |-> c, scope |-> s, revoked |-> FALSE]]
UpsertGrantByClient(u, c, s, g) ==
  LET held == {h \in Rows(grants) : grants[h].client = c /\ ~grants[h].revoked}
  IN  /\ IF held # {} THEN g \in held ELSE grants[g] = None
      /\ grants' = [grants EXCEPT
           ![g] = IF grants[g] = None
                  THEN [user |-> u, client |-> c, scope |-> s, revoked |-> FALSE]
                  ELSE [grants[g] EXCEPT !.scope = s]]
UpsertGrant(u, c, s, g) ==
  /\ IF LiveGrants(u, c) # {} THEN g \in LiveGrants(u, c) ELSE grants[g] = None
  /\ grants' = [grants EXCEPT
       ![g] = [user |-> u, client |-> c, scope |-> s, revoked |-> FALSE]]

\* What scope s lets the client of grant g do.
Granted(g, s) == [user |-> grants[g].user, client |-> grants[g].client, scope |-> s]

\* GetAccessToken: what the bearer of access token t may do now, as a set of at
\* most one ability.  Revoked grants and expired tokens are filtered.
GetAccessTokenOfAnyGrant(t) ==
  IF access[t] # None /\ access[t].age = "live"
  THEN {Granted(access[t].grant, access[t].scope)} ELSE {}
GetAccessToken(t) ==
  IF access[t] # None /\ access[t].age = "live" /\ ~grants[access[t].grant].revoked
  THEN {Granted(access[t].grant, access[t].scope)} ELSE {}

\* What RequireToken lets clients do, all their access tokens taken together.
Acting == UNION {GetAccessToken(t) : t \in Access}

-----------------------------------------------------------------------------
(* Requests *)

Begin(h) ==
  /\ req[h].pc = "idle"
  /\ sent < MaxRequests
  /\ sent' = sent + 1
  /\ UNCHANGED lapsed

Set(h, r) == req' = [req EXCEPT ![h] = r]
Finish(h) == Set(h, NoRequest)

Init ==
  /\ grants = [g \in Grant |-> None]
  /\ codes = [c \in Code |-> None]
  /\ access = [t \in Access |-> None]
  /\ refresh = [t \in Refresh |-> None]
  /\ minted = {}
  /\ req = [h \in Handler |-> NoRequest]
  /\ consent = {}
  /\ sent = 0
  /\ lapsed = 0

(* Approve: the grant, then the code. *)

Approve(h) ==
  /\ Begin(h)
  /\ \E u \in User, c \in Client, s \in Scope, g \in Grant :
       /\ UpsertGrant(u, c, s, g)
       /\ consent' = consent \cup {[user |-> u, client |-> c, scope |-> s]}
       /\ Set(h, [NoRequest EXCEPT !.pc = "code", !.user = u, !.client = c, !.scope = s])
  /\ UNCHANGED <<codes, access, refresh, minted>>

CreateAuthCode(h) ==
  /\ req[h].pc = "code"
  /\ \E k \in Code \ minted :
       /\ codes' = [codes EXCEPT
            ![k] = [user |-> req[h].user, client |-> req[h].client,
                    scope |-> req[h].scope, used |-> FALSE, age |-> "live"]]
       /\ minted' = minted \cup {k}
  /\ Finish(h)
  /\ UNCHANGED <<grants, access, refresh, consent, bounds>>

(* ExchangeCode *)

\* ConsumeAuthCode starts: its sub-select will see used_at as it is now.
ExchangeCode(h) ==
  /\ Begin(h)
  /\ \E k \in Rows(codes) :
       Set(h, [NoRequest EXCEPT !.pc = "consume_code", !.cred = k, !.seen = codes[k].used])
  /\ UNCHANGED <<grants, codes, access, refresh, minted, consent>>

\* What a code returned by ConsumeAuthCode leads to: used in the snapshot, it is a
\* replay; expired, it is refused; and so is it if the client, the redirect_uri or
\* the verifier of the request does not match.
CodeOutcomeUnchecked(h, k) ==
  LET r == [req[h] EXCEPT !.user = k.user, !.client = k.client, !.scope = k.scope]
  IN  Finish(h) \/ (k.age = "live" /\ Set(h, [r EXCEPT !.pc = "redeem"]))
CodeOutcome(h, k) ==
  LET r == [req[h] EXCEPT !.user = k.user, !.client = k.client, !.scope = k.scope]
  IN  \/ r.seen /\ Set(h, [r EXCEPT !.pc = "replayed"])
      \/ ~r.seen /\ Finish(h)
      \/ ~r.seen /\ k.age = "live" /\ Set(h, [r EXCEPT !.pc = "redeem"])

\* ConsumeAuthCode marks the code used, even if the request is then refused.
ConsumeAuthCode(h) ==
  /\ req[h].pc = "consume_code"
  /\ codes[req[h].cred] # None
  /\ codes' = [codes EXCEPT ![req[h].cred].used = TRUE]
  /\ CodeOutcome(h, codes[req[h].cred])
  /\ UNCHANGED <<grants, access, refresh, minted, consent, bounds>>

\* UpsertGrant after the checks, or after a replay in order to revoke what it finds.
ExchangeUpsert(h) ==
  /\ req[h].pc \in {"redeem", "replayed"}
  /\ \E g \in Grant :
       /\ UpsertGrant(req[h].user, req[h].client, req[h].scope, g)
       /\ Set(h, [req[h] EXCEPT !.grant = g,
                    !.pc = IF @ = "redeem" THEN "issue" ELSE "revoke"])
  /\ UNCHANGED <<codes, access, refresh, minted, consent, bounds>>

(* Refresh *)

\* ConsumeRefreshToken starts: its sub-selects will see used_at and the scope of
\* the grant as they are now.
RefreshTokens(h) ==
  /\ Begin(h)
  /\ \E t \in Rows(refresh) :
       Set(h, [NoRequest EXCEPT
                 !.pc = "consume_refresh", !.cred = t, !.seen = refresh[t].used,
                 !.grant = refresh[t].grant, !.scope = grants[refresh[t].grant].scope])
  /\ UNCHANGED <<grants, codes, access, refresh, minted, consent>>

\* It marks the token used; a replay revokes the grant, an expired token or one of
\* another client is refused.  Whether the grant is revoked is not looked at.
ConsumeRefreshToken(h) ==
  /\ req[h].pc = "consume_refresh"
  /\ refresh[req[h].cred] # None
  /\ refresh' = [refresh EXCEPT ![req[h].cred].used = TRUE]
  /\ \/ req[h].seen /\ Set(h, [req[h] EXCEPT !.pc = "revoke"])
     \/ ~req[h].seen /\ Finish(h)
     \/ ~req[h].seen /\ refresh[req[h].cred].age = "live"
        /\ Set(h, [req[h] EXCEPT !.pc = "issue"])
  /\ UNCHANGED <<grants, codes, access, minted, consent, bounds>>

(* issue *)

CreateAccessToken(h) ==
  /\ req[h].pc = "issue"
  /\ \E t \in Access \ minted :
       /\ access' = [access EXCEPT
            ![t] = [grant |-> req[h].grant, scope |-> req[h].scope, age |-> "live"]]
       /\ minted' = minted \cup {t}
  /\ Set(h, [req[h] EXCEPT !.pc = "issue_refresh"])
  /\ UNCHANGED <<grants, codes, refresh, consent, bounds>>

CreateRefreshToken(h) ==
  /\ req[h].pc = "issue_refresh"
  /\ \E t \in Refresh \ minted :
       /\ refresh' = [refresh EXCEPT
            ![t] = [grant |-> req[h].grant, used |-> FALSE, age |-> "live"]]
       /\ minted' = minted \cup {t}
  /\ Finish(h)
  /\ UNCHANGED <<grants, codes, access, consent, bounds>>

(* Revocation: by the user (RevokeGrant) or after a replay (RevokeGrantByID). *)

RevokeGrant(h) ==
  /\ Begin(h)
  /\ \E g \in Rows(grants) : Set(h, [NoRequest EXCEPT !.pc = "revoke", !.grant = g])
  /\ UNCHANGED <<grants, codes, access, refresh, minted, consent>>

TokensOf(table, g) == {t \in Rows(table) : table[t].grant = g}
Without(table, S) == [t \in DOMAIN table |-> IF t \in S THEN None ELSE table[t]]

\* The transaction, up to its first DELETE: the update is not visible yet.
RevokeDelete(h) ==
  /\ req[h].pc = "revoke"
  /\ Set(h, [req[h] EXCEPT !.pc = "revoke_commit",
                           !.dropped = TokensOf(access, req[h].grant)])
  /\ UNCHANGED <<grants, codes, access, refresh, minted, consent, bounds>>

\* Its second DELETE and the commit.
RevokeCommitKeepsRefresh(h) ==
  /\ req[h].pc = "revoke_commit"
  /\ grants' = [grants EXCEPT ![req[h].grant].revoked = TRUE]
  /\ access' = Without(access, req[h].dropped)
  /\ Finish(h)
  /\ UNCHANGED <<codes, refresh, minted, consent, bounds>>
RevokeCommit(h) ==
  /\ req[h].pc = "revoke_commit"
  /\ grants' = [grants EXCEPT ![req[h].grant].revoked = TRUE]
  /\ access' = Without(access, req[h].dropped)
  /\ refresh' = Without(refresh, TokensOf(refresh, req[h].grant))
  /\ Finish(h)
  /\ UNCHANGED <<codes, minted, consent, bounds>>

\* A statement fails or finds no row, a tool times out, the process dies: the
\* request stops where it is and what it committed stays.
Abort(h) ==
  /\ req[h].pc # "idle"
  /\ Finish(h)
  /\ UNCHANGED <<grants, codes, access, refresh, minted, consent, bounds>>

(* Time and housekeeping *)

Stale(table) == {x \in Rows(table) : table[x].age = "stale"}

\* One row passes its next deadline.
Older(r) == [r EXCEPT !.age = IF @ = "live" THEN "expired" ELSE "stale"]

Lapse ==
  /\ lapsed < MaxLapses
  /\ lapsed' = lapsed + 1
  /\ UNCHANGED <<grants, minted, req, consent, sent>>

ExpireCode ==
  /\ \E k \in Rows(codes) \ Stale(codes) : codes' = [codes EXCEPT ![k] = Older(@)]
  /\ UNCHANGED <<access, refresh>>
  /\ Lapse

ExpireAccess ==
  /\ \E t \in Rows(access) \ Stale(access) : access' = [access EXCEPT ![t] = Older(@)]
  /\ UNCHANGED <<codes, refresh>>
  /\ Lapse

ExpireRefresh ==
  /\ \E t \in Rows(refresh) \ Stale(refresh) : refresh' = [refresh EXCEPT ![t] = Older(@)]
  /\ UNCHANGED <<codes, access>>
  /\ Lapse

\* DeleteExpired, hourly: three statements, of which an error skips the rest
\* (`done` of them succeed).  Nothing relates the three deletions.
DeleteExpiredStopsEarly(done) ==
  /\ codes' = Without(codes, Stale(codes))
  /\ access' = IF done > 1 THEN Without(access, Stale(access)) ELSE access
  /\ UNCHANGED <<grants, refresh, minted, req, consent, bounds>>
DeleteExpired(done) ==
  /\ codes' = Without(codes, Stale(codes))
  /\ access' = IF done > 1 THEN Without(access, Stale(access)) ELSE access
  /\ refresh' = IF done > 2 THEN Without(refresh, Stale(refresh)) ELSE refresh
  /\ UNCHANGED <<grants, minted, req, consent, bounds>>

-----------------------------------------------------------------------------

\* The endpoints: POST /oauth/approve, both grant types of POST /oauth/token and
\* DELETE /account/connections/{grantID}.
Authorize(h) == Approve(h) \/ CreateAuthCode(h)
Redeem(h) == ExchangeCode(h) \/ ConsumeAuthCode(h) \/ ExchangeUpsert(h)
Rotate(h) == RefreshTokens(h) \/ ConsumeRefreshToken(h)
Issue(h) == CreateAccessToken(h) \/ CreateRefreshToken(h)
Revoke(h) == RevokeGrant(h) \/ RevokeDelete(h) \/ RevokeCommit(h)

Next ==
  \/ \E h \in Handler :
       Authorize(h) \/ Redeem(h) \/ Rotate(h) \/ Issue(h) \/ Revoke(h) \/ Abort(h)
  \/ ExpireCode \/ ExpireAccess \/ ExpireRefresh
  \/ \E done \in 1..3 : DeleteExpired(done)

Spec == Init /\ [][Next]_vars

\* main.go sweeps at boot and every hour; a sweep that never fails again is all
\* that is assumed.
LiveSpec == Spec /\ WF_vars(DeleteExpired(3))

-----------------------------------------------------------------------------
(* Properties *)

\* The local variables a request is going to use.
RequestOK(r) ==
  /\ r.pc \in {"code", "redeem", "replayed"} =>
       r.user \in User /\ r.client \in Client /\ r.scope \in Scope
  /\ r.pc = "consume_code" => r.cred \in Code
  /\ r.pc = "consume_refresh" => r.cred \in Refresh
  /\ r.pc \in {"consume_refresh", "issue", "issue_refresh"} => r.scope \in Scope
  /\ r.pc \in {"consume_refresh", "issue", "issue_refresh", "revoke", "revoke_commit"} =>
       r.grant \in Rows(grants)

\* Type correctness, with the foreign keys of the token tables; rows are keyed by
\* credentials that were handed out.
TypeInvariant ==
  /\ TypeOK
  /\ \A h \in Handler : RequestOK(req[h])
  /\ \A t \in Rows(access) : access[t].grant \in Rows(grants)
  /\ \A t \in Rows(refresh) : refresh[t].grant \in Rows(grants)
  /\ Rows(codes) \cup Rows(access) \cup Rows(refresh) \subseteq minted

\* A user has at most one live grant per client, so that one click disconnects it
\* (idx_oauth_grants_live and the ON CONFLICT of UpsertGrant).
OneLiveGrant ==
  \A u \in User, c \in Client : \A g, h \in LiveGrants(u, c) : g = h

\* Every access token carries a scope its user approved for its client, whatever
\* exchanges, rotations and new approvals ran in between.
TokensConsented ==
  \A t \in Rows(access) : Granted(access[t].grant, access[t].scope) \in consent

\* Revoking a live grant stops its client: at the commit no access token at all
\* still acts for that user ("effective immediately", handler/oauth.go).
DisconnectStopsClient ==
  [][\A h \in Handler :
       RevokeCommit(h) /\ ~grants[req[h].grant].revoked =>
         \A a \in Acting' :
           <<a.user, a.client>> # <<grants[req[h].grant].user, grants[req[h].grant].client>>]_vars

\* No later approval or exchange brings a revoked grant back to life, with the
\* tokens that were inserted under it while it was being revoked.
RevocationIsFinal ==
  [][\A g \in Rows(grants) : grants[g].revoked => grants'[g] = grants[g]]_vars

\* Whatever requests run at once, the clients act as Connections says.
Abstract == INSTANCE Connections WITH acting <- Acting
ConnectionsKept == Abstract!Spec

\* A code or refresh token is accepted once ("Authorization codes are single-use",
\* "Refresh tokens rotate"): by requests served one at a time.
SpentOnce ==
  [][\A h \in Handler :
       /\ ConsumeAuthCode(h) /\ req'[h].pc = "redeem" => ~codes[req[h].cred].used
       /\ ConsumeRefreshToken(h) /\ req'[h].pc = "issue" => ~refresh[req[h].cred].used]_vars

\* "RevokeGrant revokes the grant and every token hanging off it, in one
\* transaction" (repository/oauth.go): no token is left under a revoked grant, by
\* requests served one at a time.
RevokedGrantsEmpty ==
  \A g \in Rows(grants) :
    grants[g].revoked => TokensOf(access, g) = {} /\ TokensOf(refresh, g) = {}

\* Housekeeping: what can no longer be redeemed is deleted in the end.
StaleRowsGo ==
  /\ \A k \in Code : k \in Stale(codes) ~> k \notin Rows(codes)
  /\ \A t \in Access : t \in Stale(access) ~> t \notin Rows(access)
  /\ \A t \in Refresh : t \in Stale(refresh) ~> t \notin Rows(refresh)

===============================================================================
