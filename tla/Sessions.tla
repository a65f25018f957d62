------------------------------- MODULE Sessions -------------------------------
(***************************************************************************)
(* Signing in with Google, the session a JWT carries, and the roles that   *)
(* administrators give.                                                    *)
(*                                                                         *)
(* The states of logins under way are a map in memory behind a mutex.  The *)
(* callback of a login takes its state out, asks Google who signed in,     *)
(* upserts the row of the user and issues a JWT with the role it read.     *)
(* Nothing stores a JWT: until it expires its holder is the user it names, *)
(* with the role it names, whatever has become of the row since.           *)
(***************************************************************************)
EXTENDS Naturals

CONSTANTS
  Handler,   \* requests served at the same time
  Login,     \* the states GenerateState draws (16 random bytes, never the same)
  Google,    \* Google accounts
  User,      \* ids of users (gen_random_uuid, never the same)
  None,      \* no row, no entry, never
  StateTTL,  \* stateTTL, 10 minutes
  TokenTTL,  \* tokenTTL, 7 days
  Flight,    \* bound: how long a callback may take from its upsert to its JWT
  MaxTime    \* bound: the last instant

\* validRoles; pro, which opens no action of this module, counts as user.
Role == {"user", "admin"}

Account == [google : Google, role : Role]
Session == [login : Login, google : Google, user : User, role : Role, expires : Nat]

ASSUME TimesAssumption ==
  /\ StateTTL \in Nat /\ TokenTTL \in Nat /\ Flight \in Nat /\ MaxTime \in Nat

ASSUME NoneAssumption == None \notin Account /\ None \notin Nat

VARIABLES
  now,
  entries,     \* the store: until when a login under way may come back
  generated,   \* history: the logins ever started
  users,       \* the users table
  registered,  \* history: the ids the table has ever held
  sessions,    \* the JWTs that were issued
  adminUntil,  \* history: when the row of a user last held the role admin
  req          \* what each handler is doing

vars == <<now, entries, generated, users, registered, sessions, adminUntil, req>>

Idle == [pc |-> "idle"]
Upserting == [pc : {"upsert"}, login : Login, google : Google]
Issuing == [pc : {"issue"}, login : Login, google : Google, user : User, role : Role,
            since : Nat]            \* when the row was read
SettingRole == [pc : {"set_role"}, by : User, at : Nat, user : User, role : Role]
Deleting == [pc : {"delete"}, user : User]

TypeInvariant ==
  /\ now \in Nat
  /\ entries \in [Login -> Nat \cup {None}]
  /\ generated \subseteq Login
  /\ users \in [User -> Account \cup {None}]
  /\ registered \subseteq User
  /\ \A u \in User : users[u] # None => u \in registered
  /\ sessions \subseteq Session
  /\ adminUntil \in [User -> Nat \cup {None}]
  /\ req \in [Handler -> {Idle} \cup Upserting \cup Issuing \cup SettingRole \cup Deleting]

-----------------------------------------------------------------------------
(* The database starts with one administrator, made by hand. *)
Init ==
  /\ now = 0
  /\ entries = [s \in Login |-> None]
  /\ generated = {}
  /\ \E u \in User, g \in Google :
       /\ users = [v \in User |-> IF v = u THEN [google |-> g, role |-> "admin"] ELSE None]
       /\ registered = {u}
       /\ adminUntil = [v \in User |-> IF v = u THEN 0 ELSE None]
  /\ sessions = {}
  /\ req = [h \in Handler |-> Idle]

Begin(h, r) == req[h] = Idle /\ req' = [req EXCEPT ![h] = r]
Finish(h) == req' = [req EXCEPT ![h] = Idle]

(* Signing in *)

GenerateState(s) ==
  /\ s \notin generated
  /\ generated' = generated \cup {s}
  /\ entries' = [entries EXCEPT ![s] = now + StateTTL]
  /\ UNCHANGED <<now, users, registered, sessions, adminUntil, req>>

\* The callback of login s, by somebody Google knows as g.  ValidateState takes
\* the entry out, also when it is too late; a refusal by Google is Abort.
GoogleCallbackReplayed(h, s, g) ==
  /\ entries[s] # None
  /\ now < entries[s]
  /\ Begin(h, [pc |-> "upsert", login |-> s, google |-> g])
  /\ UNCHANGED <<now, entries, generated, users, registered, sessions, adminUntil>>
GoogleCallback(h, s, g) ==
  /\ req[h] = Idle
  /\ entries[s] # None
  /\ entries' = [entries EXCEPT ![s] = None]
  /\ IF now < entries[s]
     THEN Begin(h, [pc |-> "upsert", login |-> s, google |-> g])
     ELSE UNCHANGED req
  /\ UNCHANGED <<now, generated, users, registered, sessions, adminUntil>>

\* The accounts of a Google id: at most one (google_id is UNIQUE).
AccountsOf(g) == {u \in User : users[u] # None /\ users[u].google = g}

\* Upsert writes the row and gives its role to the callback.
UpsertTo(h, u, account) ==
  /\ users' = [users EXCEPT ![u] = account]
  /\ registered' = registered \cup {u}
  /\ req' = [req EXCEPT ![h] =
       [pc |-> "issue", login |-> @.login, google |-> @.google,
        user |-> u, role |-> account.role, since |-> now]]
  /\ UNCHANGED <<now, entries, generated, sessions, adminUntil>>
\* An upsert that also sets the role.
UpsertResetsRole(h) ==
  /\ req[h].pc = "upsert"
  /\ LET there == AccountsOf(req[h].google)
     IN  \E u \in IF there # {} THEN there ELSE User \ registered :
           UpsertTo(h, u, [google |-> req[h].google, role |-> "user"])
\* An upsert that inserts whatever is there.
UpsertInserts(h) ==
  /\ req[h].pc = "upsert"
  /\ \E u \in User \ registered :
       UpsertTo(h, u, [google |-> req[h].google, role |-> "user"])
\* Upsert keeps the role of an account that is there.
Upsert(h) ==
  /\ req[h].pc = "upsert"
  /\ LET there == AccountsOf(req[h].google)
     IN  \E u \in IF there # {} THEN there ELSE User \ registered :
           UpsertTo(h, u, IF there # {} THEN users[u]
                          ELSE [google |-> req[h].google, role |-> "user"])

\* The JWT says what the row said when it was upserted.
IssueToken(h) ==
  /\ req[h].pc = "issue"
  /\ sessions' = sessions \cup
       {[login |-> req[h].login, google |-> req[h].google, user |-> req[h].user,
         role |-> req[h].role, expires |-> now + TokenTTL]}
  /\ Finish(h)
  /\ UNCHANGED <<now, entries, generated, users, registered, adminUntil>>

(* What a session may do *)

\* RequireAuth looks at the JWT only, and RequireRole at the role in it.
RequireAuthUnexpiring(s) == TRUE
RequireAuth(s) == now < s.expires
RequireRole(s, roles) == s.role \in roles

\* PUT /admin/users/{userID}/role, past its middleware.
SetUserRole(h) ==
  /\ \E s \in sessions, u \in registered, r \in Role :
       /\ RequireAuth(s) /\ RequireRole(s, {"admin"})
       /\ Begin(h, [pc |-> "set_role", by |-> s.user, at |-> now, user |-> u, role |-> r])
  /\ UNCHANGED <<now, entries, generated, users, registered, sessions, adminUntil>>

\* No row, no change.
UpdateRole(h) ==
  /\ req[h].pc = "set_role"
  /\ users[req[h].user] # None
  /\ users' = [users EXCEPT ![req[h].user].role = req[h].role]
  /\ adminUntil' = IF req[h].role = "admin"
                   THEN [adminUntil EXCEPT ![req[h].user] = now] ELSE adminUntil
  /\ Finish(h)
  /\ UNCHANGED <<now, entries, generated, registered, sessions>>

\* DELETE /account, past its middleware, which may be of an account that is gone.
DeleteAccount(h) ==
  /\ \E s \in sessions :
       /\ RequireAuth(s)
       /\ Begin(h, [pc |-> "delete", user |-> s.user])
  /\ UNCHANGED <<now, entries, generated, users, registered, sessions, adminUntil>>

Delete(h) ==
  /\ req[h].pc = "delete"
  /\ users' = [users EXCEPT ![req[h].user] = None]
  /\ Finish(h)
  /\ UNCHANGED <<now, entries, generated, registered, sessions, adminUntil>>

(* Time, failures, housekeeping *)

\* Google or the database refuses, a row is gone, the client goes away.
Abort(h) ==
  /\ req[h] # Idle
  /\ Finish(h)
  /\ UNCHANGED <<now, entries, generated, users, registered, sessions, adminUntil>>

\* The process restarts: its memory is lost, the database and the JWTs are not.
Restart ==
  /\ entries' = [s \in Login |-> None]
  /\ req' = [h \in Handler |-> Idle]
  /\ UNCHANGED <<now, generated, users, registered, sessions, adminUntil>>

Expired(s) == entries[s] # None /\ now > entries[s]

CleanupUnexpired ==
  /\ entries' = [s \in Login |-> IF Expired(s) THEN entries[s] ELSE None]
  /\ UNCHANGED <<now, generated, users, registered, sessions, adminUntil, req>>
CleanupExpired ==
  /\ entries' = [s \in Login |-> IF Expired(s) THEN None ELSE entries[s]]
  /\ UNCHANGED <<now, generated, users, registered, sessions, adminUntil, req>>

HoldsAdmin(u) == users[u] # None /\ users[u].role = "admin"

Tick ==
  /\ now < MaxTime
  /\ \A h \in Handler : req[h].pc = "issue" => now < req[h].since + Flight
  /\ now' = now + 1
  /\ adminUntil' = [u \in User |-> IF HoldsAdmin(u) THEN now' ELSE adminUntil[u]]
  /\ UNCHANGED <<entries, generated, users, registered, sessions, req>>

SignIn(h) ==
  \/ \E s \in Login, g \in Google : GoogleCallback(h, s, g)
  \/ Upsert(h) \/ IssueToken(h)

Act(h) == SetUserRole(h) \/ UpdateRole(h) \/ DeleteAccount(h) \/ Delete(h)

Next ==
  \/ \E s \in Login : GenerateState(s)
  \/ \E h \in Handler : SignIn(h) \/ Act(h) \/ Abort(h)
  \/ CleanupExpired \/ Restart \/ Tick

Spec == Init /\ [][Next]_vars

\* main.go evicts expired states every 15 minutes for as long as the process lives.
LiveSpec == Spec /\ WF_vars(CleanupExpired)

-----------------------------------------------------------------------------
(* Properties *)

\* A login gives one session at most, however often its callback is called and
\* whatever is cleaned up or restarted meanwhile.
OneSessionPerLogin ==
  \A s, t \in sessions : s.login = t.login => s = t

\* A person has one account, also when the first sign-in comes twice at once.
OneAccountPerGoogle ==
  \A g \in Google : \A u, v \in AccountsOf(g) : u = v

\* "Changes take effect when the user's token expires" (README): who changes a
\* role was an administrator within the life of a token, and the time a callback
\* takes; being demoted, deleted or signed in meanwhile does not extend it.
AuthorityFades ==
  \A h \in Handler :
    req[h].pc = "set_role" =>
      /\ adminUntil[req[h].by] # None
      /\ req[h].at < adminUntil[req[h].by] + TokenTTL + Flight

\* "Role is intentionally excluded from SET" (Upsert): the role of an account is
\* changed by SetUserRole only, and an account that is new, the second one of a
\* deleted administrator included, is a plain user's.
RolesAreGiven ==
  [][\A u \in User : users'[u] # None =>
       \/ users[u] = None /\ users'[u].role = "user" /\ u \notin registered
       \/ users[u] # None /\ users'[u].role = users[u].role
       \/ \E h \in Handler : UpdateRole(h) /\ req[h].user = u]_vars

\* A login nobody finishes leaves the store in the end.
StaleStatesGo == \A s \in Login : Expired(s) ~> entries[s] = None

===============================================================================
