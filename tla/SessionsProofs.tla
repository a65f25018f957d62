---------------------------- MODULE SessionsProofs ----------------------------
(* Theorems about Sessions, for any number of requests, logins and accounts.  *)
EXTENDS Sessions, TLAPS

USE TimesAssumption, NoneAssumption

\* The local variables of a request, by what it is doing.
LEMMA RequestKinds ==
  ASSUME TypeInvariant, NEW h \in Handler
  PROVE  /\ req[h].pc = "idle" <=> req[h] = Idle
         /\ req[h].pc = "upsert" => req[h] \in Upserting
         /\ req[h].pc = "issue" => req[h] \in Issuing
         /\ req[h].pc = "set_role" => req[h] \in SettingRole
         /\ req[h].pc = "delete" => req[h] \in Deleting
BY DEF TypeInvariant, Idle, Upserting, Issuing, SettingRole, Deleting

\* What a step of handler h leaves of the others.
LEMMA Others ==
  ASSUME TypeInvariant, NEW h \in Handler, NEW r, req' = [req EXCEPT ![h] = r]
  PROVE  req'[h] = r /\ \A k \in Handler : k # h => req'[k] = req[k]
BY DEF TypeInvariant

LEMMA TypeInit == Init => TypeInvariant
BY DEF Init, TypeInvariant, Account, Role

LEMMA TypeUpsert ==
  ASSUME TypeInvariant, NEW h \in Handler, Upsert(h)
  PROVE  TypeInvariant'
<1>1. req[h] \in Upserting
  BY RequestKinds DEF Upsert
<1>2. PICK u \in User, a \in Account : UpsertTo(h, u, a)
  <2> DEFINE there == AccountsOf(req[h].google)
             new == [google |-> req[h].google, role |-> "user"]
  <2>1. PICK u \in IF there # {} THEN there ELSE User \ registered :
          UpsertTo(h, u, IF there # {} THEN users[u] ELSE new)
    BY DEF Upsert
  <2>2. u \in User /\ (there # {} => users[u] \in Account)
    BY DEF AccountsOf, TypeInvariant
  <2>3. new \in Account
    BY <1>1 DEF Upserting, Account, Role
  <2> QED BY <2>1, <2>2, <2>3
<1>3. users' \in [User -> Account \cup {None}]
  BY <1>2 DEF UpsertTo, TypeInvariant
<1>4. \A v \in User : users'[v] # None => v \in registered'
  BY <1>2 DEF UpsertTo, TypeInvariant
<1>5. [pc |-> "issue", login |-> req[h].login, google |-> req[h].google,
       user |-> u, role |-> a.role, since |-> now] \in Issuing
  BY <1>1, <1>2 DEF Upserting, Issuing, Account, TypeInvariant
<1>6. req' \in [Handler -> {Idle} \cup Upserting \cup Issuing \cup SettingRole \cup Deleting]
  BY <1>2, <1>5 DEF UpsertTo, TypeInvariant
<1> QED BY <1>2, <1>3, <1>4, <1>6 DEF UpsertTo, TypeInvariant

LEMMA TypeNext == TypeInvariant /\ [Next]_vars => TypeInvariant'
<1> SUFFICES ASSUME TypeInvariant, [Next]_vars PROVE TypeInvariant'
  OBVIOUS
<1> USE DEF TypeInvariant
<1>1. CASE \E s \in Login : GenerateState(s)
  BY <1>1 DEF GenerateState
<1>2. ASSUME NEW h \in Handler, SignIn(h) PROVE TypeInvariant'
  <2>1. ASSUME NEW s \in Login, NEW g \in Google, GoogleCallback(h, s, g) PROVE TypeInvariant'
    BY <2>1 DEF GoogleCallback, Begin, Upserting
  <2>2. CASE IssueToken(h)
    <3>1. req[h] \in Issuing
      BY <2>2, RequestKinds DEF IssueToken
    <3> QED BY <2>2, <3>1 DEF IssueToken, Finish, Issuing, Session
  <2> QED BY <1>2, <2>1, <2>2, TypeUpsert DEF SignIn
<1>3. ASSUME NEW h \in Handler, Act(h) PROVE TypeInvariant'
  <2>1. CASE SetUserRole(h)
    BY <2>1 DEF SetUserRole, Begin, SettingRole, Session
  <2>2. CASE UpdateRole(h)
    <3>1. req[h] \in SettingRole
      BY <2>2, RequestKinds DEF UpdateRole
    <3>2. [users[req[h].user] EXCEPT !.role = req[h].role] \in Account
      BY <2>2, <3>1 DEF UpdateRole, SettingRole, Account
    <3>3. users' \in [User -> Account \cup {None}]
      BY <2>2, <3>1, <3>2 DEF UpdateRole
    <3>4. \A u \in User : users'[u] # None => u \in registered'
      BY <2>2, <3>1 DEF UpdateRole
    <3> QED BY <2>2, <3>1, <3>3, <3>4 DEF UpdateRole, Finish
  <2>3. CASE DeleteAccount(h)
    BY <2>3 DEF DeleteAccount, Begin, Deleting, Session
  <2>4. CASE Delete(h)
    <3>1. req[h] \in Deleting
      BY <2>4, RequestKinds DEF Delete
    <3> QED BY <2>4, <3>1 DEF Delete, Finish, Deleting
  <2> QED BY <1>3, <2>1, <2>2, <2>3, <2>4 DEF Act
<1>4. ASSUME NEW h \in Handler, Abort(h) PROVE TypeInvariant'
  BY <1>4 DEF Abort, Finish
<1>5. CASE CleanupExpired
  BY <1>5 DEF CleanupExpired
<1>6. CASE Restart
  BY <1>6 DEF Restart
<1>7. CASE Tick
  BY <1>7 DEF Tick
<1>8. CASE UNCHANGED vars
  BY <1>8 DEF vars
<1> QED BY <1>1, <1>2, <1>3, <1>4, <1>5, <1>6, <1>7, <1>8 DEF Next

\* The variables keep their types; an account has an id that was handed out.
THEOREM TypeCorrect == Spec => []TypeInvariant
BY TypeInit, TypeNext, PTL DEF Spec

-----------------------------------------------------------------------------
(* A person has one account. *)

\* Every Google id that upserts finds the account that is there.
THEOREM OneAccountAlways == Spec => []OneAccountPerGoogle
<1> DEFINE Unique == \A u, v \in User :
      users[u] # None /\ users[v] # None /\ users[u].google = users[v].google => u = v
<1>1. Init => Unique
  BY DEF Init
<1>2. TypeInvariant /\ Unique /\ [Next]_vars => Unique'
  <2> SUFFICES ASSUME TypeInvariant, Unique, [Next]_vars PROVE Unique'
    OBVIOUS
  <2>1. ASSUME NEW h \in Handler, Upsert(h) PROVE Unique'
    <3> DEFINE there == AccountsOf(req[h].google)
               new == [google |-> req[h].google, role |-> "user"]
    <3>1. PICK u \in IF there # {} THEN there ELSE User \ registered :
            UpsertTo(h, u, IF there # {} THEN users[u] ELSE new)
      BY <2>1 DEF Upsert
    <3>2. CASE there # {}
      <4>1. users' = [users EXCEPT ![u] = users[u]]
        BY <3>1, <3>2 DEF UpsertTo
      <4>2. users' = users
        BY <4>1 DEF TypeInvariant
      <4> QED BY <4>2
    <3>3. CASE there = {}
      <4>1. u \in User /\ users' = [users EXCEPT ![u] = new]
        BY <3>1, <3>3 DEF UpsertTo
      <4>2. \A v \in User : users[v] # None => users[v].google # req[h].google
        BY <3>3 DEF AccountsOf
      <4>3. users'[u] = new /\ \A v \in User : v # u => users'[v] = users[v]
        BY <4>1 DEF TypeInvariant
      <4> QED BY <4>2, <4>3
    <3> QED BY <3>2, <3>3
  <2>2. ASSUME NEW h \in Handler, UpdateRole(h) PROVE Unique'
    <3>1. req[h] \in SettingRole
      BY <2>2, RequestKinds DEF UpdateRole
    <3>2. PICK w \in User : /\ users[w] \in Account
                            /\ users' = [users EXCEPT ![w].role = req[h].role]
      BY <2>2, <3>1 DEF UpdateRole, SettingRole, TypeInvariant
    <3>3. \A v \in User : users'[v] # None => users[v] # None /\ users'[v].google = users[v].google
      BY <3>2 DEF TypeInvariant, Account
    <3> QED BY <3>3
  <2>3. ASSUME NEW h \in Handler, Delete(h) PROVE Unique'
    <3>1. req[h] \in Deleting
      BY <2>3, RequestKinds DEF Delete
    <3>2. \A v \in User : users'[v] # None => users'[v] = users[v]
      BY <2>3, <3>1 DEF Delete, Deleting, TypeInvariant
    <3> QED BY <3>2
  <2>4. (\E h \in Handler : Upsert(h) \/ UpdateRole(h) \/ Delete(h)) \/ users' = users
    BY DEF Next, SignIn, Act, vars, GenerateState, GoogleCallback, IssueToken, SetUserRole,
           DeleteAccount, Abort, CleanupExpired, Restart, Tick
  <2> QED BY <2>1, <2>2, <2>3, <2>4
<1>3. Unique => OneAccountPerGoogle
  BY DEF OneAccountPerGoogle, AccountsOf
<1> QED BY <1>1, <1>2, <1>3, TypeCorrect, PTL DEF Spec

-----------------------------------------------------------------------------
(* A login gives one session. *)

SigningIn(h) == req[h].pc \in {"upsert", "issue"}

\* A login is started, then is in the store, with one callback or in one session.
LoginInOnePlace ==
  /\ \A s \in Login : entries[s] # None => s \in generated
  /\ \A h \in Handler : SigningIn(h) =>
       /\ req[h].login \in generated /\ entries[req[h].login] = None
       /\ \A k \in Handler : SigningIn(k) /\ req[k].login = req[h].login => k = h
       /\ \A t \in sessions : t.login # req[h].login
  /\ \A t \in sessions : t.login \in generated /\ entries[t.login] = None
  /\ OneSessionPerLogin

LEMMA LoginInOnePlaceNext ==
  TypeInvariant /\ LoginInOnePlace /\ [Next]_vars => LoginInOnePlace'
<1> SUFFICES ASSUME TypeInvariant, LoginInOnePlace, [Next]_vars PROVE LoginInOnePlace'
  OBVIOUS
<1> USE DEF LoginInOnePlace, SigningIn, OneSessionPerLogin
<1>a. \A h \in Handler : SigningIn(h) => req[h].login \in Login
  BY RequestKinds DEF Upserting, Issuing
<1>b. \A t \in sessions : t.login \in Login
  BY DEF TypeInvariant, Session
<1>1. ASSUME NEW s \in Login, GenerateState(s) PROVE LoginInOnePlace'
  BY <1>1, <1>a, <1>b DEF GenerateState, TypeInvariant
<1>2. ASSUME NEW h \in Handler, NEW s \in Login, NEW g \in Google, GoogleCallback(h, s, g)
      PROVE  LoginInOnePlace'
  <2>1. entries' = [entries EXCEPT ![s] = None] /\ entries[s] # None
    BY <1>2 DEF GoogleCallback
  <2>2. /\ \A k \in Handler : SigningIn(k) => req[k].login # s
        /\ \A t \in sessions : t.login # s
        /\ s \in generated
    BY <2>1
  <2> DEFINE r == [pc |-> "upsert", login |-> s, google |-> g]
  <2>3. req' = [req EXCEPT ![h] = r] \/ req' = req
    BY <1>2 DEF GoogleCallback, Begin
  <2>4. /\ \A k \in Handler : k # h => req'[k] = req[k]
        /\ req'[h].login = s \/ req'[h] = req[h]
    BY <2>3, Others
  <2>5. UNCHANGED <<generated, sessions>>
    BY <1>2 DEF GoogleCallback
  <2>6. \A x \in Login : entries'[x] = IF x = s THEN None ELSE entries[x]
    BY <2>1 DEF TypeInvariant
  <2> QED BY <2>2, <2>3, <2>4, <2>5, <2>6, <1>a, <1>b
<1>3. ASSUME NEW h \in Handler, Upsert(h) PROVE LoginInOnePlace'
  <2>1. PICK u, a : UpsertTo(h, u, a)
    BY <1>3 DEF Upsert
  <2>2. SigningIn(h) /\ UNCHANGED <<entries, generated, sessions>>
    BY <1>3 DEF Upsert, UpsertTo
  <2>3. \A k \in Handler : SigningIn(k)' => SigningIn(k) /\ req'[k].login = req[k].login
    BY <2>1, <2>2 DEF UpsertTo, TypeInvariant
  <2> QED BY <2>2, <2>3
<1>4. ASSUME NEW h \in Handler, IssueToken(h) PROVE LoginInOnePlace'
  <2> DEFINE new == [login |-> req[h].login, google |-> req[h].google, user |-> req[h].user,
                     role |-> req[h].role, expires |-> now + TokenTTL]
  <2>1. sessions' = sessions \cup {new} /\ new.login = req[h].login
    BY <1>4 DEF IssueToken
  <2> HIDE DEF new
  <2>2. SigningIn(h) /\ UNCHANGED <<entries, generated>>
    BY <1>4 DEF IssueToken
  <2>3. req' = [req EXCEPT ![h] = Idle]
    BY <1>4 DEF IssueToken, Finish
  <2>4. \A k \in Handler : SigningIn(k)' => k # h /\ req'[k] = req[k]
    BY <2>3 DEF Idle, TypeInvariant
  <2> QED BY <2>1, <2>2, <2>4
<1>5. ASSUME NEW h \in Handler, Act(h) \/ Abort(h) PROVE LoginInOnePlace'
  <2>1. PICK r : req' = [req EXCEPT ![h] = r] /\ r.pc \in {"idle", "set_role", "delete"}
    BY <1>5 DEF Act, Abort, SetUserRole, UpdateRole, DeleteAccount, Delete, Begin, Finish, Idle
  <2>2. \A k \in Handler : SigningIn(k)' => k # h /\ req'[k] = req[k]
    BY <2>1 DEF TypeInvariant
  <2>3. UNCHANGED <<entries, generated, sessions>>
    BY <1>5 DEF Act, Abort, SetUserRole, UpdateRole, DeleteAccount, Delete
  <2> QED BY <2>2, <2>3
<1>6. CASE CleanupExpired
  BY <1>6, <1>a, <1>b DEF CleanupExpired, TypeInvariant
<1>7. CASE Restart
  BY <1>7, <1>a, <1>b DEF Restart, TypeInvariant, Idle
<1>8. CASE Tick \/ UNCHANGED vars
  BY <1>8 DEF Tick, vars
<1> QED BY <1>1, <1>2, <1>3, <1>4, <1>5, <1>6, <1>7, <1>8 DEF Next, SignIn

\* However often a callback is repeated, and across restarts, a login yields one
\* session at most.
THEOREM OneSessionAlways == Spec => []OneSessionPerLogin
<1>1. Init => LoginInOnePlace
  BY DEF Init, LoginInOnePlace, SigningIn, Idle, OneSessionPerLogin
<1>2. LoginInOnePlace => OneSessionPerLogin
  BY DEF LoginInOnePlace
<1> QED BY <1>1, <1>2, LoginInOnePlaceNext, TypeCorrect, PTL DEF Spec

-----------------------------------------------------------------------------
(* Authority fades. *)

\* Where the role admin is, it was in the row recently enough.
Recent(u, t) == adminUntil[u] # None /\ t <= adminUntil[u]

AuthorityDated ==
  /\ \A u \in User : HoldsAdmin(u) => adminUntil[u] # None /\ adminUntil[u] = now
  /\ \A u \in User : adminUntil[u] # None => adminUntil[u] <= now
  /\ \A h \in Handler : req[h].pc = "issue" =>
       /\ now <= req[h].since + Flight
       /\ req[h].role = "admin" => Recent(req[h].user, req[h].since)
  /\ \A t \in sessions : t.role = "admin" =>
       /\ adminUntil[t.user] # None
       /\ t.expires <= adminUntil[t.user] + Flight + TokenTTL
  /\ AuthorityFades

\* adminUntil only grows.
LEMMA AdminUntilGrows ==
  ASSUME TypeInvariant, AuthorityDated, [Next]_vars
  PROVE  \A u \in User : adminUntil[u] # None =>
           adminUntil'[u] # None /\ adminUntil'[u] >= adminUntil[u]
<1> USE DEF TypeInvariant
<1>1. ASSUME NEW h \in Handler, UpdateRole(h)
      PROVE  \A u \in User : adminUntil[u] # None =>
               adminUntil'[u] # None /\ adminUntil'[u] >= adminUntil[u]
  <2>1. \A u \in User : adminUntil'[u] = adminUntil[u] \/ adminUntil'[u] = now
    BY <1>1 DEF UpdateRole
  <2> QED BY <2>1 DEF AuthorityDated
<1>2. CASE Tick
  <2>1. \A u \in User : adminUntil'[u] = adminUntil[u] \/ adminUntil'[u] = now + 1
    BY <1>2 DEF Tick
  <2> QED BY <2>1 DEF AuthorityDated
<1>3. (\E h \in Handler : UpdateRole(h)) \/ Tick \/ adminUntil' = adminUntil
  BY DEF Next, SignIn, Act, vars, GenerateState, GoogleCallback, Upsert, UpsertTo, IssueToken,
         SetUserRole, DeleteAccount, Delete, Abort, CleanupExpired, Restart
<1> QED BY <1>1, <1>2, <1>3

LEMMA AuthorityDatedNext ==
  TypeInvariant /\ AuthorityDated /\ [Next]_vars => AuthorityDated'
<1> SUFFICES ASSUME TypeInvariant, AuthorityDated, [Next]_vars PROVE AuthorityDated'
  OBVIOUS
<1> DEFINE Grows == \A u \in User : adminUntil[u] # None =>
             adminUntil'[u] # None /\ adminUntil'[u] >= adminUntil[u]
<1>g. Grows
  BY AdminUntilGrows
<1>n. adminUntil \in [User -> Nat \cup {None}] /\ adminUntil' \in [User -> Nat \cup {None}]
  BY TypeNext DEF TypeInvariant
\* What another handler's request, and a session, say goes on being recent.
<1>s. ASSUME NEW t \in sessions, t.role = "admin"
      PROVE  /\ adminUntil'[t.user] # None
             /\ t.expires <= adminUntil'[t.user] + Flight + TokenTTL
  <2>1. t.user \in User /\ t.expires \in Nat
    BY DEF TypeInvariant, Session
  <2> QED BY <2>1, <1>s, <1>g, <1>n DEF AuthorityDated
<1>i. ASSUME NEW h \in Handler, req[h].pc = "issue", req'[h] = req[h]
      PROVE  req'[h].role = "admin" => Recent(req[h].user, req[h].since)'
  <2>1. req[h].user \in User /\ req[h].since \in Nat
    BY <1>i, RequestKinds DEF Issuing
  <2>2. req[h].role = "admin" =>
          adminUntil[req[h].user] # None /\ req[h].since <= adminUntil[req[h].user]
    BY <1>i DEF AuthorityDated, Recent
  <2>3. req[h].role = "admin" =>
          adminUntil'[req[h].user] # None /\ req[h].since <= adminUntil'[req[h].user]
    BY <2>1, <2>2, <1>g, <1>n
  <2> QED BY <2>3, <1>i DEF Recent
<1>r. ASSUME NEW h \in Handler, req[h].pc = "set_role", req'[h] = req[h]
      PROVE  /\ adminUntil'[req'[h].by] # None
             /\ req'[h].at < adminUntil'[req'[h].by] + TokenTTL + Flight
  <2>1. req[h].by \in User /\ req[h].at \in Nat
    BY <1>r, RequestKinds DEF SettingRole
  <2> QED BY <2>1, <1>r, <1>g, <1>n DEF AuthorityDated, AuthorityFades
\* Steps that leave the users and the clock alone.
<1>q. ASSUME UNCHANGED <<now, users, adminUntil>>
      PROVE  /\ \A u \in User : HoldsAdmin(u)' => adminUntil'[u] # None /\ adminUntil'[u] = now'
             /\ \A u \in User : adminUntil'[u] # None => adminUntil'[u] <= now'
  BY <1>q DEF AuthorityDated, HoldsAdmin
<1>k. ASSUME UNCHANGED <<now, sessions, users, adminUntil>>,
             \A h \in Handler : req'[h] = req[h] \/ req'[h].pc \notin {"issue", "set_role"}
      PROVE  AuthorityDated'
  BY <1>k, <1>q DEF AuthorityDated, AuthorityFades, Recent
<1>1. ASSUME NEW s \in Login, GenerateState(s) PROVE AuthorityDated'
  BY <1>1, <1>k DEF GenerateState
<1>2. ASSUME NEW h \in Handler, NEW s \in Login, NEW g \in Google, GoogleCallback(h, s, g)
      PROVE  AuthorityDated'
  BY <1>2, <1>k DEF GoogleCallback, Begin, TypeInvariant
<1>3. ASSUME NEW h \in Handler, Upsert(h) PROVE AuthorityDated'
  <2> DEFINE there == AccountsOf(req[h].google)
             fresh == [google |-> req[h].google, role |-> "user"]
  <2>1. PICK u \in IF there # {} THEN there ELSE User \ registered :
          UpsertTo(h, u, IF there # {} THEN users[u] ELSE fresh)
    BY <1>3 DEF Upsert
  <2>2. PICK a : /\ u \in User /\ UpsertTo(h, u, a)
                 /\ a = IF there # {} THEN users[u] ELSE fresh
    BY <2>1 DEF AccountsOf
  <2>3. a.role = "admin" => HoldsAdmin(u)
    BY <2>1, <2>2 DEF AccountsOf, HoldsAdmin
  <2>4. \A v \in User : HoldsAdmin(v)' => HoldsAdmin(v)
    BY <2>2, <2>3 DEF HoldsAdmin, UpsertTo, TypeInvariant
  <2>5. /\ req'[h].pc = "issue" /\ req'[h].user = u /\ req'[h].role = a.role
        /\ req'[h].since = now
        /\ \A k \in Handler : k # h => req'[k] = req[k]
    BY <2>2 DEF UpsertTo, TypeInvariant
  <2>6. UNCHANGED <<now, sessions, adminUntil>>
    BY <2>2 DEF UpsertTo
  <2>7. req'[h].role = "admin" => Recent(req[h].user, req[h].since)'
    BY <2>2, <2>3, <2>5, <2>6, <1>n DEF AuthorityDated, Recent, TypeInvariant
  <2>8. now' <= req'[h].since + Flight
    BY <2>5, <2>6 DEF TypeInvariant
  <2> QED BY <2>4, <2>5, <2>6, <2>7, <2>8 DEF AuthorityDated, AuthorityFades, Recent
<1>4. ASSUME NEW h \in Handler, IssueToken(h) PROVE AuthorityDated'
  <2> DEFINE new == [login |-> req[h].login, google |-> req[h].google, user |-> req[h].user,
                     role |-> req[h].role, expires |-> now + TokenTTL]
  <2>1. sessions' = sessions \cup {new}
    BY <1>4 DEF IssueToken
  <2>2. UNCHANGED <<now, users, adminUntil>>
    BY <1>4 DEF IssueToken
  <2>3. req[h] \in Issuing /\ req[h].pc = "issue"
    BY <1>4, RequestKinds DEF IssueToken
  <2>4. \A k \in Handler : req'[k] = req[k] \/ req'[k].pc \notin {"issue", "set_role"}
    BY <1>4 DEF IssueToken, Finish, Idle, TypeInvariant
  <2>5. new.role = "admin" => adminUntil[new.user] # None
                              /\ new.expires <= adminUntil[new.user] + Flight + TokenTTL
    BY <2>3, <1>n DEF AuthorityDated, Recent, Issuing, TypeInvariant
  <2> HIDE DEF new
  <2> QED BY <2>1, <2>2, <2>4, <2>5, <1>q DEF AuthorityDated, AuthorityFades, Recent
<1>5. ASSUME NEW h \in Handler, SetUserRole(h) PROVE AuthorityDated'
  <2>1. PICK s \in sessions, u \in registered, r \in Role :
          /\ RequireAuth(s) /\ RequireRole(s, {"admin"})
          /\ Begin(h, [pc |-> "set_role", by |-> s.user, at |-> now, user |-> u, role |-> r])
    BY <1>5 DEF SetUserRole
  <2>2. UNCHANGED <<now, sessions, users, adminUntil>>
    BY <1>5 DEF SetUserRole
  <2>3. /\ req'[h].pc = "set_role" /\ req'[h].by = s.user /\ req'[h].at = now
        /\ \A k \in Handler : k # h => req'[k] = req[k]
    BY <2>1 DEF Begin, TypeInvariant
  <2>4. s.role = "admin" /\ now < s.expires /\ s.user \in User /\ s.expires \in Nat
    BY <2>1 DEF RequireAuth, RequireRole, TypeInvariant, Session
  <2>5. adminUntil[s.user] # None /\ s.expires <= adminUntil[s.user] + Flight + TokenTTL
    BY <2>4 DEF AuthorityDated
  <2>6. adminUntil[s.user] # None /\ now < adminUntil[s.user] + TokenTTL + Flight
    BY <2>4, <2>5, <1>n DEF TypeInvariant
  <2> QED BY <2>2, <2>3, <2>6, <1>q DEF AuthorityDated, AuthorityFades, Recent
<1>6. ASSUME NEW h \in Handler, UpdateRole(h) PROVE AuthorityDated'
  <2>1. req[h] \in SettingRole /\ users[req[h].user] # None
    BY <1>6, RequestKinds DEF UpdateRole
  <2>2. UNCHANGED <<now, sessions>>
    BY <1>6 DEF UpdateRole
  <2>3. \A k \in Handler : req'[k] = req[k] \/ req'[k].pc \notin {"issue", "set_role"}
    BY <1>6 DEF UpdateRole, Finish, Idle, TypeInvariant
  <2>4. \A u \in User : HoldsAdmin(u)' => adminUntil'[u] # None /\ adminUntil'[u] = now'
    <3>1. PICK w \in User, r \in Role : w = req[h].user /\ r = req[h].role
      BY <2>1 DEF SettingRole
    <3>2. \A u \in User : u # w => users'[u] = users[u] /\ adminUntil'[u] = adminUntil[u]
      BY <1>6, <3>1 DEF UpdateRole, TypeInvariant
    <3>3. users'[w].role = r
      BY <1>6, <2>1, <3>1 DEF UpdateRole, TypeInvariant, Account
    <3>4. r = "admin" => adminUntil'[w] = now
      BY <1>6, <3>1, <1>n DEF UpdateRole
    <3> QED BY <3>2, <3>3, <3>4, <2>2 DEF AuthorityDated, HoldsAdmin, TypeInvariant
  <2>5. \A u \in User : adminUntil'[u] # None => adminUntil'[u] <= now'
    <3>1. \A u \in User : adminUntil'[u] = adminUntil[u] \/ adminUntil'[u] = now
      BY <1>6 DEF UpdateRole, TypeInvariant
    <3> QED BY <3>1, <2>2 DEF AuthorityDated, TypeInvariant
  <2>6. \A k \in Handler : req'[k].pc = "issue" =>
          /\ now' <= req'[k].since + Flight
          /\ req'[k].role = "admin" => Recent(req[k].user, req[k].since)'
    BY <2>2, <2>3, <1>i DEF AuthorityDated
  <2>7. AuthorityFades'
    BY <2>3, <1>r DEF AuthorityFades
  <2> QED BY <2>2, <2>4, <2>5, <2>6, <2>7, <1>s DEF AuthorityDated
<1>7. ASSUME NEW h \in Handler, Delete(h) PROVE AuthorityDated'
  <2>1. req[h] \in Deleting
    BY <1>7, RequestKinds DEF Delete
  <2>2. \A u \in User : HoldsAdmin(u)' => HoldsAdmin(u)
    BY <1>7, <2>1 DEF Delete, Deleting, HoldsAdmin, TypeInvariant
  <2>3. UNCHANGED <<now, sessions, adminUntil>>
    BY <1>7 DEF Delete
  <2>4. \A k \in Handler : req'[k] = req[k] \/ req'[k].pc \notin {"issue", "set_role"}
    BY <1>7 DEF Delete, Finish, Idle, TypeInvariant
  <2> QED BY <2>2, <2>3, <2>4 DEF AuthorityDated, AuthorityFades, Recent
<1>8. ASSUME NEW h \in Handler, DeleteAccount(h) \/ Abort(h) PROVE AuthorityDated'
  BY <1>8, <1>k DEF DeleteAccount, Abort, Begin, Finish, Idle, TypeInvariant
<1>9. CASE CleanupExpired \/ Restart \/ UNCHANGED vars
  BY <1>9, <1>k DEF CleanupExpired, Restart, vars, Idle
<1>10. CASE Tick
  <2>1. UNCHANGED <<users, sessions, req>> /\ now' = now + 1
    BY <1>10 DEF Tick
  <2>2. \A u \in User : adminUntil'[u] = IF HoldsAdmin(u) THEN now' ELSE adminUntil[u]
    BY <1>10 DEF Tick
  <2>3. \A u \in User : HoldsAdmin(u)' => HoldsAdmin(u)
    BY <2>1 DEF HoldsAdmin
  <2>4. \A u \in User : HoldsAdmin(u)' => adminUntil'[u] # None /\ adminUntil'[u] = now'
    BY <2>1, <2>2, <2>3 DEF TypeInvariant
  <2>5. \A u \in User : adminUntil'[u] # None => adminUntil'[u] <= now'
    BY <2>1, <2>2, <1>n DEF AuthorityDated, TypeInvariant
  <2>6. \A k \in Handler : req'[k].pc = "issue" =>
          /\ now' <= req'[k].since + Flight
          /\ req'[k].role = "admin" => Recent(req[k].user, req[k].since)'
    <3>1. ASSUME NEW k \in Handler, req'[k].pc = "issue" PROVE now' <= req'[k].since + Flight
      <4>1. req[k] \in Issuing /\ now < req[k].since + Flight
        BY <1>10, <2>1, <3>1, RequestKinds DEF Tick
      <4> QED BY <2>1, <4>1 DEF Issuing, TypeInvariant
    <3> QED BY <2>1, <3>1, <1>i
  <2>7. AuthorityFades'
    BY <2>1, <1>r DEF AuthorityFades
  <2> QED BY <2>1, <2>4, <2>5, <2>6, <2>7, <1>s DEF AuthorityDated
<1> QED BY <1>1, <1>2, <1>3, <1>4, <1>5, <1>6, <1>7, <1>8, <1>9, <1>10 DEF Next, SignIn, Act

\* An administrator's authority ends with the tokens issued while the row said so.
THEOREM AuthorityFadesAlways == Spec => []AuthorityFades
<1>1. Init => AuthorityDated
  BY DEF Init, AuthorityDated, AuthorityFades, HoldsAdmin, Idle
<1>2. AuthorityDated => AuthorityFades
  BY DEF AuthorityDated
<1> QED BY <1>1, <1>2, AuthorityDatedNext, TypeCorrect, PTL DEF Spec

\* Only SetUserRole changes the role of an account, and no row inherits one.
THEOREM RolesAreGivenAlways == Spec => RolesAreGiven
<1> DEFINE Kept == \A u \in User : users'[u] # None =>
       \/ users[u] = None /\ users'[u].role = "user" /\ u \notin registered
       \/ users[u] # None /\ users'[u].role = users[u].role
       \/ \E h \in Handler : UpdateRole(h) /\ req[h].user = u
<1>1. TypeInvariant /\ [Next]_vars => Kept
  <2> SUFFICES ASSUME TypeInvariant, [Next]_vars PROVE Kept
    OBVIOUS
  <2>1. ASSUME NEW h \in Handler, Upsert(h) PROVE Kept
    <3> DEFINE there == AccountsOf(req[h].google)
               fresh == [google |-> req[h].google, role |-> "user"]
    <3>1. PICK u \in IF there # {} THEN there ELSE User \ registered :
            UpsertTo(h, u, IF there # {} THEN users[u] ELSE fresh)
      BY <2>1 DEF Upsert
    <3>2. \A v \in User : v # u => users'[v] = users[v]
      BY <3>1 DEF UpsertTo, TypeInvariant
    <3>3. CASE there # {}
      <4>1. users'[u] = users[u]
        BY <3>1, <3>3 DEF UpsertTo, TypeInvariant, AccountsOf
      <4> QED BY <3>2, <4>1
    <3>4. CASE there = {}
      <4>1. users'[u] = fresh /\ u \notin registered /\ u \in User
        BY <3>1, <3>4 DEF UpsertTo, TypeInvariant
      <4>2. users[u] = None
        BY <4>1 DEF TypeInvariant
      <4> QED BY <3>2, <4>1, <4>2
    <3> QED BY <3>3, <3>4
  <2>2. ASSUME NEW h \in Handler, UpdateRole(h) PROVE Kept
    <3>1. \A v \in User : v # req[h].user => users'[v] = users[v]
      BY <2>2 DEF UpdateRole, TypeInvariant
    <3> QED BY <2>2, <3>1
  <2>3. ASSUME NEW h \in Handler, Delete(h) PROVE Kept
    BY <2>3 DEF Delete, TypeInvariant
  <2>4. (\E h \in Handler : Upsert(h) \/ UpdateRole(h) \/ Delete(h)) \/ users' = users
    BY DEF Next, SignIn, Act, vars, GenerateState, GoogleCallback, IssueToken, SetUserRole,
           DeleteAccount, Abort, CleanupExpired, Restart, Tick
  <2> QED BY <2>1, <2>2, <2>3, <2>4
<1>2. TypeInvariant /\ [Next]_vars => [Kept]_vars
  BY <1>1
<1> QED BY <1>2, TypeCorrect, PTL DEF Spec, RolesAreGiven

===============================================================================
