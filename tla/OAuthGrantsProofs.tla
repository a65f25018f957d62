--------------------------- MODULE OAuthGrantsProofs ---------------------------
(***************************************************************************)
(* Proofs about OAuthGrants, for any number of concurrent requests.        *)
(***************************************************************************)
EXTENDS OAuthGrants, TLAPS

USE DEF Age

-----------------------------------------------------------------------------
(* Requests and rows *)

LEMMA NoRequestOK == NoRequest \in Request /\ RequestOK(NoRequest)
BY NoneAssumption DEF NoRequest, Request, PC, RequestOK

LEMMA LocalRequest == TypeInvariant => \A h \in Handler : req[h] \in Request /\ RequestOK(req[h])
BY DEF TypeInvariant, TypeOK

\* The handler that moves gets its new local variables, the others keep theirs.
LEMMA SetRequest ==
  ASSUME TypeInvariant, NEW h \in Handler, NEW r \in Request, Set(h, r)
  PROVE  /\ req' \in [Handler -> Request]
         /\ req'[h] = r
         /\ \A k \in Handler : k # h => req'[k] = req[k]
BY DEF Set, TypeInvariant, TypeOK

\* Grants are never deleted, so what a request relies on stays.
LEMMA RequestsKept ==
  ASSUME TypeInvariant, NEW h \in Handler, NEW r \in Request, Set(h, r),
         Rows(grants) \subseteq Rows(grants)', RequestOK(r)'
  PROVE  req' \in [Handler -> Request] /\ \A k \in Handler : RequestOK(req[k])'
<1>1. \A k \in Handler : RequestOK(req[k])
  BY DEF TypeInvariant
<1>2. ASSUME NEW k \in Handler, k # h PROVE RequestOK(req[k])'
  <2>1. req'[k] = req[k]
    BY <1>2, SetRequest
  <2> QED BY <1>1, <2>1 DEF RequestOK
<1>3. RequestOK(req[h])'
  BY SetRequest DEF RequestOK
<1> QED BY <1>2, <1>3, SetRequest

\* What UpsertGrant leaves: the grant it returns is live, of the pair and with the
\* scope; every other row is as it was.
LEMMA Upserted ==
  ASSUME TypeInvariant, NEW u \in User, NEW c \in Client, NEW s \in Scope,
         NEW g \in Grant, UpsertGrant(u, c, s, g)
  PROVE  /\ grants' \in [Grant -> GrantRow \cup {None}]
         /\ grants'[g] = [user |-> u, client |-> c, scope |-> s, revoked |-> FALSE]
         /\ \A k \in Grant : k # g => grants'[k] = grants[k]
         /\ g \in Rows(grants)'
         /\ Rows(grants)' = Rows(grants) \cup {g}
         /\ g \in Rows(grants) =>
              grants[g].user = u /\ grants[g].client = c /\ ~grants[g].revoked
<1> DEFINE row == [user |-> u, client |-> c, scope |-> s, revoked |-> FALSE]
<1>1. row \in GrantRow
  BY DEF GrantRow
<1>none. row # None
  BY <1>1, NoneAssumption
<1>2. grants' = [grants EXCEPT ![g] = row] /\ grants \in [Grant -> GrantRow \cup {None}]
  BY DEF UpsertGrant, TypeInvariant, TypeOK
<1> HIDE DEF row
<1>3. /\ grants' \in [Grant -> GrantRow \cup {None}]
      /\ grants'[g] = row
      /\ \A k \in Grant : k # g => grants'[k] = grants[k]
  BY <1>1, <1>2
<1>4. g \in Rows(grants)' /\ Rows(grants)' = Rows(grants) \cup {g}
  BY <1>none, <1>2, <1>3 DEF Rows
<1>5. g \in Rows(grants) => grants[g].user = u /\ grants[g].client = c /\ ~grants[g].revoked
  BY DEF UpsertGrant, LiveGrants, Rows
<1> QED BY <1>3, <1>4, <1>5 DEF row

-----------------------------------------------------------------------------
(* Types *)

\* A step that touches the local variables of one handler alone.
LEMMA LocalStep ==
  ASSUME TypeInvariant, NEW h \in Handler, NEW r \in Request, Set(h, r), RequestOK(r),
         UNCHANGED <<grants, codes, access, refresh, minted, consent>>,
         sent' \in 0..MaxRequests, UNCHANGED lapsed
  PROVE  TypeInvariant'
<1>1. Rows(grants)' = Rows(grants) /\ RequestOK(r)'
  BY DEF Rows, RequestOK
<1>2. req' \in [Handler -> Request] /\ \A k \in Handler : RequestOK(req[k])'
  BY <1>1, RequestsKept
<1> QED BY <1>1, <1>2 DEF TypeInvariant, TypeOK, Rows

LEMMA Counted == ASSUME TypeInvariant, NEW h \in Handler, Begin(h)
                 PROVE  sent' \in 0..MaxRequests /\ UNCHANGED lapsed
BY BoundsAssumption DEF Begin, TypeInvariant, TypeOK

LEMMA TypeInit == Init => TypeInvariant
<1> SUFFICES ASSUME Init PROVE TypeInvariant
  OBVIOUS
<1>1. TypeOK
  BY NoRequestOK, BoundsAssumption DEF Init, TypeOK
<1>2. \A h \in Handler : RequestOK(req[h])
  BY NoRequestOK DEF Init
<1>3. Rows(codes) = {} /\ Rows(access) = {} /\ Rows(refresh) = {}
  BY DEF Init, Rows
<1> QED BY <1>1, <1>2, <1>3 DEF TypeInvariant

LEMMA TypeStep == TypeInvariant /\ [Next]_vars => TypeInvariant'
<1> SUFFICES ASSUME TypeInvariant, [Next]_vars PROVE TypeInvariant'
  OBVIOUS
<1>0. /\ grants \in [Grant -> GrantRow \cup {None}] /\ codes \in [Code -> CodeRow \cup {None}]
      /\ access \in [Access -> AccessRow \cup {None}]
      /\ refresh \in [Refresh -> RefreshRow \cup {None}]
      /\ minted \subseteq Code \cup Access \cup Refresh /\ consent \subseteq Ability
      /\ sent \in 0..MaxRequests /\ lapsed \in 0..MaxLapses
      /\ \A t \in Rows(access) : access[t].grant \in Rows(grants)
      /\ \A t \in Rows(refresh) : refresh[t].grant \in Rows(grants)
      /\ Rows(codes) \subseteq minted /\ Rows(access) \subseteq minted
      /\ Rows(refresh) \subseteq minted
  BY DEF TypeInvariant, TypeOK
<1>none. None \notin GrantRow /\ None \notin CodeRow /\ None \notin AccessRow
         /\ None \notin RefreshRow
  BY NoneAssumption
<1>1. ASSUME NEW h \in Handler, Approve(h) PROVE TypeInvariant'
  <2>1. PICK u \in User, c \in Client, s \in Scope, g \in Grant :
          /\ UpsertGrant(u, c, s, g)
          /\ consent' = consent \cup {[user |-> u, client |-> c, scope |-> s]}
          /\ Set(h, [NoRequest EXCEPT !.pc = "code", !.user = u, !.client = c, !.scope = s])
    BY <1>1, Zenon DEF Approve
  <2> DEFINE r == [NoRequest EXCEPT !.pc = "code", !.user = u, !.client = c, !.scope = s]
  <2>2. r \in Request /\ RequestOK(r)'
    BY DEF NoRequest, Request, PC, RequestOK
  <2>a. UpsertGrant(u, c, s, g)
    BY <2>1
  <2>3. /\ grants' \in [Grant -> GrantRow \cup {None}] /\ Rows(grants) \subseteq Rows(grants)'
    BY <2>a, Upserted
  <2>4. Set(h, r)
    BY <2>1
  <2> HIDE DEF r
  <2>5. req' \in [Handler -> Request] /\ \A k \in Handler : RequestOK(req[k])'
    BY <2>2, <2>3, <2>4, RequestsKept
  <2>6. consent' \subseteq Ability
    BY <1>0, <2>1 DEF Ability
  <2>7. sent' \in 0..MaxRequests /\ UNCHANGED lapsed
    BY <1>1, Counted DEF Approve
  <2>8. UNCHANGED <<codes, access, refresh, minted>>
    BY <1>1 DEF Approve
  <2>9. Rows(codes)' = Rows(codes) /\ Rows(access)' = Rows(access) /\ Rows(refresh)' = Rows(refresh)
    BY <2>8 DEF Rows
  <2> QED BY <1>0, <2>3, <2>5, <2>6, <2>7, <2>8, <2>9 DEF TypeInvariant, TypeOK
<1>2. ASSUME NEW h \in Handler, CreateAuthCode(h) PROVE TypeInvariant'
  <2> DEFINE row == [user |-> req[h].user, client |-> req[h].client, scope |-> req[h].scope,
                     used |-> FALSE, age |-> "live"]
  <2>1. PICK k \in Code \ minted : codes' = [codes EXCEPT ![k] = row] /\ minted' = minted \cup {k}
    BY <1>2, Zenon DEF CreateAuthCode
  <2>2. row \in CodeRow
    BY <1>2, LocalRequest DEF CreateAuthCode, RequestOK, CodeRow
  <2> HIDE DEF row
  <2>3. codes' \in [Code -> CodeRow \cup {None}] /\ Rows(codes)' \subseteq minted'
    BY <1>0, <2>1, <2>2 DEF Rows
  <2>4. UNCHANGED <<grants, access, refresh, consent, sent, lapsed>>
    BY <1>2 DEF CreateAuthCode, bounds
  <2>5. Rows(grants)' = Rows(grants) /\ Rows(access)' = Rows(access) /\ Rows(refresh)' = Rows(refresh)
    BY <2>4 DEF Rows
  <2>6. Set(h, NoRequest) /\ RequestOK(NoRequest)'
    BY <1>2, NoRequestOK, <2>5 DEF CreateAuthCode, Finish, RequestOK
  <2>7. req' \in [Handler -> Request] /\ \A k1 \in Handler : RequestOK(req[k1])'
    BY <2>5, <2>6, NoRequestOK, RequestsKept
  <2> QED BY <1>0, <2>1, <2>3, <2>4, <2>5, <2>7 DEF TypeInvariant, TypeOK
<1>3. ASSUME NEW h \in Handler, ExchangeCode(h) PROVE TypeInvariant'
  <2>1. PICK k \in Rows(codes) :
          Set(h, [NoRequest EXCEPT !.pc = "consume_code", !.cred = k, !.seen = codes[k].used])
    BY <1>3, Zenon DEF ExchangeCode
  <2> DEFINE r == [NoRequest EXCEPT !.pc = "consume_code", !.cred = k, !.seen = codes[k].used]
  <2>2. k \in Code /\ codes[k] \in CodeRow
    BY <1>0 DEF Rows
  <2>3. r \in Request /\ RequestOK(r)
    BY <2>2 DEF NoRequest, Request, PC, RequestOK, CodeRow
  <2>4. Set(h, r)
    BY <2>1
  <2> HIDE DEF r
  <2> QED BY <1>3, <2>3, <2>4, Counted, LocalStep DEF ExchangeCode
<1>4. ASSUME NEW h \in Handler, ConsumeAuthCode(h) PROVE TypeInvariant'
  <2> DEFINE k == codes[req[h].cred]
             a == [req[h] EXCEPT !.user = k.user, !.client = k.client, !.scope = k.scope]
  <2>1. req[h].cred \in Code /\ k \in CodeRow /\ req[h] \in Request
    BY <1>0, <1>4, LocalRequest DEF ConsumeAuthCode, RequestOK
  <2>2. codes' = [codes EXCEPT ![req[h].cred].used = TRUE]
    BY <1>4 DEF ConsumeAuthCode
  <2>3. [k EXCEPT !.used = TRUE] \in CodeRow
    BY <2>1 DEF CodeRow
  <2>4. codes' \in [Code -> CodeRow \cup {None}] /\ Rows(codes)' = Rows(codes)
    BY <1>0, <1>none, <2>1, <2>2, <2>3 DEF Rows
  <2>5. UNCHANGED <<grants, access, refresh, minted, consent, sent, lapsed>>
    BY <1>4 DEF ConsumeAuthCode, bounds
  <2>6. Rows(grants)' = Rows(grants) /\ Rows(access)' = Rows(access) /\ Rows(refresh)' = Rows(refresh)
    BY <2>5 DEF Rows
  <2>7. \E r \in Request : Set(h, r) /\ RequestOK(r)
    <3>1. /\ [a EXCEPT !.pc = "replayed"] \in Request /\ RequestOK([a EXCEPT !.pc = "replayed"])
          /\ [a EXCEPT !.pc = "redeem"] \in Request /\ RequestOK([a EXCEPT !.pc = "redeem"])
      BY <2>1 DEF Request, PC, RequestOK, CodeRow
    <3> QED BY <1>4, <3>1, NoRequestOK, Zenon DEF ConsumeAuthCode, CodeOutcome, Finish
  <2>8. req' \in [Handler -> Request] /\ \A k1 \in Handler : RequestOK(req[k1])'
    <3>1. PICK r \in Request : Set(h, r) /\ RequestOK(r)
      BY <2>7
    <3> QED BY <3>1, <2>6, RequestsKept DEF RequestOK
  <2> QED BY <1>0, <2>4, <2>5, <2>6, <2>8 DEF TypeInvariant, TypeOK
<1>5. ASSUME NEW h \in Handler, ExchangeUpsert(h) PROVE TypeInvariant'
  <2>1. PICK g \in Grant :
          /\ UpsertGrant(req[h].user, req[h].client, req[h].scope, g)
          /\ Set(h, [req[h] EXCEPT !.grant = g, !.pc = IF @ = "redeem" THEN "issue" ELSE "revoke"])
    BY <1>5, Zenon DEF ExchangeUpsert
  <2>2. /\ req[h] \in Request /\ req[h].user \in User /\ req[h].client \in Client
        /\ req[h].scope \in Scope
    BY <1>5, LocalRequest DEF ExchangeUpsert, RequestOK
  <2>3. /\ grants' \in [Grant -> GrantRow \cup {None}] /\ Rows(grants) \subseteq Rows(grants)'
        /\ g \in Rows(grants)'
    <3>1. UpsertGrant(req[h].user, req[h].client, req[h].scope, g)
      BY <2>1
    <3> QED BY <2>2, <3>1, Upserted
  <2>r. PICK r \in Request :
          r = [req[h] EXCEPT !.grant = g, !.pc = IF @ = "redeem" THEN "issue" ELSE "revoke"]
    BY <2>2 DEF Request, PC
  <2>4. RequestOK(r)'
    BY <2>2, <2>3, <2>r DEF Request, RequestOK
  <2>5. Set(h, r)
    BY <2>1, <2>r
  <2>6. req' \in [Handler -> Request] /\ \A k \in Handler : RequestOK(req[k])'
    BY <2>3, <2>4, <2>5, RequestsKept
  <2>7. UNCHANGED <<codes, access, refresh, minted, consent, sent, lapsed>>
    BY <1>5 DEF ExchangeUpsert, bounds
  <2>8. Rows(codes)' = Rows(codes) /\ Rows(access)' = Rows(access) /\ Rows(refresh)' = Rows(refresh)
    BY <2>7 DEF Rows
  <2> QED BY <1>0, <2>3, <2>6, <2>7, <2>8 DEF TypeInvariant, TypeOK
<1>6. ASSUME NEW h \in Handler, RefreshTokens(h) PROVE TypeInvariant'
  <2>1. PICK t \in Rows(refresh) :
          Set(h, [NoRequest EXCEPT
                    !.pc = "consume_refresh", !.cred = t, !.seen = refresh[t].used,
                    !.grant = refresh[t].grant, !.scope = grants[refresh[t].grant].scope])
    BY <1>6, Zenon DEF RefreshTokens
  <2> DEFINE r == [NoRequest EXCEPT
                    !.pc = "consume_refresh", !.cred = t, !.seen = refresh[t].used,
                    !.grant = refresh[t].grant, !.scope = grants[refresh[t].grant].scope]
  <2>2. t \in Refresh /\ refresh[t] \in RefreshRow /\ refresh[t].grant \in Rows(grants)
    BY <1>0 DEF Rows
  <2>3. grants[refresh[t].grant] \in GrantRow
    BY <1>0, <2>2 DEF Rows
  <2>4. r \in Request /\ RequestOK(r)
    BY <2>2, <2>3 DEF NoRequest, Request, PC, RequestOK, RefreshRow, GrantRow
  <2>5. Set(h, r)
    BY <2>1
  <2> HIDE DEF r
  <2> QED BY <1>6, <2>4, <2>5, Counted, LocalStep DEF RefreshTokens
<1>7. ASSUME NEW h \in Handler, ConsumeRefreshToken(h) PROVE TypeInvariant'
  <2>1. /\ req[h].cred \in Refresh /\ refresh[req[h].cred] \in RefreshRow /\ req[h] \in Request
        /\ req[h].cred \in Rows(refresh)
    BY <1>0, <1>7, LocalRequest DEF ConsumeRefreshToken, RequestOK, Rows
  <2>2. refresh' = [refresh EXCEPT ![req[h].cred].used = TRUE]
    BY <1>7 DEF ConsumeRefreshToken
  <2>3. PICK v \in RefreshRow : /\ v = [refresh[req[h].cred] EXCEPT !.used = TRUE]
                                /\ v.grant = refresh[req[h].cred].grant
    <3> DEFINE w == [refresh[req[h].cred] EXCEPT !.used = TRUE]
    <3>1. w \in RefreshRow /\ w.grant = refresh[req[h].cred].grant
      BY <2>1 DEF RefreshRow
    <3> QED BY <3>1
  <2>4. /\ refresh' \in [Refresh -> RefreshRow \cup {None}] /\ Rows(refresh)' = Rows(refresh)
        /\ \A t \in Rows(refresh) : refresh'[t].grant = refresh[t].grant
    <3>1. refresh' = [refresh EXCEPT ![req[h].cred] = v]
      BY <2>2, <2>3
    <3>2. v # None
      BY <1>none
    <3> QED BY <1>0, <2>1, <2>3, <3>1, <3>2 DEF Rows
  <2>5. UNCHANGED <<grants, codes, access, minted, consent, sent, lapsed>>
    BY <1>7 DEF ConsumeRefreshToken, bounds
  <2>6. Rows(grants)' = Rows(grants) /\ Rows(access)' = Rows(access) /\ Rows(codes)' = Rows(codes)
    BY <2>5 DEF Rows
  <2>7. \E r \in Request : Set(h, r) /\ RequestOK(r)
    <3>1. /\ [req[h] EXCEPT !.pc = "revoke"] \in Request /\ RequestOK([req[h] EXCEPT !.pc = "revoke"])
          /\ [req[h] EXCEPT !.pc = "issue"] \in Request /\ RequestOK([req[h] EXCEPT !.pc = "issue"])
      BY <1>7, <2>1, LocalRequest DEF ConsumeRefreshToken, Request, PC, RequestOK
    <3> QED BY <1>7, <3>1, NoRequestOK, Zenon DEF ConsumeRefreshToken, Finish
  <2>8. req' \in [Handler -> Request] /\ \A k1 \in Handler : RequestOK(req[k1])'
    <3>1. PICK r \in Request : Set(h, r) /\ RequestOK(r)
      BY <2>7
    <3> QED BY <3>1, <2>6, RequestsKept DEF RequestOK
  <2> QED BY <1>0, <2>4, <2>5, <2>6, <2>8 DEF TypeInvariant, TypeOK
<1>8. ASSUME NEW h \in Handler, CreateAccessToken(h) PROVE TypeInvariant'
  <2> DEFINE row == [grant |-> req[h].grant, scope |-> req[h].scope, age |-> "live"]
  <2>1. PICK t \in Access \ minted : access' = [access EXCEPT ![t] = row] /\ minted' = minted \cup {t}
    BY <1>8, Zenon DEF CreateAccessToken
  <2>2. row \in AccessRow /\ row.grant \in Rows(grants)
    BY <1>0, <1>8, LocalRequest DEF CreateAccessToken, RequestOK, AccessRow, Rows
  <2>r. PICK r \in Request : r = [req[h] EXCEPT !.pc = "issue_refresh"] /\ RequestOK(r)
    BY <1>8, LocalRequest DEF CreateAccessToken, RequestOK, Request, PC
  <2>s. Set(h, r)
    BY <1>8, <2>r DEF CreateAccessToken
  <2> HIDE DEF row
  <2>3. /\ access' \in [Access -> AccessRow \cup {None}] /\ Rows(access)' \subseteq minted'
        /\ \A x \in Rows(access)' : access'[x].grant \in Rows(grants)
    BY <1>0, <2>1, <2>2 DEF Rows
  <2>4. UNCHANGED <<grants, codes, refresh, consent, sent, lapsed>>
    BY <1>8 DEF CreateAccessToken, bounds
  <2>5. Rows(grants)' = Rows(grants) /\ Rows(codes)' = Rows(codes) /\ Rows(refresh)' = Rows(refresh)
    BY <2>4 DEF Rows
  <2>6. RequestOK(r)'
    BY <2>r, <2>5 DEF RequestOK
  <2>7. req' \in [Handler -> Request] /\ \A k1 \in Handler : RequestOK(req[k1])'
    BY <2>s, <2>5, <2>6, RequestsKept
  <2> QED BY <1>0, <2>1, <2>3, <2>4, <2>5, <2>7 DEF TypeInvariant, TypeOK
<1>9. ASSUME NEW h \in Handler, CreateRefreshToken(h) PROVE TypeInvariant'
  <2> DEFINE row == [grant |-> req[h].grant, used |-> FALSE, age |-> "live"]
  <2>1. PICK t \in Refresh \ minted : refresh' = [refresh EXCEPT ![t] = row] /\ minted' = minted \cup {t}
    BY <1>9, Zenon DEF CreateRefreshToken
  <2>2. row \in RefreshRow /\ row.grant \in Rows(grants)
    BY <1>0, <1>9, LocalRequest DEF CreateRefreshToken, RequestOK, RefreshRow, Rows
  <2> HIDE DEF row
  <2>3. /\ refresh' \in [Refresh -> RefreshRow \cup {None}] /\ Rows(refresh)' \subseteq minted'
        /\ \A x \in Rows(refresh)' : refresh'[x].grant \in Rows(grants)
    BY <1>0, <2>1, <2>2 DEF Rows
  <2>4. UNCHANGED <<grants, codes, access, consent, sent, lapsed>>
    BY <1>9 DEF CreateRefreshToken, bounds
  <2>5. Rows(grants)' = Rows(grants) /\ Rows(codes)' = Rows(codes) /\ Rows(access)' = Rows(access)
    BY <2>4 DEF Rows
  <2>6. Set(h, NoRequest) /\ RequestOK(NoRequest)'
    BY <1>9, NoRequestOK, <2>5 DEF CreateRefreshToken, Finish, RequestOK
  <2>7. req' \in [Handler -> Request] /\ \A k1 \in Handler : RequestOK(req[k1])'
    BY <2>5, <2>6, NoRequestOK, RequestsKept
  <2> QED BY <1>0, <2>1, <2>3, <2>4, <2>5, <2>7 DEF TypeInvariant, TypeOK
<1>10. ASSUME NEW h \in Handler, RevokeGrant(h) PROVE TypeInvariant'
  <2>1. PICK g \in Rows(grants) : Set(h, [NoRequest EXCEPT !.pc = "revoke", !.grant = g])
    BY <1>10, Zenon DEF RevokeGrant
  <2> DEFINE r == [NoRequest EXCEPT !.pc = "revoke", !.grant = g]
  <2>2. r \in Request /\ RequestOK(r) /\ Set(h, r)
    BY <1>0, <2>1 DEF NoRequest, Request, PC, RequestOK, Rows
  <2> HIDE DEF r
  <2> QED BY <1>10, <2>2, Counted, LocalStep DEF RevokeGrant
<1>11. ASSUME NEW h \in Handler, RevokeDelete(h) PROVE TypeInvariant'
  <2>d. PICK D \in SUBSET Access : D = TokensOf(access, req[h].grant)
    BY <1>0 DEF TokensOf, Rows
  <2>r. PICK r \in Request :
          r = [req[h] EXCEPT !.pc = "revoke_commit", !.dropped = D] /\ RequestOK(r)
    <3> DEFINE w == [req[h] EXCEPT !.pc = "revoke_commit", !.dropped = D]
    <3>1. req[h] \in Request /\ RequestOK(req[h]) /\ req[h].pc = "revoke"
      BY <1>11, LocalRequest DEF RevokeDelete
    <3>2. w \in Request
      BY <2>d, <3>1 DEF Request, PC
    <3>3. RequestOK(w)
      BY <3>1 DEF Request, RequestOK
    <3> QED BY <3>2, <3>3
  <2>1. Set(h, r)
    BY <1>11, <2>d, <2>r DEF RevokeDelete
  <2>2. sent' \in 0..MaxRequests /\ UNCHANGED lapsed
    BY <1>0, <1>11 DEF RevokeDelete, bounds
  <2> QED BY <1>11, <2>r, <2>1, <2>2, LocalStep DEF RevokeDelete
<1>12. ASSUME NEW h \in Handler, RevokeCommit(h) PROVE TypeInvariant'
  <2>1. req[h].grant \in Rows(grants)
    BY <1>12, LocalRequest DEF RevokeCommit, RequestOK
  <2>2. [grants[req[h].grant] EXCEPT !.revoked = TRUE] \in GrantRow
    BY <1>0, <2>1 DEF Rows, GrantRow
  <2>3. grants' = [grants EXCEPT ![req[h].grant].revoked = TRUE]
    BY <1>12 DEF RevokeCommit
  <2>4. grants' \in [Grant -> GrantRow \cup {None}] /\ Rows(grants)' = Rows(grants)
    BY <1>0, <1>none, <2>1, <2>2, <2>3 DEF Rows
  <2>5. /\ access' \in [Access -> AccessRow \cup {None}] /\ Rows(access)' \subseteq Rows(access)
        /\ \A t \in Rows(access)' : access'[t] = access[t]
    BY <1>0, <1>12 DEF RevokeCommit, Without, Rows
  <2>6. /\ refresh' \in [Refresh -> RefreshRow \cup {None}] /\ Rows(refresh)' \subseteq Rows(refresh)
        /\ \A t \in Rows(refresh)' : refresh'[t] = refresh[t]
    BY <1>0, <1>12 DEF RevokeCommit, Without, Rows
  <2>7. UNCHANGED <<codes, minted, consent, sent, lapsed>> /\ Set(h, NoRequest)
    BY <1>12 DEF RevokeCommit, bounds, Finish
  <2>8. Rows(codes)' = Rows(codes) /\ RequestOK(NoRequest)'
    BY <2>7, <2>4, NoRequestOK DEF Rows, RequestOK
  <2>9. req' \in [Handler -> Request] /\ \A k1 \in Handler : RequestOK(req[k1])'
    BY <2>4, <2>7, <2>8, NoRequestOK, RequestsKept
  <2> QED BY <1>0, <2>4, <2>5, <2>6, <2>7, <2>8, <2>9 DEF TypeInvariant, TypeOK
<1>13. ASSUME NEW h \in Handler, Abort(h) PROVE TypeInvariant'
  <2>1. sent' \in 0..MaxRequests /\ UNCHANGED lapsed
    BY <1>0, <1>13 DEF Abort, bounds
  <2> QED BY <1>13, <2>1, NoRequestOK, LocalStep DEF Abort, Finish
<1>keep. ASSUME UNCHANGED <<grants, minted, req, consent, sent>>,
                lapsed' \in 0..MaxLapses,
                codes' \in [Code -> CodeRow \cup {None}], Rows(codes)' \subseteq Rows(codes),
                access' \in [Access -> AccessRow \cup {None}], Rows(access)' \subseteq Rows(access),
                refresh' \in [Refresh -> RefreshRow \cup {None}],
                Rows(refresh)' \subseteq Rows(refresh),
                \A t \in Rows(access)' : access'[t].grant = access[t].grant,
                \A t \in Rows(refresh)' : refresh'[t].grant = refresh[t].grant
         PROVE  TypeInvariant'
  <2>1. Rows(grants)' = Rows(grants) /\ \A k \in Handler : RequestOK(req[k])'
    BY <1>keep DEF Rows, RequestOK, TypeInvariant
  <2> QED BY <1>0, <1>keep, <2>1 DEF TypeInvariant, TypeOK
<1>lapse. Lapse => UNCHANGED <<grants, minted, req, consent, sent>> /\ lapsed' \in 0..MaxLapses
  BY <1>0, BoundsAssumption DEF Lapse
<1>14. CASE ExpireCode
  <2>1. PICK k \in Rows(codes) : codes' = [codes EXCEPT ![k] = Older(codes[k])]
    BY <1>14 DEF ExpireCode
  <2>2. Older(codes[k]) \in CodeRow /\ k \in Code
    BY <1>0 DEF Rows, Older, CodeRow
  <2>3. codes' \in [Code -> CodeRow \cup {None}] /\ Rows(codes)' = Rows(codes)
    BY <1>0, <1>none, <2>1, <2>2 DEF Rows
  <2>4. UNCHANGED <<access, refresh>> /\ Lapse
    BY <1>14 DEF ExpireCode
  <2> QED BY <1>0, <2>3, <2>4, <1>lapse, <1>keep DEF Rows
<1>15. CASE ExpireAccess
  <2>1. PICK k \in Rows(access) : access' = [access EXCEPT ![k] = Older(access[k])]
    BY <1>15 DEF ExpireAccess
  <2>2. Older(access[k]) \in AccessRow /\ k \in Access /\ Older(access[k]).grant = access[k].grant
    BY <1>0 DEF Rows, Older, AccessRow
  <2>3. /\ access' \in [Access -> AccessRow \cup {None}] /\ Rows(access)' = Rows(access)
        /\ \A t \in Rows(access) : access'[t].grant = access[t].grant
    BY <1>0, <1>none, <2>1, <2>2 DEF Rows
  <2>4. UNCHANGED <<codes, refresh>> /\ Lapse
    BY <1>15 DEF ExpireAccess
  <2> QED BY <1>0, <2>3, <2>4, <1>lapse, <1>keep DEF Rows
<1>16. CASE ExpireRefresh
  <2>1. PICK k \in Rows(refresh) : refresh' = [refresh EXCEPT ![k] = Older(refresh[k])]
    BY <1>16 DEF ExpireRefresh
  <2>2. Older(refresh[k]) \in RefreshRow /\ k \in Refresh /\ Older(refresh[k]).grant = refresh[k].grant
    BY <1>0 DEF Rows, Older, RefreshRow
  <2>3. /\ refresh' \in [Refresh -> RefreshRow \cup {None}] /\ Rows(refresh)' = Rows(refresh)
        /\ \A t \in Rows(refresh) : refresh'[t].grant = refresh[t].grant
    BY <1>0, <1>none, <2>1, <2>2 DEF Rows
  <2>4. UNCHANGED <<codes, access>> /\ Lapse
    BY <1>16 DEF ExpireRefresh
  <2> QED BY <1>0, <2>3, <2>4, <1>lapse, <1>keep DEF Rows
<1>17. ASSUME NEW done \in 1..3, DeleteExpired(done) PROVE TypeInvariant'
  <2>1. codes' \in [Code -> CodeRow \cup {None}] /\ Rows(codes)' \subseteq Rows(codes)
    BY <1>0, <1>17 DEF DeleteExpired, Without, Rows
  <2>2. /\ access' \in [Access -> AccessRow \cup {None}] /\ Rows(access)' \subseteq Rows(access)
        /\ \A t \in Rows(access)' : access'[t] = access[t]
    BY <1>0, <1>17 DEF DeleteExpired, Without, Rows
  <2>3. /\ refresh' \in [Refresh -> RefreshRow \cup {None}] /\ Rows(refresh)' \subseteq Rows(refresh)
        /\ \A t \in Rows(refresh)' : refresh'[t] = refresh[t]
    BY <1>0, <1>17 DEF DeleteExpired, Without, Rows
  <2>4. UNCHANGED <<grants, minted, req, consent, sent, lapsed>>
    BY <1>17 DEF DeleteExpired, bounds
  <2> QED BY <1>0, <2>1, <2>2, <2>3, <2>4, <1>keep
<1>18. CASE UNCHANGED vars
  BY <1>18, <1>0, <1>keep DEF vars, bounds, Rows
<1> QED
  BY <1>1, <1>2, <1>3, <1>4, <1>5, <1>6, <1>7, <1>8, <1>9, <1>10, <1>11, <1>12, <1>13,
     <1>14, <1>15, <1>16, <1>17, <1>18
     DEF Next, Authorize, Redeem, Rotate, Issue, Revoke

\* Type correctness; every token row has its grant.
THEOREM TypeCorrect == Spec => []TypeInvariant
BY TypeInit, TypeStep, PTL DEF Spec

-----------------------------------------------------------------------------
(* Grants *)

\* The three things a step can do to the grants.
LEMMA GrantsStep ==
  ASSUME TypeInvariant, [Next]_vars
  PROVE  \/ UNCHANGED grants
         \/ \E u \in User, c \in Client, s \in Scope, g \in Grant : UpsertGrant(u, c, s, g)
         \/ \E h \in Handler : RevokeCommit(h)
<1>1. ASSUME NEW h \in Handler, Approve(h)
      PROVE  \E u \in User, c \in Client, s \in Scope, g \in Grant : UpsertGrant(u, c, s, g)
  BY <1>1, Zenon DEF Approve
<1>2. ASSUME NEW h \in Handler, ExchangeUpsert(h)
      PROVE  \E u \in User, c \in Client, s \in Scope, g \in Grant : UpsertGrant(u, c, s, g)
  <2>1. req[h].user \in User /\ req[h].client \in Client /\ req[h].scope \in Scope
    BY <1>2, LocalRequest DEF ExchangeUpsert, RequestOK
  <2> QED BY <1>2, <2>1, Zenon DEF ExchangeUpsert
<1>3. ASSUME NEW h \in Handler,
             \/ CreateAuthCode(h) \/ ExchangeCode(h) \/ ConsumeAuthCode(h) \/ Rotate(h) \/ Issue(h)
             \/ RevokeGrant(h) \/ RevokeDelete(h) \/ Abort(h)
      PROVE  UNCHANGED grants
  BY <1>3 DEF CreateAuthCode, ExchangeCode, ConsumeAuthCode, Rotate, RefreshTokens,
              ConsumeRefreshToken, Issue, CreateAccessToken, CreateRefreshToken,
              RevokeGrant, RevokeDelete, Abort
<1>4. ASSUME \/ ExpireCode \/ ExpireAccess \/ ExpireRefresh
             \/ \E done \in 1..3 : DeleteExpired(done)
             \/ UNCHANGED vars
      PROVE  UNCHANGED grants
  BY <1>4 DEF ExpireCode, ExpireAccess, ExpireRefresh, Lapse, DeleteExpired, vars
<1> QED BY <1>1, <1>2, <1>3, <1>4 DEF Next, Authorize, Redeem, Revoke

\* A revocation changes its grant alone, and only its revoked_at.
LEMMA Revoked ==
  ASSUME TypeInvariant, NEW h \in Handler, RevokeCommit(h)
  PROVE  /\ req[h].grant \in Rows(grants)
         /\ Rows(grants)' = Rows(grants)
         /\ \A g \in Rows(grants) :
              /\ grants'[g].user = grants[g].user /\ grants'[g].client = grants[g].client
              /\ grants'[g].scope = grants[g].scope
              /\ g # req[h].grant => grants'[g] = grants[g]
              /\ grants[g].revoked => grants'[g] = grants[g]
         /\ grants'[req[h].grant].revoked
<1>1. req[h].grant \in Rows(grants)
  BY LocalRequest DEF RevokeCommit, RequestOK
<1>2. grants \in [Grant -> GrantRow \cup {None}] /\ None \notin GrantRow
  BY NoneAssumption DEF TypeInvariant, TypeOK
<1>3. PICK w \in GrantRow :
        /\ w = [grants[req[h].grant] EXCEPT !.revoked = TRUE]
        /\ w.user = grants[req[h].grant].user /\ w.client = grants[req[h].grant].client
        /\ w.scope = grants[req[h].grant].scope /\ w.revoked
        /\ grants[req[h].grant].revoked => w = grants[req[h].grant]
  <2> DEFINE v == [grants[req[h].grant] EXCEPT !.revoked = TRUE]
  <2>1. grants[req[h].grant] \in GrantRow
    BY <1>1, <1>2 DEF Rows
  <2>2. /\ v \in GrantRow
        /\ v.user = grants[req[h].grant].user /\ v.client = grants[req[h].grant].client
        /\ v.scope = grants[req[h].grant].scope /\ v.revoked
    BY <2>1 DEF GrantRow
  <2>3. ASSUME grants[req[h].grant].revoked PROVE v = grants[req[h].grant]
    BY <2>1, <2>3 DEF GrantRow
  <2> QED BY <2>2, <2>3
<1>4. grants' = [grants EXCEPT ![req[h].grant] = w]
  BY <1>3 DEF RevokeCommit
<1> QED BY <1>1, <1>2, <1>3, <1>4 DEF Rows

\* A row keeps its user and client.
LEMMA GrantsKept ==
  ASSUME TypeInvariant, [Next]_vars, NEW g \in Rows(grants)
  PROVE  /\ g \in Rows(grants)'
         /\ grants'[g].user = grants[g].user /\ grants'[g].client = grants[g].client
<1>1. CASE UNCHANGED grants
  BY <1>1 DEF Rows
<1>2. ASSUME NEW u \in User, NEW c \in Client, NEW s \in Scope, NEW k \in Grant,
             UpsertGrant(u, c, s, k)
      PROVE  /\ g \in Rows(grants)'
             /\ grants'[g].user = grants[g].user /\ grants'[g].client = grants[g].client
  <2>1. g \in Grant
    BY DEF Rows, TypeInvariant, TypeOK
  <2>2. /\ grants'[k] = [user |-> u, client |-> c, scope |-> s, revoked |-> FALSE]
        /\ \A i \in Grant : i # k => grants'[i] = grants[i]
        /\ Rows(grants)' = Rows(grants) \cup {k}
        /\ k \in Rows(grants) => grants[k].user = u /\ grants[k].client = c
    BY <1>2, Upserted
  <2>3. CASE g = k
    BY <2>2, <2>3
  <2>4. CASE g # k
    BY <2>1, <2>2, <2>4
  <2> QED BY <2>3, <2>4
<1>3. ASSUME NEW h \in Handler, RevokeCommit(h)
      PROVE  /\ g \in Rows(grants)'
             /\ grants'[g].user = grants[g].user /\ grants'[g].client = grants[g].client
  BY <1>3, Revoked
<1> QED BY <1>1, <1>2, <1>3, GrantsStep

LEMMA OneLiveStep ==
  ASSUME TypeInvariant, OneLiveGrant, [Next]_vars
  PROVE  OneLiveGrant'
<1> SUFFICES ASSUME NEW u \in User, NEW c \in Client,
                    NEW g \in LiveGrants(u, c)', NEW h \in LiveGrants(u, c)'
             PROVE  g = h
  BY DEF OneLiveGrant
<1>0. grants \in [Grant -> GrantRow \cup {None}] /\ grants' \in [Grant -> GrantRow \cup {None}]
  BY TypeStep DEF TypeInvariant, TypeOK
<1>1. CASE UNCHANGED grants
  BY <1>1 DEF OneLiveGrant, LiveGrants, Rows
<1>2. ASSUME NEW v \in User, NEW d \in Client, NEW s \in Scope, NEW k \in Grant,
             UpsertGrant(v, d, s, k)
      PROVE  g = h
  <2>1. /\ grants'[k] = [user |-> v, client |-> d, scope |-> s, revoked |-> FALSE]
        /\ \A i \in Grant : i # k => grants'[i] = grants[i]
    BY <1>2, Upserted
  <2>2. \A i \in LiveGrants(u, c)' : i # k => i \in LiveGrants(u, c)
    BY <1>0, <2>1 DEF LiveGrants, Rows
  <2>3. k \in LiveGrants(u, c)' => u = v /\ c = d
    BY <2>1 DEF LiveGrants
  <2>4. \A i \in LiveGrants(v, d) : k \in LiveGrants(v, d)
    BY <1>2 DEF UpsertGrant
  <2> QED BY <2>2, <2>3, <2>4 DEF OneLiveGrant
<1>3. ASSUME NEW r \in Handler, RevokeCommit(r) PROVE g = h
  <2>1. ASSUME NEW i \in LiveGrants(u, c)' PROVE i \in LiveGrants(u, c)
    <3>1. i \in Rows(grants) /\ ~grants'[i].revoked
      BY <1>3, Revoked DEF LiveGrants
    <3> QED BY <1>3, <3>1, Revoked DEF LiveGrants
  <2> QED BY <2>1 DEF OneLiveGrant
<1> QED BY <1>1, <1>2, <1>3, GrantsStep

\* A user has at most one live grant for a client, whatever runs at once.
THEOREM OneLiveGrantAlways == Spec => []OneLiveGrant
<1>1. Init => OneLiveGrant
  BY DEF Init, OneLiveGrant, LiveGrants, Rows
<1> QED BY <1>1, OneLiveStep, TypeCorrect, PTL DEF Spec

\* A revoked grant never changes again.
THEOREM RevocationIsFinalAlways == Spec => RevocationIsFinal
<1>1. ASSUME TypeInvariant, [Next]_vars, NEW g \in Rows(grants), grants[g].revoked
      PROVE  grants'[g] = grants[g]
  <2>0. g \in Grant
    BY <1>1 DEF Rows, TypeInvariant, TypeOK
  <2>1. ASSUME NEW u \in User, NEW c \in Client, NEW s \in Scope, NEW k \in Grant,
               UpsertGrant(u, c, s, k)
        PROVE  grants'[g] = grants[g]
    BY <1>1, <2>0, <2>1, Upserted
  <2>2. ASSUME NEW h \in Handler, RevokeCommit(h) PROVE grants'[g] = grants[g]
    BY <1>1, <2>2, Revoked
  <2> QED BY <1>1, <2>1, <2>2, GrantsStep
<1>2. TypeInvariant /\ [Next]_vars =>
        [\A g \in Rows(grants) : grants[g].revoked => grants'[g] = grants[g]]_vars
  BY <1>1
<1> QED BY <1>2, TypeCorrect, PTL DEF Spec, RevocationIsFinal

-----------------------------------------------------------------------------
(* Consent *)

\* A request works with abilities the user approved.
RequestConsented(r) ==
  /\ r.pc \in {"code", "redeem", "replayed"} =>
       [user |-> r.user, client |-> r.client, scope |-> r.scope] \in consent
  /\ r.pc \in {"consume_refresh", "issue", "issue_refresh"} =>
       Granted(r.grant, r.scope) \in consent

\* Every row and every request carries an approved ability: what makes
\* TokensConsented inductive.
Consented ==
  /\ \A k \in Rows(codes) :
       [user |-> codes[k].user, client |-> codes[k].client, scope |-> codes[k].scope] \in consent
  /\ \A g \in Rows(grants) : Granted(g, grants[g].scope) \in consent
  /\ \A h \in Handler : RequestConsented(req[h])
  /\ TokensConsented

LEMMA GrantedKept ==
  ASSUME TypeInvariant, [Next]_vars, NEW g \in Rows(grants), NEW s
  PROVE  Granted(g, s)' = Granted(g, s)
BY GrantsKept DEF Granted

\* A grant that is written takes the scope it is written with.
LEMMA UpsertedConsented ==
  ASSUME TypeInvariant, Consented, NEW u \in User, NEW c \in Client, NEW s \in Scope,
         NEW k \in Grant, UpsertGrant(u, c, s, k), consent \subseteq consent',
         [user |-> u, client |-> c, scope |-> s] \in consent'
  PROVE  \A g \in Rows(grants)' : Granted(g, grants[g].scope)' \in consent'
<1> SUFFICES ASSUME NEW g \in Rows(grants)' PROVE Granted(g, grants[g].scope)' \in consent'
  OBVIOUS
<1>1. /\ grants'[k] = [user |-> u, client |-> c, scope |-> s, revoked |-> FALSE]
      /\ \A i \in Grant : i # k => grants'[i] = grants[i]
      /\ Rows(grants)' = Rows(grants) \cup {k}
  BY Upserted
<1>2. CASE g = k
  BY <1>1, <1>2 DEF Granted
<1>3. CASE g # k
  <2>1. g \in Rows(grants) /\ g \in Grant
    BY <1>1, <1>3 DEF Rows, TypeInvariant, TypeOK
  <2>2. Granted(g, grants[g].scope) \in consent
    BY <2>1 DEF Consented
  <2> QED BY <1>1, <1>3, <2>1, <2>2 DEF Granted
<1> QED BY <1>2, <1>3

\* What holds of the rows and requests that do not change.
LEMMA ConsentKept ==
  ASSUME TypeInvariant, TypeInvariant', Consented, [Next]_vars, consent \subseteq consent'
  PROVE  /\ \A h \in Handler : req'[h] = req[h] => RequestConsented(req[h])'
         /\ \A t \in Rows(access) :
              access'[t] = access[t] => (Granted(access[t].grant, access[t].scope) \in consent)'
         /\ \A g \in Rows(grants) :
              grants'[g].scope = grants[g].scope => (Granted(g, grants[g].scope) \in consent)'
<1>1. ASSUME NEW h \in Handler, req'[h] = req[h] PROVE RequestConsented(req[h])'
  <2>1. RequestConsented(req[h]) /\ RequestOK(req[h])
    BY DEF Consented, TypeInvariant
  <2>2. req[h].pc \in {"consume_refresh", "issue", "issue_refresh"} =>
          Granted(req[h].grant, req[h].scope)' = Granted(req[h].grant, req[h].scope)
    BY <1>1, <2>1, GrantsKept DEF RequestOK, Granted
  <2> QED BY <1>1, <2>1, <2>2 DEF RequestConsented
<1>2. ASSUME NEW t \in Rows(access), access'[t] = access[t]
      PROVE  (Granted(access[t].grant, access[t].scope) \in consent)'
  <2>1. access[t].grant \in Rows(grants) /\ Granted(access[t].grant, access[t].scope) \in consent
    BY DEF TypeInvariant, Consented, TokensConsented
  <2> QED BY <1>2, <2>1, GrantsKept DEF Granted
<1>3. ASSUME NEW g \in Rows(grants), grants'[g].scope = grants[g].scope
      PROVE  (Granted(g, grants[g].scope) \in consent)'
  <2>1. Granted(g, grants[g].scope) \in consent
    BY DEF Consented
  <2> QED BY <1>3, <2>1, GrantsKept DEF Granted
<1> QED BY <1>1, <1>2, <1>3

LEMMA RequestsConsented ==
  ASSUME TypeInvariant, TypeInvariant', Consented, [Next]_vars, consent \subseteq consent',
         NEW h \in Handler, NEW r \in Request, Set(h, r), RequestConsented(r)'
  PROVE  \A k \in Handler : RequestConsented(req[k])'
<1> SUFFICES ASSUME NEW k \in Handler PROVE RequestConsented(req[k])'
  OBVIOUS
<1>1. CASE k = h
  <2>1. req'[h] = r
    BY SetRequest
  <2> QED BY <1>1, <2>1 DEF RequestConsented
<1>2. CASE k # h
  <2>1. req'[k] = req[k]
    BY <1>2, SetRequest
  <2> QED BY <2>1, ConsentKept
<1> QED BY <1>1, <1>2

LEMMA NoRequestConsented == RequestConsented(NoRequest) /\ RequestConsented(NoRequest)'
BY DEF RequestConsented, NoRequest

LEMMA ConsentedInit == Init => Consented
BY DEF Init, Consented, RequestConsented, NoRequest, TokensConsented, Rows

LEMMA ConsentedStep ==
  ASSUME TypeInvariant, TypeInvariant', Consented, [Next]_vars
  PROVE  Consented'
<1> DEFINE C == \A k \in Rows(codes) :
                  [user |-> codes[k].user, client |-> codes[k].client,
                   scope |-> codes[k].scope] \in consent
           G == \A g \in Rows(grants) : Granted(g, grants[g].scope) \in consent
           R == \A h \in Handler : RequestConsented(req[h])
<1>def. C' /\ G' /\ R' /\ TokensConsented' => Consented'
  BY DEF Consented
<1>0. /\ codes \in [Code -> CodeRow \cup {None}] /\ access \in [Access -> AccessRow \cup {None}]
      /\ grants \in [Grant -> GrantRow \cup {None}]
      /\ \A h \in Handler : req[h] \in Request /\ RequestOK(req[h]) /\ RequestConsented(req[h])
  BY LocalRequest DEF TypeInvariant, TypeOK, Consented
<1>codes. ASSUME UNCHANGED codes, consent \subseteq consent' PROVE C'
  BY <1>codes DEF Consented, Rows
<1>grants. ASSUME UNCHANGED grants, consent \subseteq consent' PROVE G'
  BY <1>grants, ConsentKept DEF Rows
<1>access. ASSUME Rows(access)' \subseteq Rows(access),
                  \A t \in Rows(access)' : access'[t] = access[t],
                  consent \subseteq consent'
           PROVE  TokensConsented'
  BY <1>access, ConsentKept DEF TokensConsented
<1>same. UNCHANGED access =>
           Rows(access)' \subseteq Rows(access) /\ \A t \in Rows(access)' : access'[t] = access[t]
  BY DEF Rows
<1>1. ASSUME NEW h \in Handler, Approve(h) PROVE Consented'
  <2>1. PICK u \in User, c \in Client, s \in Scope, g \in Grant :
          /\ UpsertGrant(u, c, s, g)
          /\ consent' = consent \cup {[user |-> u, client |-> c, scope |-> s]}
          /\ Set(h, [NoRequest EXCEPT !.pc = "code", !.user = u, !.client = c, !.scope = s])
    BY <1>1, Zenon DEF Approve
  <2>2. PICK r \in Request :
          /\ r = [NoRequest EXCEPT !.pc = "code", !.user = u, !.client = c, !.scope = s]
          /\ r.pc = "code" /\ r.user = u /\ r.client = c /\ r.scope = s
    <3> DEFINE w == [NoRequest EXCEPT !.pc = "code", !.user = u, !.client = c, !.scope = s]
    <3>1. w \in Request /\ w.pc = "code" /\ w.user = u /\ w.client = c /\ w.scope = s
      BY DEF NoRequest, Request, PC
    <3> QED BY <3>1
  <2>3. consent \subseteq consent' /\ UNCHANGED <<codes, access>>
    BY <1>1, <2>1 DEF Approve
  <2>4. RequestConsented(r)' /\ Set(h, r)
    BY <2>1, <2>2 DEF RequestConsented
  <2>5. R'
    BY <2>3, <2>4, RequestsConsented
  <2>6. G'
    BY <2>1, <2>3, UpsertedConsented
  <2> QED BY <2>3, <2>5, <2>6, <1>codes, <1>access, <1>same, <1>def
<1>2. ASSUME NEW h \in Handler, CreateAuthCode(h) PROVE Consented'
  <2> DEFINE row == [user |-> req[h].user, client |-> req[h].client, scope |-> req[h].scope,
                     used |-> FALSE, age |-> "live"]
  <2>1. PICK k \in Code \ minted : codes' = [codes EXCEPT ![k] = row]
    BY <1>2, Zenon DEF CreateAuthCode
  <2>2. [user |-> row.user, client |-> row.client, scope |-> row.scope] \in consent
    BY <1>0, <1>2 DEF CreateAuthCode, RequestConsented
  <2>3. UNCHANGED <<grants, access, consent>> /\ Set(h, NoRequest)
    BY <1>2 DEF CreateAuthCode, Finish
  <2> HIDE DEF row
  <2>4. C'
    BY <1>0, <2>1, <2>2, <2>3 DEF Consented, Rows
  <2>5. R'
    BY <2>3, NoRequestOK, NoRequestConsented, RequestsConsented
  <2> QED BY <2>3, <2>4, <2>5, <1>grants, <1>access, <1>same, <1>def
<1>3. ASSUME NEW h \in Handler, NEW r \in Request, Set(h, r), RequestConsented(r),
             UNCHANGED <<grants, access, consent>>, C'
      PROVE  Consented'
  <2>1. RequestConsented(r)'
    BY <1>3 DEF RequestConsented, Granted
  <2>2. R'
    BY <1>3, <2>1, RequestsConsented
  <2> QED BY <1>3, <2>2, <1>grants, <1>access, <1>same, <1>def
<1>4. ASSUME NEW h \in Handler, ExchangeCode(h) PROVE Consented'
  <2>1. PICK k \in Rows(codes) :
          Set(h, [NoRequest EXCEPT !.pc = "consume_code", !.cred = k, !.seen = codes[k].used])
    BY <1>4, Zenon DEF ExchangeCode
  <2> DEFINE w == [NoRequest EXCEPT !.pc = "consume_code", !.cred = k, !.seen = codes[k].used]
  <2>2. codes[k] \in CodeRow /\ k \in Code
    BY <1>0 DEF Rows
  <2>3. w \in Request /\ RequestConsented(w)
    BY <2>2 DEF NoRequest, Request, PC, CodeRow, RequestConsented
  <2>4. \E r \in Request : Set(h, r) /\ RequestConsented(r)
    BY <2>1, <2>3
  <2> QED BY <1>4, <2>4, <1>3, <1>codes DEF ExchangeCode
<1>5. ASSUME NEW h \in Handler, ConsumeAuthCode(h) PROVE Consented'
  <2> DEFINE k == codes[req[h].cred]
             a == [req[h] EXCEPT !.user = k.user, !.client = k.client, !.scope = k.scope]
  <2>1. req[h].cred \in Code /\ k \in CodeRow /\ req[h] \in Request
    BY <1>0, <1>5 DEF ConsumeAuthCode, RequestOK
  <2>2. [user |-> k.user, client |-> k.client, scope |-> k.scope] \in consent
    BY <1>0, <1>5, <2>1 DEF Consented, Rows, ConsumeAuthCode
  <2>3. PICK w \in CodeRow : /\ w = [k EXCEPT !.used = TRUE]
                             /\ w.user = k.user /\ w.client = k.client /\ w.scope = k.scope
    <3> DEFINE v == [k EXCEPT !.used = TRUE]
    <3>1. v \in CodeRow /\ v.user = k.user /\ v.client = k.client /\ v.scope = k.scope
      BY <2>1 DEF CodeRow
    <3> QED BY <3>1
  <2>4. codes' = [codes EXCEPT ![req[h].cred] = w] /\ UNCHANGED <<grants, access, consent>>
    BY <1>5, <2>3 DEF ConsumeAuthCode
  <2>5. C'
    BY <1>0, <2>1, <2>2, <2>3, <2>4 DEF Consented, Rows
  <2>6. \E r \in Request : Set(h, r) /\ RequestConsented(r)
    <3>1. /\ [a EXCEPT !.pc = "replayed"] \in Request
          /\ RequestConsented([a EXCEPT !.pc = "replayed"])
          /\ [a EXCEPT !.pc = "redeem"] \in Request
          /\ RequestConsented([a EXCEPT !.pc = "redeem"])
      BY <2>1, <2>2 DEF Request, PC, RequestConsented, CodeRow
    <3> QED BY <1>5, <3>1, NoRequestConsented, NoRequestOK, Zenon
            DEF ConsumeAuthCode, CodeOutcome, Finish
  <2> QED BY <2>4, <2>5, <2>6, <1>3
<1>6. ASSUME NEW h \in Handler, ExchangeUpsert(h) PROVE Consented'
  <2>1. PICK g \in Grant :
          /\ UpsertGrant(req[h].user, req[h].client, req[h].scope, g)
          /\ Set(h, [req[h] EXCEPT !.grant = g, !.pc = IF @ = "redeem" THEN "issue" ELSE "revoke"])
    BY <1>6, Zenon DEF ExchangeUpsert
  <2>2. /\ req[h] \in Request /\ req[h].user \in User /\ req[h].client \in Client
        /\ req[h].scope \in Scope
        /\ [user |-> req[h].user, client |-> req[h].client, scope |-> req[h].scope] \in consent
    BY <1>0, <1>6 DEF ExchangeUpsert, RequestOK, RequestConsented
  <2>3. UNCHANGED <<codes, access, consent>>
    BY <1>6 DEF ExchangeUpsert
  <2>4. UpsertGrant(req[h].user, req[h].client, req[h].scope, g)
    BY <2>1
  <2>5. G'
    BY <2>2, <2>3, <2>4, UpsertedConsented
  <2>6. grants'[g] = [user |-> req[h].user, client |-> req[h].client, scope |-> req[h].scope,
                      revoked |-> FALSE]
    BY <2>2, <2>4, Upserted
  <2>7. PICK r \in Request :
          /\ r = [req[h] EXCEPT !.grant = g, !.pc = IF @ = "redeem" THEN "issue" ELSE "revoke"]
          /\ r.grant = g /\ r.scope = req[h].scope /\ r.pc \in {"issue", "revoke"}
    <3> DEFINE v == [req[h] EXCEPT !.grant = g, !.pc = IF @ = "redeem" THEN "issue" ELSE "revoke"]
    <3>1. v \in Request /\ v.grant = g /\ v.scope = req[h].scope /\ v.pc \in {"issue", "revoke"}
      BY <2>2 DEF Request, PC
    <3> QED BY <3>1
  <2>8. RequestConsented(r)' /\ Set(h, r)
    BY <2>1, <2>2, <2>3, <2>6, <2>7 DEF RequestConsented, Granted
  <2>9. R'
    BY <2>3, <2>8, RequestsConsented
  <2> QED BY <2>3, <2>5, <2>9, <1>codes, <1>access, <1>same, <1>def
<1>7. ASSUME NEW h \in Handler, RefreshTokens(h) PROVE Consented'
  <2>1. PICK t \in Rows(refresh) :
          Set(h, [NoRequest EXCEPT
                    !.pc = "consume_refresh", !.cred = t, !.seen = refresh[t].used,
                    !.grant = refresh[t].grant, !.scope = grants[refresh[t].grant].scope])
    BY <1>7, Zenon DEF RefreshTokens
  <2> DEFINE w == [NoRequest EXCEPT
                    !.pc = "consume_refresh", !.cred = t, !.seen = refresh[t].used,
                    !.grant = refresh[t].grant, !.scope = grants[refresh[t].grant].scope]
  <2>2. t \in Refresh /\ refresh[t] \in RefreshRow /\ refresh[t].grant \in Rows(grants)
    BY DEF Rows, TypeInvariant, TypeOK
  <2>3. grants[refresh[t].grant] \in GrantRow
    BY <1>0, <2>2 DEF Rows
  <2>4. /\ w \in Request /\ w.pc = "consume_refresh" /\ w.grant = refresh[t].grant
        /\ w.scope = grants[refresh[t].grant].scope
    BY <2>2, <2>3 DEF NoRequest, Request, PC, RefreshRow, GrantRow
  <2> HIDE DEF w
  <2>5. RequestConsented(w)
    BY <2>2, <2>4 DEF RequestConsented, Consented
  <2>6. \E r \in Request : Set(h, r) /\ RequestConsented(r)
    BY <2>1, <2>4, <2>5 DEF w
  <2> QED BY <1>7, <2>6, <1>3, <1>codes DEF RefreshTokens
<1>8. ASSUME NEW h \in Handler, ConsumeRefreshToken(h) PROVE Consented'
  <2>1. \E r \in Request : Set(h, r) /\ RequestConsented(r)
    <3>1. /\ [req[h] EXCEPT !.pc = "revoke"] \in Request
          /\ RequestConsented([req[h] EXCEPT !.pc = "revoke"])
          /\ [req[h] EXCEPT !.pc = "issue"] \in Request
          /\ RequestConsented([req[h] EXCEPT !.pc = "issue"])
      BY <1>0, <1>8 DEF ConsumeRefreshToken, Request, PC, RequestConsented
    <3> QED BY <1>8, <3>1, NoRequestConsented, NoRequestOK, Zenon DEF ConsumeRefreshToken, Finish
  <2> QED BY <1>8, <2>1, <1>3, <1>codes DEF ConsumeRefreshToken
<1>9. ASSUME NEW h \in Handler, CreateAccessToken(h) PROVE Consented'
  <2> DEFINE row == [grant |-> req[h].grant, scope |-> req[h].scope, age |-> "live"]
  <2>1. PICK t \in Access \ minted : access' = [access EXCEPT ![t] = row]
    BY <1>9, Zenon DEF CreateAccessToken
  <2>2. Granted(row.grant, row.scope) \in consent
    BY <1>0, <1>9 DEF CreateAccessToken, RequestConsented
  <2>3. UNCHANGED <<grants, codes, consent>>
    BY <1>9 DEF CreateAccessToken
  <2> HIDE DEF row
  <2>4. \A x \in Rows(access)' : Granted(access'[x].grant, access'[x].scope) \in consent
    BY <1>0, <2>1, <2>2 DEF Consented, TokensConsented, Rows
  <2>5. TokensConsented'
    BY <2>3, <2>4 DEF TokensConsented, Granted
  <2>6. PICK r \in Request : r = [req[h] EXCEPT !.pc = "issue_refresh"] /\ RequestConsented(r)
    <3> DEFINE v == [req[h] EXCEPT !.pc = "issue_refresh"]
    <3>1. req[h] \in Request /\ Granted(req[h].grant, req[h].scope) \in consent
      BY <1>0, <1>9 DEF CreateAccessToken, RequestConsented
    <3>2. /\ v \in Request /\ v.pc = "issue_refresh"
          /\ v.grant = req[h].grant /\ v.scope = req[h].scope
      BY <3>1 DEF Request, PC
    <3>3. RequestConsented(v)
      BY <3>1, <3>2 DEF RequestConsented
    <3> QED BY <3>2, <3>3
  <2>7. Set(h, r) /\ RequestConsented(r)'
    BY <1>9, <2>3, <2>6 DEF CreateAccessToken, RequestConsented, Granted
  <2>8. R'
    BY <2>3, <2>7, RequestsConsented
  <2> QED BY <2>3, <2>5, <2>8, <1>codes, <1>grants, <1>def
<1>10. ASSUME NEW h \in Handler, CreateRefreshToken(h) \/ Abort(h) PROVE Consented'
  <2>1. Set(h, NoRequest) /\ UNCHANGED <<grants, codes, access, consent>>
    BY <1>10 DEF CreateRefreshToken, Abort, Finish
  <2> QED BY <2>1, NoRequestConsented, NoRequestOK, <1>3, <1>codes
<1>11. ASSUME NEW h \in Handler, RevokeGrant(h) PROVE Consented'
  <2>1. PICK g \in Rows(grants) : Set(h, [NoRequest EXCEPT !.pc = "revoke", !.grant = g])
    BY <1>11, Zenon DEF RevokeGrant
  <2> DEFINE w == [NoRequest EXCEPT !.pc = "revoke", !.grant = g]
  <2>2. w \in Request /\ RequestConsented(w)
    BY <1>0 DEF NoRequest, Request, PC, RequestConsented, Rows
  <2>3. \E q \in Request : Set(h, q) /\ RequestConsented(q)
    BY <2>1, <2>2
  <2> QED BY <1>11, <2>3, <1>3, <1>codes DEF RevokeGrant
<1>12. ASSUME NEW h \in Handler, RevokeDelete(h) PROVE Consented'
  <2>1. PICK D \in SUBSET Access : D = TokensOf(access, req[h].grant)
    BY <1>0 DEF TokensOf, Rows
  <2> DEFINE w == [req[h] EXCEPT !.pc = "revoke_commit", !.dropped = D]
  <2>2. w \in Request /\ RequestConsented(w)
    BY <1>0, <2>1 DEF Request, PC, RequestConsented
  <2>3. \E q \in Request : Set(h, q) /\ RequestConsented(q)
    BY <1>12, <2>1, <2>2 DEF RevokeDelete
  <2> QED BY <1>12, <2>3, <1>3, <1>codes DEF RevokeDelete
<1>13. ASSUME NEW h \in Handler, RevokeCommit(h) PROVE Consented'
  <2>1. UNCHANGED <<codes, consent>> /\ Set(h, NoRequest)
    BY <1>13 DEF RevokeCommit, Finish
  <2>2. Rows(access)' \subseteq Rows(access) /\ \A t \in Rows(access)' : access'[t] = access[t]
    BY <1>0, <1>13 DEF RevokeCommit, Without, Rows
  <2>3. R'
    BY <2>1, NoRequestOK, NoRequestConsented, RequestsConsented
  <2>4. G'
    BY <1>13, <2>1, Revoked, ConsentKept
  <2> QED BY <2>1, <2>2, <2>3, <2>4, <1>codes, <1>access, <1>def
<1>keep. ASSUME UNCHANGED <<grants, req, consent>>, C', TokensConsented' PROVE Consented'
  <2>1. R'
    BY <1>keep, ConsentKept
  <2> QED BY <1>keep, <2>1, <1>grants, <1>def
<1>14. CASE ExpireCode
  <2>1. PICK k \in Rows(codes) : codes' = [codes EXCEPT ![k] = Older(codes[k])]
    BY <1>14 DEF ExpireCode
  <2>2. /\ Older(codes[k]).user = codes[k].user /\ Older(codes[k]).client = codes[k].client
        /\ Older(codes[k]).scope = codes[k].scope
    BY <1>0 DEF Rows, Older, CodeRow
  <2>3. UNCHANGED <<grants, req, consent, access>>
    BY <1>14 DEF ExpireCode, Lapse
  <2>4. C'
    BY <1>0, <2>1, <2>2, <2>3 DEF Consented, Rows
  <2> QED BY <2>3, <2>4, <1>keep, <1>access, <1>same
<1>15. CASE ExpireAccess
  <2>1. PICK k \in Rows(access) : access' = [access EXCEPT ![k] = Older(access[k])]
    BY <1>15 DEF ExpireAccess
  <2>2. Older(access[k]).grant = access[k].grant /\ Older(access[k]).scope = access[k].scope
    BY <1>0 DEF Rows, Older, AccessRow
  <2>3. UNCHANGED <<grants, req, consent, codes>>
    BY <1>15 DEF ExpireAccess, Lapse
  <2>4. \A x \in Rows(access)' : Granted(access'[x].grant, access'[x].scope) \in consent
    BY <1>0, <2>1, <2>2 DEF Consented, TokensConsented, Rows
  <2>5. TokensConsented'
    BY <2>3, <2>4 DEF TokensConsented, Granted
  <2> QED BY <2>3, <2>5, <1>keep, <1>codes
<1>16. CASE ExpireRefresh \/ UNCHANGED vars
  <2>1. UNCHANGED <<grants, req, consent, codes, access>>
    BY <1>16 DEF ExpireRefresh, Lapse, vars
  <2> QED BY <2>1, <1>keep, <1>codes, <1>access, <1>same
<1>17. ASSUME NEW done \in 1..3, DeleteExpired(done) PROVE Consented'
  <2>1. UNCHANGED <<grants, req, consent>>
    BY <1>17 DEF DeleteExpired
  <2>2. Rows(access)' \subseteq Rows(access) /\ \A t \in Rows(access)' : access'[t] = access[t]
    BY <1>0, <1>17 DEF DeleteExpired, Without, Rows
  <2>3. C'
    BY <1>0, <1>17 DEF DeleteExpired, Without, Rows, Consented
  <2> QED BY <2>1, <2>2, <2>3, <1>keep, <1>access
<1> QED
  BY <1>1, <1>2, <1>4, <1>5, <1>6, <1>7, <1>8, <1>9, <1>10, <1>11, <1>12, <1>13, <1>14, <1>15,
     <1>16, <1>17
     DEF Next, Authorize, Redeem, Rotate, Issue, Revoke

LEMMA ConsentedAlways == Spec => []Consented
BY ConsentedInit, ConsentedStep, TypeCorrect, PTL DEF Spec

\* No token ever carries a scope its user did not approve for its client.
THEOREM TokensConsentedAlways == Spec => []TokensConsented
<1>1. Consented => TokensConsented
  BY DEF Consented
<1> QED BY <1>1, ConsentedAlways, PTL

-----------------------------------------------------------------------------
(* Disconnecting *)

\* Once revoked, a grant lets nobody act.
LEMMA RevokedStops ==
  ASSUME TypeInvariant, TypeInvariant', OneLiveGrant, NEW h \in Handler, RevokeCommit(h),
         ~grants[req[h].grant].revoked, NEW a \in Acting'
  PROVE  <<a.user, a.client>> # <<grants[req[h].grant].user, grants[req[h].grant].client>>
<1> DEFINE g == req[h].grant
<1>1. PICK t \in Access : a \in GetAccessToken(t)'
  BY DEF Acting
<1>2. /\ access'[t] # None /\ ~grants'[access'[t].grant].revoked
      /\ a = Granted(access[t].grant, access[t].scope)'
  BY <1>1 DEF GetAccessToken
<1> DEFINE k == access'[t].grant
<1>3. /\ g \in Rows(grants) /\ grants'[g].revoked
      /\ \A i \in Rows(grants) : i # g => grants'[i] = grants[i]
  BY Revoked
<1>4. k \in Rows(grants)
  <2>1. t \in Rows(access)'
    BY <1>2 DEF Rows, TypeInvariant, TypeOK
  <2> QED BY <2>1, Revoked DEF TypeInvariant
<1>5. k # g /\ grants'[k] = grants[k] /\ ~grants[k].revoked
  BY <1>2, <1>3, <1>4
<1>6. /\ g \in LiveGrants(grants[g].user, grants[g].client)
      /\ k \in LiveGrants(grants[k].user, grants[k].client)
      /\ grants[g].user \in User /\ grants[g].client \in Client
  BY <1>3, <1>4, <1>5 DEF LiveGrants, Rows, TypeInvariant, TypeOK, GrantRow
<1>7. <<grants[k].user, grants[k].client>> # <<grants[g].user, grants[g].client>>
  BY <1>5, <1>6 DEF OneLiveGrant
<1>8. a.user = grants[k].user /\ a.client = grants[k].client
  BY <1>2, <1>5 DEF Granted
<1> QED BY <1>7, <1>8

\* Disconnecting a client stops it at once.
THEOREM DisconnectStopsClientAlways == Spec => DisconnectStopsClient
<1>1. TypeInvariant /\ TypeInvariant' /\ OneLiveGrant =>
        [\A h \in Handler :
           RevokeCommit(h) /\ ~grants[req[h].grant].revoked =>
             \A a \in Acting' :
               <<a.user, a.client>> # <<grants[req[h].grant].user, grants[req[h].grant].client>>]_vars
  BY RevokedStops
<1> QED BY <1>1, TypeCorrect, OneLiveGrantAlways, PTL DEF Spec, DisconnectStopsClient

-----------------------------------------------------------------------------
(* What connecting promises *)

\* A token that stays is of the grant it was issued under.
LEMMA AccessKept ==
  ASSUME TypeInvariant, [Next]_vars, NEW t \in Access, t \in minted, t \in Rows(access)'
  PROVE  t \in Rows(access) /\ access'[t].grant = access[t].grant
<1>0. access \in [Access -> AccessRow \cup {None}] /\ None \notin AccessRow
  BY NoneAssumption DEF TypeInvariant, TypeOK
<1>1. CASE access'[t] = access[t]
  BY <1>0, <1>1 DEF Rows, Without
<1>2. ASSUME NEW h \in Handler, CreateAccessToken(h) PROVE access'[t] = access[t]
  BY <1>0, <1>2 DEF CreateAccessToken
<1>3. ASSUME NEW h \in Handler, RevokeCommit(h) PROVE access'[t] = access[t]
  BY <1>0, <1>3 DEF RevokeCommit, Without, Rows
<1>4. CASE ExpireAccess
  <2>1. PICK k \in Rows(access) : access' = [access EXCEPT ![k] = Older(@)]
    BY <1>4 DEF ExpireAccess
  <2>2. access[k] \in AccessRow /\ k \in Access
    BY <1>0 DEF Rows
  <2>3. Older(access[k]).grant = access[k].grant
    BY <2>2 DEF Older, AccessRow
  <2> QED BY <1>0, <2>1, <2>2, <2>3 DEF Rows
<1>5. ASSUME NEW done \in 1..3, DeleteExpired(done) PROVE access'[t] = access[t]
  BY <1>0, <1>5 DEF DeleteExpired, Without, Rows
<1>6. ASSUME NEW h \in Handler,
             \/ Authorize(h) \/ Redeem(h) \/ Rotate(h) \/ CreateRefreshToken(h)
             \/ RevokeGrant(h) \/ RevokeDelete(h) \/ Abort(h)
      PROVE  access'[t] = access[t]
  BY <1>6 DEF Authorize, Approve, CreateAuthCode, Redeem, ExchangeCode, ConsumeAuthCode,
              ExchangeUpsert, Rotate, RefreshTokens, ConsumeRefreshToken, CreateRefreshToken,
              RevokeGrant, RevokeDelete, Abort
<1>7. CASE ExpireCode \/ ExpireRefresh \/ UNCHANGED vars
  BY <1>7, <1>1 DEF ExpireCode, ExpireRefresh, vars
<1> QED BY <1>1, <1>2, <1>3, <1>4, <1>5, <1>6, <1>7 DEF Next, Issue, Revoke

\* What a revocation is going to delete was issued under its grant.
DroppedOK ==
  \A h \in Handler :
    req[h].pc = "revoke_commit" =>
      \A t \in req[h].dropped :
        t \in minted /\ (t \in Rows(access) => access[t].grant = req[h].grant)

\* Only its first DELETE brings a request to the commit of a revocation.
LEMMA DropsStep ==
  ASSUME TypeInvariant, [Next]_vars, NEW h \in Handler, req'[h].pc = "revoke_commit"
  PROVE  req'[h] = req[h] \/ RevokeDelete(h)
<1>0. req \in [Handler -> Request]
  BY DEF TypeInvariant, TypeOK
<1>1. ASSUME NEW k \in Handler, NEW r, Set(k, r), r.pc # "revoke_commit"
      PROVE  req'[h] = req[h]
  BY <1>0, <1>1 DEF Set
<1>2. ASSUME NEW k \in Handler, Finish(k) PROVE req'[h] = req[h]
  BY <1>1, <1>2 DEF Finish, NoRequest
<1>3. ASSUME NEW k \in Handler, Approve(k) PROVE req'[h] = req[h]
  <2>1. PICK u \in User, c \in Client, s \in Scope :
          Set(k, [NoRequest EXCEPT !.pc = "code", !.user = u, !.client = c, !.scope = s])
    BY <1>3, Zenon DEF Approve
  <2> QED BY <2>1, <1>1 DEF NoRequest
<1>4. ASSUME NEW k \in Handler, ExchangeCode(k) PROVE req'[h] = req[h]
  <2>1. PICK c \in Rows(codes) :
          Set(k, [NoRequest EXCEPT !.pc = "consume_code", !.cred = c, !.seen = codes[c].used])
    BY <1>4, Zenon DEF ExchangeCode
  <2> QED BY <2>1, <1>1 DEF NoRequest
<1>5. ASSUME NEW k \in Handler, ConsumeAuthCode(k) PROVE req'[h] = req[h]
  <2> DEFINE a == [req[k] EXCEPT !.user = codes[req[k].cred].user,
                                 !.client = codes[req[k].cred].client,
                                 !.scope = codes[req[k].cred].scope]
  <2>1. \/ Finish(k)
        \/ Set(k, [a EXCEPT !.pc = "replayed"])
        \/ Set(k, [a EXCEPT !.pc = "redeem"])
    BY <1>5, Zenon DEF ConsumeAuthCode, CodeOutcome
  <2>2. [a EXCEPT !.pc = "replayed"].pc = "replayed" /\ [a EXCEPT !.pc = "redeem"].pc = "redeem"
    BY <1>0 DEF Request
  <2> HIDE DEF a
  <2> QED BY <2>1, <2>2, <1>1, <1>2
<1>6. ASSUME NEW k \in Handler, ExchangeUpsert(k) PROVE req'[h] = req[h]
  <2>1. PICK g \in Grant :
          Set(k, [req[k] EXCEPT !.grant = g, !.pc = IF @ = "redeem" THEN "issue" ELSE "revoke"])
    BY <1>6, Zenon DEF ExchangeUpsert
  <2> QED BY <2>1, <1>0, <1>1 DEF Request
<1>7. ASSUME NEW k \in Handler, RefreshTokens(k) PROVE req'[h] = req[h]
  <2>1. PICK t \in Rows(refresh) :
          Set(k, [NoRequest EXCEPT
                    !.pc = "consume_refresh", !.cred = t, !.seen = refresh[t].used,
                    !.grant = refresh[t].grant, !.scope = grants[refresh[t].grant].scope])
    BY <1>7, Zenon DEF RefreshTokens
  <2> QED BY <2>1, <1>1 DEF NoRequest
<1>8. ASSUME NEW k \in Handler, ConsumeRefreshToken(k) PROVE req'[h] = req[h]
  <2>1. \/ Finish(k)
        \/ Set(k, [req[k] EXCEPT !.pc = "revoke"])
        \/ Set(k, [req[k] EXCEPT !.pc = "issue"])
    BY <1>8, Zenon DEF ConsumeRefreshToken
  <2> QED BY <2>1, <1>0, <1>1, <1>2 DEF Request
<1>9. ASSUME NEW k \in Handler, CreateAccessToken(k) PROVE req'[h] = req[h]
  BY <1>9, <1>0, <1>1 DEF CreateAccessToken, Request
<1>10. ASSUME NEW k \in Handler, RevokeGrant(k) PROVE req'[h] = req[h]
  <2>1. PICK g \in Rows(grants) : Set(k, [NoRequest EXCEPT !.pc = "revoke", !.grant = g])
    BY <1>10, Zenon DEF RevokeGrant
  <2> QED BY <2>1, <1>1 DEF NoRequest
<1>11. ASSUME NEW k \in Handler, RevokeDelete(k), k # h PROVE req'[h] = req[h]
  BY <1>11, <1>0 DEF RevokeDelete, Set
<1>12. ASSUME NEW k \in Handler, CreateAuthCode(k) \/ CreateRefreshToken(k) \/ RevokeCommit(k) \/ Abort(k)
       PROVE  req'[h] = req[h]
  BY <1>12, <1>2 DEF CreateAuthCode, CreateRefreshToken, RevokeCommit, Abort
<1>13. ASSUME \/ ExpireCode \/ ExpireAccess \/ ExpireRefresh
              \/ \E done \in 1..3 : DeleteExpired(done)
              \/ UNCHANGED vars
       PROVE  req'[h] = req[h]
  BY <1>13 DEF ExpireCode, ExpireAccess, ExpireRefresh, Lapse, DeleteExpired, vars
<1> QED
  BY <1>3, <1>4, <1>5, <1>6, <1>7, <1>8, <1>9, <1>10, <1>11, <1>12, <1>13
     DEF Next, Authorize, Redeem, Rotate, Issue, Revoke

LEMMA MintedKept == ASSUME [Next]_vars PROVE minted \subseteq minted'
<1>1. ASSUME NEW h \in Handler,
             Authorize(h) \/ Redeem(h) \/ Rotate(h) \/ Issue(h) \/ Revoke(h) \/ Abort(h)
      PROVE  minted \subseteq minted'
  BY <1>1 DEF Authorize, Approve, CreateAuthCode, Redeem, ExchangeCode, ConsumeAuthCode,
              ExchangeUpsert, Rotate, RefreshTokens, ConsumeRefreshToken, Issue, CreateAccessToken,
              CreateRefreshToken, Revoke, RevokeGrant, RevokeDelete, RevokeCommit, Abort
<1> QED BY <1>1 DEF Next, ExpireCode, ExpireAccess, ExpireRefresh, Lapse, DeleteExpired, vars

LEMMA DroppedStep == ASSUME TypeInvariant, DroppedOK, [Next]_vars PROVE DroppedOK'
<1> SUFFICES ASSUME NEW h \in Handler, req'[h].pc = "revoke_commit", NEW t \in req'[h].dropped
             PROVE  /\ t \in minted'
                    /\ t \in Rows(access)' => access'[t].grant = req'[h].grant
  BY DEF DroppedOK
<1>0. req[h] \in Request /\ req \in [Handler -> Request] /\ Rows(access) \subseteq minted
  BY DEF TypeInvariant, TypeOK
<1>1. CASE req'[h] = req[h]
  <2>1. t \in minted /\ (t \in Rows(access) => access[t].grant = req[h].grant)
    BY <1>1 DEF DroppedOK
  <2>2. t \in Access
    BY <1>0, <1>1 DEF Request
  <2> QED BY <1>1, <2>1, <2>2, AccessKept, MintedKept
<1>2. CASE RevokeDelete(h)
  <2>1. /\ req'[h].dropped = TokensOf(access, req[h].grant)
        /\ req'[h].grant = req[h].grant
    BY <1>0, <1>2 DEF RevokeDelete, Set, Request
  <2>2. UNCHANGED <<access, minted>>
    BY <1>2 DEF RevokeDelete
  <2> QED BY <1>0, <2>1, <2>2 DEF TokensOf, Rows
<1> QED BY <1>1, <1>2, DropsStep

LEMMA DroppedAlways == Spec => []DroppedOK
<1>1. Init => DroppedOK
  BY DEF Init, DroppedOK, NoRequest
<1> QED BY <1>1, DroppedStep, TypeCorrect, PTL DEF Spec

\* Outside the commit of a revocation a grant stays revoked or not.
LEMMA RevokedKept ==
  ASSUME TypeInvariant, [Next]_vars, \A h \in Handler : ~RevokeCommit(h), NEW g \in Rows(grants)
  PROVE  grants'[g].revoked = grants[g].revoked
<1>0. g \in Grant /\ grants[g] \in GrantRow
  BY DEF Rows, TypeInvariant, TypeOK
<1>1. ASSUME NEW u \in User, NEW c \in Client, NEW s \in Scope, NEW k \in Grant,
             UpsertGrant(u, c, s, k)
      PROVE  grants'[g].revoked = grants[g].revoked
  <2>1. /\ grants'[k] = [user |-> u, client |-> c, scope |-> s, revoked |-> FALSE]
        /\ \A i \in Grant : i # k => grants'[i] = grants[i]
        /\ k \in Rows(grants) => ~grants[k].revoked
    BY <1>1, Upserted
  <2>2. CASE g = k
    <3>1. grants[g].revoked = FALSE
      BY <1>0, <2>1, <2>2 DEF GrantRow
    <3>2. grants'[g].revoked = FALSE
      BY <2>1, <2>2
    <3> QED BY <3>1, <3>2
  <2>3. CASE g # k
    BY <1>0, <2>1, <2>3
  <2> QED BY <2>2, <2>3
<1> QED BY <1>1, GrantsStep

\* There a token that is not touched lets its bearer do what it did.
LEMMA BearerKept ==
  ASSUME TypeInvariant, [Next]_vars, \A h \in Handler : ~RevokeCommit(h),
         NEW t \in Access, access'[t] = access[t]
  PROVE  GetAccessToken(t)' = GetAccessToken(t)
<1>1. CASE access[t] = None
  BY <1>1 DEF GetAccessToken
<1>2. CASE access[t] # None
  <2>1. t \in Rows(access)
    BY <1>2 DEF Rows, TypeInvariant, TypeOK
  <2>2. access[t].grant \in Rows(grants)
    BY <2>1 DEF TypeInvariant
  <2>3. /\ grants'[access[t].grant].revoked = grants[access[t].grant].revoked
        /\ Granted(access[t].grant, access[t].scope)' = Granted(access[t].grant, access[t].scope)
    <3>1. grants'[access[t].grant].revoked = grants[access[t].grant].revoked
      BY <2>2, RevokedKept
    <3>2. /\ grants'[access[t].grant].user = grants[access[t].grant].user
          /\ grants'[access[t].grant].client = grants[access[t].grant].client
      BY <2>2, GrantsKept
    <3> QED BY <3>1, <3>2 DEF Granted
  <2> QED BY <2>3 DEF GetAccessToken
<1> QED BY <1>1, <1>2

\* What clients can do without token t.
ActingBut(t) == UNION {GetAccessToken(s) : s \in Access \ {t}}

LEMMA ActingSplit == \A t \in Access : Acting = ActingBut(t) \cup GetAccessToken(t)
BY DEF Acting, ActingBut

\* A step that touches one token adds and takes away what that token allows.
LEMMA OneBearer ==
  ASSUME TypeInvariant, [Next]_vars, \A h \in Handler : ~RevokeCommit(h),
         NEW t \in Access, \A s \in Access : s # t => access'[s] = access[s]
  PROVE  Acting' = ActingBut(t) \cup GetAccessToken(t)'
<1>1. \A s \in Access \ {t} : GetAccessToken(s)' = GetAccessToken(s)
  BY BearerKept
<1>2. ActingBut(t)' = ActingBut(t)
  BY <1>1 DEF ActingBut
<1> QED BY <1>2 DEF Acting, ActingBut

LEMMA ActingKept ==
  ASSUME TypeInvariant, [Next]_vars, \A h \in Handler : ~RevokeCommit(h),
         \A t \in Access : GetAccessToken(t)' = GetAccessToken(t)
  PROVE  UNCHANGED Acting
BY DEF Acting

LEMMA BearerAbility ==
  ASSUME TypeInvariant, NEW t \in Access, NEW a \in GetAccessToken(t)
  PROVE  a \in Ability
<1>1. /\ t \in Rows(access) /\ a = Granted(access[t].grant, access[t].scope)
      /\ access[t] \in AccessRow
  BY DEF GetAccessToken, Rows, TypeInvariant, TypeOK
<1>2. access[t].grant \in Rows(grants) /\ grants[access[t].grant] \in GrantRow
  BY <1>1 DEF TypeInvariant, TypeOK, Rows
<1> QED BY <1>1, <1>2 DEF Granted, Ability, GrantRow, AccessRow

\* Approving writes the scope of the grant; a token carries its own.
LEMMA ApprovePromise ==
  ASSUME TypeInvariant, [Next]_vars, \A k \in Handler : ~RevokeCommit(k),
         NEW h \in Handler, Approve(h)
  PROVE  Abstract!Next
<1>1. PICK u \in User, c \in Client, s \in Scope :
        consent' = consent \cup {[user |-> u, client |-> c, scope |-> s]}
  BY Zenon DEF Approve
<1>2. [user |-> u, client |-> c, scope |-> s] \in Abstract!Ability
  BY DEF Abstract!Ability
<1>3. UNCHANGED Acting
  <2>1. UNCHANGED access
    BY DEF Approve
  <2> QED BY <2>1, BearerKept, ActingKept
<1>4. Abstract!Approve([user |-> u, client |-> c, scope |-> s])
  BY <1>1, <1>3 DEF Abstract!Approve
<1> QED BY <1>2, <1>4, Zenon DEF Abstract!Next

\* Issuing lets the client act as was approved, unless the grant is revoked by then.
LEMMA IssuePromise ==
  ASSUME TypeInvariant, TypeInvariant', Consented, [Next]_vars, \A k \in Handler : ~RevokeCommit(k),
         NEW h \in Handler, CreateAccessToken(h)
  PROVE  [Abstract!Next]_<<consent, Acting>>
<1>0. access \in [Access -> AccessRow \cup {None}] /\ Rows(access) \subseteq minted
  BY DEF TypeInvariant, TypeOK
<1>r. PICK row : row = [grant |-> req[h].grant, scope |-> req[h].scope, age |-> "live"]
  OBVIOUS
<1>1. PICK t \in Access \ minted : access' = [access EXCEPT ![t] = row]
  BY <1>r DEF CreateAccessToken
<1>2. access'[t] = row /\ \A s \in Access : s # t => access'[s] = access[s]
  BY <1>0, <1>1
<1>3. GetAccessToken(t) = {}
  BY <1>0, <1>1 DEF GetAccessToken, Rows
<1>4. Acting = ActingBut(t) /\ Acting' = ActingBut(t) \cup GetAccessToken(t)'
  <2>1. Acting = ActingBut(t) \cup GetAccessToken(t)
    BY ActingSplit
  <2>2. Acting' = ActingBut(t) \cup GetAccessToken(t)'
    BY <1>2, OneBearer
  <2> QED BY <1>3, <2>1, <2>2
<1>5. UNCHANGED <<grants, consent>>
  BY DEF CreateAccessToken
<1>6. Granted(req[h].grant, req[h].scope) \in consent
  BY DEF CreateAccessToken, Consented, RequestConsented
<1>7. \/ GetAccessToken(t)' = {}
      \/ GetAccessToken(t)' = {Granted(req[h].grant, req[h].scope)}
  BY <1>2, <1>r, <1>5 DEF GetAccessToken, Granted
<1>8. CASE GetAccessToken(t)' = {}
  BY <1>4, <1>5, <1>8
<1>9. CASE GetAccessToken(t)' = {Granted(req[h].grant, req[h].scope)}
  <2>1. PICK a \in consent : GetAccessToken(t)' = {a}
    BY <1>6, <1>9
  <2>2. a \in Abstract!Ability
    BY DEF TypeInvariant, TypeOK, Ability, Abstract!Ability
  <2>3. Abstract!Act(a)
    BY <2>1, <1>4, <1>5 DEF Abstract!Act
  <2> QED BY <2>2, <2>3, Zenon DEF Abstract!Next
<1> QED BY <1>7, <1>8, <1>9

\* A token that expires takes its ability away, unless another one carries it.
LEMMA ExpirePromise ==
  ASSUME TypeInvariant, [Next]_vars, \A k \in Handler : ~RevokeCommit(k), ExpireAccess
  PROVE  [Abstract!Next]_<<consent, Acting>>
<1>0. access \in [Access -> AccessRow \cup {None}]
  BY DEF TypeInvariant, TypeOK
<1>1. PICK t \in Rows(access) : access' = [access EXCEPT ![t] = Older(@)]
  BY DEF ExpireAccess
<1>2. t \in Access /\ access[t] \in AccessRow
  BY <1>0 DEF Rows
<1>3. access'[t].age # "live"
  <2>1. Older(access[t]).age # "live"
    BY <1>2 DEF Older, AccessRow
  <2> QED BY <1>0, <1>1, <1>2, <2>1
<1>4. GetAccessToken(t)' = {}
  BY <1>3 DEF GetAccessToken
<1>5. Acting' = ActingBut(t) /\ Acting = ActingBut(t) \cup GetAccessToken(t)
  <2>1. \A s \in Access : s # t => access'[s] = access[s]
    BY <1>0, <1>1, <1>2
  <2>2. Acting' = ActingBut(t) \cup GetAccessToken(t)'
    BY <1>2, <2>1, OneBearer
  <2> QED BY <1>2, <1>4, <2>2, ActingSplit
<1>6. UNCHANGED consent
  BY DEF ExpireAccess, Lapse
<1>7. GetAccessToken(t) = {} \/ \E a : GetAccessToken(t) = {a}
  BY DEF GetAccessToken
<1>8. CASE GetAccessToken(t) \subseteq ActingBut(t)
  BY <1>5, <1>6, <1>8
<1>9. CASE ~(GetAccessToken(t) \subseteq ActingBut(t))
  <2>1. PICK a : GetAccessToken(t) = {a} /\ a \notin ActingBut(t)
    BY <1>7, <1>9
  <2>2. a \in Abstract!Ability
    BY <1>2, <2>1, BearerAbility DEF Ability, Abstract!Ability
  <2>3. Abstract!Lapse(a)
    BY <2>1, <1>5, <1>6 DEF Abstract!Lapse
  <2> QED BY <2>2, <2>3, Zenon DEF Abstract!Next
<1> QED BY <1>8, <1>9

\* Nobody acts with the rows housekeeping deletes.
LEMMA HousekeepingPromise ==
  ASSUME TypeInvariant, [Next]_vars, \A k \in Handler : ~RevokeCommit(k),
         NEW done \in 1..3, DeleteExpired(done)
  PROVE  UNCHANGED <<consent, Acting>>
<1>0. access \in [Access -> AccessRow \cup {None}]
  BY DEF TypeInvariant, TypeOK
<1>1. ASSUME NEW t \in Access PROVE GetAccessToken(t)' = GetAccessToken(t)
  <2>1. CASE access'[t] = access[t]
    BY <2>1, BearerKept
  <2>2. CASE access'[t] # access[t]
    <3>1. t \in Stale(access) /\ access'[t] = None
      BY <1>0, <2>2 DEF DeleteExpired, Without
    <3>2. GetAccessToken(t)' = {} /\ GetAccessToken(t) = {}
      BY <3>1 DEF GetAccessToken, Stale
    <3> QED BY <3>2
  <2> QED BY <2>1, <2>2
<1>2. UNCHANGED consent
  BY DEF DeleteExpired
<1> QED BY <1>1, <1>2, ActingKept

\* At the commit of a revocation: what its grant let clients do ends, and that is all
\* they could do for its user, or nothing if it was revoked already.
LEMMA RevokePromise ==
  ASSUME TypeInvariant, TypeInvariant', OneLiveGrant, DroppedOK, [Next]_vars,
         NEW h \in Handler, RevokeCommit(h)
  PROVE  [Abstract!Next]_<<consent, Acting>>
<1> DEFINE g == req[h].grant
<1>0. access \in [Access -> AccessRow \cup {None}] /\ UNCHANGED consent
  BY DEF TypeInvariant, TypeOK, RevokeCommit
<1>1. /\ g \in Rows(grants) /\ grants'[g].revoked
      /\ \A i \in Rows(grants) : i # g => grants'[i] = grants[i]
      /\ grants[g].revoked => grants'[g] = grants[g]
  BY Revoked
<1>2. \A t \in Access : access'[t] = IF t \in req[h].dropped THEN None ELSE access[t]
  BY <1>0 DEF RevokeCommit, Without
<1>3. \A t \in req[h].dropped : t \in Rows(access) => access[t].grant = g
  BY DEF DroppedOK, RevokeCommit
<1>4. ASSUME NEW t \in Access, access[t] # None, access[t].grant # g
      PROVE  GetAccessToken(t)' = GetAccessToken(t)
  <2>1. t \in Rows(access)
    BY <1>0, <1>4 DEF Rows
  <2>2. access'[t] = access[t] /\ access[t].grant \in Rows(grants)
    BY <1>2, <1>3, <1>4, <2>1 DEF TypeInvariant
  <2>3. grants'[access[t].grant] = grants[access[t].grant]
    BY <1>1, <1>4, <2>2
  <2> QED BY <2>2, <2>3 DEF GetAccessToken, Granted
<1>5. ASSUME NEW t \in Access, access[t] = None \/ access[t].grant = g
      PROVE  GetAccessToken(t)' = {}
  <2>1. access'[t] = None \/ (access[t] # None /\ access'[t] = access[t] /\ access[t].grant = g)
    BY <1>2, <1>5
  <2> QED BY <1>1, <2>1 DEF GetAccessToken
<1>6. CASE grants[g].revoked
  <2>1. ASSUME NEW t \in Access PROVE GetAccessToken(t)' = GetAccessToken(t)
    <3>1. CASE access[t] # None /\ access[t].grant # g
      BY <3>1, <1>4
    <3>2. CASE access[t] = None \/ access[t].grant = g
      <4>1. GetAccessToken(t) = {}
        BY <1>6, <3>2 DEF GetAccessToken
      <4> QED BY <3>2, <4>1, <1>5
    <3> QED BY <3>1, <3>2
  <2>2. UNCHANGED Acting
    BY <2>1 DEF Acting
  <2> QED BY <1>0, <2>2
<1>7. CASE ~grants[g].revoked
  <2>1. PICK u \in User, c \in Client : u = grants[g].user /\ c = grants[g].client
    BY <1>1 DEF Rows, TypeInvariant, TypeOK, GrantRow
  <2>2. ASSUME NEW a \in Acting' PROVE a \in Acting /\ <<a.user, a.client>> # <<u, c>>
    <3>1. PICK t \in Access : a \in GetAccessToken(t)'
      BY DEF Acting
    <3>2. GetAccessToken(t)' = GetAccessToken(t)
      BY <3>1, <1>4, <1>5
    <3>3. <<a.user, a.client>> # <<grants[req[h].grant].user, grants[req[h].grant].client>>
      BY <1>7, RevokedStops
    <3> QED BY <2>1, <3>1, <3>2, <3>3 DEF Acting
  <2>3. ASSUME NEW a \in Acting, <<a.user, a.client>> # <<u, c>> PROVE a \in Acting'
    <3>1. PICK t \in Access : a \in GetAccessToken(t)
      BY DEF Acting
    <3>2. access[t] # None /\ a = Granted(access[t].grant, access[t].scope)
      BY <3>1 DEF GetAccessToken
    <3>3. access[t].grant # g
      BY <2>1, <2>3, <3>2 DEF Granted
    <3>4. GetAccessToken(t)' = GetAccessToken(t)
      BY <3>2, <3>3, <1>4
    <3> QED BY <3>1, <3>4 DEF Acting
  <2>4. Abstract!Disconnect(u, c)
    BY <1>0, <2>2, <2>3 DEF Abstract!Disconnect
  <2> QED BY <2>4, Zenon DEF Abstract!Next
<1> QED BY <1>6, <1>7

LEMMA ConnectionsStep ==
  ASSUME TypeInvariant, TypeInvariant', Consented, OneLiveGrant, DroppedOK, [Next]_vars
  PROVE  [Abstract!Next]_<<consent, Acting>>
<1>1. CASE \E h \in Handler : RevokeCommit(h)
  BY <1>1, RevokePromise
<1> SUFFICES ASSUME \A k \in Handler : ~RevokeCommit(k)
             PROVE  [Abstract!Next]_<<consent, Acting>>
  BY <1>1
<1>2. ASSUME NEW h \in Handler, Approve(h) PROVE [Abstract!Next]_<<consent, Acting>>
  BY <1>2, ApprovePromise
<1>3. ASSUME NEW h \in Handler, CreateAccessToken(h) PROVE [Abstract!Next]_<<consent, Acting>>
  BY <1>3, IssuePromise
<1>4. CASE ExpireAccess
  BY <1>4, ExpirePromise
<1>5. ASSUME NEW done \in 1..3, DeleteExpired(done) PROVE [Abstract!Next]_<<consent, Acting>>
  BY <1>5, HousekeepingPromise
<1>6. ASSUME UNCHANGED <<access, consent>> PROVE [Abstract!Next]_<<consent, Acting>>
  BY <1>6, BearerKept, ActingKept
<1>7. ASSUME NEW h \in Handler,
             \/ CreateAuthCode(h) \/ Redeem(h) \/ Rotate(h) \/ CreateRefreshToken(h)
             \/ RevokeGrant(h) \/ RevokeDelete(h) \/ Abort(h)
      PROVE  UNCHANGED <<access, consent>>
  BY <1>7 DEF CreateAuthCode, Redeem, ExchangeCode, ConsumeAuthCode,
              ExchangeUpsert, Rotate, RefreshTokens, ConsumeRefreshToken, CreateRefreshToken,
              RevokeGrant, RevokeDelete, Abort
<1>8. ExpireCode \/ ExpireRefresh \/ UNCHANGED vars => UNCHANGED <<access, consent>>
  BY DEF ExpireCode, ExpireRefresh, Lapse, vars
<1> QED
  BY <1>2, <1>3, <1>4, <1>5, <1>6, <1>7, <1>8 DEF Next, Authorize, Issue, Revoke

\* Whatever requests run at once, for any number of users and clients, the clients act
\* as Connections says: OAuthGrants implements it, `acting` being what the bearers of
\* its tokens may do.
THEOREM ConnectionsImplemented == Spec => ConnectionsKept
<1>1. Init => Abstract!Init
  BY DEF Init, Abstract!Init, Acting, GetAccessToken
<1>2. /\ TypeInvariant /\ TypeInvariant' /\ Consented /\ OneLiveGrant /\ DroppedOK /\ [Next]_vars
      => [Abstract!Next]_<<consent, Acting>>
  BY ConnectionsStep
<1> QED BY <1>1, <1>2, TypeCorrect, ConsentedAlways, OneLiveGrantAlways, DroppedAlways, PTL
        DEF Spec, ConnectionsKept, Abstract!Spec

-----------------------------------------------------------------------------
(* One request at a time *)

Lone == \A a, b \in Handler : a = b

\* What a lone request saw of a credential is still so when it marks it used.
SeenCurrent ==
  \A h \in Handler :
    /\ req[h].pc = "consume_code" /\ req[h].cred \in Rows(codes) =>
         req[h].seen = codes[req[h].cred].used
    /\ req[h].pc = "consume_refresh" /\ req[h].cred \in Rows(refresh) =>
         req[h].seen = refresh[req[h].cred].used

LEMMA SeenCurrentStep ==
  ASSUME Lone, TypeInvariant, TypeInvariant', SeenCurrent, [Next]_vars
  PROVE  SeenCurrent'
<1>0. /\ codes \in [Code -> CodeRow \cup {None}] /\ refresh \in [Refresh -> RefreshRow \cup {None}]
      /\ req \in [Handler -> Request] /\ req' \in [Handler -> Request]
  BY DEF TypeInvariant, TypeOK
<1>1. ASSUME NEW h \in Handler, req'[h].pc \notin {"consume_code", "consume_refresh"}
      PROVE  SeenCurrent'
  BY <1>1 DEF Lone, SeenCurrent
<1>2. ASSUME NEW h \in Handler, ExchangeCode(h) PROVE SeenCurrent'
  <2>1. PICK k \in Rows(codes) :
          Set(h, [NoRequest EXCEPT !.pc = "consume_code", !.cred = k, !.seen = codes[k].used])
    BY <1>2, Zenon DEF ExchangeCode
  <2>2. req'[h].pc = "consume_code" /\ req'[h].cred = k /\ req'[h].seen = codes[k].used
    BY <1>0, <2>1 DEF Set, NoRequest
  <2>3. UNCHANGED codes
    BY <1>2 DEF ExchangeCode
  <2> QED BY <2>2, <2>3 DEF Lone, SeenCurrent
<1>3. ASSUME NEW h \in Handler, RefreshTokens(h) PROVE SeenCurrent'
  <2>1. PICK t \in Rows(refresh) :
          Set(h, [NoRequest EXCEPT
                    !.pc = "consume_refresh", !.cred = t, !.seen = refresh[t].used,
                    !.grant = refresh[t].grant, !.scope = grants[refresh[t].grant].scope])
    BY <1>3, Zenon DEF RefreshTokens
  <2>2. req'[h].pc = "consume_refresh" /\ req'[h].cred = t /\ req'[h].seen = refresh[t].used
    BY <1>0, <2>1 DEF Set, NoRequest
  <2>3. UNCHANGED refresh
    BY <1>3 DEF RefreshTokens
  <2> QED BY <2>2, <2>3 DEF Lone, SeenCurrent
<1>4. ASSUME NEW h \in Handler, Set(h, NoRequest) PROVE SeenCurrent'
  <2>1. req'[h].pc = "idle"
    BY <1>0, <1>4 DEF Set, NoRequest
  <2> QED BY <2>1, <1>1
<1>5. ASSUME NEW h \in Handler, Approve(h) PROVE SeenCurrent'
  <2>1. PICK u \in User, c \in Client, s \in Scope :
          Set(h, [NoRequest EXCEPT !.pc = "code", !.user = u, !.client = c, !.scope = s])
    BY <1>5, Zenon DEF Approve
  <2>2. req'[h].pc = "code"
    BY <1>0, <2>1 DEF Set, NoRequest
  <2> QED BY <2>2, <1>1
<1>6. ASSUME NEW h \in Handler, NEW p \in {"replayed", "redeem", "issue", "revoke", "issue_refresh",
                                           "revoke_commit"},
             req'[h].pc = p
      PROVE  SeenCurrent'
  BY <1>6, <1>1
<1>7. ASSUME NEW h \in Handler, ConsumeAuthCode(h) PROVE SeenCurrent'
  <2> DEFINE a == [req[h] EXCEPT !.user = codes[req[h].cred].user,
                                 !.client = codes[req[h].cred].client,
                                 !.scope = codes[req[h].cred].scope]
  <2>1. \/ Set(h, [a EXCEPT !.pc = "replayed"]) \/ Set(h, NoRequest)
        \/ Set(h, [a EXCEPT !.pc = "redeem"])
    BY <1>7, Zenon DEF ConsumeAuthCode, CodeOutcome, Finish
  <2>2. [a EXCEPT !.pc = "replayed"].pc = "replayed" /\ [a EXCEPT !.pc = "redeem"].pc = "redeem"
    BY <1>0 DEF Request
  <2> QED BY <1>0, <2>1, <2>2, <1>4, <1>6 DEF Set
<1>8. ASSUME NEW h \in Handler, ConsumeRefreshToken(h) PROVE SeenCurrent'
  <2>1. \/ Set(h, [req[h] EXCEPT !.pc = "revoke"]) \/ Set(h, NoRequest)
        \/ Set(h, [req[h] EXCEPT !.pc = "issue"])
    BY <1>8, Zenon DEF ConsumeRefreshToken, Finish
  <2>2. /\ [req[h] EXCEPT !.pc = "revoke"].pc = "revoke"
        /\ [req[h] EXCEPT !.pc = "issue"].pc = "issue"
    BY <1>0 DEF Request
  <2> QED BY <1>0, <2>1, <2>2, <1>4, <1>6 DEF Set
<1>9. ASSUME NEW h \in Handler, ExchangeUpsert(h) PROVE SeenCurrent'
  <2>1. PICK g \in Grant :
          Set(h, [req[h] EXCEPT !.grant = g, !.pc = IF @ = "redeem" THEN "issue" ELSE "revoke"])
    BY <1>9, Zenon DEF ExchangeUpsert
  <2>2. req'[h].pc \in {"issue", "revoke"}
    BY <1>0, <2>1 DEF Set, Request
  <2> QED BY <2>2, <1>6
<1>10. ASSUME NEW h \in Handler, CreateAccessToken(h) PROVE SeenCurrent'
  <2>1. req'[h].pc = "issue_refresh"
    BY <1>0, <1>10 DEF CreateAccessToken, Set, Request
  <2> QED BY <2>1, <1>6
<1>11. ASSUME NEW h \in Handler,
              CreateAuthCode(h) \/ CreateRefreshToken(h) \/ RevokeCommit(h) \/ Abort(h)
       PROVE  SeenCurrent'
  BY <1>11, <1>4 DEF CreateAuthCode, CreateRefreshToken, RevokeCommit, Abort, Finish
<1>12. ASSUME NEW h \in Handler, RevokeGrant(h) PROVE SeenCurrent'
  <2>1. PICK g \in Rows(grants) : Set(h, [NoRequest EXCEPT !.pc = "revoke", !.grant = g])
    BY <1>12, Zenon DEF RevokeGrant
  <2>2. req'[h].pc = "revoke"
    BY <1>0, <2>1 DEF Set, NoRequest
  <2> QED BY <2>2, <1>6
<1>13. ASSUME NEW h \in Handler, RevokeDelete(h) PROVE SeenCurrent'
  <2>1. req'[h].pc = "revoke_commit"
    BY <1>0, <1>13 DEF RevokeDelete, Set, Request
  <2> QED BY <2>1, <1>6
<1>14. ASSUME UNCHANGED req,
              Rows(codes)' \subseteq Rows(codes), Rows(refresh)' \subseteq Rows(refresh),
              \A k \in Rows(codes)' : codes'[k].used = codes[k].used,
              \A t \in Rows(refresh)' : refresh'[t].used = refresh[t].used
       PROVE  SeenCurrent'
  BY <1>14 DEF SeenCurrent
<1>15. CASE ExpireCode
  <2>1. PICK k \in Rows(codes) : codes' = [codes EXCEPT ![k] = Older(codes[k])]
    BY <1>15 DEF ExpireCode
  <2>2. k \in Code /\ Older(codes[k]).used = codes[k].used
    BY <1>0 DEF Rows, Older, CodeRow
  <2>3. UNCHANGED <<req, refresh>>
    BY <1>15 DEF ExpireCode, Lapse
  <2>4. Rows(codes)' \subseteq Rows(codes) /\ \A i \in Rows(codes)' : codes'[i].used = codes[i].used
    BY <1>0, <2>1, <2>2 DEF Rows
  <2> QED BY <2>3, <2>4, <1>14 DEF Rows
<1>16. CASE ExpireRefresh
  <2>1. PICK k \in Rows(refresh) : refresh' = [refresh EXCEPT ![k] = Older(refresh[k])]
    BY <1>16 DEF ExpireRefresh
  <2>2. k \in Refresh /\ Older(refresh[k]).used = refresh[k].used
    BY <1>0 DEF Rows, Older, RefreshRow
  <2>3. UNCHANGED <<req, codes>>
    BY <1>16 DEF ExpireRefresh, Lapse
  <2>4. /\ Rows(refresh)' \subseteq Rows(refresh)
        /\ \A i \in Rows(refresh)' : refresh'[i].used = refresh[i].used
    BY <1>0, <2>1, <2>2 DEF Rows
  <2> QED BY <2>3, <2>4, <1>14 DEF Rows
<1>17. ASSUME NEW done \in 1..3, DeleteExpired(done) PROVE SeenCurrent'
  <2>1. UNCHANGED req
    BY <1>17 DEF DeleteExpired
  <2>2. Rows(codes)' \subseteq Rows(codes) /\ \A k \in Rows(codes)' : codes'[k].used = codes[k].used
    BY <1>0, <1>17 DEF DeleteExpired, Without, Rows
  <2>3. /\ Rows(refresh)' \subseteq Rows(refresh)
        /\ \A t \in Rows(refresh)' : refresh'[t].used = refresh[t].used
    BY <1>0, <1>17 DEF DeleteExpired, Without, Rows
  <2> QED BY <2>1, <2>2, <2>3, <1>14
<1>18. CASE ExpireAccess \/ UNCHANGED vars
  <2>1. UNCHANGED <<req, codes, refresh>>
    BY <1>18 DEF ExpireAccess, Lapse, vars
  <2> QED BY <2>1, <1>14 DEF Rows
<1> QED
  BY <1>2, <1>3, <1>5, <1>7, <1>8, <1>9, <1>10, <1>11, <1>12, <1>13, <1>15, <1>16, <1>17, <1>18
     DEF Next, Authorize, Redeem, Rotate, Issue, Revoke

\* One request at a time, a code or a refresh token is accepted once.
THEOREM LoneRequestSpendsOnce == ASSUME Lone PROVE Spec => SpentOnce
<1>1. Init => SeenCurrent
  BY DEF Init, SeenCurrent, NoRequest
<1>2. TypeInvariant /\ TypeInvariant' /\ SeenCurrent /\ [Next]_vars => SeenCurrent'
  BY SeenCurrentStep
<1>3. ASSUME TypeInvariant, SeenCurrent, NEW h \in Handler, ConsumeAuthCode(h),
             req'[h].pc = "redeem"
      PROVE  ~codes[req[h].cred].used
  <2>0. req \in [Handler -> Request] /\ codes \in [Code -> CodeRow \cup {None}]
        /\ req[h].cred \in Code
    BY <1>3, LocalRequest DEF TypeInvariant, TypeOK, ConsumeAuthCode, RequestOK
  <2> DEFINE a == [req[h] EXCEPT !.user = codes[req[h].cred].user,
                                 !.client = codes[req[h].cred].client,
                                 !.scope = codes[req[h].cred].scope]
  <2>1. a.seen = req[h].seen /\ [a EXCEPT !.pc = "replayed"].pc = "replayed"
    BY <2>0 DEF Request
  <2>2. Set(h, [a EXCEPT !.pc = "replayed"]) \/ ~a.seen
    BY <1>3, Zenon DEF ConsumeAuthCode, CodeOutcome
  <2>3. ~Set(h, [a EXCEPT !.pc = "replayed"])
    BY <1>3, <2>0, <2>1 DEF Set
  <2>4. req[h].pc = "consume_code" /\ req[h].cred \in Rows(codes)
    BY <1>3, <2>0 DEF ConsumeAuthCode, Rows
  <2> QED BY <1>3, <2>1, <2>2, <2>3, <2>4 DEF SeenCurrent
<1>4. ASSUME TypeInvariant, SeenCurrent, NEW h \in Handler, ConsumeRefreshToken(h),
             req'[h].pc = "issue"
      PROVE  ~refresh[req[h].cred].used
  <2>0. req \in [Handler -> Request] /\ refresh \in [Refresh -> RefreshRow \cup {None}]
        /\ req[h].cred \in Refresh
    BY <1>4, LocalRequest DEF TypeInvariant, TypeOK, ConsumeRefreshToken, RequestOK
  <2>1. [req[h] EXCEPT !.pc = "revoke"].pc = "revoke"
    BY <2>0 DEF Request
  <2>2. Set(h, [req[h] EXCEPT !.pc = "revoke"]) \/ ~req[h].seen
    BY <1>4, Zenon DEF ConsumeRefreshToken
  <2>3. ~Set(h, [req[h] EXCEPT !.pc = "revoke"])
    BY <1>4, <2>0, <2>1 DEF Set
  <2>4. req[h].pc = "consume_refresh" /\ req[h].cred \in Rows(refresh)
    BY <1>4, <2>0 DEF ConsumeRefreshToken, Rows
  <2> QED BY <1>4, <2>2, <2>3, <2>4 DEF SeenCurrent
<1>5. TypeInvariant /\ SeenCurrent =>
        [\A h \in Handler :
           /\ ConsumeAuthCode(h) /\ req'[h].pc = "redeem" => ~codes[req[h].cred].used
           /\ ConsumeRefreshToken(h) /\ req'[h].pc = "issue" => ~refresh[req[h].cred].used]_vars
  BY <1>3, <1>4
<1> QED BY <1>1, <1>2, <1>5, TypeCorrect, PTL DEF Spec, SpentOnce

\* What a lone request issues tokens under is not revoked, and a lone revocation
\* deletes every access token there is under its grant.
Emptied ==
  /\ RevokedGrantsEmpty
  /\ \A h \in Handler :
       /\ req[h].pc \in {"consume_refresh", "issue", "issue_refresh"} =>
            ~grants[req[h].grant].revoked
       /\ req[h].pc = "revoke_commit" => TokensOf(access, req[h].grant) \subseteq req[h].dropped

\* A step that adds no token and revokes nothing.
LEMMA NothingRevoked ==
  ASSUME RevokedGrantsEmpty,
         \A g \in Rows(grants)' : grants'[g].revoked => g \in Rows(grants) /\ grants[g].revoked,
         \A g : TokensOf(access, g)' \subseteq TokensOf(access, g),
         \A g : TokensOf(refresh, g)' \subseteq TokensOf(refresh, g)
  PROVE  RevokedGrantsEmpty'
<1> SUFFICES ASSUME NEW g \in Rows(grants)', grants'[g].revoked
             PROVE  TokensOf(access, g)' = {} /\ TokensOf(refresh, g)' = {}
  BY DEF RevokedGrantsEmpty
<1>1. TokensOf(access, g) = {} /\ TokensOf(refresh, g) = {}
  BY DEF RevokedGrantsEmpty
<1> QED BY <1>1

\* UpsertGrant revokes nothing.
LEMMA UpsertRevokesNothing ==
  ASSUME TypeInvariant, NEW u \in User, NEW c \in Client, NEW s \in Scope,
         NEW g \in Grant, UpsertGrant(u, c, s, g)
  PROVE  /\ \A k \in Rows(grants)' : grants'[k].revoked => k \in Rows(grants) /\ grants[k].revoked
         /\ ~grants'[g].revoked
<1>1. /\ grants'[g] = [user |-> u, client |-> c, scope |-> s, revoked |-> FALSE]
      /\ \A k \in Grant : k # g => grants'[k] = grants[k]
      /\ Rows(grants)' = Rows(grants) \cup {g}
  BY Upserted
<1>2. ~grants'[g].revoked
  BY <1>1
<1>3. ASSUME NEW k \in Rows(grants)', grants'[k].revoked
      PROVE  k \in Rows(grants) /\ grants[k].revoked
  <2>1. k # g /\ k \in Rows(grants)
    BY <1>1, <1>2, <1>3
  <2>2. k \in Grant
    BY <2>1 DEF Rows, TypeInvariant, TypeOK
  <2> QED BY <1>1, <1>3, <2>1, <2>2
<1> QED BY <1>2, <1>3

LEMMA EmptiedStep ==
  ASSUME Lone, TypeInvariant, TypeInvariant', Emptied, [Next]_vars
  PROVE  Emptied'
<1>0. /\ access \in [Access -> AccessRow \cup {None}] /\ refresh \in [Refresh -> RefreshRow \cup {None}]
      /\ grants \in [Grant -> GrantRow \cup {None}]
      /\ req \in [Handler -> Request] /\ req' \in [Handler -> Request]
  BY DEF TypeInvariant, TypeOK
<1>1. RevokedGrantsEmpty
  BY DEF Emptied
<1>2. ASSUME NEW h \in Handler, RevokedGrantsEmpty',
             req'[h].pc \notin {"consume_refresh", "issue", "issue_refresh", "revoke_commit"}
      PROVE  Emptied'
  BY <1>2 DEF Lone, Emptied
<1>3. ASSUME NEW h \in Handler, RevokedGrantsEmpty',
             req'[h].pc \in {"consume_refresh", "issue", "issue_refresh"},
             ~grants'[req'[h].grant].revoked
      PROVE  Emptied'
  BY <1>3 DEF Lone, Emptied
<1>4. ASSUME UNCHANGED <<grants, access, refresh>> PROVE RevokedGrantsEmpty'
  BY <1>1, <1>4 DEF RevokedGrantsEmpty, Rows, TokensOf
<1>5. ASSUME NEW h \in Handler, Approve(h) PROVE Emptied'
  <2>1. PICK u \in User, c \in Client, s \in Scope, g \in Grant :
          /\ UpsertGrant(u, c, s, g)
          /\ Set(h, [NoRequest EXCEPT !.pc = "code", !.user = u, !.client = c, !.scope = s])
    BY <1>5, Zenon DEF Approve
  <2>2. req'[h].pc = "code"
    BY <1>0, <2>1 DEF Set, NoRequest
  <2>3. UNCHANGED <<access, refresh>>
    BY <1>5 DEF Approve
  <2>4. RevokedGrantsEmpty'
    BY <1>1, <2>1, <2>3, UpsertRevokesNothing, NothingRevoked DEF TokensOf, Rows
  <2> QED BY <2>2, <2>4, <1>2
<1>6. ASSUME NEW h \in Handler, ExchangeUpsert(h) PROVE Emptied'
  <2>1. req[h].user \in User /\ req[h].client \in Client /\ req[h].scope \in Scope
    BY <1>6, LocalRequest DEF ExchangeUpsert, RequestOK
  <2>2. PICK g \in Grant :
          /\ UpsertGrant(req[h].user, req[h].client, req[h].scope, g)
          /\ Set(h, [req[h] EXCEPT !.grant = g, !.pc = IF @ = "redeem" THEN "issue" ELSE "revoke"])
    BY <1>6, Zenon DEF ExchangeUpsert
  <2>3. req'[h].pc \in {"issue", "revoke"} /\ req'[h].grant = g
    BY <1>0, <2>2 DEF Set, Request
  <2>4. UNCHANGED <<access, refresh>>
    BY <1>6 DEF ExchangeUpsert
  <2>5. ~grants'[g].revoked
    BY <2>1, <2>2, UpsertRevokesNothing
  <2>6. RevokedGrantsEmpty'
    BY <1>1, <2>1, <2>2, <2>4, UpsertRevokesNothing, NothingRevoked DEF TokensOf, Rows
  <2> QED BY <2>3, <2>5, <2>6, <1>2, <1>3
<1>7. ASSUME NEW h \in Handler, Set(h, NoRequest), UNCHANGED <<grants, access, refresh>>
      PROVE  Emptied'
  <2>1. req'[h].pc = "idle"
    BY <1>0, <1>7 DEF Set, NoRequest
  <2> QED BY <2>1, <1>2, <1>4, <1>7
<1>8. ASSUME NEW h \in Handler, ExchangeCode(h) \/ RevokeGrant(h) PROVE Emptied'
  <2>1. req'[h].pc \in {"consume_code", "revoke"}
    <3>1. CASE ExchangeCode(h)
      <4>1. PICK k \in Rows(codes) :
              Set(h, [NoRequest EXCEPT !.pc = "consume_code", !.cred = k, !.seen = codes[k].used])
        BY <3>1, Zenon DEF ExchangeCode
      <4> QED BY <1>0, <4>1 DEF Set, NoRequest
    <3>2. CASE RevokeGrant(h)
      <4>1. PICK g \in Rows(grants) : Set(h, [NoRequest EXCEPT !.pc = "revoke", !.grant = g])
        BY <3>2, Zenon DEF RevokeGrant
      <4> QED BY <1>0, <4>1 DEF Set, NoRequest
    <3> QED BY <1>8, <3>1, <3>2
  <2>2. UNCHANGED <<grants, access, refresh>>
    BY <1>8 DEF ExchangeCode, RevokeGrant
  <2> QED BY <2>1, <2>2, <1>2, <1>4
<1>9. ASSUME NEW h \in Handler, ConsumeAuthCode(h) PROVE Emptied'
  <2> DEFINE a == [req[h] EXCEPT !.user = codes[req[h].cred].user,
                                 !.client = codes[req[h].cred].client,
                                 !.scope = codes[req[h].cred].scope]
  <2>1. \/ Set(h, [a EXCEPT !.pc = "replayed"]) \/ Set(h, NoRequest)
        \/ Set(h, [a EXCEPT !.pc = "redeem"])
    BY <1>9, Zenon DEF ConsumeAuthCode, CodeOutcome, Finish
  <2>2. [a EXCEPT !.pc = "replayed"].pc = "replayed" /\ [a EXCEPT !.pc = "redeem"].pc = "redeem"
    BY <1>0 DEF Request
  <2>3. UNCHANGED <<grants, access, refresh>>
    BY <1>9 DEF ConsumeAuthCode
  <2> HIDE DEF a
  <2>4. req'[h].pc \in {"replayed", "redeem"} \/ Set(h, NoRequest)
    BY <1>0, <2>1, <2>2 DEF Set
  <2> QED BY <2>3, <2>4, <1>2, <1>4, <1>7
<1>10. ASSUME NEW h \in Handler, RefreshTokens(h) PROVE Emptied'
  <2>1. PICK t \in Rows(refresh) :
          Set(h, [NoRequest EXCEPT
                    !.pc = "consume_refresh", !.cred = t, !.seen = refresh[t].used,
                    !.grant = refresh[t].grant, !.scope = grants[refresh[t].grant].scope])
    BY <1>10, Zenon DEF RefreshTokens
  <2>2. req'[h].pc = "consume_refresh" /\ req'[h].grant = refresh[t].grant
    BY <1>0, <2>1 DEF Set, NoRequest
  <2>3. UNCHANGED <<grants, access, refresh>>
    BY <1>10 DEF RefreshTokens
  <2>4. refresh[t].grant \in Rows(grants) /\ t \in TokensOf(refresh, refresh[t].grant)
    BY DEF TypeInvariant, TokensOf
  <2>5. ~grants[refresh[t].grant].revoked
    BY <2>4, <1>1 DEF RevokedGrantsEmpty
  <2> QED BY <2>2, <2>3, <2>5, <1>3, <1>4
<1>11. ASSUME NEW h \in Handler, ConsumeRefreshToken(h) PROVE Emptied'
  <2>1. \/ Set(h, [req[h] EXCEPT !.pc = "revoke"]) \/ Set(h, NoRequest)
        \/ Set(h, [req[h] EXCEPT !.pc = "issue"])
    BY <1>11, Zenon DEF ConsumeRefreshToken, Finish
  <2>2. \/ req'[h].pc = "revoke" \/ req'[h].pc = "idle"
        \/ req'[h].pc = "issue" /\ req'[h].grant = req[h].grant
    <3>1. NoRequest.pc = "idle" BY DEF NoRequest
    <3>2. /\ [req[h] EXCEPT !.pc = "revoke"].pc = "revoke"
          /\ [req[h] EXCEPT !.pc = "issue"].pc = "issue"
          /\ [req[h] EXCEPT !.pc = "issue"].grant = req[h].grant
      BY <1>0 DEF Request
    <3>3. Set(h, NoRequest) => req'[h].pc = "idle"
      BY <1>0, <3>1 DEF Set
    <3>4. Set(h, [req[h] EXCEPT !.pc = "revoke"]) => req'[h].pc = "revoke"
      BY <1>0, <3>2 DEF Set
    <3>5. Set(h, [req[h] EXCEPT !.pc = "issue"]) => req'[h].pc = "issue" /\ req'[h].grant = req[h].grant
      BY <1>0, <3>2 DEF Set
    <3> QED BY <2>1, <3>3, <3>4, <3>5, Zenon
  <2>3. /\ req[h].pc = "consume_refresh" /\ UNCHANGED <<grants, access>>
        /\ refresh' = [refresh EXCEPT ![req[h].cred].used = TRUE]
        /\ req[h].cred \in Refresh /\ refresh[req[h].cred] # None
    BY <1>11, LocalRequest DEF ConsumeRefreshToken, RequestOK
  <2>4. ~grants[req[h].grant].revoked
    BY <2>3 DEF Emptied
  <2>5. \A t \in Refresh : refresh'[t] # None => refresh[t] # None /\ refresh'[t].grant = refresh[t].grant
    BY <1>0, <2>3 DEF RefreshRow
  <2>6. \A g : TokensOf(refresh, g)' \subseteq TokensOf(refresh, g)
    BY <1>0, <2>3, <2>5 DEF TokensOf, Rows
  <2>7. RevokedGrantsEmpty'
    BY <1>1, <2>3, <2>6, NothingRevoked DEF TokensOf, Rows
  <2> QED BY <2>2, <2>3, <2>4, <2>7, <1>2, <1>3
<1>12. ASSUME NEW h \in Handler, CreateAccessToken(h) PROVE Emptied'
  <2>1. /\ req'[h].pc = "issue_refresh" /\ req'[h].grant = req[h].grant /\ req[h].pc = "issue"
        /\ UNCHANGED <<grants, refresh>>
    BY <1>0, <1>12 DEF CreateAccessToken, Set, Request
  <2>2. PICK t \in Access :
          access' = [access EXCEPT
            ![t] = [grant |-> req[h].grant, scope |-> req[h].scope, age |-> "live"]]
    BY <1>12, Zenon DEF CreateAccessToken
  <2>3. ~grants[req[h].grant].revoked
    BY <2>1 DEF Emptied
  <2>4. \A g : g # req[h].grant => TokensOf(access, g)' \subseteq TokensOf(access, g)
    BY <1>0, <2>2 DEF TokensOf, Rows
  <2>5. RevokedGrantsEmpty'
    BY <1>1, <2>1, <2>3, <2>4 DEF RevokedGrantsEmpty, Rows, TokensOf
  <2> QED BY <2>1, <2>3, <2>5, <1>3
<1>13. ASSUME NEW h \in Handler, CreateRefreshToken(h) PROVE Emptied'
  <2>1. req[h].pc = "issue_refresh" /\ UNCHANGED <<grants, access>> /\ req'[h].pc = "idle"
    BY <1>0, <1>13 DEF CreateRefreshToken, Finish, Set, NoRequest
  <2>2. PICK t \in Refresh :
          refresh' = [refresh EXCEPT
            ![t] = [grant |-> req[h].grant, used |-> FALSE, age |-> "live"]]
    BY <1>13, Zenon DEF CreateRefreshToken
  <2>3. ~grants[req[h].grant].revoked
    BY <2>1 DEF Emptied
  <2>4. \A g : g # req[h].grant => TokensOf(refresh, g)' \subseteq TokensOf(refresh, g)
    BY <1>0, <2>2 DEF TokensOf, Rows
  <2>5. RevokedGrantsEmpty'
    BY <1>1, <2>1, <2>3, <2>4 DEF RevokedGrantsEmpty, Rows, TokensOf
  <2> QED BY <2>1, <2>5, <1>2
<1>14. ASSUME NEW h \in Handler, RevokeDelete(h) PROVE Emptied'
  <2>1. /\ req'[h].pc = "revoke_commit" /\ req'[h].grant = req[h].grant
        /\ req'[h].dropped = TokensOf(access, req[h].grant)
        /\ UNCHANGED <<grants, access, refresh>>
    BY <1>0, <1>14 DEF RevokeDelete, Set, Request
  <2>2. RevokedGrantsEmpty'
    BY <2>1, <1>4
  <2>3. TokensOf(access', req'[h].grant) \subseteq req'[h].dropped
    BY <2>1
  <2> QED BY <2>1, <2>2, <2>3 DEF Lone, Emptied, TokensOf, Rows
<1>15. ASSUME NEW h \in Handler, RevokeCommit(h) PROVE Emptied'
  <2>1. req[h].pc = "revoke_commit" /\ req'[h].pc = "idle"
    BY <1>0, <1>15 DEF RevokeCommit, Finish, Set, NoRequest
  <2>2. /\ access' = Without(access, req[h].dropped)
        /\ refresh' = Without(refresh, TokensOf(refresh, req[h].grant))
    BY <1>15 DEF RevokeCommit
  <2>3. TokensOf(access, req[h].grant) \subseteq req[h].dropped
    BY <2>1 DEF Emptied
  <2>4. /\ \A g : TokensOf(access, g)' \subseteq TokensOf(access, g) \ req[h].dropped
        /\ \A g : TokensOf(refresh, g)' \subseteq TokensOf(refresh, g) \ TokensOf(refresh, req[h].grant)
    BY <1>0, <2>2 DEF TokensOf, Rows, Without
  <2>5. \A g \in Rows(grants)' : g # req[h].grant =>
           g \in Rows(grants) /\ grants'[g] = grants[g]
    BY <1>0, <1>15 DEF RevokeCommit, Rows
  <2>6. RevokedGrantsEmpty'
    <3> SUFFICES ASSUME NEW g \in Rows(grants)', grants'[g].revoked
                 PROVE  TokensOf(access, g)' = {} /\ TokensOf(refresh, g)' = {}
      BY DEF RevokedGrantsEmpty
    <3>1. CASE g = req[h].grant BY <3>1, <2>3, <2>4
    <3>2. CASE g # req[h].grant
      <4>1. TokensOf(access, g) = {} /\ TokensOf(refresh, g) = {}
        BY <3>2, <2>5, <1>1 DEF RevokedGrantsEmpty
      <4> QED BY <4>1, <2>4
    <3> QED BY <3>1, <3>2
  <2> QED BY <2>1, <2>6, <1>2
<1>16. ASSUME UNCHANGED <<grants, req>>,
              \A g : TokensOf(access, g)' \subseteq TokensOf(access, g),
              \A g : TokensOf(refresh, g)' \subseteq TokensOf(refresh, g)
       PROVE  Emptied'
  <2>1. RevokedGrantsEmpty'
    BY <1>1, <1>16, NothingRevoked DEF Rows
  <2>2. ASSUME NEW h \in Handler, req[h].pc = "revoke_commit"
        PROVE  TokensOf(access', req'[h].grant) \subseteq req[h].dropped
    <3>1. PICK g : g = req[h].grant OBVIOUS
    <3>2. TokensOf(access, g)' \subseteq req[h].dropped
      BY <2>2, <3>1, <1>16 DEF Emptied
    <3> QED BY <3>1, <3>2, <1>16 DEF TokensOf, Rows
  <2> QED BY <2>1, <2>2, <1>16 DEF Emptied, TokensOf, Rows
<1>17. CASE ExpireCode \/ UNCHANGED vars
  <2>1. UNCHANGED <<grants, req, access, refresh>>
    BY <1>17 DEF ExpireCode, Lapse, vars
  <2> QED BY <2>1, <1>16 DEF TokensOf, Rows
<1>18. CASE ExpireAccess
  <2>1. PICK t \in Rows(access) : access' = [access EXCEPT ![t] = Older(access[t])]
    BY <1>18 DEF ExpireAccess
  <2>2. t \in Access /\ Older(access[t]).grant = access[t].grant
    BY <1>0 DEF Rows, Older, AccessRow
  <2>3. UNCHANGED <<grants, req, refresh>>
    BY <1>18 DEF ExpireAccess, Lapse
  <2>4. \A g : TokensOf(access, g)' \subseteq TokensOf(access, g)
    BY <1>0, <2>1, <2>2 DEF TokensOf, Rows
  <2> QED BY <2>3, <2>4, <1>16 DEF TokensOf, Rows
<1>19. CASE ExpireRefresh
  <2>1. PICK t \in Rows(refresh) : refresh' = [refresh EXCEPT ![t] = Older(refresh[t])]
    BY <1>19 DEF ExpireRefresh
  <2>2. t \in Refresh /\ Older(refresh[t]).grant = refresh[t].grant
    BY <1>0 DEF Rows, Older, RefreshRow
  <2>3. UNCHANGED <<grants, req, access>>
    BY <1>19 DEF ExpireRefresh, Lapse
  <2>4. \A g : TokensOf(refresh, g)' \subseteq TokensOf(refresh, g)
    BY <1>0, <2>1, <2>2 DEF TokensOf, Rows
  <2> QED BY <2>3, <2>4, <1>16 DEF TokensOf, Rows
<1>20. ASSUME NEW done \in 1..3, DeleteExpired(done) PROVE Emptied'
  <2>1. UNCHANGED <<grants, req>>
    BY <1>20 DEF DeleteExpired
  <2>2. /\ \A g : TokensOf(access, g)' \subseteq TokensOf(access, g)
        /\ \A g : TokensOf(refresh, g)' \subseteq TokensOf(refresh, g)
    BY <1>0, <1>20 DEF DeleteExpired, Without, Rows, TokensOf
  <2> QED BY <2>1, <2>2, <1>16
<1>21. ASSUME NEW h \in Handler, CreateAuthCode(h) \/ Abort(h) PROVE Emptied'
  BY <1>21, <1>7 DEF CreateAuthCode, Abort, Finish
<1> QED
  BY <1>5, <1>6, <1>8, <1>9, <1>10, <1>11, <1>12, <1>13, <1>14, <1>15, <1>17, <1>18, <1>19,
     <1>20, <1>21 DEF Next, Authorize, Redeem, Rotate, Issue, Revoke

\* One request at a time, a revocation leaves no token under its grant.
THEOREM LoneRevocationEmpties == ASSUME Lone PROVE Spec => []RevokedGrantsEmpty
<1>1. Init => Emptied
  BY DEF Init, Emptied, RevokedGrantsEmpty, Rows, NoRequest
<1>2. TypeInvariant /\ TypeInvariant' /\ Emptied /\ [Next]_vars => Emptied'
  BY EmptiedStep
<1>3. Emptied => RevokedGrantsEmpty
  BY DEF Emptied
<1> QED BY <1>1, <1>2, <1>3, TypeCorrect, PTL DEF Spec

===============================================================================
