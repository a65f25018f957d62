------------------------- MODULE AccessTokensProofs -------------------------
(***************************************************************************)
(* Proofs about AccessTokens, for any number of concurrent requests, any   *)
(* limits and any clock.                                                   *)
(***************************************************************************)
EXTENDS AccessTokens, FiniteSetTheorems, TLAPS

-----------------------------------------------------------------------------
(* Types *)

LEMMA NoneIsNoRow == None \notin Row /\ None \notin [user: User, created: Time]
                     /\ None \notin Time /\ Time \subseteq Int /\ 0 \in Time
BY TokenSetsAssumption, TokenLimitsAssumption DEF Row, Time

LEMMA IdleIsRequest == Idle \in Request /\ Idle.pc = "idle"
BY DEF Idle, Request

LEMMA TypeInit == Init => TypeInvariant
BY IdleIsRequest, NoneIsNoRow DEF Init, TypeInvariant

\* Steps that leave the rows alone.
LEMMA TypeNoRows ==
    ASSUME TypeInvariant, UNCHANGED <<now, tokens, born, untrimmed>>,
           NEW h \in Handler, NEW r \in Request, r.pc # "idle" => r.user \in User,
           req' = [req EXCEPT ![h] = r]
    PROVE  TypeInvariant'
BY DEF TypeInvariant

LEMMA TypeWithout ==
    ASSUME TypeInvariant, NEW S, tokens' = Without(S), UNCHANGED <<now, born>>,
           untrimmed' \in [User -> Nat],
           req' \in [Handler -> Request],
           \A h \in Handler : req'[h].pc # "idle" => req'[h].user \in User
    PROVE  TypeInvariant'
BY DEF TypeInvariant, Without

LEMMA TypeStep == TypeInvariant /\ [Next]_vars => TypeInvariant'
<1> SUFFICES ASSUME TypeInvariant, [Next]_vars PROVE TypeInvariant'
  OBVIOUS
<1> USE NoneIsNoRow, IdleIsRequest
<1>t. /\ now \in Time
      /\ tokens \in [Token -> Row \cup {None}]
      /\ req \in [Handler -> Request]
      /\ born \in [Token -> [user: User, created: Time] \cup {None}]
      /\ untrimmed \in [User -> Nat]
      /\ \A h \in Handler : req[h].pc # "idle" => req[h].user \in User
  BY DEF TypeInvariant
<1>1. ASSUME NEW h \in Handler, NEW u \in User, NEW expires \in {now + d : d \in Lifetimes} \cup {None},
             CreateCountLive(h, u, expires)
      PROVE  TypeInvariant'
  <2> DEFINE r == [pc |-> "count", user |-> u, expires |-> expires]
  <2>1. expires \in Int \cup {None}
    BY <1>t, TokenLimitsAssumption DEF Time
  <2>2. r \in Request /\ (r.pc # "idle" => r.user \in User)
    BY <2>1 DEF Request
  <2>3. req' = [req EXCEPT ![h] = r] /\ UNCHANGED <<now, tokens, born, untrimmed>>
    BY <1>1 DEF CreateCountLive
  <2> HIDE DEF r
  <2> QED BY <2>2, <2>3, TypeNoRows
<1>2. ASSUME NEW h \in Handler, CreateCountCreated(h)
      PROVE  TypeInvariant'
  <2> DEFINE c == Cardinality(CreatedSince(req[h].user, now - issuanceWindow)) < MaxTokensPerDay
             r == IF c THEN [req[h] EXCEPT !.pc = "insert"] ELSE Idle
  <2>1. req' = [req EXCEPT ![h] = r] /\ UNCHANGED <<now, tokens, born, untrimmed>>
    BY <1>2 DEF CreateCountCreated
  <2>2. req[h] \in Request /\ req[h].user \in User
    BY <1>t, <1>2 DEF CreateCountCreated
  <2> HIDE DEF c
  <2>3. r \in Request /\ (r.pc # "idle" => r.user \in User)
    BY <2>2 DEF Request
  <2> HIDE DEF r
  <2> QED BY <2>1, <2>3, TypeNoRows
<1>3. ASSUME NEW h \in Handler, NEW t \in Token, CreateInsert(h, t)
      PROVE  TypeInvariant'
  <2> DEFINE row == [user |-> req[h].user, created |-> now,
                     expires |-> req[h].expires, revoked |-> None]
             mint == [user |-> req[h].user, created |-> now]
  <2>1. /\ tokens' = [tokens EXCEPT ![t] = row] /\ born' = [born EXCEPT ![t] = mint]
        /\ req' = [req EXCEPT ![h] = Idle] /\ UNCHANGED <<now, untrimmed>>
    BY <1>3 DEF CreateInsert
  <2>2. /\ row \in Row /\ row # None /\ row.revoked = None
        /\ row.user = req[h].user /\ row.created = now
        /\ mint \in [user: User, created: Time] /\ mint # None
        /\ mint.user = req[h].user /\ mint.created = now
    BY <1>t, <1>3 DEF CreateInsert, Row, Request
  <2> HIDE DEF row, mint
  <2>3. /\ tokens' \in [Token -> Row \cup {None}]
        /\ born' \in [Token -> [user: User, created: Time] \cup {None}]
        /\ req' \in [Handler -> Request]
        /\ \A k \in Handler : req'[k].pc # "idle" => req'[k].user \in User
    BY <1>t, <2>1, <2>2
  <2>4. ASSUME NEW s \in Token, s # t
        PROVE  tokens'[s] = tokens[s] /\ born'[s] = born[s]
    BY <1>t, <2>1, <2>4
  <2>5. tokens'[t] = row /\ born'[t] = mint
    BY <1>t, <2>1
  <2>6. now <= now
    BY <1>t
  <2> QED BY <1>t, <2>1, <2>2, <2>3, <2>4, <2>5, <2>6 DEF TypeInvariant
<1>4. ASSUME NEW h \in Handler, NEW u \in User, NEW t \in Token, Revoke(h, u, t)
      PROVE  TypeInvariant'
  <2> DEFINE r == [Idle EXCEPT !.pc = "trim", !.user = u]
  <2>1. r \in Request /\ r.user \in User
    BY DEF Idle, Request
  <2>2. req' = [req EXCEPT ![h] = r] /\ UNCHANGED <<now, born>>
    BY <1>4 DEF Revoke
  <2> HIDE DEF r
  <2>3. /\ req' \in [Handler -> Request]
        /\ \A k \in Handler : req'[k].pc # "idle" => req'[k].user \in User
    BY <1>t, <2>1, <2>2
  <2>4. CASE tokens[t].revoked = None
    <3> DEFINE row == [tokens[t] EXCEPT !.revoked = now]
    <3>1. tokens' = [tokens EXCEPT ![t] = row] /\ untrimmed' = [untrimmed EXCEPT ![u] = @ + 1]
      BY <1>4, <2>4 DEF Revoke
    <3>2. tokens[t] \in Row /\ tokens[t] # None
      BY <1>t, <1>4 DEF Revoke, Of
    <3>3. /\ row \in Row /\ row # None /\ row.revoked = now
          /\ row.user = tokens[t].user /\ row.created = tokens[t].created
      BY <1>t, <3>2 DEF Row
    <3> HIDE DEF row
    <3>4. tokens' \in [Token -> Row \cup {None}] /\ untrimmed' \in [User -> Nat]
      BY <1>t, <3>1, <3>3
    <3>5. tokens'[t] = row /\ \A s \in Token : s # t => tokens'[s] = tokens[s]
      BY <1>t, <3>1
    <3> QED BY <1>t, <2>2, <2>3, <3>2, <3>3, <3>4, <3>5 DEF TypeInvariant
  <2>5. CASE tokens[t].revoked # None
    BY <1>4, <2>2, <2>3, <2>5 DEF Revoke, TypeInvariant
  <2> QED BY <2>4, <2>5
<1>5. ASSUME NEW h \in Handler, TrimRevoked(h)
      PROVE  TypeInvariant'
  <2>1. PICK K \in Newest(req[h].user) : tokens' = Without(Trimmed(req[h].user, K))
    BY <1>5 DEF TrimRevoked
  <2>2. untrimmed' \in [User -> Nat] /\ UNCHANGED <<now, born>>
    BY <1>t, <1>5 DEF TrimRevoked
  <2>3. /\ req' \in [Handler -> Request]
        /\ \A k \in Handler : req'[k].pc # "idle" => req'[k].user \in User
    BY <1>t, <1>5 DEF TrimRevoked
  <2> QED BY <2>1, <2>2, <2>3, TypeWithout
<1>6. ASSUME NEW h \in Handler, Abort(h)
      PROVE  TypeInvariant'
  BY <1>6, TypeNoRows DEF Abort
<1>7. CASE DeleteRevokedBefore
  BY <1>t, <1>7, TypeWithout DEF DeleteRevokedBefore
<1>8. CASE Tick
  <2>1. now' = now + 1 /\ now' \in Time /\ now <= now'
    BY <1>t, <1>8, TokenLimitsAssumption DEF Tick, Time
  <2>2. UNCHANGED <<tokens, req, born, untrimmed>>
    BY <1>8 DEF Tick
  <2>3. ASSUME NEW t \in Token, tokens[t] # None, tokens[t].created <= now
        PROVE  tokens[t].created <= now'
    <3>1. tokens[t] \in Row
      BY <1>t, <2>3
    <3>2. tokens[t].created \in Int /\ now \in Int
      BY <1>t, <3>1 DEF Row, Time
    <3> QED BY <2>1, <2>3, <3>2
  <2> QED BY <2>1, <2>2, <2>3 DEF TypeInvariant
<1>9. CASE UNCHANGED vars
  BY <1>9 DEF vars, TypeInvariant
<1> QED BY <1>1, <1>2, <1>3, <1>4, <1>5, <1>6, <1>7, <1>8, <1>9 DEF Next, Serve

\* Types, and the table agrees with what was issued.
THEOREM TypeCorrect == Spec => []TypeInvariant
BY TypeInit, TypeStep, PTL DEF Spec

-----------------------------------------------------------------------------
(* Counting: N is what the counts allow a request to pass, one at a time. *)

LEMMA Finite ==
    /\ \A S \in SUBSET Token : IsFiniteSet(S) /\ Cardinality(S) \in Nat
    /\ \A S \in SUBSET Handler : IsFiniteSet(S) /\ Cardinality(S) \in Nat
                                  /\ Cardinality(S) <= Cardinality(Handler)
    /\ Cardinality(Handler) \in Nat \ {0}
<1>1. IsFiniteSet(Token) /\ IsFiniteSet(Handler) /\ Handler # {}
  BY TokenSetsAssumption
<1>2. Cardinality(Handler) \in Nat
  BY <1>1, FS_CardinalityType
<1>3. Cardinality(Handler) # 0
  BY <1>1, FS_EmptySet
<1>4. ASSUME NEW S \in SUBSET Token PROVE IsFiniteSet(S) /\ Cardinality(S) \in Nat
  BY <1>1, FS_Subset, FS_CardinalityType
<1>5. ASSUME NEW S \in SUBSET Handler
      PROVE  IsFiniteSet(S) /\ Cardinality(S) \in Nat /\ Cardinality(S) <= Cardinality(Handler)
  BY <1>1, FS_Subset, FS_CardinalityType
<1> QED BY <1>2, <1>3, <1>4, <1>5

\* The tokens S and the requests P past a count of at most N: fewer of each.
LEMMA CountKept ==
    ASSUME NEW S \in SUBSET Token, NEW P \in SUBSET Handler, NEW N \in Int,
           Cardinality(S) + Cardinality(P) <= N,
           NEW T \in SUBSET S, NEW Q \in SUBSET P
    PROVE  Cardinality(T) + Cardinality(Q) <= N
<1>1. IsFiniteSet(S) /\ IsFiniteSet(P) /\ T \in SUBSET Token /\ Q \in SUBSET Handler
  BY Finite
<1>2. Cardinality(T) <= Cardinality(S) /\ Cardinality(Q) <= Cardinality(P)
  BY <1>1, FS_Subset
<1>3. /\ Cardinality(S) \in Nat /\ Cardinality(T) \in Nat
      /\ Cardinality(P) \in Nat /\ Cardinality(Q) \in Nat
  BY <1>1, Finite
<1> QED BY <1>2, <1>3

\* A request that was past the count adds its token.
LEMMA CountSpent ==
    ASSUME NEW S \in SUBSET Token, NEW P \in SUBSET Handler, NEW N \in Int,
           Cardinality(S) + Cardinality(P) <= N,
           NEW t \in Token, NEW h \in P,
           NEW T \in SUBSET (S \cup {t}), NEW Q \in SUBSET (P \ {h})
    PROVE  Cardinality(T) + Cardinality(Q) <= N
<1>1. IsFiniteSet(S) /\ IsFiniteSet(P)
  BY Finite
<1>2. IsFiniteSet(S \cup {t}) /\ Cardinality(S \cup {t}) <= Cardinality(S) + 1
  <2>1. S \cup {t} \in SUBSET Token
    OBVIOUS
  <2>2. IsFiniteSet(S \cup {t}) /\ Cardinality(S) \in Nat
    BY <2>1, Finite
  <2> QED BY <1>1, <2>2, FS_AddElement
<1>3. IsFiniteSet(P \ {h}) /\ Cardinality(P \ {h}) = Cardinality(P) - 1
  BY <1>1, FS_RemoveElement
<1>4. Cardinality(T) <= Cardinality(S \cup {t}) /\ Cardinality(Q) <= Cardinality(P \ {h})
  BY <1>2, <1>3, FS_Subset
<1>5. /\ Cardinality(S) \in Nat /\ Cardinality(T) \in Nat /\ Cardinality(S \cup {t}) \in Nat
      /\ Cardinality(P) \in Nat /\ Cardinality(Q) \in Nat /\ Cardinality(P \ {h}) \in Nat
  BY <1>1, <1>2, <1>3, Finite
<1> QED BY <1>2, <1>3, <1>4, <1>5

\* A request that has just counted fewer than N.
LEMMA CountPassed ==
    ASSUME NEW T \in SUBSET Token, NEW Q \in SUBSET Handler, NEW N \in Nat,
           Cardinality(T) < N
    PROVE  Cardinality(T) + Cardinality(Q) <= N + Cardinality(Handler) - 1
<1>1. /\ Cardinality(T) \in Nat /\ Cardinality(Q) \in Nat
      /\ Cardinality(Q) <= Cardinality(Handler) /\ Cardinality(Handler) \in Nat
  BY Finite
<1> QED BY <1>1

-----------------------------------------------------------------------------
(* Steps, seen from the rows *)

\* What a step other than an insert does to a row: it goes, or it stays and is at
\* most revoked.
RowsAge ==
    \A t \in Token : tokens'[t] # None =>
        /\ tokens[t] # None
        /\ tokens'[t].user = tokens[t].user
        /\ tokens'[t].created = tokens[t].created
        /\ tokens'[t].expires = tokens[t].expires
        /\ tokens[t].revoked # None => tokens'[t].revoked = tokens[t].revoked

LEMMA WithoutAges ==
    ASSUME NEW S, tokens' = Without(S)
    PROVE  RowsAge
BY DEF Without, RowsAge

LEMMA RevokeAges ==
    ASSUME TypeInvariant, NEW h \in Handler, NEW u \in User, NEW t \in Token, Revoke(h, u, t)
    PROVE  RowsAge
<1>1. tokens[t] # None /\ tokens \in [Token -> Row \cup {None}]
  BY DEF Revoke, Of, TypeInvariant
<1>2. CASE tokens[t].revoked = None
  <2>1. tokens' = [tokens EXCEPT ![t] = [tokens[t] EXCEPT !.revoked = now]]
    BY <1>2 DEF Revoke
  <2>2. tokens[t] \in Row
    BY <1>1
  <2>3. /\ tokens'[t].user = tokens[t].user /\ tokens'[t].created = tokens[t].created
        /\ tokens'[t].expires = tokens[t].expires
    BY <1>1, <2>1, <2>2 DEF Row
  <2>4. \A s \in Token : s # t => tokens'[s] = tokens[s]
    BY <1>1, <2>1
  <2> QED BY <1>1, <1>2, <2>3, <2>4 DEF RowsAge
<1>3. CASE tokens[t].revoked # None
  BY <1>3 DEF Revoke, RowsAge
<1> QED BY <1>2, <1>3

LEMMA LiveShrinks ==
    ASSUME RowsAge, now' = now \/ now' = now + 1, TypeInvariant, NEW u \in User
    PROVE  Live(u)' \subseteq Live(u)
<1> SUFFICES ASSUME NEW t \in Live(u)' PROVE t \in Live(u)
  OBVIOUS
<1>1. /\ t \in Token /\ tokens'[t] # None /\ tokens'[t].user = u /\ tokens'[t].revoked = None
      /\ tokens'[t].expires = None \/ tokens'[t].expires > now'
  BY DEF Live, Of, Authenticates
<1>2. /\ tokens[t] # None /\ tokens[t].user = u /\ tokens[t].revoked = None
      /\ tokens[t].expires = tokens'[t].expires
  BY <1>1 DEF RowsAge
<1>3. tokens[t] \in Row
  BY <1>1, <1>2 DEF TypeInvariant
<1>4. tokens[t].expires \in Int \cup {None} /\ now \in Int
  BY <1>3, NoneIsNoRow DEF Row, TypeInvariant
<1>5. tokens[t].expires = None \/ tokens[t].expires > now
  BY <1>1, <1>2, <1>4, TokenSetsAssumption
<1> QED BY <1>1, <1>2, <1>5 DEF Live, Of, Authenticates

-----------------------------------------------------------------------------
(* The cap on live tokens *)

\* The requests of u that have counted the live tokens and may yet insert one.
Counting(u) == {h \in Handler : req[h].user = u /\ req[h].pc \in {"count", "insert"}}

LiveInv ==
    \A u \in User : Cardinality(Live(u)) + Cardinality(Counting(u))
                        <= MaxLiveTokens + Cardinality(Handler) - 1

LEMMA LiveInit == Init => LiveInv
<1> SUFFICES ASSUME Init, NEW u \in User
             PROVE  Cardinality(Live(u)) + Cardinality(Counting(u))
                        <= MaxLiveTokens + Cardinality(Handler) - 1
  BY DEF LiveInv
<1>1. Live(u) = {} /\ Counting(u) = {}
  BY DEF Init, Live, Of, Counting, Idle
<1>2. Cardinality(Live(u)) = 0 /\ Cardinality(Counting(u)) = 0
  BY <1>1, FS_EmptySet
<1> QED BY <1>2, Finite, TokenLimitsAssumption

LEMMA LiveStep == TypeInvariant /\ LiveInv /\ [Next]_vars => LiveInv'
<1> SUFFICES ASSUME TypeInvariant, LiveInv, [Next]_vars, NEW u \in User
             PROVE  Cardinality(Live(u)') + Cardinality(Counting(u)')
                        <= MaxLiveTokens + Cardinality(Handler) - 1
  BY DEF LiveInv
<1> DEFINE N == MaxLiveTokens + Cardinality(Handler) - 1
<1>n. MaxLiveTokens \in Nat /\ N \in Int
  BY Finite, TokenLimitsAssumption
<1>s. /\ Live(u) \in SUBSET Token /\ Live(u)' \in SUBSET Token
      /\ Counting(u) \in SUBSET Handler /\ Counting(u)' \in SUBSET Handler
  BY DEF Live, Of, Counting
<1>i. Cardinality(Live(u)) + Cardinality(Counting(u)) <= N
  BY DEF LiveInv
<1>r. req \in [Handler -> Request]
  BY DEF TypeInvariant
<1> HIDE DEF N
<1>k. ASSUME RowsAge, now' = now \/ now' = now + 1, Counting(u)' \subseteq Counting(u)
      PROVE  Cardinality(Live(u)') + Cardinality(Counting(u)') <= N
  <2>1. Live(u)' \subseteq Live(u)
    BY <1>k, LiveShrinks
  <2> QED BY <1>n, <1>s, <1>i, <1>k, <2>1, CountKept
<1>1. ASSUME NEW h \in Handler, NEW v \in User, NEW expires \in {now + d : d \in Lifetimes} \cup {None},
             CreateCountLive(h, v, expires)
      PROVE  Cardinality(Live(u)') + Cardinality(Counting(u)') <= N
  <2>1. Live(u)' = Live(u) /\ RowsAge
    BY <1>1 DEF CreateCountLive, Live, Of, Authenticates, RowsAge
  <2>2. CASE u = v
    <3>1. Cardinality(Live(u)') < MaxLiveTokens
      BY <1>1, <2>1, <2>2 DEF CreateCountLive
    <3> QED BY <1>n, <1>s, <3>1, CountPassed DEF N
  <2>3. CASE u # v
    <3>1. Counting(u)' \subseteq Counting(u)
      BY <1>1, <1>r, <2>3 DEF CreateCountLive, Counting
    <3> QED BY <1>1, <1>k, <2>1, <3>1 DEF CreateCountLive
  <2> QED BY <2>2, <2>3
<1>2. ASSUME NEW h \in Handler, CreateCountCreated(h)
      PROVE  Cardinality(Live(u)') + Cardinality(Counting(u)') <= N
  <2> DEFINE c == Cardinality(CreatedSince(req[h].user, now - issuanceWindow)) < MaxTokensPerDay
  <2>1. /\ req' = [req EXCEPT ![h] = IF c THEN [req[h] EXCEPT !.pc = "insert"] ELSE Idle]
        /\ req[h].pc = "count" /\ now' = now /\ RowsAge
    BY <1>2 DEF CreateCountCreated, RowsAge
  <2> HIDE DEF c
  <2>2. \A k \in Handler : k # h => req'[k] = req[k]
    BY <1>r, <2>1
  <2>3. req'[h].pc \in {"count", "insert"} => req'[h].user = req[h].user
    BY <1>r, <2>1 DEF Idle, Request
  <2>4. Counting(u)' \subseteq Counting(u)
    BY <2>1, <2>2, <2>3 DEF Counting
  <2> QED BY <1>k, <2>1, <2>4
<1>3. ASSUME NEW h \in Handler, NEW t \in Token, CreateInsert(h, t)
      PROVE  Cardinality(Live(u)') + Cardinality(Counting(u)') <= N
  <2>1. /\ req' = [req EXCEPT ![h] = Idle] /\ now' = now /\ req[h].pc = "insert"
        /\ tokens \in [Token -> Row \cup {None}]
        /\ tokens' = [tokens EXCEPT ![t] = [user |-> req[h].user, created |-> now,
                                            expires |-> req[h].expires, revoked |-> None]]
    BY <1>3 DEF CreateInsert, TypeInvariant
  <2>2. \A s \in Token : s # t => tokens'[s] = tokens[s]
    BY <2>1
  <2>3. tokens'[t].user = req[h].user
    BY <2>1
  <2>4. req'[h].pc = "idle" /\ \A k \in Handler : k # h => req'[k] = req[k]
    BY <1>r, <2>1 DEF Idle
  <2>5. CASE req[h].user = u
    <3>1. h \in Counting(u) /\ Counting(u)' \subseteq Counting(u) \ {h}
      BY <2>1, <2>4, <2>5 DEF Counting
    <3>2. Live(u)' \subseteq Live(u) \cup {t}
      BY <2>1, <2>2 DEF Live, Of, Authenticates
    <3> QED BY <1>n, <1>s, <1>i, <3>1, <3>2, CountSpent
  <2>6. CASE req[h].user # u
    <3>1. Counting(u)' \subseteq Counting(u)
      BY <2>4 DEF Counting
    <3>2. Live(u)' \subseteq Live(u)
      BY <2>1, <2>2, <2>3, <2>6 DEF Live, Of, Authenticates
    <3> QED BY <1>n, <1>s, <1>i, <3>1, <3>2, CountKept
  <2> QED BY <2>5, <2>6
<1>4. ASSUME NEW h \in Handler, NEW v \in User, NEW t \in Token, Revoke(h, v, t)
      PROVE  Cardinality(Live(u)') + Cardinality(Counting(u)') <= N
  <2>1. Counting(u)' \subseteq Counting(u)
    BY <1>4, <1>r DEF Revoke, Counting, Idle
  <2> QED BY <1>k, <1>4, <2>1, RevokeAges DEF Revoke
<1>5. ASSUME NEW h \in Handler, TrimRevoked(h)
      PROVE  Cardinality(Live(u)') + Cardinality(Counting(u)') <= N
  <2>1. Counting(u)' \subseteq Counting(u)
    BY <1>5, <1>r DEF TrimRevoked, Counting, Idle
  <2> QED BY <1>k, <1>5, <2>1, WithoutAges DEF TrimRevoked
<1>6. ASSUME NEW h \in Handler, Abort(h)
      PROVE  Cardinality(Live(u)') + Cardinality(Counting(u)') <= N
  <2>1. Counting(u)' \subseteq Counting(u)
    BY <1>6, <1>r DEF Abort, Counting, Idle
  <2> QED BY <1>k, <1>6, <2>1 DEF Abort, RowsAge
<1>7. ASSUME DeleteRevokedBefore
      PROVE  Cardinality(Live(u)') + Cardinality(Counting(u)') <= N
  <2>1. Counting(u)' \subseteq Counting(u)
    BY <1>7 DEF DeleteRevokedBefore, Counting
  <2> QED BY <1>k, <1>7, <2>1, WithoutAges DEF DeleteRevokedBefore
<1>8. ASSUME Tick \/ UNCHANGED vars
      PROVE  Cardinality(Live(u)') + Cardinality(Counting(u)') <= N
  <2>1. Counting(u)' \subseteq Counting(u)
    BY <1>8 DEF Tick, Counting, vars
  <2> QED BY <1>k, <1>8, <2>1 DEF Tick, vars, RowsAge
<1> QED BY <1>1, <1>2, <1>3, <1>4, <1>5, <1>6, <1>7, <1>8 DEF Next, Serve, N

LEMMA LiveInvImplies == TypeInvariant /\ LiveInv => LiveCap
<1> SUFFICES ASSUME LiveInv, NEW u \in User
             PROVE  Cardinality({t \in Of(u) : Authenticates(t)})
                        <= MaxLiveTokens + Cardinality(Handler) - 1
  BY DEF LiveCap
<1>1. Live(u) = {t \in Of(u) : Authenticates(t)}
  BY DEF Live
<1>2. Live(u) \in SUBSET Token /\ Counting(u) \in SUBSET Handler
  BY DEF Live, Of, Counting
<1>3. Cardinality(Live(u)) \in Nat /\ Cardinality(Counting(u)) \in Nat
  BY <1>2, Finite
<1>4. Cardinality(Live(u)) + Cardinality(Counting(u))
          <= MaxLiveTokens + Cardinality(Handler) - 1
  BY DEF LiveInv
<1>5. Cardinality(Live(u)) <= MaxLiveTokens + Cardinality(Handler) - 1
  BY <1>3, <1>4, Finite, TokenLimitsAssumption
<1> QED BY <1>1, <1>5

\* However many requests of a user run at the same time, their tokens that let
\* anyone in pass the limit by less than one per request.
THEOREM LiveCapAlways == Spec => []LiveCap
<1>1. Init => TypeInvariant /\ LiveInv
  BY TypeInit, LiveInit
<1>2. (TypeInvariant /\ LiveInv) /\ [Next]_vars => (TypeInvariant /\ LiveInv)'
  BY TypeStep, LiveStep
<1> QED BY <1>1, <1>2, LiveInvImplies, PTL DEF Spec

-----------------------------------------------------------------------------
(* The cap on issuance *)

\* The requests of u that have made both counts.
Inserting(u) == {h \in Handler : req[h].user = u /\ req[h].pc = "insert"}

\* Within the window, issued means still a row: what CountCreatedSince relies on.
IssuedKept == \A u \in User : Issued(u) \subseteq Of(u)

IssueInv ==
    \A u \in User : Cardinality(Issued(u)) + Cardinality(Inserting(u))
                        <= MaxTokensPerDay + Cardinality(Handler) - 1

LEMMA KeptInit == Init => IssuedKept
BY DEF Init, IssuedKept, Issued

\* A step that issues nothing and deletes nothing the window covers.
LEMMA KeptSame ==
    ASSUME TypeInvariant, IssuedKept, born' = born, now' = now \/ now' = now + 1,
           \A t \in Token : tokens[t] # None /\ tokens[t].created >= now - issuanceWindow =>
               tokens'[t] # None /\ tokens'[t].user = tokens[t].user
    PROVE  IssuedKept'
<1> SUFFICES ASSUME NEW u \in User, NEW t \in Issued(u)' PROVE t \in Of(u)'
  BY DEF IssuedKept
<1>1. t \in Token /\ born[t] # None /\ born[t].user = u /\ born[t].created >= now' - issuanceWindow
  BY DEF Issued
<1>2. born[t] \in [user: User, created: Time]
  BY <1>1 DEF TypeInvariant
<1>3. born[t].created \in Int /\ now \in Int /\ issuanceWindow \in Int
  BY <1>2, TokenLimitsAssumption DEF TypeInvariant, Time
<1>4. born[t].created >= now - issuanceWindow
  BY <1>1, <1>3
<1>5. t \in Of(u)
  BY <1>1, <1>4 DEF IssuedKept, Issued
<1>6. tokens[t] # None /\ tokens[t].created >= now - issuanceWindow
  BY <1>4, <1>5 DEF Of, TypeInvariant
<1> QED BY <1>5, <1>6 DEF Of

LEMMA KeptStep == TypeInvariant /\ IssuedKept /\ [Next]_vars => IssuedKept'
<1> SUFFICES ASSUME TypeInvariant, IssuedKept, [Next]_vars PROVE IssuedKept'
  OBVIOUS
<1>t. /\ now \in Int /\ issuanceWindow \in Nat /\ revokedRetention \in Nat
      /\ issuanceWindow <= revokedRetention
  BY NoneIsNoRow, TokenLimitsAssumption DEF TypeInvariant
<1>1. ASSUME NEW h \in Handler, NEW t \in Token, CreateInsert(h, t)
      PROVE  IssuedKept'
  <2> SUFFICES ASSUME NEW u \in User, NEW s \in Issued(u)' PROVE s \in Of(u)'
    BY DEF IssuedKept
  <2> DEFINE row == [user |-> req[h].user, created |-> now,
                     expires |-> req[h].expires, revoked |-> None]
             mint == [user |-> req[h].user, created |-> now]
  <2>1. /\ tokens' = [tokens EXCEPT ![t] = row] /\ now' = now
        /\ born' = [born EXCEPT ![t] = mint]
        /\ req[h] \in Request /\ req[h].user \in User
    BY <1>1 DEF CreateInsert, TypeInvariant
  <2>2. row \in Row /\ row # None /\ row.user = req[h].user /\ mint.user = req[h].user
    BY <2>1, NoneIsNoRow DEF Row, Request, TypeInvariant
  <2> HIDE DEF row, mint
  <2>3. s \in Token /\ born'[s] # None /\ born'[s].user = u
        /\ born'[s].created >= now - issuanceWindow
    BY <2>1 DEF Issued
  <2>4. CASE s = t
    BY <2>1, <2>2, <2>3, <2>4 DEF Of, TypeInvariant
  <2>5. CASE s # t
    <3>1. born'[s] = born[s] /\ tokens'[s] = tokens[s]
      BY <2>1, <2>3, <2>5 DEF TypeInvariant
    <3> QED BY <2>3, <3>1 DEF IssuedKept, Issued, Of
  <2> QED BY <2>4, <2>5
<1>2. ASSUME NEW h \in Handler, NEW v \in User, NEW t \in Token, Revoke(h, v, t)
      PROVE  IssuedKept'
  <2>1. \A s \in Token : tokens[s] # None => tokens'[s] # None
    <3>1. CASE tokens[t].revoked = None
      <4>1. tokens' = [tokens EXCEPT ![t] = [tokens[t] EXCEPT !.revoked = now]]
        BY <1>2, <3>1 DEF Revoke
      <4>2. tokens[t] \in Row /\ now \in Time
        BY <1>2 DEF Revoke, Of, TypeInvariant
      <4>3. [tokens[t] EXCEPT !.revoked = now] \in Row
        BY <4>2 DEF Row
      <4> QED BY <4>1, <4>3, NoneIsNoRow DEF TypeInvariant
    <3>2. CASE tokens[t].revoked # None
      BY <1>2, <3>2 DEF Revoke
    <3> QED BY <3>1, <3>2
  <2>2. \A s \in Token : tokens'[s] # None => tokens'[s].user = tokens[s].user
    BY <1>2, RevokeAges DEF RowsAge
  <2> QED BY <1>2, <2>1, <2>2, KeptSame DEF Revoke
<1>3. ASSUME NEW h \in Handler, TrimRevoked(h)
      PROVE  IssuedKept'
  <2>1. PICK K \in Newest(req[h].user) : tokens' = Without(Trimmed(req[h].user, K))
    BY <1>3 DEF TrimRevoked
  <2>2. ASSUME NEW s \in Token, tokens[s] # None, tokens[s].created >= now - issuanceWindow
        PROVE  tokens'[s] = tokens[s]
    <3>1. tokens[s].created \in Int
      BY <2>2, NoneIsNoRow DEF TypeInvariant, Row
    <3>2. s \notin Trimmed(req[h].user, K)
      BY <1>t, <2>2, <3>1 DEF Trimmed
    <3> QED BY <2>1, <3>2 DEF Without
  <2> QED BY <1>3, <2>2, KeptSame DEF TrimRevoked
<1>4. ASSUME DeleteRevokedBefore
      PROVE  IssuedKept'
  <2>2. ASSUME NEW s \in Token, tokens[s] # None, tokens[s].created >= now - issuanceWindow
        PROVE  tokens'[s] = tokens[s]
    <3>1. /\ tokens[s] \in Row
          /\ tokens[s].revoked # None => tokens[s].created <= tokens[s].revoked
      BY <2>2 DEF TypeInvariant
    <3>2. tokens[s].created \in Int /\ tokens[s].revoked \in Int \cup {None}
      BY <3>1, NoneIsNoRow DEF Row
    <3>3. s \notin Expired
      BY <1>t, <2>2, <3>1, <3>2 DEF Expired
    <3> QED BY <1>4, <3>3 DEF DeleteRevokedBefore, Without
  <2> QED BY <1>4, <2>2, KeptSame DEF DeleteRevokedBefore
<1>5. ASSUME UNCHANGED <<tokens, born>>, now' = now \/ now' = now + 1
      PROVE  IssuedKept'
  BY <1>5, KeptSame
<1>6. ASSUME NEW h \in Handler, CreateCountCreated(h) PROVE IssuedKept'
  BY <1>5, <1>6 DEF CreateCountCreated
<1>7. ASSUME NEW h \in Handler, NEW u \in User, NEW expires \in {now + d : d \in Lifetimes} \cup {None},
             CreateCountLive(h, u, expires)
      PROVE  IssuedKept'
  BY <1>5, <1>7 DEF CreateCountLive
<1>8. ASSUME NEW h \in Handler, Abort(h) PROVE IssuedKept'
  BY <1>5, <1>8 DEF Abort
<1>9. ASSUME Tick \/ UNCHANGED vars PROVE IssuedKept'
  BY <1>5, <1>9 DEF Tick, vars
<1> QED BY <1>1, <1>2, <1>3, <1>4, <1>6, <1>7, <1>8, <1>9 DEF Next, Serve

LEMMA IssueInit == Init => IssueInv
<1> SUFFICES ASSUME Init, NEW u \in User
             PROVE  Cardinality(Issued(u)) + Cardinality(Inserting(u))
                        <= MaxTokensPerDay + Cardinality(Handler) - 1
  BY DEF IssueInv
<1>1. Issued(u) = {} /\ Inserting(u) = {}
  BY DEF Init, Issued, Inserting, Idle
<1>2. Cardinality(Issued(u)) = 0 /\ Cardinality(Inserting(u)) = 0
  BY <1>1, FS_EmptySet
<1> QED BY <1>2, Finite, TokenLimitsAssumption

LEMMA IssueStep == TypeInvariant /\ IssuedKept /\ IssueInv /\ [Next]_vars => IssueInv'
<1> SUFFICES ASSUME TypeInvariant, IssuedKept, IssueInv, [Next]_vars, NEW u \in User
             PROVE  Cardinality(Issued(u)') + Cardinality(Inserting(u)')
                        <= MaxTokensPerDay + Cardinality(Handler) - 1
  BY DEF IssueInv
<1> DEFINE N == MaxTokensPerDay + Cardinality(Handler) - 1
<1>n. MaxTokensPerDay \in Nat /\ N \in Int
  BY Finite, TokenLimitsAssumption
<1>s. /\ Issued(u) \in SUBSET Token /\ Issued(u)' \in SUBSET Token
      /\ Inserting(u) \in SUBSET Handler /\ Inserting(u)' \in SUBSET Handler
  BY DEF Issued, Inserting
<1>i. Cardinality(Issued(u)) + Cardinality(Inserting(u)) <= N
  BY DEF IssueInv
<1>r. req \in [Handler -> Request]
  BY DEF TypeInvariant
<1> HIDE DEF N
<1>k. ASSUME born' = born, now' = now \/ now' = now + 1, Inserting(u)' \subseteq Inserting(u)
      PROVE  Cardinality(Issued(u)') + Cardinality(Inserting(u)') <= N
  <2>1. Issued(u)' \subseteq Issued(u)
    <3> SUFFICES ASSUME NEW t \in Issued(u)' PROVE t \in Issued(u)
      OBVIOUS
    <3>1. t \in Token /\ born[t] # None /\ born[t].user = u
          /\ born[t].created >= now' - issuanceWindow
      BY <1>k DEF Issued
    <3>2. born[t] \in [user: User, created: Time] /\ now \in Time
      BY <3>1 DEF TypeInvariant
    <3>3. born[t].created \in Int /\ now \in Int /\ issuanceWindow \in Int
      BY <3>2, TokenLimitsAssumption DEF Time
    <3>4. born[t].created >= now - issuanceWindow
      BY <1>k, <3>1, <3>3
    <3> QED BY <3>1, <3>4 DEF Issued
  <2> QED BY <1>n, <1>s, <1>i, <1>k, <2>1, CountKept
<1>1. ASSUME NEW h \in Handler, NEW v \in User, NEW expires \in {now + d : d \in Lifetimes} \cup {None},
             CreateCountLive(h, v, expires)
      PROVE  Cardinality(Issued(u)') + Cardinality(Inserting(u)') <= N
  <2>1. Inserting(u)' \subseteq Inserting(u)
    BY <1>1, <1>r DEF CreateCountLive, Inserting
  <2> QED BY <1>k, <1>1, <2>1 DEF CreateCountLive
<1>2. ASSUME NEW h \in Handler, CreateCountCreated(h)
      PROVE  Cardinality(Issued(u)') + Cardinality(Inserting(u)') <= N
  <2> DEFINE v == req[h].user
             c == Cardinality(CreatedSince(v, now - issuanceWindow)) < MaxTokensPerDay
  <2>1. /\ req' = [req EXCEPT ![h] = IF c THEN [req[h] EXCEPT !.pc = "insert"] ELSE Idle]
        /\ UNCHANGED <<now, tokens, born>>
    BY <1>2 DEF CreateCountCreated
  <2>2. CASE c /\ v = u
    <3>1. Issued(u)' = Issued(u)
      BY <2>1 DEF Issued
    <3>2. Issued(u) = CreatedSince(u, now - issuanceWindow)
      BY DEF Issued, CreatedSince, IssuedKept, Of, TypeInvariant
    <3>3. Cardinality(Issued(u)') < MaxTokensPerDay
      BY <2>2, <3>1, <3>2
    <3> QED BY <1>n, <1>s, <3>3, CountPassed DEF N
  <2>3. CASE ~(c /\ v = u)
    <3> HIDE DEF c
    <3>1. \A k \in Handler : k # h => req'[k] = req[k]
      BY <1>r, <2>1
    <3>2. ~(req'[h].pc = "insert" /\ req'[h].user = u)
      BY <1>r, <2>1, <2>3 DEF Idle, Request
    <3>3. Inserting(u)' \subseteq Inserting(u)
      BY <3>1, <3>2 DEF Inserting
    <3> QED BY <1>k, <2>1, <3>3
  <2> QED BY <2>2, <2>3
<1>3. ASSUME NEW h \in Handler, NEW t \in Token, CreateInsert(h, t)
      PROVE  Cardinality(Issued(u)') + Cardinality(Inserting(u)') <= N
  <2>1. /\ req' = [req EXCEPT ![h] = Idle] /\ now' = now /\ req[h].pc = "insert"
        /\ born \in [Token -> [user: User, created: Time] \cup {None}]
        /\ born' = [born EXCEPT ![t] = [user |-> req[h].user, created |-> now]]
    BY <1>3 DEF CreateInsert, TypeInvariant
  <2>2. \A s \in Token : s # t => born'[s] = born[s]
    BY <2>1
  <2>3. born'[t].user = req[h].user
    BY <2>1
  <2>4. req'[h].pc = "idle" /\ \A k \in Handler : k # h => req'[k] = req[k]
    BY <1>r, <2>1 DEF Idle
  <2>5. CASE req[h].user = u
    <3>1. h \in Inserting(u) /\ Inserting(u)' \subseteq Inserting(u) \ {h}
      BY <2>1, <2>4, <2>5 DEF Inserting
    <3>2. Issued(u)' \subseteq Issued(u) \cup {t}
      BY <2>1, <2>2 DEF Issued
    <3> QED BY <1>n, <1>s, <1>i, <3>1, <3>2, CountSpent
  <2>6. CASE req[h].user # u
    <3>1. Inserting(u)' \subseteq Inserting(u)
      BY <2>4 DEF Inserting
    <3>2. Issued(u)' \subseteq Issued(u)
      BY <2>1, <2>2, <2>3, <2>6 DEF Issued
    <3> QED BY <1>n, <1>s, <1>i, <3>1, <3>2, CountKept
  <2> QED BY <2>5, <2>6
<1>4. ASSUME NEW h \in Handler, NEW v \in User, NEW t \in Token, Revoke(h, v, t)
      PROVE  Cardinality(Issued(u)') + Cardinality(Inserting(u)') <= N
  <2>1. Inserting(u)' \subseteq Inserting(u)
    BY <1>4, <1>r DEF Revoke, Inserting, Idle
  <2> QED BY <1>k, <1>4, <2>1 DEF Revoke
<1>5. ASSUME NEW h \in Handler, TrimRevoked(h) \/ Abort(h)
      PROVE  Cardinality(Issued(u)') + Cardinality(Inserting(u)') <= N
  <2>1. Inserting(u)' \subseteq Inserting(u)
    BY <1>5, <1>r DEF TrimRevoked, Abort, Inserting, Idle
  <2> QED BY <1>k, <1>5, <2>1 DEF TrimRevoked, Abort
<1>6. ASSUME DeleteRevokedBefore \/ Tick \/ UNCHANGED vars
      PROVE  Cardinality(Issued(u)') + Cardinality(Inserting(u)') <= N
  <2>1. Inserting(u)' \subseteq Inserting(u)
    BY <1>6 DEF DeleteRevokedBefore, Tick, Inserting, vars
  <2> QED BY <1>k, <1>6, <2>1 DEF DeleteRevokedBefore, Tick, vars
<1> QED BY <1>1, <1>2, <1>3, <1>4, <1>5, <1>6 DEF Next, Serve, N

LEMMA IssueInvImplies == IssueInv => IssuanceCap
<1> SUFFICES ASSUME IssueInv, NEW u \in User
             PROVE  Cardinality(Issued(u)) <= MaxTokensPerDay + Cardinality(Handler) - 1
  BY DEF IssuanceCap
<1>1. Issued(u) \in SUBSET Token /\ Inserting(u) \in SUBSET Handler
  BY DEF Issued, Inserting
<1>2. Cardinality(Issued(u)) \in Nat /\ Cardinality(Inserting(u)) \in Nat
  BY <1>1, Finite
<1>3. Cardinality(Issued(u)) + Cardinality(Inserting(u))
          <= MaxTokensPerDay + Cardinality(Handler) - 1
  BY DEF IssueInv
<1> QED BY <1>2, <1>3, Finite, TokenLimitsAssumption

\* In no window does a user get more than the limit and one for each request that
\* counted at the same time, whatever is revoked, trimmed and cleaned up.
THEOREM IssuanceCapAlways == Spec => []IssuanceCap
<1>1. Init => TypeInvariant /\ IssuedKept /\ IssueInv
  BY TypeInit, KeptInit, IssueInit
<1>2. (TypeInvariant /\ IssuedKept /\ IssueInv) /\ [Next]_vars
          => (TypeInvariant /\ IssuedKept /\ IssueInv)'
  BY TypeStep, KeptStep, IssueStep
<1> QED BY <1>1, <1>2, IssueInvImplies, PTL DEF Spec

-----------------------------------------------------------------------------
(* The bounded history *)

\* What a trim keeps of u: the newest rows and those of the window.
LEMMA TrimmedHistory ==
    ASSUME TypeInvariant, NEW u \in User, NEW K \in Newest(u), IssueInv,
           tokens' = Without(Trimmed(u, K)), now' = now
    PROVE  Cardinality(Revoked(u)')
               <= maxRevokedKept + MaxTokensPerDay + Cardinality(Handler) - 1
<1>1. K \in SUBSET Token /\ Cardinality(K) <= maxRevokedKept
  BY DEF Newest, Revoked, Of
<1>2. Issued(u) \in SUBSET Token
  BY DEF Issued
<1>3. Revoked(u)' \subseteq K \cup Issued(u)
  <2> SUFFICES ASSUME NEW t \in Revoked(u)', t \notin K PROVE t \in Issued(u)
    OBVIOUS
  <2>1. t \in Token /\ t \notin Trimmed(u, K) /\ tokens[t] # None
        /\ tokens[t].user = u /\ tokens[t].revoked # None
    BY DEF Revoked, Of, Without
  <2>2. ~(tokens[t].created < now - issuanceWindow)
    BY <2>1 DEF Trimmed, Revoked, Of
  <2>3. tokens[t] \in Row /\ now \in Time
    BY <2>1 DEF TypeInvariant
  <2>4. tokens[t].created >= now - issuanceWindow
    BY <2>2, <2>3, TokenLimitsAssumption DEF Row, Time
  <2> QED BY <2>1, <2>4 DEF Issued, TypeInvariant
<1>4. /\ IsFiniteSet(K) /\ IsFiniteSet(Issued(u)) /\ IsFiniteSet(K \cup Issued(u))
      /\ Cardinality(K) \in Nat /\ Cardinality(Issued(u)) \in Nat
      /\ Cardinality(K \cup Issued(u)) \in Nat
      /\ Cardinality(K \cap Issued(u)) \in Nat
  BY <1>1, <1>2, Finite
<1>5. Cardinality(K \cup Issued(u)) <= Cardinality(K) + Cardinality(Issued(u))
  <2>1. Cardinality(K \cup Issued(u))
            = Cardinality(K) + Cardinality(Issued(u)) - Cardinality(K \cap Issued(u))
    BY <1>4, FS_Union
  <2> QED BY <1>4, <2>1
<1>6. Cardinality(Revoked(u)') <= Cardinality(K \cup Issued(u)) /\ Cardinality(Revoked(u)') \in Nat
  <2>1. Revoked(u)' \in SUBSET Token /\ Revoked(u)' \in SUBSET (K \cup Issued(u))
    BY <1>3 DEF Revoked, Of
  <2> QED BY <1>4, <2>1, Finite, FS_Subset
<1>7. Cardinality(Issued(u)) <= MaxTokensPerDay + Cardinality(Handler) - 1
  BY IssueInvImplies DEF IssuanceCap
<1> QED BY <1>1, <1>4, <1>5, <1>6, <1>7, Finite, TokenLimitsAssumption

LEMMA HistoryInit == Init => HistoryBounded
<1> SUFFICES ASSUME Init, NEW u \in User
             PROVE  Cardinality(Revoked(u)) <= maxRevokedKept + MaxTokensPerDay
                        + Cardinality(Handler) - 1 + untrimmed[u]
  BY DEF HistoryBounded
<1>1. Revoked(u) = {} /\ untrimmed[u] = 0
  BY DEF Init, Revoked, Of
<1>2. Cardinality(Revoked(u)) = 0
  BY <1>1, FS_EmptySet
<1> QED BY <1>1, <1>2, Finite, TokenLimitsAssumption

LEMMA HistoryStep == TypeInvariant /\ IssueInv /\ HistoryBounded /\ [Next]_vars => HistoryBounded'
<1> SUFFICES ASSUME TypeInvariant, IssueInv, HistoryBounded, [Next]_vars, NEW u \in User
             PROVE  Cardinality(Revoked(u)') <= maxRevokedKept + MaxTokensPerDay
                        + Cardinality(Handler) - 1 + untrimmed'[u]
  BY DEF HistoryBounded
<1> DEFINE N == maxRevokedKept + MaxTokensPerDay + Cardinality(Handler) - 1
<1>n. N \in Nat
  BY Finite, TokenLimitsAssumption
<1>i. Cardinality(Revoked(u)) <= N + untrimmed[u] /\ untrimmed[u] \in Nat
  BY DEF HistoryBounded, TypeInvariant
<1>s. /\ Revoked(u) \in SUBSET Token /\ Revoked(u)' \in SUBSET Token
      /\ IsFiniteSet(Revoked(u)) /\ Cardinality(Revoked(u)) \in Nat
      /\ Cardinality(Revoked(u)') \in Nat
  <2>1. Revoked(u) \in SUBSET Token /\ Revoked(u)' \in SUBSET Token
    BY DEF Revoked, Of
  <2> QED BY <2>1, Finite
<1> HIDE DEF N
<1>k. ASSUME Revoked(u)' \subseteq Revoked(u), untrimmed' = untrimmed
      PROVE  Cardinality(Revoked(u)') <= N + untrimmed'[u]
  <2>1. Cardinality(Revoked(u)') <= Cardinality(Revoked(u))
    BY <1>k, <1>s, FS_Subset
  <2> QED BY <1>n, <1>i, <1>s, <1>k, <2>1
<1>1. ASSUME NEW h \in Handler, NEW t \in Token, CreateInsert(h, t)
      PROVE  Cardinality(Revoked(u)') <= N + untrimmed'[u]
  <2>1. /\ \A s \in Token : s # t => tokens'[s] = tokens[s]
        /\ tokens'[t].revoked = None /\ untrimmed' = untrimmed
    BY <1>1 DEF CreateInsert, TypeInvariant
  <2>2. Revoked(u)' \subseteq Revoked(u)
    BY <2>1 DEF Revoked, Of
  <2> QED BY <1>k, <2>1, <2>2
<1>2. ASSUME NEW h \in Handler, NEW v \in User, NEW t \in Token, Revoke(h, v, t)
      PROVE  Cardinality(Revoked(u)') <= N + untrimmed'[u]
  <2>1. CASE tokens[t].revoked # None
    <3>1. tokens' = tokens /\ untrimmed' = untrimmed
      BY <1>2, <2>1 DEF Revoke
    <3>2. Revoked(u)' \subseteq Revoked(u)
      BY <3>1 DEF Revoked, Of
    <3> QED BY <1>k, <3>1, <3>2
  <2>2. CASE tokens[t].revoked = None
    <3>1. /\ tokens' = [tokens EXCEPT ![t] = [tokens[t] EXCEPT !.revoked = now]]
          /\ untrimmed' = [untrimmed EXCEPT ![v] = @ + 1]
          /\ tokens[t] \in Row /\ tokens[t].user = v
          /\ tokens \in [Token -> Row \cup {None}] /\ untrimmed \in [User -> Nat]
      BY <1>2, <2>2 DEF Revoke, Of, TypeInvariant
    <3>2. \A s \in Token : s # t => tokens'[s] = tokens[s]
      BY <3>1
    <3>3. CASE u = v
      <4>1. Revoked(u)' \subseteq Revoked(u) \cup {t}
        BY <3>2 DEF Revoked, Of
      <4>2. /\ IsFiniteSet(Revoked(u) \cup {t})
            /\ Cardinality(Revoked(u) \cup {t}) <= Cardinality(Revoked(u)) + 1
        BY <1>s, FS_AddElement
      <4>3. Revoked(u) \cup {t} \in SUBSET Token
        BY <1>s
      <4>4. Cardinality(Revoked(u)') <= Cardinality(Revoked(u) \cup {t})
            /\ Cardinality(Revoked(u) \cup {t}) \in Nat
        BY <4>1, <4>2, <4>3, FS_Subset, Finite
      <4>5. untrimmed'[u] = untrimmed[u] + 1
        BY <3>1, <3>3
      <4> QED BY <1>n, <1>i, <1>s, <4>2, <4>4, <4>5
    <3>4. CASE u # v
      <4>1. tokens'[t].user = v
        BY <3>1 DEF Row
      <4>2. Revoked(u)' \subseteq Revoked(u)
        BY <3>2, <3>4, <4>1 DEF Revoked, Of
      <4>3. untrimmed'[u] = untrimmed[u]
        BY <3>1, <3>4
      <4>4. Cardinality(Revoked(u)') <= Cardinality(Revoked(u))
        BY <4>2, <1>s, FS_Subset
      <4> QED BY <1>n, <1>i, <1>s, <4>3, <4>4
    <3> QED BY <3>3, <3>4
  <2> QED BY <2>1, <2>2
<1>3. ASSUME NEW h \in Handler, TrimRevoked(h)
      PROVE  Cardinality(Revoked(u)') <= N + untrimmed'[u]
  <2>1. PICK v : v = req[h].user
    OBVIOUS
  <2>2. v \in User /\ untrimmed \in [User -> Nat]
    BY <1>3, <2>1 DEF TrimRevoked, TypeInvariant
  <2>3. PICK K \in Newest(v) : tokens' = Without(Trimmed(v, K))
    BY <1>3, <2>1 DEF TrimRevoked
  <2>4. now' = now /\ untrimmed' = [untrimmed EXCEPT ![v] = 0]
    BY <1>3, <2>1 DEF TrimRevoked
  <2>5. CASE u = v
    <3>1. Cardinality(Revoked(u)') <= N
      BY <2>3, <2>4, <2>5, TrimmedHistory DEF N
    <3>2. untrimmed'[u] = 0
      BY <2>2, <2>4, <2>5
    <3> QED BY <1>n, <1>s, <3>1, <3>2
  <2>6. CASE u # v
    <3>1. untrimmed'[u] = untrimmed[u]
      BY <2>2, <2>4, <2>6
    <3>2. Revoked(u)' \subseteq Revoked(u)
      BY <2>3 DEF Without, Revoked, Of
    <3>3. Cardinality(Revoked(u)') <= Cardinality(Revoked(u))
      BY <3>2, <1>s, FS_Subset
    <3> QED BY <1>n, <1>i, <1>s, <3>1, <3>3
  <2> QED BY <2>5, <2>6
<1>4. ASSUME DeleteRevokedBefore
      PROVE  Cardinality(Revoked(u)') <= N + untrimmed'[u]
  <2>1. Revoked(u)' \subseteq Revoked(u)
    BY <1>4 DEF DeleteRevokedBefore, Without, Revoked, Of
  <2> QED BY <1>4, <1>k, <2>1 DEF DeleteRevokedBefore
<1>5. ASSUME UNCHANGED <<tokens, untrimmed>>
      PROVE  Cardinality(Revoked(u)') <= N + untrimmed'[u]
  <2>1. Revoked(u)' \subseteq Revoked(u)
    BY <1>5 DEF Revoked, Of
  <2> QED BY <1>5, <1>k, <2>1
<1>6. ASSUME NEW h \in Handler, CreateCountCreated(h) \/ Abort(h)
      PROVE  UNCHANGED <<tokens, untrimmed>>
  BY <1>6 DEF CreateCountCreated, Abort
<1>7. ASSUME NEW h \in Handler, NEW v \in User, NEW expires \in {now + d : d \in Lifetimes} \cup {None},
             CreateCountLive(h, v, expires)
      PROVE  UNCHANGED <<tokens, untrimmed>>
  BY <1>7 DEF CreateCountLive
<1>8. ASSUME Tick \/ UNCHANGED vars
      PROVE  UNCHANGED <<tokens, untrimmed>>
  BY <1>8 DEF Tick, vars
<1> QED BY <1>1, <1>2, <1>3, <1>4, <1>5, <1>6, <1>7, <1>8 DEF Next, Serve, N

\* A user's revoked rows stay as few as the trim leaves, with no other cleaning.
THEOREM HistoryBoundedAlways == Spec => []HistoryBounded
<1>1. Init => TypeInvariant /\ IssuedKept /\ IssueInv /\ HistoryBounded
  BY TypeInit, KeptInit, IssueInit, HistoryInit
<1>2. (TypeInvariant /\ IssuedKept /\ IssueInv /\ HistoryBounded) /\ [Next]_vars
          => (TypeInvariant /\ IssuedKept /\ IssueInv /\ HistoryBounded)'
  BY TypeStep, KeptStep, IssueStep, HistoryStep
<1> QED BY <1>1, <1>2, PTL DEF Spec

-----------------------------------------------------------------------------
(* What a row that goes leaves behind *)

KeepsHistory(u, t) ==
    /\ tokens[t].revoked # None
    /\ \/ tokens[t].revoked < now - revokedRetention
       \/ Cardinality({s \in Revoked(u)' : tokens[s].revoked >= tokens[t].revoked})
              >= maxRevokedKept

LEMMA TrimKeepsHistory ==
    ASSUME TypeInvariant, NEW v \in User, NEW K \in Newest(v),
           tokens' = Without(Trimmed(v, K)),
           NEW u \in User, NEW t \in Of(u) \ Of(u)'
    PROVE  KeepsHistory(u, t)
<1>1. t \in Trimmed(v, K) /\ t \in Token
  BY DEF Of, Without
<1>2. t \in Revoked(v) /\ t \notin K /\ tokens[t].revoked # None /\ u = v
  BY <1>1 DEF Trimmed, Revoked, Of
<1>3. K \subseteq Revoked(v) /\ Cardinality(K) = maxRevokedKept
      /\ \A k \in K : tokens[k].revoked >= tokens[t].revoked
  BY <1>2 DEF Newest
<1>4. K \subseteq Revoked(v)'
  BY <1>3 DEF Trimmed, Without, Revoked, Of
<1> DEFINE S == {s \in Revoked(u)' : tokens[s].revoked >= tokens[t].revoked}
<1>5. K \in SUBSET S
  BY <1>2, <1>3, <1>4
<1>6. S \in SUBSET Token
  BY DEF Revoked, Of
<1>7. IsFiniteSet(S) /\ Cardinality(S) \in Nat /\ Cardinality(K) <= Cardinality(S)
  BY <1>5, <1>6, Finite, FS_Subset
<1>8. Cardinality(S) >= maxRevokedKept
  BY <1>3, <1>7, TokenLimitsAssumption
<1> QED BY <1>2, <1>8 DEF KeepsHistory

LEMMA StepKeepsHistory ==
    ASSUME TypeInvariant, [Next]_vars, NEW u \in User, NEW t \in Of(u) \ Of(u)'
    PROVE  KeepsHistory(u, t)
<1>t. t \in Token /\ tokens[t] # None /\ tokens[t].user = u
      /\ tokens \in [Token -> Row \cup {None}]
  BY DEF Of, TypeInvariant
<1>1. ASSUME NEW h \in Handler, NEW s \in Token, CreateInsert(h, s)
      PROVE  FALSE
  <2>1. /\ tokens' = [tokens EXCEPT ![s] = [user |-> req[h].user, created |-> now,
                                            expires |-> req[h].expires, revoked |-> None]]
        /\ born[s] = None
    BY <1>1 DEF CreateInsert
  <2>2. tokens[s] = None
    BY <2>1 DEF TypeInvariant
  <2> QED BY <1>t, <2>1, <2>2 DEF Of
<1>2. ASSUME NEW h \in Handler, NEW v \in User, NEW s \in Token, Revoke(h, v, s)
      PROVE  FALSE
  <2>1. CASE tokens[s].revoked = None
    <3>1. /\ tokens' = [tokens EXCEPT ![s] = [tokens[s] EXCEPT !.revoked = now]]
          /\ tokens[s] \in Row /\ tokens[s].user = v /\ now \in Time
      BY <1>2, <2>1 DEF Revoke, Of, TypeInvariant
    <3>2. [tokens[s] EXCEPT !.revoked = now] \in Row
          /\ [tokens[s] EXCEPT !.revoked = now].user = tokens[s].user
      BY <3>1 DEF Row
    <3> QED BY <1>t, <3>1, <3>2, NoneIsNoRow DEF Of
  <2>2. CASE tokens[s].revoked # None
    BY <1>2, <2>2 DEF Revoke, Of
  <2> QED BY <2>1, <2>2
<1>3. ASSUME NEW h \in Handler, TrimRevoked(h)
      PROVE  KeepsHistory(u, t)
  <2>1. PICK v : v = req[h].user
    OBVIOUS
  <2>2. v \in User
    BY <1>3, <2>1 DEF TrimRevoked, TypeInvariant
  <2>3. PICK K \in Newest(v) : tokens' = Without(Trimmed(v, K))
    BY <1>3, <2>1 DEF TrimRevoked
  <2> QED BY <2>2, <2>3, TrimKeepsHistory
<1>4. ASSUME DeleteRevokedBefore
      PROVE  KeepsHistory(u, t)
  <2>1. t \in Expired
    BY <1>t, <1>4 DEF DeleteRevokedBefore, Without, Of
  <2> QED BY <2>1 DEF Expired, KeepsHistory
<1>5. ASSUME UNCHANGED tokens
      PROVE  FALSE
  BY <1>5 DEF Of
<1>6. ASSUME NEW h \in Handler, CreateCountCreated(h) \/ Abort(h)
      PROVE  UNCHANGED tokens
  BY <1>6 DEF CreateCountCreated, Abort
<1>7. ASSUME NEW h \in Handler, NEW v \in User, NEW expires \in {now + d : d \in Lifetimes} \cup {None},
             CreateCountLive(h, v, expires)
      PROVE  UNCHANGED tokens
  BY <1>7 DEF CreateCountLive
<1>8. ASSUME Tick \/ UNCHANGED vars
      PROVE  UNCHANGED tokens
  BY <1>8 DEF Tick, vars
<1> QED BY <1>1, <1>2, <1>3, <1>4, <1>5, <1>6, <1>7, <1>8 DEF Next, Serve

\* A row goes only when it was revoked and is past the retention, or older than a
\* full history its user keeps.
THEOREM HistoryKeptAlways == Spec => HistoryKept
<1> DEFINE A == \A u \in User : \A t \in Of(u) \ Of(u)' :
          /\ tokens[t].revoked # None
          /\ \/ tokens[t].revoked < now - revokedRetention
             \/ Cardinality({s \in Revoked(u)' : tokens[s].revoked >= tokens[t].revoked})
                    >= maxRevokedKept
<1>1. TypeInvariant /\ [Next]_vars => [A]_vars
  BY StepKeepsHistory DEF KeepsHistory
<1> QED BY <1>1, TypeCorrect, PTL DEF Spec, HistoryKept

=============================================================================
