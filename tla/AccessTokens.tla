---------------------------- MODULE AccessTokens ----------------------------
(* The personal access tokens of service/token.go and repository/token.go.   *)
(* A request runs on a goroutine of its own (a Handler) and each of its       *)
(* statements commits by itself, so the two counts that guard an issue and    *)
(* the INSERT they guard are three steps, and so are a revocation and the     *)
(* trimming that follows it.  The name, the scope and the hash of a token     *)
(* decide nothing here and are left out.  A refused request leaves no trace   *)
(* and is not a step.  One clock stands for the clocks of the database and of *)
(* the server.                                                                *)
EXTENDS Integers, FiniteSets

CONSTANTS
    None,             \* SQL NULL, and the row that is not there
    Handler,          \* the requests that can be served at one time
    User,
    Token,            \* ids, hash included: each is issued once
    MaxLiveTokens,    \* 5 in the code
    MaxTokensPerDay,  \* 10
    maxRevokedKept,   \* 10
    issuanceWindow,   \* 24 hours
    revokedRetention, \* 7 days
    Lifetimes,        \* bound: how far ahead the expiry of a token is asked for
    MaxTime           \* bound: the clock stops there

ASSUME TokenSetsAssumption ==
    /\ IsFiniteSet(Handler) /\ Handler # {}
    /\ IsFiniteSet(Token)
    /\ None \notin Int /\ None \notin User
    /\ None \notin [user: User, created: Int, expires: Int \cup {None}, revoked: Int \cup {None}]
    /\ None \notin [user: User, created: Int]

\* Retention outlasts the issuance window: the issuance cap counts rows.
ASSUME TokenLimitsAssumption ==
    /\ {MaxLiveTokens, MaxTokensPerDay, maxRevokedKept} \subseteq Nat
    /\ {issuanceWindow, revokedRetention, MaxTime} \subseteq Nat
    /\ Lifetimes \subseteq Int
    /\ issuanceWindow <= revokedRetention

Time == 0 .. MaxTime

\* A row of personal_access_tokens.
Row == [user: User, created: Time,
        expires: Int \cup {None}, revoked: Time \cup {None}]

Request == [pc: {"idle", "count", "insert", "trim"},
            user: User \cup {None}, expires: Int \cup {None}]

Idle == [pc |-> "idle", user |-> None, expires |-> None]

VARIABLES
    now,        \* the clock
    tokens,     \* the table: a row or None for each id
    req,        \* the request each handler is serving
    born,       \* history: for whom and when each id was issued, None before
    untrimmed   \* history: rows revoked since the user's rows were trimmed

vars == <<now, tokens, req, born, untrimmed>>

TypeInvariant ==
    /\ now \in Time
    /\ tokens \in [Token -> Row \cup {None}]
    /\ req \in [Handler -> Request]
    /\ born \in [Token -> [user: User, created: Time] \cup {None}]
    /\ untrimmed \in [User -> Nat]
    /\ \A h \in Handler : req[h].pc # "idle" => req[h].user \in User
    /\ \A t \in Token : tokens[t] # None =>
          /\ born[t] # None
          /\ tokens[t].user = born[t].user
          /\ tokens[t].created = born[t].created
          /\ tokens[t].created <= now
          /\ tokens[t].revoked # None => tokens[t].created <= tokens[t].revoked

-----------------------------------------------------------------------------
Of(u) == {t \in Token : tokens[t] # None /\ tokens[t].user = u}

\* Authenticate lets the bearer of t in.
Authenticates(t) ==
    /\ tokens[t].revoked = None
    /\ tokens[t].expires = None \/ tokens[t].expires > now

\* Mutant: a token without an expiry is not counted.
LiveExpiringOnly(u) ==
    {t \in Of(u) : tokens[t].revoked = None /\ tokens[t].expires # None
                      /\ tokens[t].expires > now}

Live(u) == {t \in Of(u) : Authenticates(t)}

Revoked(u) == {t \in Of(u) : tokens[t].revoked # None}

CreatedSince(u, time) == {t \in Of(u) : tokens[t].created >= time}

\* Mutant: ORDER BY revoked_at ASC.
NewestOldestFirst(u) ==
    {K \in SUBSET Revoked(u) :
        /\ Cardinality(K) <= maxRevokedKept
        /\ K # Revoked(u) => Cardinality(K) = maxRevokedKept
        /\ \A k \in K, t \in Revoked(u) \ K : tokens[k].revoked <= tokens[t].revoked}

\* Mutant: LIMIT without effect.
NewestAll(u) == {Revoked(u)}

\* The choices ORDER BY revoked_at DESC LIMIT maxRevokedKept has: ties go either
\* way.
Newest(u) ==
    {K \in SUBSET Revoked(u) :
        /\ Cardinality(K) <= maxRevokedKept
        /\ K # Revoked(u) => Cardinality(K) = maxRevokedKept
        /\ \A k \in K, t \in Revoked(u) \ K : tokens[k].revoked >= tokens[t].revoked}

Without(S) == [t \in Token |-> IF t \in S THEN None ELSE tokens[t]]

-----------------------------------------------------------------------------
\* Create, first statement.  The handler has checked that the expiry is ahead.
CreateCountLive(h, u, expires) ==
    /\ req[h] = Idle
    /\ expires # None => expires > now
    /\ Cardinality(Live(u)) < MaxLiveTokens
    /\ req' = [req EXCEPT ![h] = [pc |-> "count", user |-> u, expires |-> expires]]
    /\ UNCHANGED <<now, tokens, born, untrimmed>>

CreateCountCreated(h) ==
    /\ req[h].pc = "count"
    /\ req' = [req EXCEPT ![h] =
          IF Cardinality(CreatedSince(req[h].user, now - issuanceWindow)) < MaxTokensPerDay
            THEN [@ EXCEPT !.pc = "insert"]
            ELSE Idle]
    /\ UNCHANGED <<now, tokens, born, untrimmed>>

CreateInsert(h, t) ==
    /\ req[h].pc = "insert"
    /\ born[t] = None
    /\ tokens' = [tokens EXCEPT ![t] = [user |-> req[h].user, created |-> now,
                                        expires |-> req[h].expires, revoked |-> None]]
    /\ born' = [born EXCEPT ![t] = [user |-> req[h].user, created |-> now]]
    /\ req' = [req EXCEPT ![h] = Idle]
    /\ UNCHANGED <<now, untrimmed>>

\* Revoking again keeps the first timestamp, and trims all the same.
Revoke(h, u, t) ==
    /\ req[h] = Idle
    /\ t \in Of(u)
    /\ IF tokens[t].revoked = None
         THEN /\ tokens' = [tokens EXCEPT ![t].revoked = now]
              /\ untrimmed' = [untrimmed EXCEPT ![u] = @ + 1]
         ELSE UNCHANGED <<tokens, untrimmed>>
    /\ req' = [req EXCEPT ![h] = [Idle EXCEPT !.pc = "trim", !.user = u]]
    /\ UNCHANGED <<now, born>>

\* Mutant: no row is protected.
TrimmedUnprotected(u, K) == Revoked(u) \ K

\* The revoked rows a trim that keeps K deletes: the rows the issuance cap
\* counts are protected.
Trimmed(u, K) ==
    {t \in Revoked(u) \ K : tokens[t].created < now - issuanceWindow}

TrimRevoked(h) ==
    LET u == req[h].user
    IN  /\ req[h].pc = "trim"
        /\ \E K \in Newest(u) : tokens' = Without(Trimmed(u, K))
        /\ untrimmed' = [untrimmed EXCEPT ![u] = 0]
        /\ req' = [req EXCEPT ![h] = Idle]
        /\ UNCHANGED <<now, born>>

\* A statement fails, or the client or the process goes away: the request stops
\* where it is.  A revocation whose trim fails is still a success.
Abort(h) ==
    /\ req[h] # Idle
    /\ req' = [req EXCEPT ![h] = Idle]
    /\ UNCHANGED <<now, tokens, born, untrimmed>>

\* Mutant: the retention is measured from the issue, revoked or not.
ExpiredIssued == {t \in Token : tokens[t] # None
                                  /\ tokens[t].created < now - revokedRetention}

\* CleanupRevoked, on its timer.
Expired == {t \in Token : tokens[t] # None /\ tokens[t].revoked # None
                            /\ tokens[t].revoked < now - revokedRetention}

DeleteRevokedBefore ==
    /\ tokens' = Without(Expired)
    /\ UNCHANGED <<now, req, born, untrimmed>>

Tick ==
    /\ now < MaxTime
    /\ now' = now + 1
    /\ UNCHANGED <<tokens, req, born, untrimmed>>

Serve(h) ==
    \/ \E u \in User, expires \in {now + d : d \in Lifetimes} \cup {None} :
          CreateCountLive(h, u, expires)
    \/ CreateCountCreated(h)
    \/ \E t \in Token : CreateInsert(h, t)
    \/ \E u \in User, t \in Token : Revoke(h, u, t)
    \/ TrimRevoked(h)
    \/ Abort(h)

Init ==
    /\ now = 0
    /\ tokens = [t \in Token |-> None]
    /\ req = [h \in Handler |-> Idle]
    /\ born = [t \in Token |-> None]
    /\ untrimmed = [u \in User |-> 0]

Next ==
    \/ \E h \in Handler : Serve(h)
    \/ DeleteRevokedBefore
    \/ Tick

Spec == Init /\ [][Next]_vars

-----------------------------------------------------------------------------
\* MaxLiveTokens "caps how many tokens can authenticate at once": requests that
\* count before any of them inserts can pass it, by one each and no further.
LiveCap ==
    \A u \in User :
        Cardinality({t \in Of(u) : Authenticates(t)})
            <= MaxLiveTokens + Cardinality(Handler) - 1

\* Every token issued to u within the last issuance window, the ones whose row
\* is gone included.
Issued(u) == {t \in Token : /\ born[t] # None
                            /\ born[t].user = u
                            /\ born[t].created >= now - issuanceWindow}

\* MaxTokensPerDay "caps issuance, not survival": whatever is revoked, trimmed
\* or cleaned up meanwhile, a user gets at most that many tokens in any window,
\* save one for each request that counted at the same time.
IssuanceCap ==
    \A u \in User :
        Cardinality(Issued(u)) <= MaxTokensPerDay + Cardinality(Handler) - 1

\* "Bounded history": the revoked rows of a user are the newest ones kept, those
\* the issuance cap protects, and those revoked since the last trim.
HistoryBounded ==
    \A u \in User :
        Cardinality(Revoked(u)) <=
            maxRevokedKept + MaxTokensPerDay + Cardinality(Handler) - 1 + untrimmed[u]

\* What a row that goes leaves behind: it was revoked, and either past the
\* retention or older than maxRevokedKept revoked rows its user still has.
HistoryKept ==
    [][\A u \in User : \A t \in Of(u) \ Of(u)' :
          /\ tokens[t].revoked # None
          /\ \/ tokens[t].revoked < now - revokedRetention
             \/ Cardinality({s \in Revoked(u)' : tokens[s].revoked >= tokens[t].revoked})
                    >= maxRevokedKept]_vars

=============================================================================
