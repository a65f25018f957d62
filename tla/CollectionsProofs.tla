-------------------------- MODULE CollectionsProofs --------------------------
(***************************************************************************)
(* Proofs about Collections, for any number of users, collections, share   *)
(* links and requests running at the same time.                            *)
(***************************************************************************)
EXTENDS Collections, TLAPS

-----------------------------------------------------------------------------
(* Rows *)

\* The part of TypeInvariant about the tables.
TablesOK ==
  /\ users \subseteq known /\ known \subseteq Users
  /\ issued \subseteq Ids /\ links \subseteq Links /\ asked \subseteq issued
  /\ collections \in [Ids -> Row \cup {None}]
  /\ \A c \in Ids : Exists(c) => c \in issued /\ collections[c].user_id \in users
                                 /\ collections[c].share_token \in links \cup {None}
  /\ follows \subseteq users \X Ids /\ \A f \in follows : Exists(f[2])

ReqOK == req \in [Handlers -> Update \cup Follow \cup Home \cup Homed \cup {Idle}]

LEMMA TypeParts == TypeInvariant <=> TablesOK /\ ReqOK
BY DEF TypeInvariant, TablesOK, ReqOK

LEMMA NoneIsNoRow == None \notin Row
BY NoneAssumption DEF Row

LEMMA WithSettingsOK ==
  ASSUME NEW row \in Row, NEW s \in Settings
  PROVE  /\ WithSettings(row, s) \in Row
         /\ WithSettings(row, s).user_id = row.user_id
         /\ WithSettings(row, s).share_token = row.share_token
         /\ WithSettings(row, s).is_public = s.is_public
BY DEF WithSettings, Row, Settings

LEMMA MergedOK ==
  ASSUME NEW r \in Update
  PROVE  /\ Merged(r) \in Settings
         /\ Merged(r).is_public => r.new.is_public = TRUE \/ r.read.is_public
<1>1. r.read \in Row /\ r.new \in Changes
  BY DEF Update
<1>2. /\ r.read.title \in Titles /\ r.read.description \in Descriptions /\ r.read.is_public \in BOOLEAN
  BY <1>1 DEF Row
<1>3. /\ r.new.title \in Titles \cup {None} /\ r.new.description \in Descriptions \cup {None}
      /\ r.new.is_public \in BOOLEAN \cup {None}
  BY <1>1 DEF Changes
<1> QED BY <1>2, <1>3 DEF Merged, Settings

\* What a request in progress may hold.
LEMMA Requests ==
  ASSUME ReqOK, NEW h \in Handlers
  PROVE  /\ req[h].op = "update" => req[h] \in Update
         /\ req[h].op = "follow" => req[h] \in Follow
         /\ req[h].op = "home" => req[h] \in Home
         /\ req[h].op = "homed" => req[h] \in Homed
         /\ req[h] # Idle => req[h] \in Update \cup Follow \cup Home \cup Homed
BY DEF ReqOK, Update, Follow, Home, Homed, Idle

\* Changing one row, keeping its owner, keeps the tables in order.
LEMMA ChangedRow ==
  ASSUME TablesOK, NEW c \in Ids, NEW row \in Row, Exists(c),
         row.user_id = collections[c].user_id, row.share_token \in links' \cup {None},
         collections' = [collections EXCEPT ![c] = row],
         UNCHANGED <<known, users, issued, follows>>,
         links \subseteq links', links' \subseteq Links, asked' \subseteq issued
  PROVE  TablesOK'
<1>1. collections' \in [Ids -> Row \cup {None}]
  BY DEF TablesOK
<1>2. \A d \in Ids : /\ d # c => collections'[d] = collections[d]
                     /\ d = c => collections'[d] = row
  BY DEF TablesOK
<1>3. \A d \in Ids : Exists(d)' <=> Exists(d)
  BY <1>2, NoneIsNoRow DEF Exists
<1>4. \A d \in Ids : Exists(d)' => d \in issued' /\ collections'[d].user_id \in users'
                                   /\ collections'[d].share_token \in links' \cup {None}
  BY <1>2, <1>3 DEF TablesOK
<1>5. follows' \subseteq users' \X Ids /\ \A f \in follows' : Exists(f[2])'
  BY <1>3 DEF TablesOK
<1> QED BY <1>1, <1>4, <1>5 DEF TablesOK

\* Removing rows, with the users that own them or without, does too.
LEMMA RemovedRows ==
  ASSUME TablesOK, NEW gone \in SUBSET Ids, Remove(gone), users' \subseteq users,
         \A c \in Ids : Exists(c) /\ collections[c].user_id \notin users' => c \in gone,
         UNCHANGED <<known, issued, links, asked>>
  PROVE  TablesOK'
<1>1. collections' = [c \in Ids |-> IF c \in gone THEN None ELSE collections[c]]
      /\ follows' = {f \in follows : f[2] \notin gone /\ f[1] \in users'}
  BY DEF Remove
<1>2. collections' \in [Ids -> Row \cup {None}]
  BY <1>1 DEF TablesOK
<1>3. \A c \in Ids : /\ Exists(c)' <=> Exists(c) /\ c \notin gone
                     /\ Exists(c)' => collections'[c] = collections[c]
  BY <1>1 DEF Exists
<1>4. \A c \in Ids : Exists(c)' => c \in issued' /\ collections'[c].user_id \in users'
                                   /\ collections'[c].share_token \in links' \cup {None}
  BY <1>3 DEF TablesOK
<1>5. follows' \subseteq users' \X Ids /\ \A f \in follows' : Exists(f[2])'
  BY <1>1, <1>3 DEF TablesOK
<1>6. users' \subseteq known' /\ known' \subseteq Users /\ issued' \subseteq Ids /\ links' \subseteq Links
      /\ asked' \subseteq issued'
  BY DEF TablesOK
<1> QED BY <1>2, <1>4, <1>5, <1>6 DEF TablesOK

-----------------------------------------------------------------------------
(* Types *)

LEMMA Unmoved == ASSUME TypeInvariant, UNCHANGED vars PROVE TypeInvariant'
BY DEF TypeInvariant, vars, stored, Exists, Row, Update, Follow, Home, Homed, Idle

\* Replacing one request leaves the type of req.
LEMMA Replaced ==
  ASSUME ReqOK, NEW h \in Handlers, NEW r \in Update \cup Follow \cup Home \cup Homed \cup {Idle},
         req' = [req EXCEPT ![h] = r]
  PROVE  ReqOK'
BY DEF ReqOK

LEMMA TypeStep == TypeInvariant /\ [Next]_vars => TypeInvariant'
<1> SUFFICES ASSUME TablesOK, ReqOK, [Next]_vars PROVE TablesOK' /\ ReqOK'
  BY DEF TypeInvariant, TablesOK, ReqOK
<1> DEFINE Same == UNCHANGED <<known, issued, links, asked>> /\ UNCHANGED stored
<1>a. Same => TablesOK'
  BY DEF TablesOK, stored, Exists
<1>b. UNCHANGED req => ReqOK'
  BY DEF ReqOK
<1>c. ASSUME NEW h \in Handlers, End(h) PROVE ReqOK'
  BY <1>c, Replaced DEF End
<1>d. known \subseteq Users /\ users \subseteq known /\ asked \subseteq issued
  BY DEF TablesOK
<1>e. \A c \in Ids : Exists(c) => collections[c] \in Row /\ c \in issued
                                  /\ collections[c].share_token \in links \cup {None}
  BY DEF TablesOK, Exists
<1>1. ASSUME NEW u \in Users, SignIn(u) PROVE TablesOK' /\ ReqOK'
  BY <1>1, <1>b DEF SignIn, TablesOK, Exists
<1>2. ASSUME NEW u \in known, DeleteAccount(u) PROVE TablesOK' /\ ReqOK'
  <2>1. users' = users \ {u} /\ Remove({c \in Ids : Owns(u, c)})
        /\ UNCHANGED <<known, issued, links, asked>> /\ UNCHANGED req
    BY <1>2 DEF DeleteAccount
  <2>2. \A c \in Ids : Exists(c) /\ collections[c].user_id \notin users' => c \in {d \in Ids : Owns(u, d)}
    BY <2>1 DEF TablesOK, Owns
  <2> QED BY <1>b, <2>1, <2>2, RemovedRows
<1>3. ASSUME NEW u \in known, NEW c \in Ids, NEW s \in Settings, CreateCollection(u, c, s)
      PROVE TablesOK' /\ ReqOK'
  <2> DEFINE row == [title |-> s.title, description |-> s.description, is_public |-> s.is_public,
                     user_id |-> u, share_token |-> None]
  <2>1. row \in Row /\ row.user_id = u /\ row.share_token = None
    BY <1>d DEF Row, Settings
  <2>2. /\ u \in users /\ c \notin issued /\ issued' = issued \cup {c}
        /\ collections' = [collections EXCEPT ![c] = row]
        /\ asked' \subseteq asked \cup {c}
        /\ UNCHANGED <<known, users, links, follows, req>>
    BY <1>3 DEF CreateCollection, Asking
  <2> HIDE DEF row
  <2>3. collections' \in [Ids -> Row \cup {None}]
    BY <2>1, <2>2 DEF TablesOK
  <2>4. \A d \in Ids : collections'[d] = IF d = c THEN row ELSE collections[d]
    BY <2>2 DEF TablesOK
  <2>5. ~Exists(c) /\ \A d \in Ids : Exists(d) => Exists(d)'
    BY <1>e, <2>1, <2>2, <2>4, NoneIsNoRow DEF Exists
  <2>6. \A d \in Ids : Exists(d)' => d \in issued' /\ collections'[d].user_id \in users'
                                     /\ collections'[d].share_token \in links' \cup {None}
    BY <2>1, <2>2, <2>4 DEF TablesOK, Exists
  <2>7. follows' \subseteq users' \X Ids /\ \A f \in follows' : Exists(f[2])'
    BY <2>2, <2>5 DEF TablesOK
  <2>8. users' \subseteq known' /\ known' \subseteq Users /\ issued' \subseteq Ids /\ links' \subseteq Links
        /\ asked' \subseteq issued'
    BY <1>d, <2>2 DEF TablesOK
  <2> QED BY <1>b, <2>2, <2>3, <2>6, <2>7, <2>8 DEF TablesOK
<1>4. ASSUME NEW u \in known, NEW c \in Ids, NEW s \in Settings, UpdateCollection(u, c, s)
      PROVE TablesOK' /\ ReqOK'
  <2>1. /\ Exists(c) /\ collections' = [collections EXCEPT ![c] = WithSettings(collections[c], s)]
        /\ asked' \subseteq asked \cup {c}
        /\ UNCHANGED <<known, users, issued, links, follows, req>>
    BY <1>4 DEF UpdateCollection, Owns, Asking, TablesOK
  <2>2. links' \subseteq Links /\ asked' \subseteq issued
    BY <1>d, <1>e, <2>1 DEF TablesOK
  <2> QED BY <1>b, <1>e, <2>1, <2>2, WithSettingsOK, ChangedRow
<1>5. ASSUME NEW u \in known, NEW c \in Ids, DeleteCollection(u, c) PROVE TablesOK' /\ ReqOK'
  BY <1>5, <1>b, RemovedRows DEF DeleteCollection, TablesOK
<1>6. ASSUME NEW c \in Ids, AdminDeleteCollection(c) PROVE TablesOK' /\ ReqOK'
  BY <1>6, <1>b, RemovedRows DEF AdminDeleteCollection, TablesOK
<1>7. ASSUME NEW u \in known, NEW c \in Ids, NEW l \in Links, GenerateShareToken(u, c, l)
      PROVE TablesOK' /\ ReqOK'
  <2> DEFINE row == [collections[c] EXCEPT !.share_token = l]
  <2>1. /\ Exists(c) /\ links' = links \cup {l} /\ collections' = [collections EXCEPT ![c] = row]
        /\ UNCHANGED <<known, users, issued, follows, asked, req>>
    BY <1>7 DEF GenerateShareToken, Owns
  <2>2. row \in Row /\ row.user_id = collections[c].user_id /\ row.share_token = l
    BY <1>e, <2>1 DEF Row
  <2>3. links \subseteq links' /\ links' \subseteq Links /\ asked' \subseteq issued
    BY <1>d, <2>1 DEF TablesOK
  <2> HIDE DEF row
  <2> QED BY <1>b, <2>1, <2>2, <2>3, ChangedRow
<1>8. ASSUME NEW u \in known, NEW c \in Ids, RevokeShareToken(u, c) PROVE TablesOK' /\ ReqOK'
  <2> DEFINE row == [collections[c] EXCEPT !.share_token = None]
  <2>1. /\ Exists(c) /\ collections' = [collections EXCEPT ![c] = row]
        /\ UNCHANGED <<known, users, issued, links, follows, asked, req>>
    BY <1>8 DEF RevokeShareToken, Owns
  <2>2. row \in Row /\ row.user_id = collections[c].user_id /\ row.share_token = None
    BY <1>e, <2>1 DEF Row
  <2>3. links' \subseteq Links /\ asked' \subseteq issued
    BY <1>d, <2>1 DEF TablesOK
  <2> HIDE DEF row
  <2> QED BY <1>b, <2>1, <2>2, <2>3, ChangedRow
<1>9. ASSUME NEW u \in known, NEW c \in Ids, Unfollow(u, c) PROVE TablesOK' /\ ReqOK'
  BY <1>9, <1>b DEF Unfollow, TablesOK, Exists
<1>10. ASSUME NEW h \in Handlers, NEW u \in known, NEW c \in Ids, NEW new \in Changes, UpdateRead(h, u, c, new)
       PROVE TablesOK' /\ ReqOK'
  <2> DEFINE r == [op |-> "update", user |-> u, id |-> c, read |-> collections[c], new |-> new]
  <2>1. r \in Update
    BY <1>10, <1>d, <1>e DEF UpdateRead, Visible, Update
  <2>2. Same /\ req' = [req EXCEPT ![h] = r]
    BY <1>10 DEF UpdateRead, Begin
  <2> HIDE DEF r
  <2> QED BY <1>a, <2>1, <2>2, Replaced
<1>11. ASSUME NEW h \in Handlers, NEW u \in known, NEW c \in Ids, FollowRead(h, u, c) PROVE TablesOK' /\ ReqOK'
  <2>1. [op |-> "follow", user |-> u, id |-> c] \in Follow
    BY <1>d DEF Follow
  <2>2. Same /\ req' = [req EXCEPT ![h] = [op |-> "follow", user |-> u, id |-> c]]
    BY <1>11 DEF FollowRead, Begin
  <2> QED BY <1>a, <2>1, <2>2, Replaced
<1>12. ASSUME NEW h \in Handlers, NEW u \in known, HomeOwn(h, u) PROVE TablesOK' /\ ReqOK'
  <2> DEFINE r == [op |-> "home", user |-> u, own |-> {c \in Ids : Owns(u, c)}]
  <2>1. r \in Home
    BY <1>d DEF Home
  <2>2. Same /\ req' = [req EXCEPT ![h] = r]
    BY <1>12 DEF HomeOwn, Begin
  <2> HIDE DEF r
  <2> QED BY <1>a, <2>1, <2>2, Replaced
<1>13. ASSUME NEW h \in Handlers, UpdateWrite(h) PROVE TablesOK' /\ ReqOK'
  <2>1. req[h] \in Update /\ req[h].id \in Ids /\ End(h)
    BY <1>13, Requests DEF UpdateWrite, Update
  <2>2. UNCHANGED <<known, users, issued, links, follows>>
    BY <1>13 DEF UpdateWrite
  <2>3. CASE Owns(req[h].user, req[h].id)
    <3> DEFINE row == WithSettings(collections[req[h].id], Merged(req[h]))
    <3>1. Exists(req[h].id) /\ collections' = [collections EXCEPT ![req[h].id] = row]
          /\ asked' \subseteq asked \cup {req[h].id}
      BY <1>13, <2>3 DEF UpdateWrite, Owns, Asking, TablesOK
    <3>2. links' \subseteq Links /\ asked' \subseteq issued
      BY <1>d, <1>e, <2>1, <2>2, <3>1 DEF TablesOK
    <3>3. /\ row \in Row /\ row.user_id = collections[req[h].id].user_id
          /\ row.share_token = collections[req[h].id].share_token
      BY <1>e, <2>1, <3>1, MergedOK, WithSettingsOK
    <3> HIDE DEF row
    <3> QED BY <1>c, <1>e, <2>1, <2>2, <3>1, <3>2, <3>3, ChangedRow
  <2>4. CASE ~Owns(req[h].user, req[h].id)
    <3>1. UNCHANGED <<collections, asked>>
      BY <1>13, <2>4 DEF UpdateWrite, Asking
    <3> QED BY <1>a, <1>c, <2>1, <2>2, <3>1 DEF stored
  <2> QED BY <2>3, <2>4
<1>14. ASSUME NEW h \in Handlers, FollowInsert(h) PROVE TablesOK' /\ ReqOK'
  <2>1. req[h] \in Follow /\ End(h)
    BY <1>14, Requests DEF FollowInsert
  <2>2. UNCHANGED <<known, users, issued, links, collections, asked>>
    BY <1>14 DEF FollowInsert
  <2>3. PICK u \in Users, c \in Ids : req[h].user = u /\ req[h].id = c
    BY <2>1 DEF Follow
  <2>4. follows' = IF Exists(c) /\ u \in users THEN follows \cup {<<u, c>>} ELSE follows
    BY <1>14, <2>3 DEF FollowInsert
  <2> QED BY <1>c, <2>1, <2>2, <2>4 DEF TablesOK, Exists
<1>15. ASSUME NEW h \in Handlers, HomeFollowing(h) PROVE TablesOK' /\ ReqOK'
  <2> DEFINE r == [op |-> "homed", user |-> req[h].user, own |-> req[h].own,
                   following |-> {c \in Ids : Exists(c) /\ <<req[h].user, c>> \in follows}]
  <2>1. r \in Homed
    BY <1>15, Requests DEF HomeFollowing, Home, Homed
  <2>2. Same /\ req' = [req EXCEPT ![h] = r]
    BY <1>15 DEF HomeFollowing
  <2> HIDE DEF r
  <2> QED BY <1>a, <2>1, <2>2, Replaced
<1>16. ASSUME NEW h \in Handlers, HomeAnswer(h) \/ Abort(h) PROVE TablesOK' /\ ReqOK'
  BY <1>16, <1>a, <1>c DEF HomeAnswer, Abort
<1>17. CASE UNCHANGED vars
  BY <1>17, <1>a, <1>b DEF vars, stored
<1> QED
  BY <1>1, <1>2, <1>3, <1>4, <1>5, <1>6, <1>7, <1>8, <1>9, <1>10, <1>11, <1>12, <1>13, <1>14, <1>15, <1>16, <1>17
     DEF Next

\* Types and foreign keys hold in every state.
THEOREM TypeCorrect == Spec => []TypeInvariant
<1>1. Init => TypeInvariant
  BY DEF Init, TypeInvariant, Exists
<1> QED BY <1>1, TypeStep, PTL DEF Spec

-----------------------------------------------------------------------------
(* Who may see a collection *)

\* What requests in progress have seen: they hold nothing that was never asked for.
Careful(r) ==
  /\ r.op = "update" => (r.read.is_public => r.id \in asked)
  /\ r.op = "follow" => r.id \in asked

ShownInv == OnlyIfAsked /\ \A h \in Handlers : Careful(req[h])

\* What the steps that are about neither visibility nor follows leave alone.
LEMMA ShownKept ==
  ASSUME ShownInv, asked \subseteq asked',
         \A c \in Ids \ asked' : Exists(c)' => \/ Exists(c) /\ collections'[c].is_public = collections[c].is_public
                                            \/ ~collections'[c].is_public,
         \A u \in Users, c \in Ids \ asked' : <<u, c>> \in follows' => <<u, c>> \in follows,
         \A h \in Handlers : req'[h] = req[h] \/ Careful(req[h])'
  PROVE  ShownInv'
<1>1. OnlyIfAsked'
  BY DEF ShownInv, OnlyIfAsked
<1>2. ASSUME NEW h \in Handlers PROVE Careful(req[h])'
  BY DEF ShownInv, Careful
<1> QED BY <1>1, <1>2 DEF ShownInv

\* A row that is removed is not shown, the others are as they were.
LEMMA RemovedHides ==
  ASSUME ShownInv, NEW gone \in SUBSET Ids, Remove(gone), UNCHANGED <<asked, req>>
  PROVE  ShownInv'
<1>1. collections' = [c \in Ids |-> IF c \in gone THEN None ELSE collections[c]]
      /\ follows' \subseteq follows
  BY DEF Remove
<1>2. \A c \in Ids : Exists(c)' => Exists(c) /\ collections'[c] = collections[c]
  BY <1>1 DEF Exists
<1> QED BY <1>1, <1>2, ShownKept

LEMMA ShownStep == TypeInvariant /\ ShownInv /\ [Next]_vars => ShownInv'
<1> SUFFICES ASSUME TypeInvariant, ShownInv, [Next]_vars PROVE ShownInv'
  OBVIOUS
<1> DEFINE Same == UNCHANGED <<known, issued, links, asked>> /\ UNCHANGED stored
<1>0. TablesOK /\ ReqOK
  BY TypeParts
<1>a. ASSUME Same, \A h \in Handlers : req'[h] = req[h] \/ Careful(req[h])' PROVE ShownInv'
  BY <1>a, ShownKept DEF stored, Exists
<1>b. ASSUME NEW h \in Handlers, NEW r, req' = [req EXCEPT ![h] = r]
      PROVE  \A i \in Handlers : IF i = h THEN req'[i] = r ELSE req'[i] = req[i]
  BY <1>0, <1>b DEF ReqOK
<1>c. ASSUME NEW h \in Handlers, End(h) PROVE \A i \in Handlers : req'[i] = req[i] \/ Careful(req[i])'
  <2>1. \A i \in Handlers : IF i = h THEN req'[i] = Idle ELSE req'[i] = req[i]
    BY <1>b, <1>c DEF End
  <2> QED BY <2>1 DEF Careful, Idle
<1>d. UNCHANGED req => \A h \in Handlers : req'[h] = req[h]
  OBVIOUS
<1>e. \A c \in Ids : Exists(c) => collections[c] \in Row
  BY <1>0 DEF TablesOK, Exists
<1>1. ASSUME NEW u \in Users, SignIn(u) PROVE ShownInv'
  BY <1>1, <1>d, ShownKept DEF SignIn, Exists
<1>2. ASSUME NEW u \in known, DeleteAccount(u) PROVE ShownInv'
  BY <1>2, RemovedHides DEF DeleteAccount
<1>3. ASSUME NEW u \in known, NEW c \in Ids, NEW s \in Settings, CreateCollection(u, c, s) PROVE ShownInv'
  <2>1. /\ \A d \in Ids \ {c} : collections'[d] = collections[d]
        /\ collections'[c].is_public = s.is_public
        /\ asked \subseteq asked' /\ (s.is_public => c \in asked')
        /\ UNCHANGED <<follows, req>>
    BY <1>0, <1>3 DEF CreateCollection, Asking, TablesOK
  <2> QED BY <1>d, <2>1, ShownKept DEF Exists
<1>4. ASSUME NEW u \in known, NEW c \in Ids, NEW s \in Settings, UpdateCollection(u, c, s) PROVE ShownInv'
  <2>1. Exists(c) /\ collections' = [collections EXCEPT ![c] = WithSettings(collections[c], s)]
        /\ asked \subseteq asked' /\ (s.is_public => c \in asked') /\ UNCHANGED <<follows, req>>
    BY <1>0, <1>4 DEF UpdateCollection, Owns, Asking, TablesOK
  <2>2. /\ \A d \in Ids \ {c} : collections'[d] = collections[d]
        /\ collections'[c].is_public = s.is_public
    BY <1>0, <1>e, <2>1, WithSettingsOK DEF TablesOK
  <2> QED BY <1>d, <2>1, <2>2, ShownKept DEF Exists
<1>5. ASSUME NEW u \in known, NEW c \in Ids, DeleteCollection(u, c) PROVE ShownInv'
  BY <1>5, RemovedHides DEF DeleteCollection
<1>6. ASSUME NEW c \in Ids, AdminDeleteCollection(c) PROVE ShownInv'
  BY <1>6, RemovedHides DEF AdminDeleteCollection
<1>7. ASSUME NEW u \in known, NEW c \in Ids, NEW l \in Links, GenerateShareToken(u, c, l) PROVE ShownInv'
  <2>1. /\ Exists(c) /\ \A d \in Ids \ {c} : collections'[d] = collections[d]
        /\ collections'[c] = [collections[c] EXCEPT !.share_token = l]
        /\ UNCHANGED <<follows, asked, req>>
    BY <1>0, <1>7 DEF GenerateShareToken, Owns, TablesOK
  <2>2. collections'[c].is_public = collections[c].is_public
    BY <1>e, <2>1 DEF Row
  <2> QED BY <1>d, <2>1, <2>2, ShownKept DEF Exists
<1>8. ASSUME NEW u \in known, NEW c \in Ids, RevokeShareToken(u, c) PROVE ShownInv'
  <2>1. /\ Exists(c) /\ \A d \in Ids \ {c} : collections'[d] = collections[d]
        /\ collections'[c] = [collections[c] EXCEPT !.share_token = None]
        /\ UNCHANGED <<follows, asked, req>>
    BY <1>0, <1>8 DEF RevokeShareToken, Owns, TablesOK
  <2>2. collections'[c].is_public = collections[c].is_public
    BY <1>e, <2>1 DEF Row
  <2> QED BY <1>d, <2>1, <2>2, ShownKept DEF Exists
<1>9. ASSUME NEW u \in known, NEW c \in Ids, Unfollow(u, c) PROVE ShownInv'
  BY <1>9, <1>d, ShownKept DEF Unfollow, Exists
<1>10. ASSUME NEW h \in Handlers, NEW u \in known, NEW c \in Ids, NEW new \in Changes, UpdateRead(h, u, c, new)
       PROVE ShownInv'
  <2> DEFINE r == [op |-> "update", user |-> u, id |-> c, read |-> collections[c], new |-> new]
  <2>1. Exists(c) /\ Same /\ req' = [req EXCEPT ![h] = r]
    BY <1>10 DEF UpdateRead, Begin, Visible
  <2>2. r.op = "update" /\ r.id = c /\ r.read = collections[c]
    OBVIOUS
  <2> HIDE DEF r
  <2>3. \A i \in Handlers : IF i = h THEN req'[i] = r ELSE req'[i] = req[i]
    BY <1>b, <2>1
  <2>4. collections[c].is_public => c \in asked'
    BY <2>1 DEF ShownInv, OnlyIfAsked
  <2>5. Careful(req[h])'
    BY <2>2, <2>3, <2>4 DEF Careful
  <2> QED BY <1>a, <2>1, <2>3, <2>5
<1>11. ASSUME NEW h \in Handlers, NEW u \in known, NEW c \in Ids, FollowRead(h, u, c) PROVE ShownInv'
  <2> DEFINE r == [op |-> "follow", user |-> u, id |-> c]
  <2>1. MayFollow(u, c) /\ Same /\ req' = [req EXCEPT ![h] = r]
    BY <1>11 DEF FollowRead, Begin
  <2>2. r.op = "follow" /\ r.id = c
    OBVIOUS
  <2> HIDE DEF r
  <2>3. \A i \in Handlers : IF i = h THEN req'[i] = r ELSE req'[i] = req[i]
    BY <1>b, <2>1
  <2>4. c \in asked /\ u \in Users
    BY <1>0, <2>1 DEF MayFollow, Visible, ShownInv, OnlyIfAsked, TablesOK
  <2>5. Careful(req[h])'
    BY <2>1, <2>2, <2>3, <2>4 DEF Careful
  <2> QED BY <1>a, <2>1, <2>3, <2>5
<1>12. ASSUME NEW h \in Handlers, NEW u \in known, HomeOwn(h, u) PROVE ShownInv'
  <2> DEFINE r == [op |-> "home", user |-> u, own |-> {c \in Ids : Owns(u, c)}]
  <2>1. Same /\ req' = [req EXCEPT ![h] = r] /\ r.op = "home"
    BY <1>12 DEF HomeOwn, Begin
  <2> HIDE DEF r
  <2>2. \A i \in Handlers : IF i = h THEN req'[i] = r ELSE req'[i] = req[i]
    BY <1>b, <2>1
  <2> QED BY <1>a, <2>1, <2>2 DEF Careful
<1>13. ASSUME NEW h \in Handlers, UpdateWrite(h) PROVE ShownInv'
  <2>1. req[h] \in Update /\ req[h].id \in Ids /\ req[h].op = "update" /\ End(h)
    BY <1>0, <1>13, Requests DEF UpdateWrite, Update
  <2>2. UNCHANGED follows /\ asked \subseteq asked'
    BY <1>13 DEF UpdateWrite, Asking
  <2>3. CASE Owns(req[h].user, req[h].id)
    <3> DEFINE c == req[h].id
               row == WithSettings(collections[c], Merged(req[h]))
    <3>1. Exists(c) /\ collections' = [collections EXCEPT ![c] = row]
          /\ (req[h].new.is_public = TRUE => c \in asked')
      BY <1>13, <2>3 DEF UpdateWrite, Owns, Asking
    <3>2. row.is_public => req[h].new.is_public = TRUE \/ req[h].read.is_public
      <4>1. collections[c] \in Row /\ Merged(req[h]) \in Settings
        BY <1>e, <2>1, <3>1, MergedOK
      <4>2. row.is_public = Merged(req[h]).is_public
        BY <4>1, WithSettingsOK
      <4>3. Merged(req[h]).is_public => req[h].new.is_public = TRUE \/ req[h].read.is_public
        BY <2>1, MergedOK
      <4> QED BY <4>2, <4>3
    <3>3. req[h].read.is_public => c \in asked
      BY <2>1 DEF ShownInv, Careful
    <3>4. row.is_public => c \in asked'
      BY <2>2, <3>1, <3>2, <3>3
    <3> HIDE DEF row
    <3>5. \A d \in Ids : IF d = c THEN collections'[d] = row ELSE collections'[d] = collections[d]
      BY <1>0, <2>1, <3>1 DEF TablesOK
    <3>6. \A d \in Ids \ asked' : Exists(d)' => \/ Exists(d) /\ collections'[d].is_public = collections[d].is_public
                                             \/ ~collections'[d].is_public
      BY <3>4, <3>5 DEF Exists
    <3> QED BY <1>c, <2>1, <2>2, <3>6, ShownKept
  <2>4. CASE ~Owns(req[h].user, req[h].id)
    <3>1. UNCHANGED collections
      BY <1>13, <2>4 DEF UpdateWrite
    <3> QED BY <1>c, <2>1, <2>2, <3>1, ShownKept DEF Exists
  <2> QED BY <2>3, <2>4
<1>14. ASSUME NEW h \in Handlers, FollowInsert(h) PROVE ShownInv'
  <2>1. req[h].op = "follow" /\ End(h) /\ UNCHANGED <<collections, asked>>
        /\ follows' \subseteq follows \cup {<<req[h].user, req[h].id>>}
    BY <1>14 DEF FollowInsert
  <2>2. req[h].id \in asked
    BY <2>1 DEF ShownInv, Careful
  <2> QED BY <1>c, <2>1, <2>2, ShownKept DEF Exists
<1>15. ASSUME NEW h \in Handlers, HomeFollowing(h) PROVE ShownInv'
  <2> DEFINE r == [op |-> "homed", user |-> req[h].user, own |-> req[h].own,
                   following |-> {c \in Ids : Exists(c) /\ <<req[h].user, c>> \in follows}]
  <2>1. Same /\ req' = [req EXCEPT ![h] = r] /\ r.op = "homed"
    BY <1>15 DEF HomeFollowing
  <2> HIDE DEF r
  <2>2. \A i \in Handlers : IF i = h THEN req'[i] = r ELSE req'[i] = req[i]
    BY <1>b, <2>1
  <2> QED BY <1>a, <2>1, <2>2 DEF Careful
<1>16. ASSUME NEW h \in Handlers, HomeAnswer(h) \/ Abort(h) PROVE ShownInv'
  BY <1>16, <1>a, <1>c DEF HomeAnswer, Abort
<1>17. CASE UNCHANGED vars
  BY <1>17, <1>a, <1>d DEF vars, stored
<1> QED
  BY <1>1, <1>2, <1>3, <1>4, <1>5, <1>6, <1>7, <1>8, <1>9, <1>10, <1>11, <1>12, <1>13, <1>14, <1>15, <1>16, <1>17
     DEF Next

\* A collection whose owner never asked to make it public is not, and has no followers.
THEOREM ShownOnlyIfAsked == Spec => []OnlyIfAsked
<1>1. Init => TypeInvariant /\ ShownInv
  BY DEF Init, TypeInvariant, ShownInv, OnlyIfAsked, Careful, Exists, Idle
<1>2. ShownInv => OnlyIfAsked
  BY DEF ShownInv
<1> QED BY <1>1, <1>2, TypeStep, ShownStep, PTL DEF Spec

-----------------------------------------------------------------------------
(* Owners and links *)

\* What a step may do to a row: make it, without a link, under a new id, or
\* keep its owner and keep, drop or renew its link.
LEMMA RowStep ==
  ASSUME TypeInvariant, [Next]_vars, NEW c \in Ids, Exists(c)'
  PROVE  \/ c \notin issued /\ collections'[c].share_token = None
         \/ /\ Exists(c) /\ collections'[c].user_id = collections[c].user_id
            /\ \/ collections'[c].share_token \in {collections[c].share_token, None}
               \/ collections'[c].share_token \notin links
<1> DEFINE Goal == \/ c \notin issued /\ collections'[c].share_token = None
                   \/ /\ Exists(c) /\ collections'[c].user_id = collections[c].user_id
                      /\ \/ collections'[c].share_token \in {collections[c].share_token, None}
                         \/ collections'[c].share_token \notin links
<1> SUFFICES Goal
  OBVIOUS
<1>0. TablesOK /\ ReqOK /\ collections \in [Ids -> Row \cup {None}]
  BY TypeParts DEF TablesOK
<1>a. collections'[c] = collections[c] => Goal
  BY DEF Exists
<1>b. ASSUME NEW gone, Remove(gone) PROVE Goal
  BY <1>a, <1>b DEF Remove, Exists
<1>c. Exists(c) => collections[c] \in Row
  BY <1>0 DEF Exists
<1>d. ASSUME NEW d \in Ids, NEW row, collections' = [collections EXCEPT ![d] = row]
      PROVE  IF d = c THEN collections'[c] = row ELSE collections'[c] = collections[c]
  BY <1>0, <1>d
<1>1. ASSUME NEW u \in Users, SignIn(u) PROVE Goal
  BY <1>1, <1>a DEF SignIn
<1>2. ASSUME NEW u \in known, DeleteAccount(u) PROVE Goal
  BY <1>2, <1>b DEF DeleteAccount
<1>3. ASSUME NEW u \in known, NEW d \in Ids, NEW s \in Settings, CreateCollection(u, d, s) PROVE Goal
  <2> DEFINE row == [title |-> s.title, description |-> s.description, is_public |-> s.is_public,
                     user_id |-> u, share_token |-> None]
  <2>1. d \notin issued /\ collections' = [collections EXCEPT ![d] = row] /\ row.share_token = None
    BY <1>3 DEF CreateCollection
  <2> HIDE DEF row
  <2> QED BY <1>a, <1>d, <2>1
<1>4. ASSUME NEW u \in known, NEW d \in Ids, NEW s \in Settings, UpdateCollection(u, d, s) PROVE Goal
  <2>1. Exists(d) /\ collections' = [collections EXCEPT ![d] = WithSettings(collections[d], s)]
    BY <1>0, <1>4 DEF UpdateCollection, Owns
  <2> QED BY <1>a, <1>c, <1>d, <2>1, WithSettingsOK
<1>5. ASSUME NEW u \in known, NEW d \in Ids, DeleteCollection(u, d) PROVE Goal
  BY <1>5, <1>b DEF DeleteCollection
<1>6. ASSUME NEW d \in Ids, AdminDeleteCollection(d) PROVE Goal
  BY <1>6, <1>b DEF AdminDeleteCollection
<1>7. ASSUME NEW u \in known, NEW d \in Ids, NEW l \in Links, GenerateShareToken(u, d, l) PROVE Goal
  <2> DEFINE row == [collections[d] EXCEPT !.share_token = l]
  <2>1. Exists(d) /\ collections' = [collections EXCEPT ![d] = row] /\ l \notin links
    BY <1>7 DEF GenerateShareToken, Owns
  <2>2. d = c => row.user_id = collections[d].user_id /\ row.share_token = l
    BY <1>c, <2>1 DEF Row
  <2> HIDE DEF row
  <2> QED BY <1>a, <1>d, <2>1, <2>2
<1>8. ASSUME NEW u \in known, NEW d \in Ids, RevokeShareToken(u, d) PROVE Goal
  <2> DEFINE row == [collections[d] EXCEPT !.share_token = None]
  <2>1. Exists(d) /\ collections' = [collections EXCEPT ![d] = row]
    BY <1>8 DEF RevokeShareToken, Owns
  <2>2. d = c => row.user_id = collections[d].user_id /\ row.share_token = None
    BY <1>c, <2>1 DEF Row
  <2> HIDE DEF row
  <2> QED BY <1>a, <1>d, <2>1, <2>2
<1>9. ASSUME NEW h \in Handlers, UpdateWrite(h) PROVE Goal
  <2>1. req[h] \in Update /\ req[h].id \in Ids
    BY <1>0, <1>9, Requests DEF UpdateWrite, Update
  <2>2. CASE Owns(req[h].user, req[h].id)
    <3> DEFINE row == WithSettings(collections[req[h].id], Merged(req[h]))
    <3>1. Exists(req[h].id) /\ collections' = [collections EXCEPT ![req[h].id] = row]
      BY <1>9, <2>2 DEF UpdateWrite, Owns
    <3>2. Merged(req[h]) \in Settings
      BY <2>1, MergedOK
    <3>3. req[h].id = c => row.user_id = collections[c].user_id /\ row.share_token = collections[c].share_token
      BY <1>c, <3>1, <3>2, WithSettingsOK
    <3> HIDE DEF row
    <3> QED BY <1>a, <1>d, <2>1, <3>1, <3>3
  <2> QED BY <1>9, <1>a, <2>2 DEF UpdateWrite
<1>10. CASE UNCHANGED collections
  BY <1>10, <1>a
<1> HIDE DEF Goal
<1> QED
  BY <1>1, <1>2, <1>3, <1>4, <1>5, <1>6, <1>7, <1>8, <1>9, <1>10
     DEF Next, vars, stored, Unfollow, UpdateRead, FollowRead, HomeOwn, FollowInsert, HomeFollowing, HomeAnswer,
         Abort, Begin

\* Ids stay given out.
LEMMA IssuedStays == [Next]_vars => issued \subseteq issued'
BY DEF Next, vars, SignIn, DeleteAccount, CreateCollection, UpdateCollection, DeleteCollection,
       AdminDeleteCollection, GenerateShareToken, RevokeShareToken, Unfollow, UpdateRead, UpdateWrite,
       FollowRead, FollowInsert, HomeOwn, HomeFollowing, HomeAnswer, Abort, Begin

\* A share link handed out opens what it was made for or nothing, from then on.
THEOREM WithdrawnForGood == Spec => LinksStayWithdrawn
<1>1. ASSUME TypeInvariant, [Next]_vars
      PROVE  \A l \in links, c \in Ids : Opens(l, c)' => Opens(l, c)
  <2> SUFFICES ASSUME NEW l \in links, NEW c \in Ids, Opens(l, c)' PROVE Opens(l, c)
    OBVIOUS
  <2>1. l # None
    BY <1>1, NoneAssumption, TypeParts DEF TablesOK
  <2>2. Exists(c)' /\ collections'[c].share_token = l
    BY DEF Opens
  <2> QED BY <1>1, <2>1, <2>2, RowStep DEF Opens
<1>2. Init => TypeInvariant
  BY DEF Init, TypeInvariant, Exists
<1> QED BY <1>1, <1>2, TypeStep, PTL DEF Spec, LinksStayWithdrawn

-----------------------------------------------------------------------------
(* The home page *)

\* What a request in progress has seen of owners stays true.
Settled(r) ==
  /\ r.op = "follow" => r.id \in issued /\ (Exists(r.id) => collections[r.id].user_id # r.user)
  /\ r.op \in {"home", "homed"} => \A c \in r.own : c \in issued /\ (Exists(c) => collections[c].user_id = r.user)
  /\ r.op = "homed" => r.own \cap r.following = {}

\* Nobody follows what they own.
FollowsOthers == \A c \in Ids, u \in Users : <<u, c>> \in follows => collections[c].user_id # u

HomeInv == FollowsOthers /\ \A h \in Handlers : Settled(req[h])

LEMMA HomeStep == TypeInvariant /\ HomeInv /\ [Next]_vars => HomeInv'
<1> SUFFICES ASSUME TypeInvariant, HomeInv, [Next]_vars PROVE HomeInv'
  OBVIOUS
<1>0. TablesOK /\ ReqOK /\ TypeInvariant'
  BY TypeParts, TypeStep
<1>1. issued \subseteq issued' /\ issued \subseteq Ids
  BY <1>0, IssuedStays DEF TablesOK
<1>2. \A c \in issued : Exists(c)' => Exists(c) /\ collections'[c].user_id = collections[c].user_id
  BY <1>1, RowStep
<1>3. ASSUME NEW r, Settled(r), r \in Update \cup Follow \cup Home \cup Homed \cup {Idle} PROVE Settled(r)'
  BY <1>1, <1>2, <1>3 DEF Settled
<1>4. \A h \in Handlers : Settled(req[h]) /\ req[h] \in Update \cup Follow \cup Home \cup Homed \cup {Idle}
  BY <1>0 DEF HomeInv, ReqOK
<1>5. \A f \in follows' : f \in users' \X Ids /\ Exists(f[2])'
  BY <1>0 DEF TypeInvariant
<1>6. ASSUME \A u \in Users, c \in Ids : <<u, c>> \in follows' => <<u, c>> \in follows
      PROVE  FollowsOthers'
  <2> SUFFICES ASSUME NEW u \in Users, NEW c \in Ids, <<u, c>> \in follows'
               PROVE  collections'[c].user_id # u
    BY DEF FollowsOthers
  <2>1. <<u, c>> \in follows /\ Exists(c)'
    BY <1>5, <1>6
  <2>2. c \in issued
    BY <1>0, <2>1 DEF TablesOK
  <2> QED BY <1>2, <2>1, <2>2 DEF HomeInv, FollowsOthers
<1>7. ASSUME UNCHANGED req PROVE \A h \in Handlers : Settled(req[h])'
  BY <1>3, <1>4, <1>7 DEF Settled
<1>8. ASSUME NEW h \in Handlers, NEW r, req' = [req EXCEPT ![h] = r], Settled(r)'
      PROVE  \A i \in Handlers : Settled(req[i])'
  <2>1. \A i \in Handlers : IF i = h THEN req'[i] = r ELSE req'[i] = req[i]
    BY <1>0, <1>8 DEF ReqOK
  <2> QED BY <1>3, <1>4, <1>8, <2>1 DEF Settled
<1>9. Settled(Idle)'
  BY DEF Settled, Idle
<1>10. ASSUME NEW h \in Handlers, UpdateWrite(h) \/ HomeAnswer(h) \/ Abort(h) PROVE HomeInv'
  <2>1. UNCHANGED follows /\ req' = [req EXCEPT ![h] = Idle]
    BY <1>10 DEF UpdateWrite, HomeAnswer, Abort, End, stored
  <2> QED BY <1>6, <1>8, <1>9, <2>1 DEF HomeInv
<1>11. ASSUME NEW h \in Handlers, NEW u \in known, NEW c \in Ids, NEW new \in Changes, UpdateRead(h, u, c, new)
       PROVE HomeInv'
  <2> DEFINE r == [op |-> "update", user |-> u, id |-> c, read |-> collections[c], new |-> new]
  <2>1. UNCHANGED follows /\ req' = [req EXCEPT ![h] = r] /\ r.op = "update"
    BY <1>11 DEF UpdateRead, Begin, stored
  <2> HIDE DEF r
  <2>2. PICK v : v = r
    OBVIOUS
  <2>3. Settled(v)'
    BY <2>1, <2>2 DEF Settled
  <2> QED BY <1>6, <1>8, <2>1, <2>2, <2>3 DEF HomeInv
<1>12. ASSUME NEW h \in Handlers, NEW u \in known, NEW c \in Ids, FollowRead(h, u, c) PROVE HomeInv'
  <2> DEFINE r == [op |-> "follow", user |-> u, id |-> c]
  <2>1. UNCHANGED <<follows, collections, issued>> /\ req' = [req EXCEPT ![h] = r] /\ MayFollow(u, c)
    BY <1>12 DEF FollowRead, Begin, stored
  <2>2. Exists(c) /\ collections[c].user_id # u /\ c \in issued
    BY <1>0, <2>1 DEF MayFollow, Visible, TablesOK
  <2>3. Settled(r)'
    BY <2>1, <2>2 DEF Settled, Exists
  <2> HIDE DEF r
  <2> QED BY <1>6, <1>8, <2>1, <2>3 DEF HomeInv
<1>13. ASSUME NEW h \in Handlers, NEW u \in known, HomeOwn(h, u) PROVE HomeInv'
  <2>1. PICK own : own = {c \in Ids : Owns(u, c)}
    OBVIOUS
  <2> DEFINE r == [op |-> "home", user |-> u, own |-> own]
  <2>2. UNCHANGED <<follows, collections, issued>> /\ req' = [req EXCEPT ![h] = r]
    BY <1>13, <2>1 DEF HomeOwn, Begin, stored
  <2>3. \A c \in own : Exists(c) /\ collections[c].user_id = u /\ c \in issued
    BY <1>0, <2>1 DEF Owns, TablesOK
  <2>4. Settled(r)'
    BY <2>2, <2>3 DEF Settled, Exists
  <2> HIDE DEF r
  <2> QED BY <1>6, <1>8, <2>2, <2>4 DEF HomeInv
<1>14. ASSUME NEW h \in Handlers, HomeFollowing(h) PROVE HomeInv'
  <2>1. PICK u, own, following :
           u = req[h].user /\ own = req[h].own /\ following = {c \in Ids : Exists(c) /\ <<u, c>> \in follows}
    OBVIOUS
  <2> DEFINE r == [op |-> "homed", user |-> u, own |-> own, following |-> following]
  <2>2. UNCHANGED <<follows, collections, issued>> /\ req' = [req EXCEPT ![h] = r] /\ req[h].op = "home"
    BY <1>14, <2>1 DEF HomeFollowing, stored
  <2>3. u \in Users /\ own \in SUBSET Ids
    BY <1>0, <2>1, <2>2, Requests DEF Home
  <2>4. \A c \in own : c \in issued /\ (Exists(c) => collections[c].user_id = u)
    BY <1>4, <2>1, <2>2 DEF Settled
  <2>5. own \cap following = {}
    BY <2>1, <2>3, <2>4 DEF HomeInv, FollowsOthers
  <2>6. Settled(r)'
    BY <2>2, <2>4, <2>5 DEF Settled, Exists
  <2> HIDE DEF r
  <2> QED BY <1>6, <1>8, <2>2, <2>6 DEF HomeInv
<1>15. ASSUME NEW h \in Handlers, FollowInsert(h) PROVE HomeInv'
  <2>1. req[h].op = "follow" /\ req' = [req EXCEPT ![h] = Idle] /\ UNCHANGED <<collections, issued>>
        /\ follows' \subseteq follows \cup {<<req[h].user, req[h].id>>}
    BY <1>15 DEF FollowInsert, End
  <2>2. Exists(req[h].id) => collections[req[h].id].user_id # req[h].user
    BY <1>4, <2>1 DEF Settled
  <2>3. FollowsOthers'
    <3> SUFFICES ASSUME NEW u \in Users, NEW c \in Ids, <<u, c>> \in follows'
                 PROVE  collections'[c].user_id # u
      BY DEF FollowsOthers
    <3>1. Exists(c)
      BY <1>5, <2>1 DEF Exists
    <3>2. CASE <<u, c>> \in follows
      BY <2>1, <3>2 DEF HomeInv, FollowsOthers
    <3>3. CASE u = req[h].user /\ c = req[h].id
      BY <2>1, <2>2, <3>1, <3>3
    <3> QED BY <2>1, <3>2, <3>3
  <2> QED BY <1>8, <1>9, <2>1, <2>3 DEF HomeInv
<1>16. CASE UNCHANGED req /\ follows' \subseteq follows
  BY <1>6, <1>7, <1>16 DEF HomeInv
<1> QED
  BY <1>10, <1>11, <1>12, <1>13, <1>14, <1>15, <1>16
     DEF Next, vars, SignIn, DeleteAccount, CreateCollection, UpdateCollection, DeleteCollection, Remove,
         AdminDeleteCollection, GenerateShareToken, RevokeShareToken, Unfollow

\* The home page never lists a collection both as owned and as followed.
THEOREM HomeListsEachOnce == Spec => []HomeListsOnce
<1>1. Init => TypeInvariant /\ HomeInv
  BY DEF Init, TypeInvariant, HomeInv, FollowsOthers, Settled, Exists, Idle
<1>2. HomeInv => HomeListsOnce
  BY DEF HomeInv, Settled, HomeListsOnce
<1> QED BY <1>1, <1>2, TypeStep, HomeStep, PTL DEF Spec
=============================================================================
