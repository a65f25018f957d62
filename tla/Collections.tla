---------------------------- MODULE Collections ----------------------------
(***************************************************************************)
(* Collections, who may see them, and who follows them: the part of        *)
(* CollectionService, CollectionRepository, FollowRepository and           *)
(* UserRepository that keeps the tables users, collections and             *)
(* collection_follows, with the update_collection tool of the MCP server,  *)
(* which reads a collection before it writes it.                           *)
(*                                                                         *)
(* Every SQL statement is one step; a request that runs several keeps what *)
(* it read in req, and the steps of requests interleave.  A request may    *)
(* come from a user whose account is gone (a session outlives the account),*)
(* and a foreign key then refuses what it inserts.                         *)
(***************************************************************************)
EXTENDS Naturals, FiniteSets

CONSTANTS Users,          \* ids of user rows
          Ids,            \* ids of collections
          Links,          \* share tokens
          Titles, Descriptions,
          Handlers,       \* requests in progress at one time
          None            \* SQL NULL, no row, no request

ASSUME NoneAssumption ==
  /\ None \notin Links \cup Titles \cup Descriptions \cup BOOLEAN
  /\ None \notin [title : Titles, description : Descriptions, is_public : BOOLEAN,
                  user_id : Users, share_token : Links \cup {None}]

VARIABLES known,          \* users that have ever signed in
          users,          \* the rows of users
          issued,         \* collection ids given out: uuids, never given out again
          links,          \* share tokens given out: uuids, never given out again
          collections,    \* the rows of collections
          follows,        \* the rows of collection_follows
          asked,          \* collections some request of their owner asked to make public
          req             \* requests between two statements

stored == <<users, collections, follows>>
vars == <<known, users, issued, links, collections, follows, asked, req>>

Fields == {"title", "description", "is_public"}
Settings == [title : Titles, description : Descriptions, is_public : BOOLEAN]
Changes == [title : Titles \cup {None}, description : Descriptions \cup {None}, is_public : BOOLEAN \cup {None}]
Row == [title : Titles, description : Descriptions, is_public : BOOLEAN,
        user_id : Users, share_token : Links \cup {None}]

\* Between two statements of update_collection, Follow and GetHome.
Update == [op : {"update"}, user : Users, id : Ids, read : Row, new : Changes]
Follow == [op : {"follow"}, user : Users, id : Ids]
Home   == [op : {"home"}, user : Users, own : SUBSET Ids]
Homed  == [op : {"homed"}, user : Users, own : SUBSET Ids, following : SUBSET Ids]
Idle   == [op |-> "idle"]

Exists(c) == collections[c] # None
Owns(u, c) == Exists(c) /\ collections[c].user_id = u
Opens(l, c) == Exists(c) /\ collections[c].share_token = l

\* Mistake: a look-up that does not ask who may see the collection.
VisibleToAll(u, c) == Exists(c)

\* What GetByID returns to a user who is not an administrator.
Visible(u, c) == /\ Exists(c)
                 /\ \/ collections[c].user_id = u
                    \/ collections[c].is_public
                    \/ <<u, c>> \in follows

WithSettings(row, s) == [row EXCEPT !.title = s.title, !.description = s.description,
                                    !.is_public = s.is_public]

\* The settings a call of update_collection passes, the others as they were read.
Merged(r) == [title       |-> IF r.new.title # None THEN r.new.title ELSE r.read.title,
              description |-> IF r.new.description # None THEN r.new.description ELSE r.read.description,
              is_public   |-> IF r.new.is_public # None THEN r.new.is_public ELSE r.read.is_public]

Asking(c, yes) == asked' = IF yes THEN asked \cup {c} ELSE asked

-----------------------------------------------------------------------------
Init == /\ known = {} /\ users = {} /\ issued = {} /\ links = {}
        /\ collections = [c \in Ids |-> None]
        /\ follows = {} /\ asked = {}
        /\ req = [h \in Handlers |-> Idle]

\* The first sign-in of somebody makes a row with a new id; later ones refresh it.
SignIn(u) == /\ u \notin known
             /\ known' = known \cup {u} /\ users' = users \cup {u}
             /\ UNCHANGED <<issued, links, collections, follows, asked, req>>

\* Rows that go take their follows with them (ON DELETE CASCADE).
Remove(gone) == /\ collections' = [c \in Ids |-> IF c \in gone THEN None ELSE collections[c]]
                /\ follows' = {f \in follows : f[2] \notin gone /\ f[1] \in users'}

DeleteAccount(u) == /\ users' = users \ {u}
                    /\ Remove({c \in Ids : Owns(u, c)})
                    /\ UNCHANGED <<known, issued, links, asked, req>>

CreateCollection(u, c, s) == /\ u \in users /\ c \notin issued
                             /\ issued' = issued \cup {c}
                             /\ collections' = [collections EXCEPT ![c] =
                                  [title |-> s.title, description |-> s.description, is_public |-> s.is_public,
                                   user_id |-> u, share_token |-> None]]
                             /\ Asking(c, s.is_public)
                             /\ UNCHANGED <<known, users, links, follows, req>>

\* The web's update of a collection, and the settings half of saving its draft.
UpdateCollection(u, c, s) == /\ Owns(u, c)
                             /\ collections' = [collections EXCEPT ![c] = WithSettings(@, s)]
                             /\ Asking(c, s.is_public)
                             /\ UNCHANGED <<known, users, issued, links, follows, req>>

DeleteCollection(u, c) == /\ Owns(u, c)
                          /\ UNCHANGED users
                          /\ Remove({c})
                          /\ UNCHANGED <<known, issued, links, asked, req>>

AdminDeleteCollection(c) == /\ Exists(c)
                            /\ UNCHANGED users
                            /\ Remove({c})
                            /\ UNCHANGED <<known, issued, links, asked, req>>

GenerateShareToken(u, c, l) == /\ Owns(u, c) /\ l \notin links
                               /\ links' = links \cup {l}
                               /\ collections' = [collections EXCEPT ![c].share_token = l]
                               /\ UNCHANGED <<known, users, issued, follows, asked, req>>

RevokeShareToken(u, c) == /\ Owns(u, c)
                          /\ collections' = [collections EXCEPT ![c].share_token = None]
                          /\ UNCHANGED <<known, users, issued, links, follows, asked, req>>

Unfollow(u, c) == /\ follows' = follows \ {<<u, c>>}
                  /\ UNCHANGED <<known, users, issued, links, collections, asked, req>>

-----------------------------------------------------------------------------
Begin(h, r) == /\ req[h] = Idle
               /\ req' = [req EXCEPT ![h] = r]
               /\ UNCHANGED <<known, issued, links, asked>> /\ UNCHANGED stored
End(h) == req' = [req EXCEPT ![h] = Idle]

\* update_collection, the MCP tool: read the row, then write all three settings.
UpdateRead(h, u, c, new) ==
  /\ \E f \in Fields : new[f] # None
  /\ Visible(u, c) /\ collections[c].user_id = u
  /\ Begin(h, [op |-> "update", user |-> u, id |-> c, read |-> collections[c], new |-> new])

\* Mistake: writing back the row that was read, the share token with it.
UpdateWriteRow(h) ==
  /\ req[h].op = "update"
  /\ IF Owns(req[h].user, req[h].id)
       THEN collections' = [collections EXCEPT ![req[h].id] = WithSettings(req[h].read, Merged(req[h]))]
       ELSE UNCHANGED collections
  /\ Asking(req[h].id, Owns(req[h].user, req[h].id) /\ req[h].new.is_public = TRUE)
  /\ End(h)
  /\ UNCHANGED <<known, users, issued, links, follows>>

UpdateWrite(h) ==
  /\ req[h].op = "update"
  /\ IF Owns(req[h].user, req[h].id)
       THEN collections' = [collections EXCEPT ![req[h].id] = WithSettings(@, Merged(req[h]))]
       ELSE UNCHANGED collections
  /\ Asking(req[h].id, Owns(req[h].user, req[h].id) /\ req[h].new.is_public = TRUE)
  /\ End(h)
  /\ UNCHANGED <<known, users, issued, links, follows>>

\* Follow: look the collection up as the user sees it, then insert the row.
\* Mistake: following one's own collection.
MayFollowOwn(u, c) == Visible(u, c)

MayFollow(u, c) == Visible(u, c) /\ collections[c].user_id # u

FollowRead(h, u, c) == MayFollow(u, c) /\ Begin(h, [op |-> "follow", user |-> u, id |-> c])

FollowInsert(h) ==
  /\ req[h].op = "follow"
  /\ follows' = IF Exists(req[h].id) /\ req[h].user \in users
                  THEN follows \cup {<<req[h].user, req[h].id>>} ELSE follows
  /\ End(h)
  /\ UNCHANGED <<known, users, issued, links, collections, asked>>

\* GetHome: the user's own collections, then the ones they follow.
HomeOwn(h, u) == Begin(h, [op |-> "home", user |-> u, own |-> {c \in Ids : Owns(u, c)}])

HomeFollowing(h) ==
  /\ req[h].op = "home"
  /\ req' = [req EXCEPT ![h] = [op |-> "homed", user |-> req[h].user, own |-> req[h].own,
                                following |-> {c \in Ids : Exists(c) /\ <<req[h].user, c>> \in follows}]]
  /\ UNCHANGED <<known, issued, links, asked>> /\ UNCHANGED stored

HomeAnswer(h) == /\ req[h].op = "homed"
                 /\ End(h)
                 /\ UNCHANGED <<known, issued, links, asked>> /\ UNCHANGED stored

\* A request may stop between its statements: a lost connection, a restart.
Abort(h) == /\ req[h] # Idle
            /\ End(h)
            /\ UNCHANGED <<known, issued, links, asked>> /\ UNCHANGED stored

Next == \/ \E u \in Users : SignIn(u)
        \/ \E u \in known : DeleteAccount(u)
        \/ \E u \in known, c \in Ids, s \in Settings : CreateCollection(u, c, s)
        \/ \E u \in known, c \in Ids, s \in Settings : UpdateCollection(u, c, s)
        \/ \E u \in known, c \in Ids : DeleteCollection(u, c)
        \/ \E c \in Ids : AdminDeleteCollection(c)
        \/ \E u \in known, c \in Ids, l \in Links : GenerateShareToken(u, c, l)
        \/ \E u \in known, c \in Ids : RevokeShareToken(u, c)
        \/ \E u \in known, c \in Ids : Unfollow(u, c)
        \/ \E h \in Handlers, u \in known, c \in Ids, new \in Changes : UpdateRead(h, u, c, new)
        \/ \E h \in Handlers, u \in known, c \in Ids : FollowRead(h, u, c)
        \/ \E h \in Handlers, u \in known : HomeOwn(h, u)
        \/ \E h \in Handlers : UpdateWrite(h)
        \/ \E h \in Handlers : FollowInsert(h)
        \/ \E h \in Handlers : HomeFollowing(h)
        \/ \E h \in Handlers : HomeAnswer(h)
        \/ \E h \in Handlers : Abort(h)

Spec == Init /\ [][Next]_vars

-----------------------------------------------------------------------------
\* Types, and what the foreign keys promise: a collection has an owner, and a
\* follow has both its ends, whatever was removed while requests were running.
TypeInvariant ==
  /\ users \subseteq known /\ known \subseteq Users
  /\ issued \subseteq Ids /\ links \subseteq Links /\ asked \subseteq issued
  /\ collections \in [Ids -> Row \cup {None}]
  /\ \A c \in Ids : Exists(c) => c \in issued /\ collections[c].user_id \in users
                                 /\ collections[c].share_token \in links \cup {None}
  /\ follows \subseteq users \X Ids /\ \A f \in follows : Exists(f[2])
  /\ req \in [Handlers -> Update \cup Follow \cup Home \cup Homed \cup {Idle}]

\* Who sees a collection is its owner's to say: one whose owner never asked to
\* make it public is not public and has no followers, although update_collection
\* writes a visibility it read earlier and Follow inserts after it has looked.
OnlyIfAsked ==
  \A c \in Ids \ asked : /\ Exists(c) => ~collections[c].is_public
                         /\ \A u \in Users : <<u, c>> \notin follows

\* The home page lists a collection once: never both as the user's own and as
\* one they follow, although the two lists are read by two statements.
HomeListsOnce == \A h \in Handlers : req[h].op = "homed" => req[h].own \cap req[h].following = {}

\* A share link that has been handed out opens the collection it was made for or
\* nothing: once replaced, revoked or deleted it never opens anything again.
LinksStayWithdrawn == [][\A l \in links, c \in Ids : Opens(l, c)' => Opens(l, c)]_vars

=============================================================================
