----------------------------- MODULE CardImages -----------------------------
(* The pictures of cards: rows that name an object of the S3 store, and the    *)
(* objects.  No transaction covers both.  Uploads put an object and hand out    *)
(* its URL; deleting a card, a collection or an account reads the URLs first,   *)
(* deletes the rows and then, best effort, the objects.  Nothing else removes   *)
(* an object: not an update, a discarded draft, or a published deletion.        *)
EXTENDS Integers, FiniteSets

CONSTANTS
    NoImage,    \* no picture, or a URL outside the bucket, which the store passes over
    NoRow,      \* not published, or not staged
    Removed,    \* a staged deletion
    Deleter,    \* the delete requests that can be served at one time
    Collection,
    Item,       \* cards and quiz questions
    Home,       \* the collection of each of them
    Scopes,     \* what is deleted at once: a collection, or all those of an account
    Object      \* the names an upload may draw, never drawn twice

Image == Object \cup {NoImage}

ASSUME CardImagesAssumption ==
    /\ Home \in [Item -> Collection]
    /\ Scopes \subseteq SUBSET Collection
    /\ NoRow \notin Image /\ Removed \notin Image /\ NoRow # Removed
    /\ NoImage \notin Object

\* A delete request: the card or the scope, and the URLs it has read and not yet
\* removed.  History: whether all of it has gone well so far, and no row of its cards
\* was written between its read and its delete; if so, the objects those rows named.
Deletion == [pc: {"idle", "rows", "store"}, cards: SUBSET Item, one: BOOLEAN,
             urls: SUBSET Object, took: SUBSET Object, clean: BOOLEAN]

NoDeletion == [pc |-> "idle", cards |-> {}, one |-> FALSE, urls |-> {}, took |-> {},
               clean |-> TRUE]

VARIABLES
    collections,  \* those that exist
    image,        \* what each published card names, or NoRow
    staged,       \* what each row of the draft names, Removed, or NoRow
    objects,      \* the objects in the bucket
    put,          \* history: the objects ever uploaded
    deletion,     \* the delete each handler is processing
    namedBy,      \* history: the cards, published or staged, that have named an object
    deleted,      \* history: cards that have been deleted
    back,         \* history: cards published again after that
    spared,       \* history: cards a delete had read the pictures of and left
    cleared       \* history: objects of which a user was told, undisturbed, they are gone

history == <<namedBy, deleted, back, spared, cleared>>
imageVars == <<collections, image, staged, objects, put, deletion, history>>

Published == {c \in Item : image[c] # NoRow}

ImageTypeInvariant ==
    /\ collections \subseteq Collection
    /\ image \in [Item -> Image \cup {NoRow}]
    /\ staged \in [Item -> Image \cup {NoRow, Removed}]
    /\ objects \subseteq put /\ put \subseteq Object
    /\ deletion \in [Deleter -> Deletion]
    /\ namedBy \in [Object -> SUBSET Item]
    /\ back \subseteq deleted /\ deleted \subseteq Item
    /\ spared \subseteq Item
    /\ cleared \subseteq put
    /\ \A c \in Item : Home[c] \notin collections => image[c] = NoRow /\ staged[c] = NoRow

-----------------------------------------------------------------------------
\* UploadHandler.Upload: the client learns the URL.
Upload(o) ==
    /\ o \notin put
    /\ objects' = objects \cup {o}
    /\ put' = put \cup {o}
    /\ UNCHANGED <<collections, image, staged, deletion, history>>

\* What a client may save with a card: an upload, or none.
Savable == put \cup {NoImage}

Names(c, i) == namedBy' = [o \in Object |-> IF o = i THEN namedBy[o] \cup {c} ELSE namedBy[o]]

\* A card's row is written: requests that have read it are no longer undisturbed.
Disturb(cs) ==
    deletion' = [h \in Deleter |->
               IF deletion[h].pc = "rows" /\ deletion[h].cards \cap cs # {}
                 THEN [deletion[h] EXCEPT !.clean = FALSE] ELSE deletion[h]]

\* AddCard, an import, UpdateCard: the old picture is only forgotten.
SaveCard(c, i) ==
    /\ Home[c] \in collections
    /\ c \in Published \/ c \notin deleted
    /\ image' = [image EXCEPT ![c] = i]
    /\ Names(c, i)
    /\ Disturb({c})
    /\ UNCHANGED <<collections, staged, objects, put, deleted, back, spared, cleared>>

\* UpdateDraft, StageDraftItem, StageDraftDelete, RevertDraftItem.
StageCard(c, i) ==
    /\ Home[c] \in collections
    /\ staged' = [staged EXCEPT ![c] = i]
    /\ Names(c, i)
    /\ UNCHANGED <<collections, image, objects, put, deletion, deleted, back, spared, cleared>>

DiscardDraft(k) ==
    /\ staged' = [c \in Item |-> IF Home[c] = k THEN NoRow ELSE staged[c]]
    /\ UNCHANGED <<collections, image, objects, put, deletion, history>>

\* PublishDraft: staged rows become live, whatever was deleted meanwhile.
PublishDraft(k) ==
    LET rows == {c \in Item : Home[c] = k /\ staged[c] # NoRow}
        drops == {c \in rows : staged[c] = Removed}
    IN  /\ image' = [c \in Item |-> IF c \in drops THEN NoRow
                                    ELSE IF c \in rows THEN staged[c] ELSE image[c]]
        /\ staged' = [c \in Item |-> IF c \in rows THEN NoRow ELSE staged[c]]
        /\ deleted' = deleted \cup (drops \cap Published)
        /\ back' = back \cup ((rows \ drops) \cap deleted)
        /\ Disturb(rows)
        /\ UNCHANGED <<collections, objects, put, namedBy, spared, cleared>>

-----------------------------------------------------------------------------
\* A delete begins by reading the pictures.  If the read fails it goes on without.
Begin(h, r) ==
    /\ deletion[h].pc = "idle"
    /\ \/ deletion' = [deletion EXCEPT ![h] =
                 [r EXCEPT !.urls = {image[c] : c \in r.cards \cap Published} \cap Object]]
       \/ deletion' = [deletion EXCEPT ![h] = [r EXCEPT !.clean = FALSE]]
    /\ UNCHANGED <<collections, image, staged, objects, put, history>>

\* DeleteCard, DeleteTestQuestion: Get.
DeleteCard(h, c) == Begin(h, [NoDeletion EXCEPT !.pc = "rows", !.cards = {c}, !.one = TRUE])

\* DeleteCollection and AdminDeleteCollection: ListAllImages.  DeleteAccount:
\* ListUserImages.
DeleteCollections(h, scope) ==
    Begin(h, [NoDeletion EXCEPT !.pc = "rows", !.cards = {c \in Item : Home[c] \in scope}])

\* Mutant: the draft of a deleted collection stays.
RowsGoDraftStays(h) ==
    LET r == deletion[h]
    IN  /\ image' = [c \in Item |-> IF c \in r.cards THEN NoRow ELSE image[c]]
        /\ deleted' = deleted \cup (r.cards \cap Published)
        /\ collections' = IF r.one THEN collections ELSE collections \ {Home[c] : c \in r.cards}
        /\ UNCHANGED staged

\* The rows go, and with a collection its draft.
RowsGo(h) ==
    LET r == deletion[h]
    IN  /\ image' = [c \in Item |-> IF c \in r.cards THEN NoRow ELSE image[c]]
        /\ deleted' = deleted \cup (r.cards \cap Published)
        /\ IF r.one
             THEN UNCHANGED <<collections, staged>>
             ELSE /\ collections' = collections \ {Home[c] : c \in r.cards}
                  /\ staged' = [c \in Item |-> IF c \in r.cards THEN NoRow ELSE staged[c]]

Took(r) == IF r.clean THEN {image[c] : c \in r.cards \cap Published} \cap Object ELSE {}

\* Mutant: the pictures are listed again after the rows.
DeleteRowsListAgain(h) ==
    /\ deletion[h].pc = "rows"
    /\ RowsGo(h)
    /\ deletion' = [deletion EXCEPT ![h].pc = "store", ![h].urls = {},
                               ![h].took = Took(deletion[h])]
    /\ UNCHANGED <<objects, put, namedBy, back, spared, cleared>>

\* Mutant: the picture of a card goes although its row could not be deleted.
DeleteRowsCarelessly(h) ==
    /\ deletion[h].pc = "rows"
    /\ RowsGo(h) \/ UNCHANGED <<collections, image, staged, deleted>>
    /\ deletion' = [deletion EXCEPT ![h].pc = "store"]
    /\ UNCHANGED <<objects, put, namedBy, back, spared, cleared>>

\* The DELETE.  One that fails, or finds no row it may delete, ends DeleteCard; of
\* a collection or account the pictures go all the same (the call is deferred).
DeleteRows(h) ==
    LET r == deletion[h]
    IN  /\ r.pc = "rows"
        /\ \/ /\ RowsGo(h)
              /\ deletion' = [deletion EXCEPT ![h].pc = "store", ![h].took = Took(r)]
              /\ UNCHANGED spared
           \/ /\ deletion' = [deletion EXCEPT ![h] =
                           IF r.one THEN NoDeletion
                           ELSE [r EXCEPT !.pc = "store", !.clean = FALSE]]
              /\ spared' = IF r.one THEN spared
                           ELSE spared \cup UNION {namedBy[o] : o \in r.urls}
              /\ UNCHANGED <<collections, image, staged, deleted>>
        /\ UNCHANGED <<objects, put, namedBy, back, cleared>>

\* DeleteURL; an error is ignored.
DeleteURL(h, u) ==
    /\ deletion[h].pc = "store"
    /\ u \in deletion[h].urls
    /\ \/ /\ objects' = objects \ {u}
          /\ deletion' = [deletion EXCEPT ![h].urls = @ \ {u}]
       \/ /\ deletion' = [deletion EXCEPT ![h].urls = @ \ {u}, ![h].clean = FALSE, ![h].took = {}]
          /\ UNCHANGED objects
    /\ UNCHANGED <<collections, image, staged, put, history>>

Reply(h) ==
    LET r == deletion[h]
    IN  /\ r.pc = "store"
        /\ r.urls = {}
        /\ deletion' = [deletion EXCEPT ![h] = NoDeletion]
        /\ cleared' = IF r.clean THEN cleared \cup r.took ELSE cleared
        /\ UNCHANGED <<collections, image, staged, objects, put, namedBy, deleted, back, spared>>

AbortDelete(h) ==
    /\ deletion[h].pc # "idle"
    /\ deletion' = [deletion EXCEPT ![h] = NoDeletion]
    /\ UNCHANGED <<collections, image, staged, objects, put, history>>

Edit(c) ==
    \/ \E i \in Savable : SaveCard(c, i)
    \/ \E i \in Savable \cup {NoRow, Removed} : StageCard(c, i)

Delete(h) ==
    \/ \E c \in Item : DeleteCard(h, c)
    \/ \E scope \in Scopes : DeleteCollections(h, scope)
    \/ DeleteRows(h)
    \/ \E u \in Object : DeleteURL(h, u)
    \/ Reply(h)
    \/ AbortDelete(h)

ImageInit ==
    /\ collections = Collection
    /\ image = [c \in Item |-> NoRow]
    /\ staged = [c \in Item |-> NoRow]
    /\ objects = {}
    /\ put = {}
    /\ deletion = [h \in Deleter |-> NoDeletion]
    /\ namedBy = [o \in Object |-> {}]
    /\ deleted = {}
    /\ back = {}
    /\ spared = {}
    /\ cleared = {}

ImageNext ==
    \/ \E o \in Object : Upload(o)
    \/ \E c \in Item : Edit(c)
    \/ \E k \in Collection : DiscardDraft(k) \/ PublishDraft(k)
    \/ \E h \in Deleter : Delete(h)

ImageSpec == ImageInit /\ [][ImageNext]_imageVars

-----------------------------------------------------------------------------
\* A published card whose picture is gone shares it with another card, was deleted
\* and published again from the draft, or outlived the delete of its collection or
\* account: whatever else runs at the same time leaves the picture of a card alone.
PictureKept ==
    \A c \in Published :
        image[c] \in Object \ objects =>
            c \in back \/ c \in spared \/ namedBy[image[c]] # {c}

\* A delete that ran to its end without an error, with no row of its cards written
\* between its read and its delete, has left no object those rows named.
PicturesGo == cleared \cap objects = {}
=============================================================================
