------------------------------ MODULE ItemDrafts ------------------------------
(***************************************************************************)
(* The content of one collection and its draft.                            *)
(*                                                                         *)
(* `items` is what readers see, `draft` is the staging table item_draft:   *)
(* at most one pending row per item id, an upsert (an Item) or a delete    *)
(* marker (Deleted).  Publishing applies the rows to `items` in one        *)
(* transaction and removes them.                                           *)
(*                                                                         *)
(* The owner edits from several places at once (browser tabs, MCP          *)
(* clients); each is an Editor that runs one request at a time.  Every     *)
(* SQL statement commits on its own, so a request is a sequence of steps   *)
(* that interleave with the steps of the other editors; consecutive reads  *)
(* of one request are one step.  The Publish transaction runs at READ      *)
(* COMMITTED: its first statement reads the rows, and its writes, which    *)
(* hold their row locks until the commit, take effect together.            *)
(***************************************************************************)
EXTENDS Naturals, FiniteSets

CONSTANTS
  Editor,       \* the clients the owner edits from
  Card,         \* the ids a new card may get
  Exercise,     \* the ids an imported exercise may get, quizzes included
  Sentence,     \* the ids an imported sentence may get
  Body,         \* the content of an item, its type, parent and rank apart
  None,         \* SQL NULL, or no row
  Deleted,      \* an item_draft row with op = 'delete'
  MaxRank,      \* bound: rank keys in use
  MaxRequests,  \* bound: requests sent in a behaviour
  MaxBatch,     \* bound: items in one bulk request
  Given,        \* bound: the ranks a client gives an item it stages, 0 for none
  Shapes,       \* bound: the types and parents a client gives an item it stages
  Requests,     \* the kinds of request the editors send
  InitItems     \* the published content the behaviour starts from

ItemId == Card \cup Exercise \cup Sentence

\* A rank key stands for its place in the order of keys; 0 is the empty string.
Rank == 0..MaxRank

\* validItemTypes.  The type of an item says nothing about its parent.
Type == {"card", "exercise", "sentence"}

Item == [type : Type, parent : ItemId \cup {None}, body : Body, rank : Rank]
Row == Item \cup {Deleted, None}
Table == [ItemId -> Item \cup {None}]
Staging == [ItemId -> Row]

Present(f) == {i \in ItemId : f[i] # None}

Orphan(f, i) == f[i] # None /\ f[i].parent # None /\ f[f[i].parent] = None
Orphans(f) == {i \in ItemId : Orphan(f, i)}

ASSUME ConstantsAssumption ==
  /\ MaxRank \in Nat /\ MaxRequests \in Nat /\ MaxBatch \in Nat
  /\ Card \cap Exercise = {} /\ Card \cap Sentence = {} /\ Exercise \cap Sentence = {}
  /\ None \notin Item /\ Deleted \notin Item /\ None # Deleted
  /\ None \notin ItemId
  /\ Shapes \subseteq [type : Type, parent : ItemId \cup {None}]

ASSUME InitItemsAssumption ==
  /\ InitItems \in Table
  /\ Orphans(InitItems) = {}

VARIABLES
  items,   \* table items: id -> published item, or None
  draft,   \* table item_draft: id -> staged row, or None
  used,    \* the ids handed out so far (uuid.NewString never repeats one)
  req,     \* per editor: the request in progress and its local variables
  sent     \* how many requests have been sent

vars == <<items, draft, used, req, sent>>

PC == {"idle", "set", "remove", "mark", "clear", "list", "commit",
       "ud_list", "ud_set", "ud_mark", "import_draft", "import_live"}

Request ==
  [pc : PC,
   tgt : ItemId \cup {None},     \* the item a staging request is about
   val : Item \cup {None},       \* what it is going to write
   rows : Staging,               \* the rows or items it has read
   want : SUBSET ItemId,         \* a bulk request: every item it names
   todo : SUBSET ItemId,         \* a bulk request: items not yet written
   new : SUBSET ItemId,          \* a bulk request: items whose id is new
   last : Rank]                  \* a bulk request: the last rank it gave out

NoRows == [i \in ItemId |-> None]

NoRequest ==
  [pc |-> "idle", tgt |-> None, val |-> None, rows |-> NoRows,
   want |-> {}, todo |-> {}, new |-> {}, last |-> 0]

TypeOK ==
  /\ items \in Table
  /\ draft \in Staging
  /\ used \subseteq ItemId
  /\ req \in [Editor -> Request]
  /\ sent \in 0..MaxRequests

-----------------------------------------------------------------------------
(* Ranks *)

\* rank.Between(a, b): above a whatever b is, and below b when a < b.
\* The strings it builds are abstracted to their order.
Between(a, b) == {r \in Rank : a < r /\ (a < b => r < b)}

\* rank.After(r): the key right after r.
After(r) == r + 1

\* ItemRepository.LastRank: the highest rank among siblings, "" if there is none.
LastRank(f, p) ==
  LET ranks == {f[i].rank : i \in {j \in Present(f) : f[j].parent = p}}
  IN  IF ranks = {} THEN 0 ELSE CHOOSE r \in ranks : \A s \in ranks : s <= r

-----------------------------------------------------------------------------
(* What the staged rows mean *)

IsUpsert(r) == r \notin {None, Deleted}

\* overlayDraft: the editor's view, the staged rows laid over the live items.
OverlayDraft(f, d) ==
  [i \in ItemId |-> IF d[i] = None THEN f[i]
                    ELSE IF d[i] = Deleted THEN None ELSE d[i]]

\* sameItem compares everything but the rank.
SameItem(a, b) == a.type = b.type /\ a.parent = b.parent /\ a.body = b.body

\* A diff that looks only at the items that are published.
GetDraftDiffLiveOnly(f, d) ==
  {i \in Present(f) : d[i] = Deleted \/ (IsUpsert(d[i]) /\ ~SameItem(f[i], d[i]))}

\* GetDraftDiff: the ids whose staged state differs from what is published.
GetDraftDiff(f, d) ==
  {i \in ItemId : \/ d[i] = Deleted /\ f[i] # None
                  \/ IsUpsert(d[i]) /\ (f[i] = None \/ ~SameItem(f[i], d[i]))}

\* The ids in S and all that hangs below them: the least set that holds S and the
\* children of its members.  Parents may form a ring.
Descendants(f, S) ==
  LET children == {i \in Present(f) : f[i].parent # None}
      below == {<<f[i].parent, i>> : i \in children}
      closed == {T \in {S \cup U : U \in SUBSET children} :
                    \A b \in below : b[1] \in T => b[2] \in T}
  IN  {i \in ItemId : \A T \in closed : i \in T}

\* A key that takes the children of a deleted row along, and not theirs.
DeleteRowsOneLevel(f, S) ==
  LET children == {i \in Present(f) : f[i].parent \in S}
  IN  [i \in ItemId |-> IF i \in S \cup children THEN None ELSE f[i]]

\* DELETE FROM items: whatever hangs below goes too (parent_id ON DELETE CASCADE).
DeleteRows(f, S) ==
  LET gone == Descendants(f, S)
  IN  [i \in ItemId |-> IF i \in gone THEN None ELSE f[i]]

\* publishOrder: parentless upserts, then child upserts, then deletes.
PublishOrderUnsorted(r) == 0
PublishOrder(r) ==
  IF r = Deleted THEN 2 ELSE IF r.parent # None THEN 1 ELSE 0

InClass(d, k) == {i \in ItemId : d[i] # None /\ PublishOrder(d[i]) = k}

\* A publish that appends what it writes instead of keeping the staged rank.
ApplyClassReranks(f, d, k) ==
  LET upserts == {i \in InClass(d, k) : d[i] # Deleted}
      written == [i \in ItemId |->
                    IF i \in upserts
                    THEN [d[i] EXCEPT !.rank = After(LastRank(f, d[i].parent))]
                    ELSE f[i]]
  IN  DeleteRows(written, InClass(d, k) \ upserts)

\* The rows of one class, in the arbitrary order the database lists them in.
ApplyClass(f, d, k) ==
  LET upserts == {i \in InClass(d, k) : d[i] # Deleted}
      written == [i \in ItemId |-> IF i \in upserts THEN d[i] ELSE f[i]]
  IN  DeleteRows(written, InClass(d, k) \ upserts)

\* Writing row i next would break the foreign key: the parent it names is neither
\* there nor the row itself.
BreaksKey(f, d, i) ==
  IsUpsert(d[i]) /\ d[i].parent \notin {None, i} /\ f[d[i].parent] = None

\* Some order of the rows of class k writes a child before its parent.
SomeOrderFails(f, d, k) == \E i \in InClass(d, k) : BreaksKey(f, d, i)

\* Every order does: there are rows that wait for one another, or for an item the
\* class does not write.
EveryOrderFails(f, d, k) ==
  LET class == InClass(d, k)
      waiting == {i \in class : BreaksKey(f, d, i)}
  IN  \E S \in (SUBSET waiting) \ {{}} :
         \A i \in S : d[i].parent \in S \/ d[i].parent \notin class

\* The content the transaction leaves; whether it may fail, since the rows come in
\* any order, and whether it must.
Applied(f, d) == ApplyClass(ApplyClass(ApplyClass(f, d, 0), d, 1), d, 2)
MayFail(f, d) ==
  SomeOrderFails(f, d, 0) \/ SomeOrderFails(ApplyClass(f, d, 0), d, 1)
Rejected(f, d) ==
  EveryOrderFails(f, d, 0) \/ EveryOrderFails(ApplyClass(f, d, 0), d, 1)

-----------------------------------------------------------------------------
(* Requests *)

\* A request past ownsCollection, which the owner of the collection always passes.
Begin(e, kind) ==
  /\ req[e].pc = "idle"
  /\ kind \in Requests
  /\ sent < MaxRequests
  /\ sent' = sent + 1

Set(e, r) == req' = [req EXCEPT ![e] = r]
Finish(e) == Set(e, NoRequest)

Init ==
  /\ items = InitItems
  /\ draft = NoRows
  /\ used = Present(InitItems)
  /\ req = [e \in Editor |-> NoRequest]
  /\ sent = 0

(* Granular staging: the reads of a request, then its one write. *)

\* The rank an existing item keeps: the live one, else the staged one, else none.
KeptRank(i) ==
  IF items[i] # None THEN items[i].rank
  ELSE IF IsUpsert(draft[i]) THEN draft[i].rank ELSE 0

\* StageDraftItem, for a new id or one the client has seen, under any item it has
\* seen, whatever their types.  The client may give a rank (0: none); an item left
\* without one is appended after the last LIVE sibling.
StageDraftItem(e, given) ==
  /\ Begin(e, "StageDraftItem")
  /\ \E i \in ItemId, b \in Body, shape \in Shapes :
       LET r == IF given # 0 THEN given
                ELSE IF KeptRank(i) # 0 THEN KeptRank(i)
                ELSE After(LastRank(items, shape.parent))
       IN  /\ shape.parent \in used \cup {i, None}
           /\ r \in Rank
           /\ used' = used \cup {i}
           /\ Set(e, [NoRequest EXCEPT
                        !.pc = "set", !.tgt = i,
                        !.val = [type |-> shape.type, parent |-> shape.parent,
                                 body |-> b, rank |-> r]])
  /\ UNCHANGED <<items, draft>>

\* MoveDraftItem's rankOf: the staged rank, else the live one, else "".
RankOf(n) ==
  IF n = None THEN 0
  ELSE IF IsUpsert(draft[n]) THEN draft[n].rank
  ELSE IF items[n] # None THEN items[n].rank ELSE 0

\* MoveDraftItem: the item as staged, else as published, at a rank between those of
\* two neighbours (None for a list end).
MoveDraftItem(e) ==
  /\ Begin(e, "MoveDraftItem")
  /\ \E i \in used, after, before \in {RankOf(n) : n \in used \cup {None}} :
       LET cur == IF IsUpsert(draft[i]) THEN draft[i] ELSE items[i]
       IN  /\ cur # None
           /\ \E r \in Between(after, before) :
                Set(e, [NoRequest EXCEPT !.pc = "set", !.tgt = i,
                                         !.val = [cur EXCEPT !.rank = r]])
  /\ UNCHANGED <<items, draft, used>>

\* ItemDraftRepository.Set: last write wins.
WriteStaged(e) ==
  /\ req[e].pc = "set"
  /\ draft' = [draft EXCEPT ![req[e].tgt] = req[e].val]
  /\ Finish(e)
  /\ UNCHANGED <<items, used, sent>>

\* StageDraftDelete: a live item gets a delete marker, a draft-only one is dropped.
StageDraftDeleteUnchecked(e) ==
  /\ Begin(e, "StageDraftDelete")
  /\ \E i \in used : Set(e, [NoRequest EXCEPT !.pc = "remove", !.tgt = i])
  /\ UNCHANGED <<items, draft, used>>
StageDraftDelete(e) ==
  /\ Begin(e, "StageDraftDelete")
  /\ \E i \in used :
       Set(e, [NoRequest EXCEPT !.pc = IF items[i] = None THEN "remove" ELSE "mark",
                                !.tgt = i])
  /\ UNCHANGED <<items, draft, used>>

RemoveStaged(e) ==
  /\ req[e].pc = "remove"
  /\ draft' = [draft EXCEPT ![req[e].tgt] = None]
  /\ Finish(e)
  /\ UNCHANGED <<items, used, sent>>

MarkDeleted(e) ==
  /\ req[e].pc = "mark"
  /\ draft' = [draft EXCEPT ![req[e].tgt] = Deleted]
  /\ Finish(e)
  /\ UNCHANGED <<items, used, sent>>

\* RevertDraftItem: one statement.
RevertDraftItem(e) ==
  /\ Begin(e, "RevertDraftItem")
  /\ \E i \in used : draft' = [draft EXCEPT ![i] = None]
  /\ UNCHANGED <<items, used, req>>

\* DiscardDraft: one statement.
DiscardDraft(e) ==
  /\ Begin(e, "DiscardDraft")
  /\ draft' = NoRows
  /\ UNCHANGED <<items, used, req>>

(* UpdateDraft: the whole desired list of cards at once. *)

\* Clear.  The request lists items the client has seen, as cards, and adds new ones.
UpdateDraft(e) ==
  /\ Begin(e, "UpdateDraft")
  /\ draft' = NoRows
  /\ \E kept \in SUBSET used, new \in SUBSET (Card \ used) :
       /\ Cardinality(kept \cup new) <= MaxBatch
       /\ used' = used \cup new
       /\ Set(e, [NoRequest EXCEPT !.pc = "ud_list", !.new = new,
                                   !.want = kept \cup new, !.todo = kept \cup new])
  /\ UNCHANGED items

\* ListByCollection and LastRank.
UpdateDraftList(e) ==
  /\ req[e].pc = "ud_list"
  /\ Set(e, [req[e] EXCEPT !.pc = "ud_set", !.rows = items,
                           !.last = LastRank(items, None)])
  /\ UNCHANGED <<items, draft, used, sent>>

\* liveCardTest: the live cards among the items it has read.
LiveCards(e) == {i \in Present(req[e].rows) : req[e].rows[i].type = "card"}

\* stage(): a new card goes after the last one, an existing one keeps its live
\* rank; the map lookup gives "" for an item that is not a live card.
StagedRank(e, i) ==
  IF i \in req[e].new THEN After(req[e].last)
  ELSE IF i \in LiveCards(e) THEN req[e].rows[i].rank ELSE 0

UpdateDraftSet(e) ==
  /\ req[e].pc = "ud_set"
  /\ \E i \in req[e].todo, b \in Body :
       LET r == StagedRank(e, i)
       IN  /\ r \in Rank
           /\ draft' = [draft EXCEPT ![i] =
                           [type |-> "card", parent |-> None, body |-> b, rank |-> r]]
           /\ Set(e, [req[e] EXCEPT !.todo = @ \ {i},
                                    !.last = IF i \in req[e].new THEN r ELSE @])
  /\ UNCHANGED <<items, used, sent>>

\* The live cards the request does not name.
Dropped(e) == LiveCards(e) \ req[e].want

UpdateDraftStaged(e) ==
  /\ req[e].pc = "ud_set" /\ req[e].todo = {}
  /\ Set(e, [req[e] EXCEPT !.pc = "ud_mark", !.todo = Dropped(e)])
  /\ UNCHANGED <<items, draft, used, sent>>

UpdateDraftMarkKeeps(e) ==
  /\ req[e].pc = "ud_mark"
  /\ \E i \in req[e].todo : Set(e, [req[e] EXCEPT !.todo = @ \ {i}])
  /\ UNCHANGED <<items, draft, used, sent>>
UpdateDraftMark(e) ==
  /\ req[e].pc = "ud_mark"
  /\ \E i \in req[e].todo :
       /\ draft' = [draft EXCEPT ![i] = Deleted]
       /\ Set(e, [req[e] EXCEPT !.todo = @ \ {i}])
  /\ UNCHANGED <<items, used, sent>>

UpdateDraftReturn(e) ==
  /\ req[e].pc = "ud_mark" /\ req[e].todo = {}
  /\ Finish(e)
  /\ UNCHANGED <<items, draft, used, sent>>

(* ImportItems and its relatives: new items one statement at a time, at ranks *)
(* after the last live one.  AddCard and AddTestQuestion are batches of one.  *)

\* `mode` is "import_draft" (item_draft rows) or "import_live" (items rows).
\* A batch holds at most one exercise, with its sentences.
ImportItems(e, mode) ==
  /\ Begin(e, mode)
  /\ \E batch \in SUBSET (ItemId \ used) :
       /\ Cardinality(batch) \in 1..MaxBatch
       /\ Cardinality(batch \cap Exercise) <= 1
       /\ batch \cap Sentence # {} => batch \cap Exercise # {}
       /\ used' = used \cup batch
       /\ Set(e, [NoRequest EXCEPT !.pc = mode, !.want = batch, !.todo = batch,
                                   !.last = LastRank(items, None)])
  /\ UNCHANGED <<items, draft>>

\* An exercise is followed by its sentences.
NextOfBatch(e) ==
  LET pending == req[e].todo \cap Sentence
      opened == (req[e].want \ req[e].todo) \cap Exercise
  IN  IF opened # {} /\ pending # {} THEN pending ELSE req[e].todo \ Sentence

\* The row of item i: sentences are ranked among themselves.
BatchItem(e, i, b) ==
  IF i \in Sentence
  THEN [type |-> "sentence", parent |-> CHOOSE x \in Exercise : x \in req[e].want, body |-> b,
        rank |-> After(Cardinality((req[e].want \ req[e].todo) \cap Sentence))]
  ELSE [type |-> IF i \in Card THEN "card" ELSE "exercise", parent |-> None, body |-> b,
        rank |-> After(req[e].last)]

Imported(e, i, r) ==
  Set(e, [req[e] EXCEPT !.todo = @ \ {i},
                        !.last = IF i \in Sentence THEN @ ELSE r])

ImportStage(e) ==
  /\ req[e].pc = "import_draft"
  /\ \E i \in NextOfBatch(e), b \in Body :
       LET it == BatchItem(e, i, b)
       IN  /\ it.rank \in Rank
           /\ draft' = [draft EXCEPT ![i] = it]
           /\ Imported(e, i, it.rank)
  /\ UNCHANGED <<items, used, sent>>

\* Create: the foreign key stops a sentence whose exercise is gone.
ImportCreate(e) ==
  /\ req[e].pc = "import_live"
  /\ \E i \in NextOfBatch(e), b \in Body :
       LET it == BatchItem(e, i, b)
       IN  /\ it.rank \in Rank
           /\ it.parent \in Present(items) \cup {None}
           /\ items' = [items EXCEPT ![i] = it]
           /\ Imported(e, i, it.rank)
  /\ UNCHANGED <<draft, used, sent>>

ImportReturn(e) ==
  /\ req[e].pc \in {"import_draft", "import_live"} /\ req[e].todo = {}
  /\ Finish(e)
  /\ UNCHANGED <<items, draft, used, sent>>

(* Live edits that bypass the draft. *)

\* UpdateCard, UpdateTestQuestion: the content only.
UpdateCard(e) ==
  /\ Begin(e, "UpdateCard")
  /\ \E i \in Present(items), b \in Body : items' = [items EXCEPT ![i].body = b]
  /\ UNCHANGED <<draft, used, req>>

\* DeleteCard, DeleteExercise, DeleteTestQuestion: an item of any type.
DeleteCard(e) ==
  /\ Begin(e, "DeleteCard")
  /\ \E i \in Present(items) : items' = DeleteRows(items, {i})
  /\ UNCHANGED <<draft, used, req>>

(* Publish and discard. *)

PublishDraft(e) ==
  /\ Begin(e, "PublishDraft")
  /\ Set(e, [NoRequest EXCEPT !.pc = "list"])
  /\ UNCHANGED <<items, draft, used>>

\* The MCP tools publish_draft and discard_draft look for something staged first.
McpPublishDraft(e) ==
  /\ Begin(e, "McpPublishDraft")
  /\ GetDraftDiff(items, draft) # {}
  /\ Set(e, [NoRequest EXCEPT !.pc = "list"])
  /\ UNCHANGED <<items, draft, used>>

McpDiscardDraft(e) ==
  /\ Begin(e, "McpDiscardDraft")
  /\ GetDraftDiff(items, draft) # {}
  /\ Set(e, [NoRequest EXCEPT !.pc = "clear"])
  /\ UNCHANGED <<items, draft, used>>

ClearDraft(e) ==
  /\ req[e].pc = "clear"
  /\ draft' = NoRows
  /\ Finish(e)
  /\ UNCHANGED <<items, used, sent>>

\* Publish: listTx.
PublishList(e) ==
  /\ req[e].pc = "list"
  /\ Set(e, [req[e] EXCEPT !.pc = "commit", !.rows = draft])
  /\ UNCHANGED <<items, draft, used, sent>>

\* A publish that writes the upserts and only drops the delete markers.
PublishCommitNoDeletes(e) ==
  /\ req[e].pc = "commit"
  /\ ~Rejected(items, req[e].rows)
  /\ items' = ApplyClass(ApplyClass(items, req[e].rows, 0), req[e].rows, 1)
  /\ draft' = NoRows
  /\ Finish(e)
  /\ UNCHANGED <<used, sent>>

\* Publish: the writes, in an order that does not fail, DELETE FROM item_draft, commit.
\* A transaction that fails rolls back, which is Abort.
PublishCommit(e) ==
  /\ req[e].pc = "commit"
  /\ ~Rejected(items, req[e].rows)
  /\ items' = Applied(items, req[e].rows)
  /\ draft' = NoRows
  /\ Finish(e)
  /\ UNCHANGED <<used, sent>>

\* A statement fails, the client goes away, the process dies: the request stops
\* where it is and what it committed stays.
Abort(e) ==
  /\ req[e].pc # "idle"
  /\ Finish(e)
  /\ UNCHANGED <<items, draft, used, sent>>

-----------------------------------------------------------------------------

(* The endpoints.  What a handler refuses, it refuses before the first step. *)

\* Add, update, delete, move and revert a draft item; discard.
Edit(e) ==
  \/ \E given \in Given : StageDraftItem(e, given)
  \/ MoveDraftItem(e) \/ WriteStaged(e)
  \/ StageDraftDelete(e) \/ RemoveStaged(e) \/ MarkDeleted(e)
  \/ RevertDraftItem(e) \/ DiscardDraft(e)
  \/ McpDiscardDraft(e) \/ ClearDraft(e)

\* The card editor's save, past the checks of its title and lengths.
UpdateDraftSteps(e) ==
  \/ UpdateDraft(e) \/ UpdateDraftList(e) \/ UpdateDraftSet(e)
  \/ UpdateDraftStaged(e) \/ UpdateDraftMark(e) \/ UpdateDraftReturn(e)

\* Imports of cards, of exercises and of mixed lists; ?draft=true stages.
Import(e) ==
  \/ ImportItems(e, "import_draft") \/ ImportItems(e, "import_live")
  \/ ImportStage(e) \/ ImportCreate(e) \/ ImportReturn(e)

\* Edits and deletions of published cards, test questions and exercises.
Live(e) == UpdateCard(e) \/ DeleteCard(e)

\* Publish, by the web client or by an assistant.
Publish(e) ==
  \/ PublishDraft(e) \/ McpPublishDraft(e) \/ PublishList(e) \/ PublishCommit(e)

Next ==
  \E e \in Editor :
     Edit(e) \/ UpdateDraftSteps(e) \/ Import(e) \/ Live(e) \/ Publish(e) \/ Abort(e)

Spec == Init /\ [][Next]_vars

-----------------------------------------------------------------------------
(* Properties *)

\* The local variables a request is going to use, and that it knows of no id that
\* was not handed out.
RequestTypeOK ==
  \A e \in Editor :
    /\ req[e].todo \subseteq used /\ Present(req[e].rows) \subseteq used
    /\ req[e].pc \in {"set", "remove", "mark"} => req[e].tgt \in used
    /\ req[e].pc = "set" => req[e].val \in Item

\* Type correctness; and an id that is still to be handed out is in no table, so that
\* a new item never overwrites one.
TypeInvariant ==
  TypeOK /\ RequestTypeOK /\ Present(items) \cup Present(draft) \subseteq used

\* For an editor who works alone the draft is the simple thing DraftPromise says.
Promise == INSTANCE DraftPromise WITH
  published <- items, preview <- OverlayDraft(items, draft)
PromiseKept == Promise!Spec

\* Readers never see an item whose parent is gone, at any depth, whatever publishes,
\* deletions and imports interleave (items.parent_id ON DELETE CASCADE).
LiveParents == Orphans(items) = {}

\* What the editor is shown (overlayDraft) is what publishing now would produce, less
\* what hangs below the items the draft deletes; for any draft that some order of its
\* rows publishes, rings of parents included.
PreviewFaithful ==
  ~Rejected(items, draft) =>
     Applied(items, draft) = Promise!WithoutOrphans(OverlayDraft(items, draft))

\* Rows published twice, by two publish requests that read the same draft, leave
\* what publishing them once leaves (a second transaction that is rolled back
\* leaves it too).
RepublishHarmless ==
  LET once == Applied(items, draft)
  IN  ~Rejected(items, draft) /\ ~Rejected(once, draft) => Applied(once, draft) = once

\* "Apply parent upserts before child upserts" (Publish): the two passes are enough
\* for a draft, or for the rows a publish has read, in which every staged child hangs
\* below a published item, itself, or a staged item without a parent.  Such rows are
\* published whatever order the database lists them in.
ParentsFirst(d) ==
  \A i \in ItemId : IsUpsert(d[i]) =>
    LET p == d[i].parent
    IN  p \in {None, i} \cup Present(items) \/ (IsUpsert(d[p]) /\ d[p].parent = None)
FlatDraftPublishes ==
  \A d \in {draft} \cup {req[e].rows : e \in {f \in Editor : req[f].pc = "commit"}} :
    ParentsFirst(d) => ~MayFail(items, d)

\* The MCP tools publish_draft and discard_draft refuse to run on an empty diff:
\* what they leave staged then is at most a new order of published items.
EmptyDiffIsReorder ==
  GetDraftDiff(items, draft) = {} =>
    LET shown == OverlayDraft(items, draft)
    IN  /\ Present(shown) = Present(items)
        /\ \A i \in Present(items) : SameItem(shown[i], items[i])

\* A request that deletes an item from the draft leaves the preview without it.
DeletedFromPreview ==
  [][\A e \in Editor : (RemoveStaged(e) \/ MarkDeleted(e)) =>
        OverlayDraft(items', draft')[req[e].tgt] = None]_vars

\* UpdateDraft, run to its end, leaves exactly the requested cards in the preview.
Shown == OverlayDraft(items, draft)
UpdateDraftExact ==
  [][\A e \in Editor : UpdateDraftReturn(e) =>
        {i \in Present(Shown) : Shown[i].type = "card"} = req[e].want]_vars

\* An editor who works alone publishes the rows that are staged at the commit.
LoneRows == \A e \in Editor : req[e].pc = "commit" => req[e].rows = draft

(* What the code's comments say and concurrent or repeated requests break. *)

\* "Publish applies the draft to `items` in one transaction (upsert / delete),
\* then clears it" (item_draft.go): the rows it clears are the rows it applied.
PublishAppliesWhatItClears ==
  [][\A e \in Editor : PublishCommit(e) =>
        \A i \in ItemId : draft[i] # None => req[e].rows[i] = draft[i]]_vars

===============================================================================
