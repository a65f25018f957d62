----------------------------- MODULE ItemImports -----------------------------
(* How items come into a collection and keep their order: the imports of REST   *)
(* and MCP, single additions, moves and saves of the draft.  A request that      *)
(* appends reads the last live rank once and then writes row by row, each a      *)
(* statement of its own; nothing locks the list.  How staging requests overlap   *)
(* is the subject of ItemDrafts; what this module adds is the keys themselves.   *)
EXTENDS Rank, ImportEntries, FiniteSets, SequencesExt

CONSTANTS
    None,
    Removed,      \* a staged deletion
    Handler,      \* the requests that can be served at one time
    Collection,
    Id,           \* an initial segment of 1, 2, ...; a new item draws the next
    Batches,      \* the lists of entries clients send
    Given,        \* the ranks clients stage of their own accord
    InitCollections,
    MaxRequests   \* bound: requests in a behaviour

ASSUME ItemImportsAssumption ==
    /\ IsFiniteSet(Id) /\ Id = 1 .. Cardinality(Id)
    /\ InitCollections \subseteq Collection
    /\ Id \cap Collection = {}
    /\ Batches \subseteq Seq(Entry)
    /\ \A k \in Given : k \in Key /\ Usable(k)
    /\ MaxRequests \in Nat

\* Items are listed within a home: sentences in their exercise, all else in its
\* collection.  The empty rank sorts before every other.
Home == Collection \cup Id
Item == [type: {"card", "exercise", "sentence"}, home: Home, key: Key]

VARIABLES
    collections,  \* those that exist
    live,         \* the published items, or None
    staged,       \* the rows of the drafts: an item, Removed or None
    drawn,        \* how many ids have been drawn
    owner,        \* the collection each id belongs to
    req,          \* the request each handler is processing
    sent,         \* how many requests have begun
    older,        \* history: what each item was to be listed after when it was written
    placed,       \* history: items a client has moved or given a rank
    saved,        \* history: items saved with UpdateDraft while not published
    outcome       \* history: how the create_collection of each collection ended

vars == <<collections, live, staged, drawn, owner, req, sent, older, placed, saved, outcome>>
history == <<older, placed, saved, outcome>>

Idle == [pc |-> "idle"]

TypeInvariant ==
    /\ collections \subseteq Collection
    /\ live \in [Id -> Item \cup {None}]
    /\ staged \in [Id -> Item \cup {None, Removed}]
    /\ drawn \in 0 .. Cardinality(Id) /\ sent \in 0 .. MaxRequests
    /\ \A i \in Id : i > drawn => live[i] = None /\ staged[i] = None
    /\ \A h \in Handler : req[h].pc \in {"idle", "create", "read", "write", "set"}
    /\ older \in [Id -> SUBSET Id]
    /\ placed \subseteq Id /\ saved \subseteq Id
    /\ owner \in [Id -> Collection \cup {None}]
    /\ outcome \in [Collection -> {"none", "done", "cut"}]

IsItem(x) == x \notin {None, Removed}

\* overlayDraft: what the owner sees.
Overlay == [i \in Id |-> IF staged[i] = None THEN live[i]
                         ELSE IF staged[i] = Removed THEN None ELSE staged[i]]

Listed(table, home) == {i \in Id : IsItem(table[i]) /\ table[i].home = home}

\* LastRank: the highest of the published items, staged ones do not count; the only
\* member of this set.
LastRank(home) ==
    LET keys == {live[i].key : i \in Listed(live, home)}
    IN  IF keys = {} THEN {<<>>} ELSE {k \in keys : \A l \in keys : ~Precedes(k, l)}

\* The statements an import runs, one for each row.
RowsOf(item) ==
    CASE item.type = "card" -> <<"card">>
      [] item.type = "quiz" -> <<"exercise">>
      [] item.type = "exercise" -> <<"exercise">> \o [k \in DOMAIN item.sentences |-> "sentence"]

AllRows(items) == FlattenSeq([k \in DOMAIN items |-> RowsOf(items[k])])

-----------------------------------------------------------------------------
Free(h) == req[h].pc = "idle" /\ sent < MaxRequests

Begin(h, r) ==
    /\ Free(h)
    /\ sent' = sent + 1
    /\ req' = [req EXCEPT ![h] = r]

\* A request that appends rows to home; sprev is the rank of the last sentence.
Appending(pc, draft, c, home, rows) ==
    [pc |-> pc, draft |-> draft, in |-> c, home |-> home, rows |-> rows, first |-> FALSE,
     prev |-> <<>>, sprev |-> <<>>, parent |-> None, after |-> {}, under |-> {},
     channel |-> "one", batch |-> <<>>]

\* The handlers of the four REST imports, add_items and stage_items: validation,
\* then ownsCollection; a refused request has changed nothing.
Import(h, channel, batch, draft, c) ==
    /\ channel = "add" => ~draft
    /\ channel = "stage" => draft
    /\ ~Refused(channel, batch)
    /\ Begin(h, [Appending("read", draft, c, c, AllRows(Built(Parsed(channel, batch))))
                   EXCEPT !.channel = channel, !.batch = batch])
    /\ UNCHANGED <<collections, live, staged, drawn, owner, history>>

\* AddCard, AddTestQuestion, and StageDraftItem for a new item with no rank.
AddItem(h, type, draft, c, home) ==
    /\ Begin(h, Appending("read", draft, c, home, <<type>>))
    /\ UNCHANGED <<collections, live, staged, drawn, owner, history>>

\* Mutant: create_collection creates before it validates.
CreateFirst(h, batch, c) ==
    /\ c \notin collections
    /\ IF Refused("create", batch)
         THEN /\ collections' = collections \cup {c}
              /\ sent < MaxRequests /\ sent' = sent + 1
              /\ UNCHANGED req
         ELSE /\ Begin(h, [Appending("create", FALSE, c, c, AllRows(Parsed("create", batch)))
                             EXCEPT !.channel = "create", !.batch = batch, !.first = TRUE])
              /\ UNCHANGED collections
    /\ UNCHANGED <<live, staged, drawn, owner, history>>

\* createCollection: buildItems first.
Create(h, batch, c) ==
    /\ c \notin collections
    /\ \A g \in Handler : req[g].pc = "create" => req[g].in # c
    /\ ~Refused("create", batch)
    /\ Begin(h, [Appending("create", FALSE, c, c, AllRows(Parsed("create", batch)))
                   EXCEPT !.channel = "create", !.batch = batch, !.first = TRUE])
    /\ UNCHANGED <<collections, live, staged, drawn, owner, history>>

CreateCollection(h) ==
    /\ req[h].pc = "create"
    /\ collections' = collections \cup {req[h].in}
    /\ IF req[h].rows = <<>>
         THEN /\ req' = [req EXCEPT ![h] = Idle]
              /\ outcome' = [outcome EXCEPT ![req[h].in] = "done"]
         ELSE req' = [req EXCEPT ![h].pc = "read"] /\ UNCHANGED outcome
    /\ UNCHANGED <<live, staged, drawn, owner, sent, older, placed, saved>>

ReadLast(h) ==
    /\ req[h].pc = "read"
    /\ \E last \in LastRank(req[h].home) :
          req' = [req EXCEPT ![h].pc = "write",
                             ![h].prev = last,
                             ![h].after = Listed(live, req[h].home)]
    /\ UNCHANGED <<collections, live, staged, drawn, owner, sent, history>>

\* The next row is a sentence of the exercise the request has just written.
Nested(r) == r.rows[1] = "sentence" /\ r.parent # None

\* Mutant: a staged sentence does not get its exercise.
NextItemAdrift(r) ==
    IF r.rows[1] = "sentence"
      THEN [type |-> "sentence", home |-> r.parent, key |-> After(r.sprev)]
      ELSE [type |-> r.rows[1], home |-> r.home, key |-> After(r.prev)]

\* What the next row becomes; an imported exercise has a list of its own.
NextItem(r) ==
    IF Nested(r)
      THEN [type |-> "sentence", home |-> r.parent, key |-> After(r.sprev)]
      ELSE [type |-> r.rows[1], home |-> r.home, key |-> After(r.prev)]

Store(r, i, item) ==
    IF r.draft THEN staged' = [staged EXCEPT ![i] = item] /\ UNCHANGED live
    ELSE live' = [live EXCEPT ![i] = item] /\ UNCHANGED staged

\* A sentence whose exercise is gone violates the foreign key.
Insertable(r, item) ==
    ~r.draft /\ item.type = "sentence" => live[item.home] # None

\* Mutant: every row goes after the rank that was read.
WrittenAtOnePlace(r, i, item) ==
    IF Len(r.rows) = 1 THEN Idle
    ELSE IF Nested(r) THEN [r EXCEPT !.rows = Tail(@), !.under = @ \cup {i}]
    ELSE [r EXCEPT !.rows = Tail(@), !.parent = i, !.after = @ \cup {i}, !.under = {}]

\* The state of the request once its row is written; the last row ends it.
Written(r, i, item) ==
    IF Len(r.rows) = 1 THEN Idle
    ELSE IF Nested(r)
      THEN [r EXCEPT !.rows = Tail(@), !.sprev = item.key, !.under = @ \cup {i}]
    ELSE [r EXCEPT !.rows = Tail(@), !.prev = item.key, !.sprev = <<>>, !.parent = i,
                   !.after = @ \cup {i}, !.under = {}]

WriteRow(h) ==
    LET r == req[h]
        i == drawn + 1
        item == NextItem(r)
    IN  /\ r.pc = "write"
        /\ i \in Id
        /\ Insertable(r, item)
        /\ drawn' = i
        /\ Store(r, i, item)
        /\ req' = [req EXCEPT ![h] = Written(r, i, item)]
        /\ older' = [older EXCEPT ![i] = IF Nested(r) THEN r.under ELSE r.after]
        /\ owner' = [owner EXCEPT ![i] = r.in]
        /\ outcome' = IF r.first /\ Len(r.rows) = 1
                        THEN [outcome EXCEPT ![r.in] = "done"] ELSE outcome
        /\ UNCHANGED <<collections, sent, placed, saved>>

\* The connection is lost, a statement fails, or the process dies.
Abort(h) ==
    /\ req[h].pc # "idle"
    /\ req' = [req EXCEPT ![h] = Idle]
    /\ outcome' = IF req[h].pc \in {"read", "write"} /\ req[h].first
                    THEN [outcome EXCEPT ![req[h].in] = "cut"] ELSE outcome
    /\ UNCHANGED <<collections, live, staged, drawn, owner, sent, older, placed, saved>>

-----------------------------------------------------------------------------
\* A request that has worked out what it is going to stage.
Setting(i, item, mark) == [pc |-> "set", id |-> i, item |-> item, mark |-> mark]

\* StageDraftItem for a new item with a rank.
StageAt(h, k, c) ==
    /\ drawn + 1 \in Id
    /\ drawn' = drawn + 1
    /\ placed' = placed \cup {drawn + 1}
    /\ Begin(h, Setting(drawn + 1, [type |-> "card", home |-> c, key |-> k], TRUE))
    /\ owner' = [owner EXCEPT ![drawn + 1] = c]
    /\ UNCHANGED <<collections, live, staged, older, saved, outcome>>

\* StageDraftItem for an item there is: it keeps its published rank, or else the
\* staged one; an item with neither, or an empty one, goes last.
Restage(h, i) ==
    LET it == Overlay[i]
        rk == IF IsItem(live[i]) THEN live[i].key
              ELSE IF IsItem(staged[i]) THEN staged[i].key ELSE <<>>
    IN  /\ IsItem(it)
        /\ \E k \in IF rk = <<>> THEN {After(last) : last \in LastRank(it.home)} ELSE {rk} :
              Begin(h, Setting(i, [it EXCEPT !.key = k], FALSE))
        /\ UNCHANGED <<collections, live, staged, drawn, owner, history>>

\* MoveDraftItem's rankOf: the staged rank, else the published one, else none.
RankOf(i) ==
    IF IsItem(staged[i]) THEN staged[i].key ELSE IF IsItem(live[i]) THEN live[i].key ELSE <<>>

\* MoveDraftItem: between two items the owner saw in that order, or at one end.  They
\* may have changed places since, or have one rank: nothing checks that.
Move(h, i, afterId, beforeId) ==
    LET bound(n) == IF n = None THEN <<>> ELSE RankOf(n)
        it == IF IsItem(staged[i]) THEN staged[i] ELSE live[i]
    IN  /\ IsItem(it)
        /\ afterId # i /\ beforeId # i
        /\ {afterId, beforeId} \ {None} \subseteq Listed(Overlay, it.home)
        /\ Begin(h, Setting(i, [it EXCEPT !.key = Between(bound(afterId), bound(beforeId))], TRUE))
        /\ UNCHANGED <<collections, live, staged, drawn, owner, history>>

Set(h) ==
    LET r == req[h]
    IN  /\ r.pc = "set"
        /\ staged' = [staged EXCEPT ![r.id] = r.item]
        /\ placed' = IF r.mark THEN placed \cup {r.id} ELSE placed
        /\ req' = [req EXCEPT ![h] = Idle]
        /\ UNCHANGED <<collections, live, drawn, owner, sent, older, saved, outcome>>

-----------------------------------------------------------------------------
\* The rest run in one step here.
Request ==
    /\ sent < MaxRequests
    /\ sent' = sent + 1

\* UpdateDraft: the draft is built anew from the cards the editor shows, keep of
\* them old and one, if more, new; a card that is not published gets no rank.
UpdateDraft(c, keep, more) ==
    LET new == IF more THEN {drawn + 1} ELSE {}
        cards(table) == {i \in Listed(table, c) : table[i].type = "card"}
        row(k) == [type |-> "card", home |-> c, key |-> k]
    IN  /\ Request
        /\ keep \subseteq cards(Overlay)
        /\ new \subseteq Id
        /\ drawn' = IF more THEN drawn + 1 ELSE drawn
        /\ \E last \in LastRank(c) :
              staged' = [i \in Id |->
                  IF i \in keep THEN row(IF i \in cards(live) THEN live[i].key ELSE <<>>)
                  ELSE IF i \in new THEN row(After(last))
                  ELSE IF i \in cards(live) THEN Removed
                  ELSE IF owner[i] = c THEN None ELSE staged[i]]
        /\ owner' = [i \in Id |-> IF i \in new THEN c ELSE owner[i]]
        /\ saved' = saved \cup (keep \ cards(live))
        /\ older' = [i \in Id |-> IF i \in new THEN Listed(live, c) ELSE older[i]]
        /\ UNCHANGED <<collections, live, req, placed, outcome>>

\* StageDraftDelete: of an addition only the staged row goes.
StageDelete(i) ==
    /\ Request
    /\ IsItem(Overlay[i])
    /\ staged' = [staged EXCEPT ![i] = IF live[i] = None THEN None ELSE Removed]
    /\ UNCHANGED <<collections, live, drawn, owner, req, history>>

RevertDraftItem(i) ==
    /\ Request
    /\ staged[i] # None
    /\ staged' = [staged EXCEPT ![i] = None]
    /\ UNCHANGED <<collections, live, drawn, owner, req, history>>

\* DeleteCard, DeleteTestQuestion, DeleteExercise: sentences go with their exercise.
DeleteItem(i) ==
    /\ Request
    /\ IsItem(live[i])
    /\ live' = [j \in Id |-> IF j = i \/ j \in Listed(live, i) THEN None ELSE live[j]]
    /\ UNCHANGED <<collections, staged, drawn, owner, req, history>>

DiscardDraft(c) ==
    /\ Request
    /\ staged' = [i \in Id |-> IF owner[i] = c THEN None ELSE staged[i]]
    /\ UNCHANGED <<collections, live, drawn, owner, req, history>>

\* PublishDraft: one transaction, which a sentence without its exercise makes fail.
PublishDraft(c) ==
    LET rows == {i \in Id : owner[i] = c /\ staged[i] # None}
        gone == {i \in rows : staged[i] = Removed}
        after == Overlay
    IN  /\ Request
        /\ \A i \in rows \ gone : staged[i].type = "sentence" =>
              IsItem(live[staged[i].home]) \/ staged[i].home \in rows \ gone
        /\ live' = [i \in Id |->
                      IF owner[i] = c
                        THEN IF IsItem(after[i]) /\ after[i].home \in gone THEN None ELSE after[i]
                        ELSE live[i]]
        /\ staged' = [i \in Id |-> IF i \in rows THEN None ELSE staged[i]]
        /\ UNCHANGED <<collections, drawn, owner, req, history>>

Init ==
    /\ collections = InitCollections
    /\ live = [i \in Id |-> None]
    /\ staged = [i \in Id |-> None]
    /\ drawn = 0
    /\ req = [h \in Handler |-> Idle]
    /\ sent = 0
    /\ older = [i \in Id |-> {}]
    /\ placed = {} /\ saved = {}
    /\ owner = [i \in Id |-> None]
    /\ outcome = [c \in Collection |-> "none"]

Send(h) ==
    \/ \E channel \in {"cards", "tests", "exercises", "items", "add", "stage"},
          batch \in Batches, draft \in BOOLEAN, c \in collections :
          Import(h, channel, batch, draft, c)
    \/ \E type \in {"card", "exercise"}, draft \in BOOLEAN, c \in collections :
          AddItem(h, type, draft, c, c)
    \/ \E c \in collections : \E e \in Listed(Overlay, c) : AddItem(h, "sentence", TRUE, c, e)
    \/ \E batch \in Batches, c \in Collection : Create(h, batch, c)
    \/ \E k \in Given, c \in collections : StageAt(h, k, c)
    \/ \E i \in 1 .. drawn : Restage(h, i)
    \/ \E i \in 1 .. drawn, a, b \in (1 .. drawn) \cup {None} : Move(h, i, a, b)

Serve(h) ==
    \/ Free(h) /\ Send(h)
    \/ CreateCollection(h) \/ ReadLast(h) \/ WriteRow(h) \/ Abort(h) \/ Set(h)

Edit ==
    \/ \E c \in collections, more \in BOOLEAN :
          \E keep \in SUBSET Listed(Overlay, c) : UpdateDraft(c, keep, more)
    \/ \E i \in 1 .. drawn : StageDelete(i) \/ RevertDraftItem(i) \/ DeleteItem(i)
    \/ \E c \in collections : DiscardDraft(c) \/ PublishDraft(c)

Next ==
    \/ \E h \in Handler : Serve(h)
    \/ sent < MaxRequests /\ Edit

Spec == Init /\ [][Next]_vars

-----------------------------------------------------------------------------
KeysIn(home) == {live[i].key : i \in Listed(live, home)} \cup {staged[i].key : i \in Listed(staged, home)}

\* Whatever keys a list has come to hold, an item can be moved between any two that
\* differ, before any that is not empty, and after any: rank.Between never runs out.
AlwaysRoom ==
    \A keys \in {KeysIn(home) : home \in Home} : \A k \in keys :
        /\ Precedes(k, After(k))
        /\ k # <<>> => Precedes(Before(k), k)
        /\ \A l \in keys :
              Precedes(k, l) => Precedes(k, Between(k, l)) /\ Precedes(Between(k, l), l)

\* However requests overlap, the owner sees an imported item after those of its file
\* that came before it and after all that were published when the import read the
\* last rank, until a client moves one of the two, or saves one with UpdateDraft
\* while it is not published: only that leaves an item without a rank.
AppendedInOrder ==
    LET view == Overlay
    IN  \A i \in Id : IsItem(view[i]) =>
            /\ view[i].key = <<>> => i \in saved
            /\ \A j \in older[i] :
                  IsItem(view[j]) /\ {i, j} \cap (placed \cup saved) = {} =>
                      Precedes(view[j].key, view[i].key)

\* The item an entry of an older endpoint stands for: the endpoint gives the type, and
\* bad sentences are left out.
AsItem(channel, e) ==
    CASE channel = "cards" -> [e EXCEPT !.type = "card", !.term = FALSE]
      [] channel = "tests" -> [e EXCEPT !.type = "quiz"]
      [] channel = "exercises" ->
             [e EXCEPT !.type = "exercise",
                       !.sentences = Kept(@, {k \in DOMAIN @ : HandlerSentence(e.kind, @[k]) # Bad})]
      [] OTHER -> e

\* The older endpoints have validators of their own, and keep to the shared one: an
\* import under way writes what BuildItem makes of its entries, and only that.
ContractShared ==
    \A h \in Handler : req[h].pc \in {"create", "read", "write"} =>
        \A k \in DOMAIN req[h].batch :
            LET e == req[h].batch[k]
            IN  Parse(req[h].channel, e) = BuildItem(AsItem(req[h].channel, e))

\* A batch that create_collection refuses leaves no collection behind: there is one
\* only once all its items are in, while they are imported, or after that failed.
BadBatchLeavesNothing ==
    \A c \in collections \ InitCollections :
        \/ outcome[c] # "none"
        \/ \E h \in Handler : req[h].pc \in {"read", "write"} /\ req[h].first /\ req[h].in = c
=============================================================================
