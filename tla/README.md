# cram-back: specifications, model checking and proofs

cram-back is the Go backend of the CRAM flashcard platform: collections of
cards, quizzes and exercises, a draft that is edited and then published, spaced
repetition, sharing and following, and an MCP server through which assistants
edit collections with personal access tokens or OAuth. It keeps all its state in
PostgreSQL (except the login states, in memory, and the images, in an object
store). Handlers are goroutines of `net/http`; statements run on a `pgxpool`
and commit one by one, at READ COMMITTED, except in the few functions that open
a transaction. Nothing in the code takes a lock over several statements, so
what can go wrong is what happens between two statements of one request: steps
of other requests, a failure, a restart, a repetition by the client. That is
what these specifications are about.

All paths below are relative to `src/`; `service.go` is
`internal/service/service.go`.

## The system and its hard parts

| Component | State | Operations | Hard behaviour |
|---|---|---|---|
| Drafts and publishing (`service.go`, `repository/item_draft.go`) | `item_draft`: at most one staged row per item, an upsert or a delete marker | stage, move, delete, revert, UpdateDraft, imports, discard, publish; the MCP tools reuse them | read-then-write over several statements, publish by two clients, partial failure, foreign keys and cascades |
| Published items (`repository/item.go`) | `items`, with sentences under exercises | live import, AddCard, UpdateCard, DeleteCard and the same for quizzes and exercises | deletion cascades racing with imports and publishes |
| OAuth server (`service/oauth.go`, `repository/oauth.go`) | grants, codes, access and refresh tokens | approve, exchange, refresh, revoke, hourly clean-up | replay detection, revocation racing with issue, half-finished exchanges |
| Personal access tokens (`service/token.go`, `repository/token.go`) | `personal_access_tokens` | create, revoke and trim, retention job | caps counted before the insert, trimming the rows a cap counts |
| Card progress (`service.go`, `repository/item_progress.go`) | a level and a due date per user and card | answer, retry, reset | read, compute, write without a lock; two readings of the clock |
| Collections, follows, links, accounts (`repository/collection.go`, `follow.go`, `user.go`, `mcp/write.go`) | `users`, `collections`, `collection_follows` | create, update, delete, share, follow, home page, account deletion | check-then-insert, read-merge-write, two-statement reads, accounts that disappear |
| Imports (`itemimport/`, `handler/cards.go`, `handler/exercises.go`, `mcp/write.go`) and rank keys (`rank/rank.go`) | none of their own; the order of `items` and `item_draft` | import, add, stage, move, create_collection | two validators, rows written one by one after a rank read once, keys between keys |
| Worksheets (`repository/item_events.go`) | append-only answers and reset markers | record, reset, restore | one statement per sentence, ties in time |
| Images (`storage/s3.go`, `handler/upload.go`) | objects named by cards | upload, delete after the rows | no transaction covers rows and objects; pictures that are shared or come back |
| Sessions (`auth/`, `middleware/auth.go`, `handler/auth.go`, `repository/user.go`) | login states in memory, JWTs in browsers, roles in `users` | login, callback, role change, account deletion, clean-up | a callback delivered twice, a role read into a JWT that outlives it, restarts |
| MCP and REST surfaces, blitz | none of their own | translate requests to the above | |

Interaction: the REST handlers and the MCP tools call the same service; a
published item is the parent of progress rows and events; a collection owns its
items, its staged rows and its follows, and a user owns everything, by foreign
keys with ON DELETE CASCADE; publishing is the only operation that moves staged
rows into `items`; OAuth and personal tokens name the user on whose behalf the
MCP tools run. `PROJECT.json` lists every component, and every hazard at its line.

## Modelling conventions

* One action is one SQL statement (or one transaction, or the consecutive reads
  of one request). A request that runs several statements keeps its local
  variables in `req`, indexed by the handler (or editor) that serves it, and
  `pc` names the statement it runs next.
* Ownership (`ownsCollection`) is checked once at the start of a request and
  cannot be lost by the owner; `ItemDrafts` and `CardProgress` are about one
  collection, or one user, whose requests have passed it.
* `Abort` ends a request between two statements: an SQL error, a client that
  goes away (the request context is cancelled), the tool timeout of the MCP
  server or the end of the process. What was committed stays. Since requests
  keep no state elsewhere, a restart is `Abort` of every request.
* A request that is refused before its first write is not a step: its guard is
  the code's check. Duplicated and retried requests are further requests.
* UUIDs and random tokens are drawn from a set and never drawn twice.
* Definitions whose comment says "mistake" or "mutant", or that stand just
  before the definition they vary, are not used by any specification: each is
  that definition with a plausible programming error in it, and the property it
  breaks shows that the property watches that code.

## The modules

### ItemDrafts: the content of one collection and its draft

`items` and `draft` are the two tables, as functions from item ids; `None` is
no row, `Deleted` a row with `op = 'delete'`. An item is a type, a parent, a body
(its content) and a rank, which stands for its place in the order of rank keys; 0
is the empty string. `Editor` is one client of the owner: a tab or an assistant.
`used` are the ids handed out; `Card`, `Exercise` and `Sentence` are where new ids
are drawn from, and say nothing of what is later staged under an id.

Types and parents are as free as in the code. `StageDraftItem` checks the owner and
that the type is one of three (`service.go:450`), and passes the parent on: a card,
an exercise or a sentence may be staged under any item the client has seen, deleted
ones, staged ones, sentences and itself included, or under none. So the parents
in either table may form chains of any length and rings. `Shapes` bounds the pairs
of type and parent a run tries.

| Code | Actions |
|---|---|
| `StageDraftItem` | `StageDraftItem` (the reads), `WriteStaged` (`ItemDraftRepository.Set`) |
| `MoveDraftItem` | `MoveDraftItem`, `WriteStaged` |
| `StageDraftDelete` | `StageDraftDelete`, then `MarkDeleted` or `RemoveStaged` |
| `RevertDraftItem`, `DiscardDraft` | one action each |
| `UpdateDraft` | `UpdateDraft` (Clear), `UpdateDraftList`, `UpdateDraftSet` per card, `UpdateDraftStaged`, `UpdateDraftMark` per dropped card, `UpdateDraftReturn` |
| `ImportItems`, `StageImportCards/Tests/Exercises`, `AddCard`, `AddTestQuestion` | `ImportItems` (LastRank), `ImportStage` or `ImportCreate` per row, `ImportReturn` |
| `UpdateCard`, `UpdateTestQuestion`, `DeleteCard`, ... | `UpdateCard`, `DeleteCard` |
| `Publish` | `PublishDraft`, `PublishList` (listTx), `PublishCommit` (the writes and the commit) |
| MCP `publish_draft`, `discard_draft` | `McpPublishDraft`, `McpDiscardDraft` with their look at the diff, then as above |

The transaction of `Publish` is two steps: what its first statement reads, and
everything it writes, which becomes visible at the commit. `ApplyClass` applies
the rows of one class of `publishOrder`. Within a class the rows come in whatever
order the database lists them (`listTx` has no ORDER BY, `item_draft.go:169-172`), so
two operators say what the foreign key of `parent_id` does: `MayFail`, some order of
the rows writes a child before its parent, and `Rejected`, every order does. A
publish that is not `Rejected` may commit, and any publish may fail, which is
`Abort`. `Descendants` is ON DELETE CASCADE: the least set with the deleted ids and
the children of its members.

Properties:

* `LiveParents`: no published item whose parent is gone, at any depth.
* `PreviewFaithful`: what the editor sees, less what hangs below the items the
  draft deletes, is what publishing produces, if some order of the rows can be
  published.
* `RepublishHarmless`: the same rows applied twice leave what they leave once.
* `FlatDraftPublishes`: a draft in which every staged child hangs below a published
  item, below itself, or below a staged item without a parent is published in every
  order of its rows. This is what the two passes of `publishOrder` are enough for;
  what they are not enough for is below, under what the runs found.
* `EmptyDiffIsReorder`: what the MCP tools refuse to publish is at most an order.
* `DeletedFromPreview`, `UpdateDraftExact` and `PromiseKept`, for one editor: the
  last says `ItemDrafts` implements `DraftPromise`, the abstract draft with two
  variables, `published` and `preview`. Several editors break all three: a publish
  between the read of `StageDraftDelete` and its removal loses the deletion
  (`service.go:525`), and `UpdateDraft` writes from the items it read before
  (`service.go:376`).

`ItemDrafts` is one collection. An id that belongs to another collection is not
modelled, although the ON CONFLICT of `item_draft` and of `items` compares the id
alone; nor is the item type "test", which `UpdateDraft` treats as a card and which
nothing in the code writes.

### OAuthGrants and Connections

The four tables of `db/migrations/000025_oauth.up.sql`; a row is live, expired,
or "stale" (past the day for which the clean-up keeps it). Time is the freedom
of any row to grow older. `ConsumeAuthCode` and `ConsumeRefreshToken` are one
UPDATE each, but their sub-select reads the snapshot taken when the statement
starts, while the row is updated after waiting for whoever holds it; they are
two steps (`ExchangeCode`/`ConsumeAuthCode`,
`RefreshTokens`/`ConsumeRefreshToken`). The revocation transaction is two steps
for the same reason: its first DELETE does not see tokens inserted after it,
and its UPDATE is not seen before the commit.

| Code | Actions |
|---|---|
| `Approve` | `Approve` (UpsertGrant), `CreateAuthCode` |
| `ExchangeCode` | `ExchangeCode`, `ConsumeAuthCode`, `ExchangeUpsert`, `CreateAccessToken`, `CreateRefreshToken`; after a replay `ExchangeUpsert`, `RevokeDelete`, `RevokeCommit` |
| `Refresh` | `RefreshTokens`, `ConsumeRefreshToken`, `CreateAccessToken`, `CreateRefreshToken`, or the revocation |
| `RevokeGrant`, `RevokeGrantByID` | `RevokeGrant`, `RevokeDelete`, `RevokeCommit` |
| `DeleteExpired` | `DeleteExpired(done)`: the statements up to the first that fails |
| `GetAccessToken` | the operator of that name; `Acting` is what all tokens together can do |

`Connections` is the abstract promise: a client acts only within what the user
approved, and one disconnection ends all it can do for that user.
`ConnectionsKept` says `OAuthGrants` implements it. The other properties:
`OneLiveGrant`, `TokensConsented`, `DisconnectStopsClient`, `RevocationIsFinal`,
and, for requests served one at a time, `SpentOnce` and `RevokedGrantsEmpty`;
`StaleRowsGo` is liveness.

### AccessTokens

`personal_access_tokens` with a clock. `Create` is `CreateCountLive`,
`CreateCountCreated`, `CreateInsert`; `Revoke` is `Revoke` and `TrimRevoked`;
the hourly job is `DeleteRevokedBefore`. `born` and `untrimmed` are history
variables: the properties are about tokens whose rows may be gone. Both caps
are counted before the insert, so what holds under concurrency is each limit
plus one less than the number of simultaneous requests (`LiveCap`,
`IssuanceCap`). `HistoryBounded` and `HistoryKept` bound the history from above
and from below.

### CardProgress

The levels and dates of one user. `UpdateProgress` is `Get`, `IsDue` (the first
`time.Now()`) and `Upsert` (the second one, and the write); days may pass
between them. Dates are relative, so a day is a step (`Tick`) that brings every
date nearer, in rows and in the local variables of requests.
`ScheduleFits` ties the date to the level, `MasteryDeclared` says what mastery
takes, `ComesDue` that early correct answers never keep a card away for ever.

### Collections

`users`, `collections`, `collection_follows`, with the operations of the
settings page, follows, share links, accounts and administrators as single
statements, and three requests of several: the MCP tool `update_collection`
(`UpdateRead`, `UpdateWrite`), `Follow` (`FollowRead`, `FollowInsert`) and
`GetHome` (`HomeOwn`, `HomeFollowing`, `HomeAnswer`). A session outlives the
account it belongs to, so a request may come from a user whose row is gone.
`asked` is a history variable: the collections some request of the owner asked
to make public. `OnlyIfAsked`, `HomeListsOnce` and `LinksStayWithdrawn` are the
properties. The settings half of `UpdateDraft` (`service.go:369`) is
`UpdateCollection` here.

### Sessions

The map of login states (`entries`, until when each may come back), the `users`
table as far as Google id and role, and the JWTs that were issued, which nothing
on the server stores. The callback is three steps: `GoogleCallback` takes the
state out under the mutex, `Upsert` is the INSERT ... ON CONFLICT, `IssueToken`
signs the role that row had. The role check of an administrator's request reads
the JWT only, so `SetUserRole` (the middleware) and `UpdateRole` (the statement)
are two steps, as are `DeleteAccount` and `Delete`.

| Code | Actions |
|---|---|
| `GenerateState`, `CleanupExpired` | one action each, atomic under `stateStore.mu` |
| `AuthHandler.GoogleCallback` | `GoogleCallback` (ValidateState), `Upsert`, `IssueToken`; what Google or the database refuses is `Abort` |
| `RequireAuth`, `RequireRole` | operators on a session, in the guards of the requests |
| `AdminHandler.SetRole` | `SetUserRole`, `UpdateRole` |
| `AccountHandler.Delete` | `DeleteAccount`, `Delete` |
| the end of the process | `Restart`: the states and the requests are lost, rows and JWTs are not |

`adminUntil` and `registered` are history variables. `AuthorityFades` is the
promise of a token's life made exact: whoever changes a role held it within
`TokenTTL` plus `Flight`, the longest a callback may take between its upsert and
its JWT. `RolesAreGiven` says an account's role is changed by nothing else, and
that a deleted administrator who signs in again is a plain user.
`OneSessionPerLogin`, `OneAccountPerGoogle` and `StaleStatesGo` are about the
callback delivered twice, two first sign-ins at once, and the clean-up.

### Rank, ImportEntries, ItemImports: how items come in and keep their order

`Rank` is `internal/rank/rank.go`: a key is a sequence of digits, `Precedes` the
order of strings, `Between` the loop (`Place` is the position it stops at).
`ImportEntries` is what an import accepts: `itemimport.BuildItem`, which
`POST /import` and the MCP tools share, and the validators that the older
endpoints for cards, quizzes and exercises have of their own; a text is TRUE when
something is left of it after trimming, a sentence is the number of its blanks.
`ItemImports` extends both: a request that appends reads the last published rank
once and writes its rows one statement at a time.

| Code | Actions |
|---|---|
| the four REST imports, `add_items`, `stage_items` | `Import` (validation, `ownsCollection`), `ReadLast` (LastRank), `WriteRow` per row |
| `create_collection` | `Create` (buildItems), `CreateCollection`, then as above |
| `AddCard`, `AddTestQuestion`, `StageDraftItem` of a new item | `AddItem`, `ReadLast`, `WriteRow`; with a rank of the client's `StageAt`, `Set` |
| `StageDraftItem` of an item there is, `MoveDraftItem` | `Restage` or `Move` (the reads), `Set` |
| `UpdateDraft`, `StageDraftDelete`, `RevertDraftItem`, `DiscardDraft`, `PublishDraft`, deletes of live items | one step each: how they overlap is the subject of `ItemDrafts` |

`older` is a history variable: what each item was to be listed after when it was
written. `AppendedInOrder` says the owner finds it there, and that no item is
without a rank, except what a client has moved (`placed`) or saved with
`UpdateDraft` while it was not published (`saved`). `AlwaysRoom` is the promise of
`rank.go`: a key between any two the lists have come to hold, whatever made them.
`ContractShared` compares the validators on every batch under way, and
`BadBatchLeavesNothing` is the comment of `create_collection`.

A client of the REST API may send any string as a rank (`DraftItemInput.Rank`);
the model lets it send usable ones only (`Given`), as `rank.go:5` asks ("never
hand-set to the alphabet extremes"), and nothing in the code checks.

What hangs below an item is here what an import or the MCP tools put there, one level
deep; items staged under staged ones are the subject of `ItemDrafts`.

### Worksheets

`item_events` as a set of rows (item, entry, instant), the published exercises and
sentences, and the requests of one user. A request writes its rows one INSERT at a
time; `Stamp` is the beginning of an INSERT, whose time `created_at` takes, and
`Insert` its end. The worksheet of an item is what its latest row says, any of the
latest when there are several.

| Code | Actions |
|---|---|
| `RecordSentenceResults` | `Record`, then `Stamp` and `Insert` per answer, `Reply` |
| `ResetExerciseProgress` | `Reset`, `ListByParent`, then `Stamp` and `Insert` per marker, `Reply` |
| `GetExerciseResults` | the operator `Worksheet` |
| the cascade of `item_events.item_id` | `DeleteItem`; `AddItem` publishes a new item |

`owed` is a history variable: the entries a user may find, after what was
answered. A reply to a request that no other request of the user overlapped on an
item binds: `SheetKept` says the item then shows that, and before it one of the
entries that were sent, or what was there. Two assumptions come with it: an INSERT
takes longer than the clock's resolution (a microsecond), and a request that is
aborted is decided at once about the statement in flight.

### CardImages

The rows that name an object of the bucket, published or staged, and the objects.
An upload puts an object under a fresh name and hands out its URL; nothing but the
three deletions removes one.

| Code | Actions |
|---|---|
| `UploadHandler.Upload`, `S3Store.Upload` | `Upload` |
| `AddCard`, `UpdateCard`, imports | `SaveCard`; the staging operations are `StageCard` |
| `DeleteCard`, `DeleteTestQuestion` | `DeleteCard` (Get), `DeleteRows`, `DeleteURL`, `Reply` |
| `DeleteCollection`, `AdminDeleteCollection`, `DeleteAccount` | `DeleteCollections` (ListAllImages, ListUserImages), `DeleteRows`, `DeleteURL` per picture, `Reply` |
| `PublishDraft`, `DiscardDraft` | one step each |

`PictureKept` names the only ways a published card loses its picture: it shares it
with another card, it was deleted and published again from a draft, or the delete of
its collection read its picture and then failed (the removal of objects is deferred
and runs all the same, `service.go:302`). `PicturesGo` is the other half: a delete
that nothing disturbed leaves no object behind. The history variables `namedBy`,
`deleted`, `back`, `spared` and `cleared` say which case a card is in.

## The runs

| Run | Instance | Shows |
|---|---|---|
| `drafts_serial` | 1 editor, 4 ids of which one is published, 2 bodies, 3 requests, any of the 3 types under any item (`AnyParent`), items staged with the client's rank (`Given`) or none | `PromiseKept`, `DeletedFromPreview`, `UpdateDraftExact` for every kind of request |
| `drafts_concurrent` | 2 editors, the same ids of which a card and an exercise with its sentence are published, 1 body, 3 requests interleaved, sentences staged under the exercise or under a sentence, itself included (`Nested`) | the invariants that survive concurrency |
| `oauth_concurrent` | 2 handlers, 2 users, 1 client, 2 of every row, 5 requests, 1 lapse | `ConnectionsKept` and the safety properties |
| `oauth_serial` | 1 handler, 2 grants, codes and tokens, 4 requests, 2 lapses, fairness | `SpentOnce`, `RevokedGrantsEmpty`, `StaleRowsGo` |
| `tokens` | 2 handlers, 4 tokens, limits 1, window 1, retention 2, clock to 3 | the caps and the history |
| `progress` | 2 handlers, 1 card, intervals 1,1,1,2,2,2, fairness | schedule, mastery, `ComesDue` |
| `collections` | 3 users, 1 collection, 2 links, 2 handlers | visibility, home page, links |
| `sessions` | 2 handlers, 2 logins, 2 Google accounts, 2 user ids, every duration 1, clock to 3, fairness | one session per login, roles, authority, the clean-up |
| `imports` | 2 handlers, 2 collections (one to be created), 4 ids, 3 requests, keys of 3 digits, 6 files | room and order of keys, one contract, no collection after a refused batch |
| `worksheets` | 2 handlers, 1 exercise, 2 sentences, 2 files of answers, clock to 3 | the sheet a user finds |
| `images` | 2 handlers, 1 collection, 2 cards, 1 object | pictures kept, pictures removed |
| `publish_loses_edit` | 2 editors, the items of `drafts_concurrent` | the divergence below |

Why the bounds are enough. Two handlers give every interleaving of two
requests, and each hazard listed involves two; a third request
(`MaxRequests`) is what sets the scene, so three suffice: two stagings and a publish, or a live
edit between a staging and a publish, whatever they leave half done. Four ids give
chains of three staged items, children of deleted ones and rings, hence every case
of `publishOrder`, of a cascade of two levels and of the overlay, because rows
interact only through a parent or a rank; deeper chains are what the proofs are
for. A bulk request names two items at most (`MaxBatch`), an import new ones and
`UpdateDraft` any, so that it keeps some and drops others. Few shapes are tried by
two editors, and all of them by one. Two grants per pair are needed for a
revocation followed by a new connection, two users to tell a client's grants
apart. The token limits are one so that two requests can pass them; four tokens
let a user pass the limits, revoke, be trimmed and issue again, and the window
and the retention differ. The intervals of `progress` keep what matters of
1, 2, 7, 14, 30, 180: they do not shrink, and some are longer than a day. In
`collections` three users are an owner, a follower and somebody else. In
`sessions` a token, a state and a callback each last one instant and the clock
has three, so that each can end before, with or after the others; two handlers
repeat a callback or change a role next to one. In `imports` three digits give
every case of `Between` (room at a position, none at the next, the end of either
key), the files have each kind of entry with one that is refused, four ids let an
exercise with its sentences meet another addition, and three requests an import, one
that overlaps it and one that moves or saves between. In `worksheets` a file that
answers a sentence twice and one that answers the quiz (the exercise itself) meet
the markers of a reset. In `images` one object named by two cards is what sharing
needs. The
symmetry sets permute values no action tells apart, and never where liveness is
checked.

Deadlock is checked in every run but those of `ItemDrafts` and `ItemImports`, where
the bound on requests ends the behaviour.

Fairness. `oauth_serial` assumes `WF_vars(DeleteExpired(3))`: `main.go` starts a
goroutine that sweeps at boot and every hour for as long as the process lives,
and a sweep that eventually succeeds is all that is asked. `progress` assumes
that the clock goes on. `sessions` assumes `WF_vars(CleanupExpired)`: the
goroutine of `main.go:319` ticks every 15 minutes for as long as the process
lives. No request is assumed to finish, and no user to do
anything.

`ComesDue` also assumes, in its antecedent, that the user sends one answer at a
time from some moment on: with overlapping answers around a day boundary a
request can write back a date that was read before another answer, and the card
can be put off again and again. That is the cost of the unlocked
read-compute-write, and the reason for the antecedent.

## What the runs found

One divergence has a run whose counterexample shows it.

**Publishing loses an edit saved at the same time**
(`repository/item_draft.go:151`). "Publish applies the draft to `items` in one
transaction (upsert / delete), then clears it", says the comment; the clearing
DELETE removes rows the transaction never read. Deleting the rows that were read
(by id and `updated_at`) would be enough.

Four more were met with these modules, and the properties that hold show how far
they reach:

* Deleting a staged exercise leaves its staged sentences (`service.go:530`),
  although "deleting it takes them with it" (`mcp/write.go:450-453`), and every
  later publish fails on the foreign key until they are deleted too.
  `FlatDraftPublishes` exempts children whose parent is neither published nor staged.
* An item may be staged under a staged item that has a parent itself
  (`service.go:455-489`, `handler/cards.go:297-335`). Both are in the second class of
  `publishOrder`, whose rows come in no order, so the publish fails when the
  child comes first, although the comment says "parent upserts before child upserts"
  (`item_draft.go:122-124`). `FlatDraftPublishes` exempts these drafts; in `ItemDrafts`
  they are the ones that `MayFail` without being `Rejected`. Two items staged under one
  another fail in every order, unless one of them is published already. The
  imports and the MCP tools stage one level only.
* A code or refresh token can be redeemed twice at once
  (`repository/oauth.go:83`), because replay is told by a snapshot read: `SpentOnce`
  holds for requests served one at a time only.
* Renaming a collection through MCP can undo a change of its visibility
  (`mcp/write.go:378`), although "Only the fields you pass are changed"
  (`mcp/write.go:117`): `OnlyIfAsked` is what remains true.

Other divergences met while modelling:

* Saving the cards drops staged exercises: `UpdateDraft` says exercises are
  "left untouched here" (`service.go:363-364`, and 410-411 of quizzes) and
  starts by clearing every staged row (`service.go:372`).
  `UpdateDraftExact` states which cards the draft shows afterwards.
* `StageDraftItem` says a new item is "appended at the end"
  (`service.go:452-453`) and ranks it after the last *live* sibling
  (`service.go:471`): two staged items in a row get the same key, and `Between`
  asked for a key between two that are equal answers one after both.
* `UpdateDraft` gives a card that is not live the empty rank (`service.go:395`),
  which `rank.go` says is never a key: importing into the draft and then saving the
  editor loses the order of the import. `AppendedInOrder` says nothing else does.
* `POST /tests` (`handler/cards.go:806`) takes a question without a correct option,
  which the imports refuse (`hasCorrectOption`, `itemimport/build.go`).
* The older endpoint for exercises keeps an exercise without its bad sentences where
  `BuildItem` refuses it whole; `ContractShared` says that is the only difference.
* `POST /import` counts the sentences of exercises against its cap and nothing else
  (`handler/exercises.go:224`, `:232`), so the number of cards and quizzes in one
  import is bounded by the size of the body only; the older endpoints cap these too,
  which is where `ImportsCapped` stops.
* After a pure reorder the diff is empty, so `publish_draft` and
  `discard_draft` report nothing to do (`mcp/server.go:300`);
  `EmptyDiffIsReorder` shows that nothing else can be stuck that way.
* `list_collections` never sets `has_draft` (`mcp/server.go:142`, `:376`).
* Tokens inserted while a grant is being revoked stay in the tables
  (`repository/oauth.go:155`; the comment at 137 says every token goes). They
  do not act, which `DisconnectStopsClient` and `RevocationIsFinal` show.
* A code that is outstanding when its grant is revoked makes a new grant when it
  is redeemed (`service/oauth.go:285`).
* `UpsertGrant` says it widens the scope and overwrites it, narrowing included
  (`repository/oauth.go:97`, `:104`).
* Saving a draft writes title, description and visibility to the published
  collection at once (`service.go:369`), although the endpoint is documented as
  not publishing; discarding the draft does not bring them back.
* The repository README gives a role change 24 hours to take effect; the JWT
  lives seven days (`auth/jwt.go:11`).
* `DeleteCollection`, `DeleteAccount` and `AdminDeleteCollection` remove the pictures
  also when the rows are not deleted (`service.go:299-306`; the comment at
  `repository/collection.go:236` speaks of a cascade delete that follows).
* Nothing removes the object of a picture that `UpdateCard` replaces, of a staged
  card that is discarded, of a card deleted by a publish, or of an upload no card
  ever named.

## What is proved

Each `*Proofs` module holds the theorems of its component for every value of
the constants: any number of handlers, users, items and tokens, any limits, any
clock. They rest on the named assumptions in the modules (which TLC evaluates
in the runs): that sets of ids are disjoint and `None` is in none of them, that
bounds are numbers, that the initial content has no orphans, that intervals do
not shrink, that retention is at least the issuance window, and that the ids
`ItemImports` draws from are finitely many.

* **ItemDrafts.** `TypeCorrect` is inductive with the local variables of
  requests (`RequestTypeOK`) and says that no table and no request knows an id that
  was not handed out, whence a new item never takes the place of another.
  `LiveParentsAlways` is inductive given the types; the work is in
  `DeleteRowsLiveParents`, that a cascade of any depth leaves no orphan, and in that
  each class of a publish leaves none unless the publish is rejected.
  `CascadeLeavesRooted` says that the cascade, which the code describes from above,
  leaves what the promise describes from below: the items whose parents, and theirs,
  are there (rings included). With `AppliedForm`, a closed form of the three passes of
  a publish, and `AppliedTwice` they give `PreviewFaithfulAlways` and
  `RepublishHarmlessAlways` for every draft that some order of its rows publishes.
  `FlatDraftPublishesAlways` also speaks of the rows a publish has read, against the
  items as they have become since. `LoneEditorPromise`: for
  one editor, `Spec => PromiseKept`; the invariant needed is that the rows a
  publish has read are still the staged rows (`LoneRows`).
  `EmptyDiffIsReorderAlways` needs the types only. `LoneDeletionShows`: for one
  editor, `DeletedFromPreview`, since what its deletion has seen unpublished
  nothing can publish before it returns. `LoneUpdateExact`: for one editor,
  `UpdateDraftExact`; the invariant `LoneBulk` says how far the request has come, with
  the rows it has staged, the live cards it has marked and those still to do.
* **OAuthGrants.** `TypeCorrect` (with the foreign keys),
  `OneLiveGrantAlways`, `RevocationIsFinalAlways`, and `TokensConsentedAlways`,
  whose invariant carries the consent through every place a scope passes: grant
  rows, code rows, requests. `DisconnectStopsClientAlways` follows from
  `OneLiveGrant`. `ConnectionsImplemented` is the refinement,
  `Spec => ConnectionsKept`: a token inserted adds what `Consented` says was
  approved, or nothing under a revoked grant; a token that expires takes its ability
  away unless another carries it; and the commit of a revocation is `Disconnect`,
  because of `OneLiveGrant` and because the tokens it drops were all issued under its
  grant (`DroppedOK`), or changes nothing the second time.
  `LoneRequestSpendsOnce`: for one handler, `SpentOnce`, since
  the snapshot a request read is still current. `LoneRevocationEmpties`: for one
  handler, `RevokedGrantsEmpty`, since the first DELETE of a revocation sees every
  token, and what a request issues tokens under is not revoked meanwhile.
* **AccessTokens.** `LiveCapAlways`, `IssuanceCapAlways` and
  `HistoryBoundedAlways` are about cardinalities. The invariant says that live
  tokens and requests that have passed the count, together, exceed the limit by
  less than the number of handlers; for the issuance cap it adds that every
  token of the window still has its row, which is where the protection in
  `TrimRevoked` and `issuanceWindow <= revokedRetention` are used.
  `HistoryKeptAlways` is an action property.
* **CardProgress** (in `CardsProofs`). `ScheduleFitsAlways` and
  `MasteryDeclaredAlways`; the invariant says the same of the level and date a
  request has read, as they age. `LoneNeverPostponed` is the safety half of
  `ComesDue`: when answers come one at a time, only a wrong one, one that lowers the
  confidence, a retry or mastery moves a date, and otherwise it comes nearer with the
  clock; what is needed is that the row a request has read is still the row, or was
  reset (`AllCurrent`).
* **CardImages** (in `CardsProofs`). `ImageTypeCorrect`, `PictureKeptAlways` and
  `PicturesGoAlways`, of one invariant, `ImageInv`. A deletion of a collection has all
  its items (`Whole`), so that none is left behind in a collection that is gone. What
  a row names was uploaded and is on record (`Recorded`). `DeletionOK` is what a
  deletion knows between its statements: an undisturbed one has read all that its rows
  name, and what it vouches for is gone or still on its list. `PictureKept` alone is
  not inductive: it says nothing of objects that are about to be removed, nor of those
  no row names at the moment but a draft may bring back. The invariant says of each
  object that is gone or doomed that some card which named it was deleted or spared
  (`Doomed => Excused`), and of each published card that was deleted that it is in
  `back`.
* **Collections.** `TypeCorrect`, `ShownOnlyIfAsked`, `WithdrawnForGood`,
  `HomeListsEachOnce`. The invariants speak of what a request holds: a row read
  by `update_collection` is public only if that was asked for, a follow is about
  to be inserted only by somebody else than the owner for a collection that was
  public, and a home page half-read lists the user's own collections, which
  nobody can then come to follow as a stranger.
* **Sessions.** `TypeCorrect`; `OneAccountAlways` (an upsert writes a second
  account only where there is none); `OneSessionAlways`, whose invariant says a
  login that is under way is in the store, with one request or in one session,
  never in two of them; `AuthorityFadesAlways`, whose invariant bounds the
  life of every administrator's JWT, and of every role a callback has read, by
  when the row last held it; `RolesAreGivenAlways`, an action property.
* **Worksheets.** `TypeCorrect`, and `SheetKeptAlways` with its invariant `SheetInv`:
  rows are stamped no later than the clock; an item that a request is alone on no
  other request is about; the entries it has still to write, and those it has
  written, are ones the user may find; a reset has listed whatever is published; and
  of the rows of an item that a lone request wrote, the last has the newest instant,
  so that it alone decides.
* **ItemImports.** `RankBetween`: for any base, `Between(a, b)` is a usable key
  after `a`, and before `b` when `a` precedes `b` and `b` is usable. A key is usable
  when it is not empty and does not end in the lowest digit, which leaves room before
  it; the loop of the code stops at the first position with room, and the proof
  compares the keys there. `AlwaysRoomAlways` is the system's side: the inductive
  invariant `KeysOK` says that every key in the tables, in the requests and about to
  be staged is empty or usable. `AppendedInOrderAlways` adds to it, in `OrderOK`, that
  all versions of an untouched item (published, staged, about to be staged again) have
  one key, and that what a writing request has listed is not after the rank it
  holds; the order of keys is total and transitive. `BadBatchLeavesNothingAlways`:
  a collection that `create_collection` makes always has its outcome or its request.
  `TypeCorrect` adds the types of the tables, of the history and of what each request
  holds (`Typed`); that a request which reads or writes has rows left, and that each
  has an item for a list, comes from what the validators let through (`ImportRows`,
  `CreateRows`).
  Of the validators, for every entry a client may send: `SameSentences`, the two copies
  of the sentence validator are one function; `OneContract`, each endpoint makes of an
  entry what `BuildItem` makes of the item it stands for, from which
  `ContractSharedAlways` follows; `ImportedWellFormed`, what they let through is a quiz
  with two options that have a text, a correct one among them, or an exercise with a
  sentence and an answer for every blank; `ImportsCapped`, how many rows an accepted
  import of cards, tests or exercises writes. `RankSequence`: every key of `Sequence`
  is usable and follows all earlier ones.
  These are about loops, written as recursive functions. The provers cannot
  instantiate the induction theorems of the library with an operator, so the module
  proves induction for a *set* of numbers from the least number of its complement
  (`Least`, `Induction`), then that the function a recursion describes exists
  (`Recursion`); `KeptSteps`, `RowsSteps` and `FlattenSteps` give the steps of the
  loops, and `KeptAlike` that what a loop keeps depends only on the positions it skips.

Only model-checked: the liveness properties (`StaleRowsGo`, `ComesDue`,
`StaleStatesGo`), which rest on fairness and so on ENABLED, out of the prover's reach;
of `ComesDue` the safety half is proved. Every safety property and action property that
a passing run checks is a theorem. `PromiseKept`, `DeletedFromPreview`,
`UpdateDraftExact`, `SpentOnce` and `RevokedGrantsEmpty` are theorems for requests
served one at a time, and false otherwise.

## Not modelled, and why

Blitz reads four tables, filters the due cards, shuffles and cuts at seven: it
changes nothing, and chance decides the rest, so what could be stated of it repeats
the filter. The REST and MCP surfaces decode, validate and render, and keep no
state; the imports, which decide what they refuse, are in `ImportEntries`. The
decoding of CSV, JSON and YAML is not modelled, nor is the bucket's set-up at start.
`item_history` is written by a trigger and read by nothing. Client registration
inserts a row that gives no access; clients are a constant. `last_used_at`,
`updated_at` and card counts are only displayed. Seed data, migrations as a process,
the connection pool and the generated API documentation are outside the subject; the
keys, cascades and indexes the migrations create are in the models. Logging out
removes the cookie in the browser; the JWT in it stays valid, so the model has no
action for it. The role `pro` opens nothing in `Sessions` and counts as `user`.

## Plan

Written, in this order: ItemDrafts with DraftPromise, OAuthGrants with
Connections, AccessTokens, CardProgress, Collections, Sessions, Worksheets,
CardImages, and Rank with ImportEntries and ItemImports.

What is left:

1. A composition of Collections and ItemDrafts for the deletion of a collection that
   is being edited; `ItemImports` composes the two for `create_collection` only.
