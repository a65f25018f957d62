----------------------------- MODULE Worksheets -----------------------------
(* The worksheets of one user: RecordSentenceResults, ResetExerciseProgress,  *)
(* GetExerciseResults and repository/item_events.go.  Answers and reset        *)
(* markers are rows of an append-only log; the worksheet is the latest row of  *)
(* every item.  A request writes its rows one statement at a time, in no       *)
(* transaction, and requests of the same user (two tabs, a repeated call)      *)
(* run at the same time.                                                       *)
EXTENDS Integers, Sequences, FiniteSets

CONSTANTS
    None,      \* no exercise: the request records answers
    Blank,     \* the reset marker (correct is null), and an empty worksheet entry
    Handler,   \* the requests that can be served at one time
    Exercise,
    Sentence,
    Parent,    \* the exercise of each sentence
    Answer,    \* what may be submitted for an item, with its correctness
    Batches,   \* the lists of answers a client may send
    MaxTime    \* bound on the clock

Item == Exercise \cup Sentence
Entry == Answer \cup {Blank}
Mark == [item: Item, entry: Entry]

ASSUME WorksheetsAssumption ==
    /\ Exercise \cap Sentence = {}
    /\ IsFiniteSet(Sentence)
    /\ Parent \in [Sentence -> Exercise]
    /\ Blank \notin Answer
    /\ None \notin Exercise
    /\ Batches \subseteq Seq([item: Item, entry: Answer])
    /\ MaxTime \in Nat

Family(e) == {e} \cup {s \in Sentence : Parent[s] = e}

\* A row of item_events.  Rows that differ in their id only are one.
Event == [item: Item, entry: Entry, at: Nat]

\* A request: the rows it writes, how many are written, when the statement that
\* is running began.  History: the items it may write, and those of them no
\* other request has been about since it began.
Request == [pc: {"idle", "list", "next", "insert"}, exercise: Exercise \cup {None},
            rows: Seq(Mark), done: Nat, at: Nat,
            touches: SUBSET Item, alone: SUBSET Item]

Idle == [pc |-> "idle", exercise |-> None, rows |-> <<>>, done |-> 0, at |-> 0,
         touches |-> {}, alone |-> {}]

VARIABLES
    live,    \* the published items
    gone,    \* the deleted items
    events,  \* the log
    now,     \* the clock of the database, in its resolution
    req,     \* the request each handler is processing
    owed     \* history: the entries the user may find, after what was answered

vars == <<live, gone, events, now, req, owed>>

TypeInvariant ==
    /\ live \subseteq Item
    /\ gone \subseteq Item \ live
    /\ events \subseteq Event
    /\ now \in Nat
    /\ req \in [Handler -> Request]
    /\ owed \in [Item -> SUBSET Entry]
    /\ \A e \in events : e.item \in live
    /\ \A s \in live \cap Sentence : Parent[s] \in live

-----------------------------------------------------------------------------
EventsOf(i) == {e \in events : e.item = i}

\* LatestByCollection: DISTINCT ON the item, the newest created_at first.
\* Between rows of one instant the database may take any.
Latest(i) == {e \in EventsOf(i) : \A f \in EventsOf(i) : f.at <= e.at}

\* GetExerciseResults: what a reader may find for an item.
Worksheet(i) == IF EventsOf(i) = {} THEN {Blank} ELSE {e.entry : e \in Latest(i)}

-----------------------------------------------------------------------------
Busy(h) == req[h].pc # "idle"

\* Request h begins with request r, which is about r.touches and may leave the
\* entries news[i] there.
Begin(h, r, news) ==
    LET others == UNION {req[g].touches : g \in Handler \ {h}}
    IN  /\ ~Busy(h)
        /\ req' = [g \in Handler |->
              IF g = h THEN [r EXCEPT !.alone = r.touches \ others]
                       ELSE [req[g] EXCEPT !.alone = @ \ r.touches]]
        /\ owed' = [i \in Item |-> IF i \in r.touches THEN owed[i] \cup news[i] ELSE owed[i]]
        /\ UNCHANGED <<live, gone, events, now>>

Asked(rows, i) == {rows[k].entry : k \in {k \in DOMAIN rows : rows[k].item = i}}

\* RecordSentenceResults is called with the answers of a worksheet.
Record(h, rows) ==
    Begin(h, [Idle EXCEPT !.pc = "next", !.rows = rows,
                          !.touches = {rows[k].item : k \in DOMAIN rows}],
          [i \in Item |-> Asked(rows, i)])

\* ResetExerciseProgress is called for an exercise.
Reset(h, e) ==
    Begin(h, [Idle EXCEPT !.pc = "list", !.exercise = e, !.touches = Family(e)],
          [i \in Item |-> {Blank}])

\* The sentences of S in an order of their ranks.
Listings(S) ==
    {f \in [1 .. Cardinality(S) -> S] : \A s \in S : \E k \in 1 .. Cardinality(S) : f[k] = s}

Markers(ids) == [k \in 1 .. Len(ids) |-> [item |-> ids[k], entry |-> Blank]]

\* Mutant: the exercise's own id, which a quiz answers to, is not reset.
ListSentencesOnly(h) ==
    /\ req[h].pc = "list"
    /\ \E sentences \in Listings({s \in live \cap Sentence : Parent[s] = req[h].exercise}) :
          req' = [req EXCEPT ![h].pc = "next", ![h].rows = Markers(sentences)]
    /\ UNCHANGED <<live, gone, events, now, owed>>

\* ListByParent: one marker for the exercise and one for each of its sentences.
ListByParent(h) ==
    /\ req[h].pc = "list"
    /\ \E sentences \in Listings({s \in live \cap Sentence : Parent[s] = req[h].exercise}) :
          req' = [req EXCEPT ![h].pc = "next",
                             ![h].rows = Markers(<<req[h].exercise>> \o sentences)]
    /\ UNCHANGED <<live, gone, events, now, owed>>

\* The next INSERT begins; created_at is the time it begins at.
Stamp(h) ==
    /\ req[h].pc = "next"
    /\ req[h].done < Len(req[h].rows)
    /\ now < MaxTime
    /\ req' = [req EXCEPT ![h].pc = "insert", ![h].at = now]
    /\ UNCHANGED <<live, gone, events, now, owed>>

\* It ends.  A row for an item that is not published is refused by the foreign
\* key, and the request stops with an error.  An INSERT takes longer than the
\* resolution of the clock.
Insert(h) ==
    LET r == req[h]
        row == r.rows[r.done + 1]
    IN  /\ r.pc = "insert"
        /\ IF row.item \in live
             THEN /\ events' = events \cup {[item |-> row.item, entry |-> row.entry, at |-> r.at]}
                  /\ now' = IF r.at = now THEN now + 1 ELSE now
                  /\ req' = [req EXCEPT ![h].pc = "next", ![h].done = @ + 1]
             ELSE /\ req' = [req EXCEPT ![h] = Idle]
                  /\ UNCHANGED <<events, now>>
        /\ UNCHANGED <<live, gone, owed>>

\* The last answer asked for an item.
LastAsked(rows, i) ==
    rows[CHOOSE k \in DOMAIN rows :
            /\ rows[k].item = i
            /\ \A m \in DOMAIN rows : rows[m].item = i => m <= k].entry

\* Success is reported.  On what no other request was about, the answer binds.
Reply(h) ==
    LET r == req[h]
    IN  /\ r.pc = "next"
        /\ r.done = Len(r.rows)
        /\ req' = [req EXCEPT ![h] = Idle]
        /\ owed' = [i \in Item |->
              IF i \notin r.alone THEN owed[i]
              ELSE IF r.exercise # None THEN {Blank} ELSE {LastAsked(r.rows, i)}]
        /\ UNCHANGED <<live, gone, events, now>>

\* An error, a client that goes away, or a crash.
Abort(h) ==
    /\ Busy(h)
    /\ req' = [req EXCEPT ![h] = Idle]
    /\ UNCHANGED <<live, gone, events, now, owed>>

\* Mutant: marks and answers survive their item.
DeleteRowOnly(i) ==
    LET lost == IF i \in Exercise THEN Family(i) ELSE {i}
    IN  /\ i \in live
        /\ live' = live \ lost
        /\ gone' = gone \cup (lost \cap live)
        /\ UNCHANGED <<events, now, req, owed>>

\* The item is deleted, its sentences and their rows of the log with it.
DeleteItem(i) ==
    LET lost == IF i \in Exercise THEN Family(i) ELSE {i}
    IN  /\ i \in live
        /\ live' = live \ lost
        /\ gone' = gone \cup (lost \cap live)
        /\ events' = {e \in events : e.item \notin lost}
        /\ UNCHANGED <<now, req, owed>>

\* A new item is published; ids are never used again.
AddItem(i) ==
    /\ i \notin live \cup gone
    /\ i \in Sentence => Parent[i] \in live
    /\ live' = live \cup {i}
    /\ UNCHANGED <<gone, events, now, req, owed>>

Serve(h) ==
    \/ \E rows \in Batches : Record(h, rows)
    \/ \E e \in Exercise : Reset(h, e)
    \/ ListByParent(h)
    \/ Stamp(h)
    \/ Insert(h)
    \/ Reply(h)
    \/ Abort(h)

Init ==
    /\ live \in SUBSET Item
    /\ \A s \in live \cap Sentence : Parent[s] \in live
    /\ gone = {}
    /\ events = {}
    /\ now = 0
    /\ req = [h \in Handler |-> Idle]
    /\ owed = [i \in Item |-> {Blank}]

Next ==
    \/ \E h \in Handler : Serve(h)
    \/ \E i \in Item : DeleteItem(i) \/ AddItem(i)

Spec == Init /\ [][Next]_vars

-----------------------------------------------------------------------------
\* What a user is told was saved is what he finds: after a batch, the last answer
\* given for each item; after a reset, a blank entry for the exercise (a quiz) and
\* every sentence ("a marker for both so every kind clears").  Requests at the
\* same time, or cut short, leave one of the entries they were sent with or what
\* was there before, and nothing on other items.
SheetKept == \A i \in live : Worksheet(i) \subseteq owed[i]

=============================================================================
