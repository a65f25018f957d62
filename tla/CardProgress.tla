---------------------------- MODULE CardProgress ----------------------------
(* Spaced repetition of the cards of one collection for one user:            *)
(* service.UpdateProgress, the resets and repository/item_progress.go.        *)
(* An answer is three steps of its request: the row is read, the clock is     *)
(* read for isDue, and read again for the new level and date, which are       *)
(* written.  Requests of the same user (two tabs, a retried call) run at the  *)
(* same time, and no statement locks the row in between.                      *)
(* Dates are relative: a row holds the days until it is due, and every copy   *)
(* of it ages with the clock.  last_review_at decides nothing but the order   *)
(* of a blitz session and is left out.                                        *)
EXTENDS Integers

CONSTANTS
    None,     \* no row: never studied
    Forever,  \* the date of a mastered card, in 2099
    Handler,  \* the requests that can be served at one time
    Card,
    Days      \* the interval of each level below mastery, in days

Mastered == 7
Level == 1 .. Mastered

ASSUME DaysAssumption ==
    /\ Days \in [1 .. 6 -> Nat \ {0}]
    /\ \A i, j \in 1 .. 6 : i <= j => Days[i] <= Days[j]
    /\ Forever \notin Int

Wait == (0 .. Days[6]) \cup {Forever}

\* A row of item_progress.
Row == [level: Level, wait: Wait]

ASSUME NoneAssumption == None \notin Row /\ None \notin Card

\* What UpdateProgress is given, and the level and date it has read.
Request == [pc: {"idle", "due", "upsert"}, card: Card \cup {None},
            correct: BOOLEAN, delta: {-1, 0, 1}, retry: BOOLEAN,
            level: Level, wait: Wait, due: BOOLEAN]

Idle == [pc |-> "idle", card |-> None, correct |-> FALSE, delta |-> 0,
         retry |-> FALSE, level |-> 1, wait |-> 0, due |-> FALSE]

VARIABLES
    cards,     \* the published cards
    progress,  \* the row of each card, or None
    req,       \* the answer each handler is processing
    declared   \* history: cards the user has called mastered or easier than asked

vars == <<cards, progress, req, declared>>

TypeInvariant ==
    /\ cards \subseteq Card
    /\ progress \in [Card -> Row \cup {None}]
    /\ req \in [Handler -> Request]
    /\ declared \subseteq Card
    /\ \A c \in Card \ cards : progress[c] = None
    /\ \A h \in Handler : req[h].pc # "idle" => req[h].card \in Card

-----------------------------------------------------------------------------
Lower(i, j) == IF i <= j THEN i ELSE j
Half(level) == IF level = 1 THEN 1 ELSE level \div 2

\* progressApplyAnswer.
ApplyAnswer(level, correct, wait) ==
    CASE level = Mastered             -> Mastered
      [] level # Mastered /\ ~correct -> Half(level)
      [] level = 1 /\ correct         -> 2
      [] level \in 2 .. 6 /\ correct  -> IF wait = 0 THEN Lower(level + 1, 6) ELSE level

\* Mutant: a retry can reach mastery.
RetryBumpUncapped(level) == Lower(level + 1, Mastered)

\* progressRetryBump: the due date does not matter, and mastery is out of reach.
RetryBump(level) == IF level = Mastered THEN Mastered ELSE Lower(level + 1, 6)

\* progressApplyConfidence.
ApplyConfidence(level, delta) ==
    CASE delta = 1  -> Lower(level + 1, Mastered)
      [] delta = -1 -> Half(level)
      [] delta = 0  -> level

NextReview(level) == IF level = Mastered THEN Forever ELSE Days[level]

NewLevel(r) ==
    IF r.retry
      THEN IF r.correct THEN RetryBump(r.level) ELSE r.level
      ELSE ApplyConfidence(ApplyAnswer(r.level, r.correct, r.wait), r.delta)

\* Mutant: lowering the confidence does not move the date.
ReschedulesIfWrong(r) == r.due \/ NewLevel(r) = Mastered \/ ~r.correct \/ r.retry

\* Mutant: every answer moves the date.
ReschedulesAlways(r) == TRUE

\* Whether the answer moves the date.
Reschedules(r) ==
    r.due \/ NewLevel(r) = Mastered \/ ~r.correct \/ r.delta = -1 \/ r.retry

\* The row UpdateProgress writes.
Answered(r) ==
    [level |-> NewLevel(r),
     wait |-> IF Reschedules(r) THEN NextReview(NewLevel(r)) ELSE r.wait]

-----------------------------------------------------------------------------
\* A card never studied counts as level 1 and due.
Studied(c) == IF progress[c] = None THEN [level |-> 1, wait |-> 0] ELSE progress[c]

\* UpdateProgress reads the row.
Get(h, c, correct, delta, retry) ==
    /\ req[h].pc = "idle"
    /\ req' = [req EXCEPT ![h] =
          [pc |-> "due", card |-> c, correct |-> correct, delta |-> delta, retry |-> retry,
           level |-> Studied(c).level, wait |-> Studied(c).wait, due |-> FALSE]]
    /\ UNCHANGED <<cards, progress, declared>>

IsDue(h) ==
    /\ req[h].pc = "due"
    /\ req' = [req EXCEPT ![h].pc = "upsert", ![h].due = (req[h].wait = 0)]
    /\ UNCHANGED <<cards, progress, declared>>

\* The row is written over, whatever it has become.  When the card is no longer
\* published the foreign key refuses it.
Upsert(h) ==
    LET r == req[h]
    IN  /\ r.pc = "upsert"
        /\ IF r.card \in cards
             THEN /\ progress' = [progress EXCEPT ![r.card] = Answered(r)]
                  /\ declared' = IF r.delta = 1 /\ ~r.retry
                                   THEN declared \cup {r.card} ELSE declared
             ELSE UNCHANGED <<progress, declared>>
        /\ req' = [req EXCEPT ![h] = Idle]
        /\ UNCHANGED cards

Abort(h) ==
    /\ req[h].pc # "idle"
    /\ req' = [req EXCEPT ![h] = Idle]
    /\ UNCHANGED <<cards, progress, declared>>

ResetOne(c) ==
    /\ progress' = [progress EXCEPT ![c] = None]
    /\ UNCHANGED <<cards, req, declared>>

ResetCollection ==
    /\ progress' = [c \in Card |-> None]
    /\ UNCHANGED <<cards, req, declared>>

\* The card is deleted from the collection, and its progress with it.
DeleteItem(c) ==
    /\ c \in cards
    /\ cards' = cards \ {c}
    /\ progress' = [progress EXCEPT ![c] = None]
    /\ UNCHANGED <<req, declared>>

\* A day passes: rows, and the dates requests have read, come closer.
Sooner(wait) == IF wait \in {0, Forever} THEN wait ELSE wait - 1

Tick ==
    /\ progress' = [c \in Card |-> IF progress[c] = None THEN None
                                   ELSE [progress[c] EXCEPT !.wait = Sooner(@)]]
    /\ req' = [h \in Handler |-> [req[h] EXCEPT !.wait = Sooner(@)]]
    /\ UNCHANGED <<cards, declared>>

\* The confidence given with a retry decides nothing.
Serve(h) ==
    \/ \E c \in Card, correct \in BOOLEAN, retry \in BOOLEAN :
          \E delta \in IF retry THEN {0} ELSE {-1, 0, 1} : Get(h, c, correct, delta, retry)
    \/ IsDue(h)
    \/ Upsert(h)
    \/ Abort(h)

Init ==
    /\ cards = Card
    /\ progress = [c \in Card |-> None]
    /\ req = [h \in Handler |-> Idle]
    /\ declared = {}

Next ==
    \/ \E h \in Handler : Serve(h)
    \/ \E c \in Card : ResetOne(c) \/ DeleteItem(c)
    \/ ResetCollection
    \/ Tick

Spec == Init /\ [][Next]_vars

\* The clock does not stop.
LiveSpec == Spec /\ WF_vars(Tick)

-----------------------------------------------------------------------------
\* A row's date goes with its level, however answers interleave: a mastered card
\* is the only one that never comes back, and any other is due within the interval
\* of its level.
ScheduleFits ==
    \A c \in Card : progress[c] # None =>
        /\ progress[c].level = Mastered <=> progress[c].wait = Forever
        /\ progress[c].level # Mastered => progress[c].wait <= Days[progress[c].level]

\* Answers and retries stop at level 6 ("a retry cannot reach mastery on its
\* own"): a mastered card is one the user has raised the confidence of.
MasteryDeclared ==
    \A c \in Card : progress[c] # None /\ progress[c].level = Mastered => c \in declared

Relearns(c) ==
    \E h \in Handler : /\ Upsert(h)
                       /\ req[h].card = c
                       /\ ~req[h].correct \/ req[h].delta = -1 \/ req[h].retry

OneAtATime == \A g, h \in Handler : req[g].pc # "idle" /\ req[h].pc # "idle" => g = h

\* Correct answers given early do not postpone a card.  One whose user stops
\* failing, lowering and retrying it, and sends one answer at a time, comes due
\* again and again, or is mastered or reset.
ComesDue ==
    \A c \in Card :
        <>[][~Relearns(c)]_vars /\ <>[]OneAtATime =>
            []<>(progress[c] = None \/ progress[c].level = Mastered \/ progress[c].wait = 0)
=============================================================================
