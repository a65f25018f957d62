----------------------------- MODULE CardsProofs -----------------------------
(***************************************************************************)
(* Proofs about what hangs on a card: its schedule (CardProgress), for any *)
(* number of answers at the same time and any intervals that do not shrink *)
(* with the level; and its picture (CardImages), for any number of         *)
(* deletions at the same time, any collections, items and objects.         *)
(***************************************************************************)
EXTENDS CardProgress, CardImages, TLAPS

-----------------------------------------------------------------------------
(* Levels and dates *)

\* What the level of a row says about its date.
Fits(level, wait) ==
    /\ level = Mastered <=> wait = Forever
    /\ level # Mastered => wait <= Days[level]

LEMMA Intervals ==
    /\ \A l \in 1 .. 6 : Days[l] \in Nat \ {0} /\ Days[l] \in Wait /\ Days[l] # Forever
    /\ \A w \in Wait : w # Forever => w \in Nat
    /\ 0 \in Wait /\ Forever \in Wait /\ Forever # 0
    /\ Mastered = 7 /\ Level = 1 .. 7
BY DaysAssumption DEF Wait, Mastered, Level

LEMMA FreshFits == Fits(1, 0)
BY Intervals DEF Fits

LEMMA HalfLevel == ASSUME NEW l \in Level PROVE Half(l) \in Level /\ (l # Mastered => Half(l) # Mastered)
BY DEF Half, Level, Mastered

LEMMA AppliedLevel ==
    ASSUME NEW l \in Level, NEW correct \in BOOLEAN, NEW w \in Wait
    PROVE  /\ ApplyAnswer(l, correct, w) \in Level
           /\ ApplyAnswer(l, correct, w) = Mastered <=> l = Mastered
           /\ correct => ApplyAnswer(l, correct, w) >= l
<1>1. CASE l = Mastered
  BY <1>1 DEF ApplyAnswer, Level, Mastered
<1>2. CASE l # Mastered /\ ~correct
  BY <1>2, HalfLevel DEF ApplyAnswer
<1>3. CASE l = 1 /\ correct
  BY <1>3 DEF ApplyAnswer, Level, Mastered
<1>4. CASE l \in 2 .. 6 /\ correct
  BY <1>4 DEF ApplyAnswer, Level, Mastered, Lower
<1> QED BY <1>1, <1>2, <1>3, <1>4 DEF Level, Mastered

LEMMA ConfidentLevel ==
    ASSUME NEW l \in Level, NEW delta \in {-1, 0, 1}
    PROVE  /\ ApplyConfidence(l, delta) \in Level
           /\ ApplyConfidence(l, delta) = Mastered => l = Mastered \/ delta = 1
           /\ delta # -1 => ApplyConfidence(l, delta) >= l
<1>1. CASE delta = 1
  BY <1>1 DEF ApplyConfidence, Level, Mastered, Lower
<1>2. CASE delta = -1
  <2>1. ApplyConfidence(l, delta) = Half(l)
    BY <1>2 DEF ApplyConfidence
  <2> QED BY <1>2, <2>1, HalfLevel
<1>3. CASE delta = 0
  BY <1>3 DEF ApplyConfidence, Level
<1> QED BY <1>1, <1>2, <1>3

LEMMA RetriedLevel ==
    ASSUME NEW l \in Level
    PROVE  RetryBump(l) \in Level /\ (RetryBump(l) = Mastered => l = Mastered)
BY DEF RetryBump, Lower, Level, Mastered

\* The new level: mastery is kept, or declared; early correct answers do not lower.
LEMMA NewLevelIs ==
    ASSUME NEW r \in Request
    PROVE  /\ NewLevel(r) \in Level
           /\ NewLevel(r) = Mastered => r.level = Mastered \/ (r.delta = 1 /\ ~r.retry)
           /\ r.correct /\ r.delta # -1 /\ ~r.retry => NewLevel(r) >= r.level
<1> DEFINE a == ApplyAnswer(r.level, r.correct, r.wait)
<1>1. r.level \in Level /\ r.correct \in BOOLEAN /\ r.wait \in Wait
      /\ r.delta \in {-1, 0, 1} /\ r.retry \in BOOLEAN
  BY DEF Request
<1>2. a \in Level /\ (a = Mastered <=> r.level = Mastered) /\ (r.correct => a >= r.level)
  BY <1>1, AppliedLevel
<1>3. CASE r.retry
  BY <1>1, <1>3, RetriedLevel DEF NewLevel
<1>4. CASE ~r.retry
  <2>1. NewLevel(r) = ApplyConfidence(a, r.delta)
    BY <1>4 DEF NewLevel
  <2> HIDE DEF a
  <2>2. /\ ApplyConfidence(a, r.delta) \in Level
        /\ ApplyConfidence(a, r.delta) = Mastered => a = Mastered \/ r.delta = 1
        /\ r.delta # -1 => ApplyConfidence(a, r.delta) >= a
    BY <1>1, <1>2, ConfidentLevel
  <2> QED BY <1>1, <1>2, <1>4, <2>1, <2>2 DEF Level
<1> QED BY <1>3, <1>4

LEMMA AnsweredFits ==
    ASSUME NEW r \in Request, Fits(r.level, r.wait)
    PROVE  Answered(r) \in Row /\ Fits(Answered(r).level, Answered(r).wait)
<1> DEFINE l == NewLevel(r)
<1>1. r.level \in Level /\ r.wait \in Wait /\ l \in Level
  BY NewLevelIs DEF Request
<1>2. CASE Reschedules(r)
  <2>1. Answered(r) = [level |-> l, wait |-> NextReview(l)]
    BY <1>2 DEF Answered
  <2> HIDE DEF l
  <2>2. NextReview(l) \in Wait /\ Fits(l, NextReview(l))
    BY <1>1, Intervals DEF NextReview, Fits
  <2> QED BY <1>1, <2>1, <2>2 DEF Row
<1>3. CASE ~Reschedules(r)
  <2>1. l # Mastered /\ r.correct /\ r.delta # -1 /\ ~r.retry
    BY <1>3 DEF Reschedules
  <2>2. l >= r.level
    BY <2>1, NewLevelIs
  <2>3. Answered(r) = [level |-> l, wait |-> r.wait]
    BY <1>3 DEF Answered
  <2> HIDE DEF l
  <2>4. r.level \in 1 .. 6 /\ l \in 1 .. 6
    BY <1>1, <2>1, <2>2, Intervals
  <2>5. r.wait <= Days[r.level] /\ r.wait # Forever
    BY <2>4, Intervals DEF Fits
  <2>6. Days[r.level] <= Days[l] /\ Days[l] \in Nat /\ Days[r.level] \in Nat /\ r.wait \in Nat
    BY <1>1, <2>2, <2>4, <2>5, Intervals, DaysAssumption
  <2>7. Fits(l, r.wait)
    BY <2>1, <2>5, <2>6 DEF Fits
  <2> QED BY <1>1, <2>3, <2>7 DEF Row
<1> QED BY <1>2, <1>3

LEMMA SoonerFits ==
    ASSUME NEW l \in Level, NEW w \in Wait, Fits(l, w)
    PROVE  Sooner(w) \in Wait /\ Fits(l, Sooner(w))
<1>1. CASE w \in {0, Forever}
  BY <1>1 DEF Sooner
<1>2. CASE w \notin {0, Forever}
  <2>1. w \in 1 .. Days[6] /\ Sooner(w) = w - 1 /\ Days[6] \in Nat
    BY <1>2, Intervals DEF Sooner, Wait
  <2>2. Sooner(w) \in 0 .. Days[6] /\ Sooner(w) \in Int /\ Sooner(w) # Forever
    BY <2>1, DaysAssumption
  <2>3. l # Mastered /\ w <= Days[l] /\ l \in 1 .. 6
    BY <1>2, Intervals DEF Fits
  <2>4. Sooner(w) <= Days[l]
    BY <2>1, <2>3, Intervals
  <2> QED BY <2>2, <2>3, <2>4 DEF Fits, Wait
<1> QED BY <1>1, <1>2

-----------------------------------------------------------------------------
(* The invariant: what requests have read fits as the rows do. *)

RequestFits(r) ==
    /\ Fits(r.level, r.wait)
    /\ r.pc # "idle" /\ r.level = Mastered => r.card \in declared

Inv ==
    /\ TypeInvariant
    /\ ScheduleFits
    /\ MasteryDeclared
    /\ \A h \in Handler : RequestFits(req[h])

LEMMA IdleFits == Idle \in Request /\ Idle.pc = "idle" /\ Fits(Idle.level, Idle.wait)
BY Intervals, FreshFits DEF Idle, Request

LEMMA InvInit == Init => Inv
<1> SUFFICES ASSUME Init PROVE Inv
  OBVIOUS
<1>1. TypeInvariant
  BY IdleFits DEF Init, TypeInvariant
<1>2. ScheduleFits /\ MasteryDeclared
  BY DEF Init, ScheduleFits, MasteryDeclared
<1>3. \A h \in Handler : RequestFits(req[h])
  BY IdleFits DEF Init, RequestFits
<1> QED BY <1>1, <1>2, <1>3 DEF Inv

\* Rows change to rows that fit; no request changes but h, to one that fits.
LEMMA InvFrom ==
    ASSUME Inv, cards' \subseteq cards, declared \subseteq declared', declared' \subseteq Card,
           NEW h \in Handler, NEW r \in Request, req' = [req EXCEPT ![h] = r],
           RequestFits(r), r.pc # "idle" => r.card \in Card,
           progress' \in [Card -> Row \cup {None}],
           \A c \in Card \ cards' : progress'[c] = None,
           \A c \in Card : progress'[c] # None =>
               /\ Fits(progress'[c].level, progress'[c].wait)
               /\ progress'[c].level = Mastered => c \in declared'
    PROVE  Inv'
<1>1. TypeInvariant'
  BY DEF Inv, TypeInvariant
<1>2. ScheduleFits' /\ MasteryDeclared'
  BY DEF ScheduleFits, MasteryDeclared, Fits
<1>3. ASSUME NEW k \in Handler PROVE RequestFits(req[k])'
  <2>1. req'[k] = IF k = h THEN r ELSE req[k]
    BY DEF Inv, TypeInvariant
  <2>2. RequestFits(req[k])
    BY DEF Inv
  <2> QED BY <2>1, <2>2 DEF RequestFits
<1> QED BY <1>1, <1>2, <1>3 DEF Inv

LEMMA RowsFit ==
    ASSUME Inv
    PROVE  /\ progress \in [Card -> Row \cup {None}]
           /\ \A c \in Card \ cards : progress[c] = None
           /\ \A c \in Card : progress[c] # None =>
                 /\ Fits(progress[c].level, progress[c].wait)
                 /\ progress[c].level = Mastered => c \in declared
           /\ declared \subseteq Card /\ cards \subseteq Card
           /\ req \in [Handler -> Request]
BY DEF Inv, TypeInvariant, ScheduleFits, MasteryDeclared, Fits

LEMMA InvStep == Inv /\ [Next]_vars => Inv'
<1> SUFFICES ASSUME Inv, [Next]_vars PROVE Inv'
  OBVIOUS
<1>r. /\ progress \in [Card -> Row \cup {None}]
      /\ \A c \in Card \ cards : progress[c] = None
      /\ \A c \in Card : progress[c] # None =>
            /\ Fits(progress[c].level, progress[c].wait)
            /\ progress[c].level = Mastered => c \in declared
      /\ declared \subseteq Card /\ cards \subseteq Card
      /\ req \in [Handler -> Request]
  BY RowsFit
<1>1. ASSUME NEW h \in Handler, NEW c \in Card, NEW correct \in BOOLEAN,
             NEW delta \in {-1, 0, 1}, NEW retry \in BOOLEAN,
             Get(h, c, correct, delta, retry)
      PROVE  Inv'
  <2> DEFINE row == Studied(c)
             r == [pc |-> "due", card |-> c, correct |-> correct, delta |-> delta,
                   retry |-> retry, level |-> row.level, wait |-> row.wait, due |-> FALSE]
  <2>1. req' = [req EXCEPT ![h] = r] /\ UNCHANGED <<cards, progress, declared>>
    BY <1>1 DEF Get
  <2>2. row.level \in Level /\ row.wait \in Wait /\ Fits(row.level, row.wait)
        /\ (row.level = Mastered => c \in declared)
    <3>1. CASE progress[c] = None
      BY <3>1, Intervals, FreshFits DEF Studied
    <3>2. CASE progress[c] # None
      <4>1. progress[c] \in Row
        BY <1>r, <3>2
      <4> QED BY <1>r, <3>2, <4>1 DEF Row, Studied
    <3> QED BY <3>1, <3>2
  <2> HIDE DEF row
  <2>3. r \in Request /\ RequestFits(r) /\ r.card \in Card
    BY <2>2 DEF Request, RequestFits
  <2> HIDE DEF r
  <2> QED BY <1>r, <2>1, <2>3, InvFrom
<1>2. ASSUME NEW h \in Handler, IsDue(h)
      PROVE  Inv'
  <2> DEFINE r == [req[h] EXCEPT !.pc = "upsert", !.due = (req[h].wait = 0)]
  <2>1. req' = [req EXCEPT ![h] = r] /\ UNCHANGED <<cards, progress, declared>>
    BY <1>2, <1>r DEF IsDue
  <2>2. req[h] \in Request /\ RequestFits(req[h]) /\ req[h].pc = "due" /\ req[h].card \in Card
    BY <1>2, <1>r DEF IsDue, Inv, TypeInvariant
  <2>3. r \in Request /\ r.pc = "upsert" /\ r.level = req[h].level /\ r.wait = req[h].wait
        /\ r.card = req[h].card
    BY <2>2 DEF Request
  <2> HIDE DEF r
  <2>4. RequestFits(r)
    BY <2>2, <2>3 DEF RequestFits
  <2> QED BY <1>r, <2>1, <2>2, <2>3, <2>4, InvFrom
<1>3. ASSUME NEW h \in Handler, Upsert(h)
      PROVE  Inv'
  <2>1. PICK r \in Request : r = req[h]
    BY <1>r
  <2>2. RequestFits(r) /\ r.pc = "upsert" /\ r.card \in Card
    BY <1>3, <2>1 DEF Upsert, Inv, TypeInvariant
  <2>3. req' = [req EXCEPT ![h] = Idle] /\ cards' = cards
    BY <1>3 DEF Upsert
  <2>4. RequestFits(Idle)
    BY IdleFits DEF RequestFits
  <2>5. CASE r.card \notin cards
    <3>1. UNCHANGED <<progress, declared>>
      BY <1>3, <2>1, <2>5 DEF Upsert
    <3> QED BY <1>r, <2>3, <2>4, <3>1, IdleFits, InvFrom
  <2>6. CASE r.card \in cards
    <3> DEFINE new == Answered(r)
    <3>1. /\ progress' = [progress EXCEPT ![r.card] = new]
          /\ declared' = IF r.delta = 1 /\ ~r.retry THEN declared \cup {r.card} ELSE declared
      BY <1>3, <2>1, <2>6 DEF Upsert
    <3>2. new \in Row /\ Fits(new.level, new.wait) /\ new.level = NewLevel(r)
      BY <2>2, AnsweredFits DEF RequestFits, Answered
    <3>3. new.level = Mastered => r.card \in declared'
      BY <2>2, <3>1, <3>2, NewLevelIs DEF RequestFits
    <3> HIDE DEF new
    <3>4. progress' \in [Card -> Row \cup {None}]
      BY <1>r, <3>1, <3>2
    <3>5. \A c \in Card : progress'[c] = IF c = r.card THEN new ELSE progress[c]
      BY <1>r, <3>1
    <3>6. declared \subseteq declared' /\ declared' \subseteq Card
      BY <1>r, <2>2, <3>1
    <3> QED BY <1>r, <2>3, <2>4, <2>6, <3>2, <3>3, <3>4, <3>5, <3>6, IdleFits, InvFrom
  <2> QED BY <2>5, <2>6
<1>4. ASSUME NEW h \in Handler, Abort(h)
      PROVE  Inv'
  <2>1. req' = [req EXCEPT ![h] = Idle] /\ UNCHANGED <<cards, progress, declared>>
    BY <1>4 DEF Abort
  <2>2. RequestFits(Idle)
    BY IdleFits DEF RequestFits
  <2> QED BY <1>r, <2>1, <2>2, IdleFits, InvFrom
<1>5. ASSUME UNCHANGED <<req, declared>>, cards' \subseteq cards,
             progress' \in [Card -> Row \cup {None}],
             \A c \in Card \ cards' : progress'[c] = None,
             \A c \in Card : progress'[c] = None \/ progress'[c] = progress[c]
      PROVE  Inv'
  <2>1. TypeInvariant'
    BY <1>5 DEF Inv, TypeInvariant
  <2>2. ScheduleFits' /\ MasteryDeclared'
    BY <1>5 DEF Inv, ScheduleFits, MasteryDeclared
  <2>3. (\A h \in Handler : RequestFits(req[h]))'
    BY <1>5 DEF Inv, RequestFits
  <2> QED BY <2>1, <2>2, <2>3 DEF Inv
<1>6. ASSUME NEW c \in Card, ResetOne(c) PROVE Inv'
  BY <1>5, <1>6, <1>r DEF ResetOne
<1>7. ASSUME NEW c \in Card, DeleteItem(c) PROVE Inv'
  BY <1>5, <1>7, <1>r DEF DeleteItem
<1>8. ASSUME ResetCollection PROVE Inv'
  BY <1>5, <1>8, <1>r DEF ResetCollection
<1>9. ASSUME Tick PROVE Inv'
  <2>1. ASSUME NEW c \in Card, progress[c] # None
        PROVE  /\ progress'[c] \in Row
               /\ progress'[c].level = progress[c].level
               /\ Fits(progress'[c].level, progress'[c].wait)
    <3>1. progress[c] \in Row /\ Fits(progress[c].level, progress[c].wait)
      BY <1>r, <2>1
    <3>2. /\ progress[c].level \in Level /\ progress[c].wait \in Wait
          /\ progress'[c] = [progress[c] EXCEPT !.wait = Sooner(progress[c].wait)]
      BY <1>9, <2>1, <3>1 DEF Tick, Row
    <3>3. Sooner(progress[c].wait) \in Wait
          /\ Fits(progress[c].level, Sooner(progress[c].wait))
      BY <3>1, <3>2, SoonerFits
    <3> QED BY <3>1, <3>2, <3>3 DEF Row
  <2>2. \A c \in Card : progress[c] = None => progress'[c] = None
    BY <1>9 DEF Tick
  <2>3. \A c \in Card : progress'[c] # None => progress[c] # None
    BY <2>2
  <2>4. progress' \in [Card -> Row \cup {None}]
    <3>1. \A c \in Card : progress'[c] \in Row \cup {None}
      BY <2>1, <2>2
    <3>2. progress' = [c \in Card |-> progress'[c]]
      BY <1>9 DEF Tick
    <3> QED BY <3>1, <3>2
  <2>5. ASSUME NEW h \in Handler
        PROVE  /\ req'[h] \in Request
               /\ req'[h].pc = req[h].pc /\ req'[h].card = req[h].card
               /\ req'[h].level = req[h].level
               /\ Fits(req'[h].level, req'[h].wait)
    <3>1. req[h] \in Request /\ RequestFits(req[h])
      BY <1>r DEF Inv
    <3>2. /\ req[h].level \in Level /\ req[h].wait \in Wait
          /\ req'[h] = [req[h] EXCEPT !.wait = Sooner(req[h].wait)]
      BY <1>9, <3>1 DEF Tick, Request
    <3>3. Sooner(req[h].wait) \in Wait /\ Fits(req[h].level, Sooner(req[h].wait))
      BY <3>1, <3>2, SoonerFits DEF RequestFits
    <3> QED BY <3>1, <3>2, <3>3 DEF Request
  <2>6. req' \in [Handler -> Request]
    <3>1. req' = [h \in Handler |-> req'[h]]
      BY <1>9 DEF Tick
    <3> QED BY <2>5, <3>1
  <2>7. cards' = cards /\ declared' = declared
    BY <1>9 DEF Tick
  <2>8. TypeInvariant'
    BY <1>r, <2>2, <2>4, <2>5, <2>6, <2>7 DEF Inv, TypeInvariant
  <2>9. ScheduleFits' /\ MasteryDeclared'
    BY <1>r, <2>1, <2>3, <2>7 DEF ScheduleFits, MasteryDeclared, Fits
  <2>10. ASSUME NEW h \in Handler PROVE RequestFits(req[h])'
    BY <2>5, <2>7 DEF Inv, RequestFits
  <2> QED BY <2>8, <2>9, <2>10 DEF Inv
<1>10. CASE UNCHANGED vars
  BY <1>5, <1>10, <1>r DEF vars
<1>11. ASSUME NEW h \in Handler, Serve(h) PROVE Inv'
  BY <1>1, <1>2, <1>3, <1>4, <1>11 DEF Serve
<1> QED BY <1>6, <1>7, <1>8, <1>9, <1>10, <1>11 DEF Next

LEMMA InvAlways == Spec => []Inv
BY InvInit, InvStep, PTL DEF Spec

\* Types, and only published cards have a row.
THEOREM TypeCorrect == Spec => []TypeInvariant
BY InvAlways, PTL DEF Inv

\* However answers, resets and deletions interleave, a row's date fits its level.
THEOREM ScheduleFitsAlways == Spec => []ScheduleFits
BY InvAlways, PTL DEF Inv

\* No answer and no retry masters a card without the confidence being raised.
THEOREM MasteryDeclaredAlways == Spec => []MasteryDeclared
BY InvAlways, PTL DEF Inv

-----------------------------------------------------------------------------
(* One answer at a time: what ComesDue rests on *)

Lone == \A g, h \in Handler : g = h

\* What the request has read is what the row still says, unless that was reset.
ReadCurrent(r) ==
    r.pc # "idle" =>
        /\ \/ progress[r.card] = None
           \/ progress[r.card].level = r.level /\ progress[r.card].wait = r.wait
        /\ r.due => r.wait = 0

AllCurrent == \A h \in Handler : ReadCurrent(req[h])

LEMMA CurrentStep == ASSUME Lone PROVE Inv /\ AllCurrent /\ [Next]_vars => AllCurrent'
<1> SUFFICES ASSUME Inv, AllCurrent, [Next]_vars PROVE AllCurrent'
  OBVIOUS
<1> SUFFICES ASSUME NEW h \in Handler PROVE ReadCurrent(req[h])'
  BY DEF AllCurrent
<1>r. /\ progress \in [Card -> Row \cup {None}] /\ req \in [Handler -> Request]
      /\ req[h] \in Request /\ ReadCurrent(req[h])
      /\ req[h].pc # "idle" => req[h].card \in Card
  BY RowsFit DEF AllCurrent, Inv, TypeInvariant
<1>i. Idle.pc = "idle"
  BY DEF Idle
<1>1. ASSUME req' = [req EXCEPT ![h] = Idle] PROVE ReadCurrent(req[h])'
  <2>1. req'[h] = Idle
    BY <1>r, <1>1
  <2> QED BY <1>i, <2>1 DEF ReadCurrent
<1>2. ASSUME req' = req, \A c \in Card : progress'[c] \in {None, progress[c]}
      PROVE  ReadCurrent(req[h])'
  BY <1>r, <1>2 DEF ReadCurrent
<1>3. ASSUME NEW c \in Card, NEW correct \in BOOLEAN, NEW delta \in {-1, 0, 1},
             NEW retry \in BOOLEAN, Get(h, c, correct, delta, retry)
      PROVE  ReadCurrent(req[h])'
  <2>1. /\ req'[h].card = c /\ ~req'[h].due /\ progress' = progress
        /\ req'[h].level = Studied(c).level /\ req'[h].wait = Studied(c).wait
    BY <1>3, <1>r DEF Get
  <2> QED BY <2>1 DEF ReadCurrent, Studied
<1>4. ASSUME IsDue(h) PROVE ReadCurrent(req[h])'
  <2>1. /\ req'[h] = [req[h] EXCEPT !.pc = "upsert", !.due = (req[h].wait = 0)]
        /\ progress' = progress /\ req[h].pc # "idle"
    BY <1>4, <1>r DEF IsDue
  <2>2. /\ req'[h].card = req[h].card /\ req'[h].level = req[h].level
        /\ req'[h].wait = req[h].wait /\ req'[h].due = (req[h].wait = 0)
    BY <1>r, <2>1 DEF Request
  <2> QED BY <1>r, <2>1, <2>2 DEF ReadCurrent
<1>5. ASSUME Tick PROVE ReadCurrent(req[h])'
  <2> SUFFICES ASSUME req[h].pc # "idle" PROVE ReadCurrent(req[h])'
    BY <1>5, <1>r DEF Tick, ReadCurrent, Request
  <2>1. PICK c \in Card : c = req[h].card
    BY <1>r
  <2>2. /\ req'[h] = [req[h] EXCEPT !.wait = Sooner(req[h].wait)]
        /\ progress'[c] = IF progress[c] = None THEN None
                          ELSE [progress[c] EXCEPT !.wait = Sooner(progress[c].wait)]
    BY <1>5, <1>r DEF Tick
  <2>3. /\ req'[h].card = c /\ req'[h].level = req[h].level /\ req'[h].due = req[h].due
        /\ req'[h].wait = Sooner(req[h].wait)
    BY <1>r, <2>1, <2>2 DEF Request
  <2>4. progress[c] # None => /\ progress'[c].level = progress[c].level
                              /\ progress'[c].wait = Sooner(progress[c].wait)
    BY <1>r, <2>2 DEF Row
  <2>5. req'[h].due => req'[h].wait = 0
    BY <1>r, <2>3 DEF ReadCurrent, Sooner
  <2> QED BY <1>r, <2>1, <2>2, <2>3, <2>4, <2>5 DEF ReadCurrent
<1>6. ASSUME Serve(h) PROVE ReadCurrent(req[h])'
  <2>1. CASE Upsert(h) \/ Abort(h)
    BY <1>1, <2>1 DEF Upsert, Abort
  <2> QED BY <1>3, <1>4, <1>6, <2>1 DEF Serve
<1>7. ASSUME NEW c \in Card, ResetOne(c) \/ DeleteItem(c) PROVE ReadCurrent(req[h])'
  BY <1>r, <1>2, <1>7 DEF ResetOne, DeleteItem
<1>8. ASSUME ResetCollection \/ UNCHANGED vars PROVE ReadCurrent(req[h])'
  BY <1>r, <1>2, <1>8 DEF ResetCollection, vars
<1>9. ASSUME NEW g \in Handler, Serve(g) PROVE Serve(h)
  BY <1>9 DEF Lone
<1> QED BY <1>5, <1>6, <1>7, <1>8, <1>9 DEF Next

\* No answer moves the date of a card away, but a wrong one, one that lowers the
\* confidence or a retry, and one that masters it.
NeverPostponed ==
    [][\A c \in Card :
          /\ progress[c] # None /\ progress[c].wait # 0 /\ ~Relearns(c)
          /\ progress'[c] # None /\ progress'[c].level # Mastered
          => progress'[c].wait \in {progress[c].wait, Sooner(progress[c].wait)}]_vars

\* "Only update next_review_at when the item was due, reached mastery, ..." (service.go).
\* The safety half of ComesDue: when answers come one at a time, a date only comes nearer,
\* by the clock, until the card is due.
THEOREM LoneNeverPostponed == ASSUME Lone PROVE Spec => NeverPostponed
<1> DEFINE Nearer(c) ==
        /\ progress[c] # None /\ progress[c].wait # 0 /\ ~Relearns(c)
        /\ progress'[c] # None /\ progress'[c].level # Mastered
        => progress'[c].wait \in {progress[c].wait, Sooner(progress[c].wait)}
<1>1. ASSUME Inv, AllCurrent, [Next]_vars PROVE [\A c \in Card : Nearer(c)]_vars
  <2> SUFFICES ASSUME NEW c \in Card, progress[c] # None, progress[c].wait # 0, ~Relearns(c),
                      progress'[c] # None, progress'[c].level # Mastered
               PROVE  progress'[c].wait \in {progress[c].wait, Sooner(progress[c].wait)}
    OBVIOUS
  <2>r. progress \in [Card -> Row \cup {None}] /\ progress[c] \in Row
    BY <1>1, RowsFit
  <2>1. ASSUME NEW h \in Handler, Upsert(h)
        PROVE  progress'[c].wait = progress[c].wait
    <3>1. PICK r \in Request : r = req[h]
      BY <1>1, RowsFit
    <3>2. r.pc = "upsert" /\ r.card \in Card /\ ReadCurrent(r)
      BY <1>1, <2>1, <3>1 DEF Upsert, AllCurrent, Inv, TypeInvariant
    <3>3. CASE r.card # c \/ r.card \notin cards
      BY <2>1, <2>r, <3>1, <3>3 DEF Upsert
    <3>4. CASE r.card = c /\ r.card \in cards
      <4>1. progress'[c] = Answered(r)
        BY <2>1, <2>r, <3>1, <3>4 DEF Upsert
      <4>2. r.correct /\ r.delta # -1 /\ ~r.retry
        BY <2>1, <3>1, <3>4 DEF Relearns
      <4>3. progress[c].wait = r.wait /\ ~r.due
        BY <3>2, <3>4 DEF ReadCurrent
      <4>4. NewLevel(r) # Mastered
        BY <4>1 DEF Answered
      <4>5. ~Reschedules(r)
        BY <4>2, <4>3, <4>4 DEF Reschedules
      <4> QED BY <4>1, <4>3, <4>5 DEF Answered
    <3> QED BY <3>3, <3>4
  <2>2. ASSUME Tick PROVE progress'[c].wait = Sooner(progress[c].wait)
    BY <2>2, <2>r DEF Tick, Row
  <2>3. ASSUME progress'[c] \in {None, progress[c]} PROVE progress'[c].wait = progress[c].wait
    BY <2>3
  <2>4. ASSUME NEW h \in Handler, Serve(h), ~Upsert(h) PROVE progress' = progress
    BY <2>4 DEF Serve, Get, IsDue, Abort
  <2>5. ASSUME NEW d \in Card, ResetOne(d) \/ DeleteItem(d)
        PROVE  progress'[c] \in {None, progress[c]}
    BY <2>5, <2>r DEF ResetOne, DeleteItem
  <2>6. ASSUME ResetCollection \/ UNCHANGED vars
        PROVE  progress'[c] \in {None, progress[c]}
    BY <2>6, <2>r DEF ResetCollection, vars
  <2> QED BY <1>1, <2>1, <2>2, <2>3, <2>4, <2>5, <2>6 DEF Next
<1>2. Init => AllCurrent
  BY DEF Init, AllCurrent, ReadCurrent, Idle
<1>3. Inv /\ AllCurrent /\ [Next]_vars => AllCurrent'
  BY CurrentStep
<1>4. Spec => []AllCurrent
  BY <1>2, <1>3, InvAlways, PTL DEF Spec
<1> QED BY <1>1, <1>4, InvAlways, PTL DEF Spec, NeverPostponed

-----------------------------------------------------------------------------
(* Pictures: the invariant *)

\* A deletion of a collection or an account has all its items.
Whole(r) == ~r.one => \A c \in r.cards, d \in Item : Home[d] = Home[c] => d \in r.cards

\* What a row names was uploaded, and it is on record that the item has named it.
Recorded(table) ==
    \A c \in Item : table[c] \in Object => table[c] \in put /\ c \in namedBy[table[c]]

\* What a deletion has read some item of it named, which is still there or was deleted.
\* Undisturbed, it has read all its rows name; what it will vouch for is gone or on
\* its list.
DeletionOK(r) ==
    /\ Whole(r)
    /\ r.took \subseteq put /\ r.took \cap objects \subseteq r.urls
    /\ r.pc # "store" => r.took = {}
    /\ r.pc = "rows" => \A o \in r.urls : \E c \in r.cards \cap namedBy[o] :
                            c \in Published \cup deleted
    /\ r.pc = "rows" /\ r.clean =>
          {image[c] : c \in r.cards \cap Published} \cap Object \subseteq r.urls

\* The object is gone, or a deletion is about to remove it.
Doomed(o) ==
    o \in put \ objects \/ \E h \in Deleter : deletion[h].pc = "store" /\ o \in deletion[h].urls

\* Some item that named it has been deleted, or spared by a delete that failed.
Excused(o) == \E c \in namedBy[o] : c \in deleted \cup spared

ImageInv ==
    /\ ImageTypeInvariant
    /\ Recorded(image) /\ Recorded(staged)
    /\ \A h \in Deleter : DeletionOK(deletion[h])
    /\ \A o \in Object : Doomed(o) => Excused(o)
    /\ Published \cap deleted \subseteq back
    /\ cleared \cap objects = {}

\* What every step does: nothing named or deleted is forgotten, and an object that
\* is gone does not return.
Grows ==
    /\ put \subseteq put' /\ objects' \cap put \subseteq objects
    /\ \A o \in Object : namedBy[o] \subseteq namedBy'[o]
    /\ Published \cup deleted \subseteq Published' \cup deleted'
    /\ deleted \subseteq deleted' /\ spared \subseteq spared'

LEMMA ImagesDiffer ==
    /\ NoRow \notin Object /\ Removed \notin Object /\ NoImage \notin Object
    /\ NoRow # NoImage /\ Removed # NoImage /\ NoRow # Removed
    /\ Home \in [Item -> Collection]
BY CardImagesAssumption DEF Image

LEMMA NoDeletionOK == NoDeletion \in Deletion /\ NoDeletion.pc = "idle" /\ DeletionOK(NoDeletion)
BY DEF NoDeletion, Deletion, DeletionOK, Whole

\* A deletion none of whose items was given a picture is as good as before.
LEMMA DeletionKept ==
    ASSUME Grows, NEW r \in Deletion, DeletionOK(r),
           r.pc = "rows" /\ r.clean =>
               \A c \in r.cards : image'[c] = image[c] \/ image'[c] = NoRow
    PROVE  DeletionOK(r)'
<1>1. r.took \subseteq put' /\ r.took \cap objects' \subseteq r.urls
  BY DEF DeletionOK, Grows
<1>2. ASSUME r.pc = "rows", NEW o \in r.urls
      PROVE  \E c \in r.cards \cap namedBy'[o] : c \in Published' \cup deleted'
  <2>1. PICK c \in r.cards \cap namedBy[o] : c \in Published \cup deleted
    BY <1>2 DEF DeletionOK
  <2>2. c \in namedBy'[o] /\ c \in Published' \cup deleted'
    BY <2>1 DEF Grows, Deletion
  <2> QED BY <2>1, <2>2
<1>3. ASSUME r.pc = "rows", r.clean, NEW c \in r.cards \cap Published', image'[c] \in Object
      PROVE  image'[c] \in r.urls
  <2>1. image'[c] # NoRow
    BY <1>3 DEF Published
  <2>2. image'[c] = image[c] /\ c \in Published
    BY <1>3, <2>1 DEF Published
  <2> QED BY <1>3, <2>2 DEF DeletionOK
<1> QED BY <1>1, <1>2, <1>3 DEF DeletionOK

LEMMA ExcusedKept == ASSUME Grows, NEW o \in Object, Excused(o) PROVE Excused(o)'
BY DEF Grows, Excused

\* What is left to show of a step.
LEMMA ImageInvFrom ==
    ASSUME ImageInv, Grows, ImageTypeInvariant', Recorded(image)', Recorded(staged)',
           (\A h \in Deleter : DeletionOK(deletion[h]))',
           \A o \in Object : Doomed(o)' => Doomed(o) \/ Excused(o)',
           (Published \cap deleted \subseteq back)', (cleared \cap objects = {})'
    PROVE  ImageInv'
<1>1. \A o \in Object : Doomed(o)' => Excused(o)'
  BY ExcusedKept DEF ImageInv
<1> QED BY <1>1 DEF ImageInv

LEMMA ImageInitInv == ImageInit => ImageInv
<1> SUFFICES ASSUME ImageInit PROVE ImageInv
  OBVIOUS
<1>1. ImageTypeInvariant
  BY NoDeletionOK, ImagesDiffer DEF ImageInit, ImageTypeInvariant
<1>2. Recorded(image) /\ Recorded(staged)
  BY ImagesDiffer DEF ImageInit, Recorded
<1>3. \A h \in Deleter : DeletionOK(deletion[h])
  BY NoDeletionOK DEF ImageInit
<1>4. \A o \in Object : ~Doomed(o)
  BY NoDeletionOK DEF ImageInit, Doomed
<1>5. cleared \cap objects = {} /\ Published \cap deleted \subseteq back
  BY DEF ImageInit
<1> QED BY <1>1, <1>2, <1>3, <1>4, <1>5 DEF ImageInv

-----------------------------------------------------------------------------
(* Pictures: uploads, rows and the draft *)

LEMMA ImageUpload ==
    ASSUME ImageInv, NEW o \in Object, Upload(o) PROVE ImageInv'
<1>1. /\ o \notin put /\ objects' = objects \cup {o} /\ put' = put \cup {o}
      /\ UNCHANGED <<collections, image, staged, deletion, namedBy, deleted, back, spared, cleared>>
  BY DEF Upload, history
<1>2. Published' = Published
  BY <1>1 DEF Published
<1>3. Grows
  BY <1>1, <1>2 DEF Grows
<1>4. ImageTypeInvariant'
  BY <1>1 DEF ImageInv, ImageTypeInvariant
<1>5. Recorded(image)' /\ Recorded(staged)'
  BY <1>1 DEF ImageInv, Recorded
<1>6. ASSUME NEW h \in Deleter PROVE DeletionOK(deletion[h])'
  <2>1. PICK r \in Deletion : r = deletion[h] /\ r = deletion'[h] /\ DeletionOK(r)
    BY <1>1 DEF ImageInv, ImageTypeInvariant
  <2>2. DeletionOK(r)'
    BY <1>1, <1>3, <2>1, DeletionKept
  <2> QED BY <2>1, <2>2
<1>7. \A p \in Object : Doomed(p)' => Doomed(p)
  BY <1>1 DEF Doomed
<1>8. (Published \cap deleted \subseteq back)' /\ (cleared \cap objects = {})'
  BY <1>1, <1>2 DEF ImageInv, ImageTypeInvariant
<1> QED BY <1>3, <1>4, <1>5, <1>6, <1>7, <1>8, ImageInvFrom

\* Marking deletions as disturbed changes nothing else about them.
LEMMA Disturbed ==
    ASSUME ImageInv, NEW cs, Disturb(cs), Grows,
           \A c \in Item \ cs : image'[c] = image[c] \/ image'[c] = NoRow
    PROVE  /\ deletion' \in [Deleter -> Deletion]
           /\ \A h \in Deleter : /\ deletion'[h].pc = deletion[h].pc
                                 /\ deletion'[h].urls = deletion[h].urls
           /\ (\A h \in Deleter : DeletionOK(deletion[h]))'
<1>1. ASSUME NEW h \in Deleter
      PROVE  /\ deletion'[h] \in Deletion
             /\ deletion'[h].pc = deletion[h].pc /\ deletion'[h].urls = deletion[h].urls
             /\ DeletionOK(deletion[h])'
  <2>1. PICK r \in Deletion : r = deletion[h] /\ DeletionOK(r)
    BY DEF ImageInv, ImageTypeInvariant
  <2>2. PICK s \in Deletion : s = [r EXCEPT !.clean = FALSE]
    BY DEF Deletion
  <2>3. deletion'[h] = IF r.pc = "rows" /\ r.cards \cap cs # {} THEN s ELSE r
    BY <2>1, <2>2 DEF Disturb
  <2>4. CASE r.pc = "rows" /\ r.cards \cap cs # {}
    <3>1. /\ s.pc = r.pc /\ s.cards = r.cards /\ s.one = r.one /\ s.urls = r.urls
          /\ s.took = r.took /\ s.clean = FALSE
      BY <2>2 DEF Deletion
    <3>2. DeletionOK(s)
      BY <2>1, <3>1 DEF DeletionOK, Whole
    <3>3. DeletionOK(s)'
      BY <3>1, <3>2, DeletionKept
    <3> QED BY <2>1, <2>3, <2>4, <3>1, <3>3
  <2>5. CASE ~(r.pc = "rows" /\ r.cards \cap cs # {})
    <3>1. r.pc = "rows" => \A c \in r.cards : image'[c] = image[c] \/ image'[c] = NoRow
      BY <2>5 DEF Deletion
    <3>2. DeletionOK(r)'
      BY <2>1, <3>1, DeletionKept
    <3> QED BY <2>1, <2>3, <2>5, <3>2
  <2> QED BY <2>4, <2>5
<1>2. deletion' = [h \in Deleter |-> deletion'[h]]
  BY DEF Disturb
<1> QED BY <1>1, <1>2

LEMMA NamesGrow ==
    ASSUME ImageTypeInvariant, NEW c \in Item, NEW i, Names(c, i)
    PROVE  /\ namedBy' \in [Object -> SUBSET Item]
           /\ \A o \in Object : namedBy[o] \subseteq namedBy'[o]
           /\ i \in Object => c \in namedBy'[i]
BY DEF ImageTypeInvariant, Names

LEMMA ImageSave ==
    ASSUME ImageInv, NEW c \in Item, NEW i \in Savable, SaveCard(c, i) PROVE ImageInv'
<1>1. /\ Home[c] \in collections /\ (c \in Published \/ c \notin deleted)
      /\ image' = [image EXCEPT ![c] = i] /\ Names(c, i) /\ Disturb({c})
      /\ UNCHANGED <<collections, staged, objects, put, deleted, back, spared, cleared>>
  BY DEF SaveCard
<1>2. ImageTypeInvariant
  BY DEF ImageInv
<1>3. i \in Image /\ (i \in Object => i \in put) /\ i # NoRow
  BY <1>2, ImagesDiffer DEF Savable, Image, ImageTypeInvariant
<1>4. image \in [Item -> Image \cup {NoRow}] /\ image' \in [Item -> Image \cup {NoRow}]
      /\ \A d \in Item : image'[d] = IF d = c THEN i ELSE image[d]
  BY <1>1, <1>2, <1>3 DEF ImageTypeInvariant
<1>5. Published' = Published \cup {c}
  BY <1>3, <1>4 DEF Published
<1>6. /\ namedBy' \in [Object -> SUBSET Item]
      /\ \A o \in Object : namedBy[o] \subseteq namedBy'[o]
      /\ i \in Object => c \in namedBy'[i]
  BY <1>1, <1>2, NamesGrow
<1>7. Grows
  BY <1>1, <1>5, <1>6 DEF Grows
<1>8. /\ deletion' \in [Deleter -> Deletion]
      /\ \A h \in Deleter : deletion'[h].pc = deletion[h].pc /\ deletion'[h].urls = deletion[h].urls
      /\ (\A h \in Deleter : DeletionOK(deletion[h]))'
  <2>1. \A d \in Item \ {c} : image'[d] = image[d]
    BY <1>4
  <2> QED BY <1>1, <1>7, <2>1, Disturbed
<1>9. ImageTypeInvariant'
  BY <1>1, <1>2, <1>4, <1>6, <1>8 DEF ImageTypeInvariant
<1>10. Recorded(image)' /\ Recorded(staged)'
  BY <1>1, <1>3, <1>4, <1>6 DEF ImageInv, Recorded
<1>11. \A p \in Object : Doomed(p)' => Doomed(p)
  BY <1>1, <1>8 DEF Doomed
<1>12. (Published \cap deleted \subseteq back)' /\ (cleared \cap objects = {})'
  BY <1>1, <1>5 DEF ImageInv
<1> QED BY <1>7, <1>8, <1>9, <1>10, <1>11, <1>12, ImageInvFrom

\* Steps that leave the published rows and the deletions alone.
LEMMA ImageDraft ==
    ASSUME ImageInv, Grows, ImageTypeInvariant', Recorded(staged)',
           UNCHANGED <<image, objects, put, deletion, deleted, back, cleared>>
    PROVE  ImageInv'
<1>1. Published' = Published
  BY DEF Published
<1>2. Recorded(image)'
  BY DEF ImageInv, Recorded, Grows
<1>3. ASSUME NEW h \in Deleter PROVE DeletionOK(deletion[h])'
  <2>1. PICK r \in Deletion : r = deletion[h] /\ r = deletion'[h] /\ DeletionOK(r)
    BY DEF ImageInv, ImageTypeInvariant
  <2>2. DeletionOK(r)'
    BY <2>1, DeletionKept
  <2> QED BY <2>1, <2>2
<1>4. \A p \in Object : Doomed(p)' => Doomed(p)
  BY DEF Doomed
<1>5. (Published \cap deleted \subseteq back)' /\ (cleared \cap objects = {})'
  BY <1>1 DEF ImageInv
<1> QED BY <1>2, <1>3, <1>4, <1>5, ImageInvFrom

LEMMA ImageStage ==
    ASSUME ImageInv, NEW c \in Item, NEW i \in Savable \cup {NoRow, Removed}, StageCard(c, i)
    PROVE  ImageInv'
<1>1. /\ Home[c] \in collections
      /\ staged' = [staged EXCEPT ![c] = i] /\ Names(c, i)
      /\ UNCHANGED <<collections, image, objects, put, deletion, deleted, back, spared, cleared>>
  BY DEF StageCard
<1>2. ImageTypeInvariant
  BY DEF ImageInv
<1>3. i \in Image \cup {NoRow, Removed} /\ (i \in Object => i \in put)
  BY <1>2, ImagesDiffer DEF Savable, Image, ImageTypeInvariant
<1>4. staged' \in [Item -> Image \cup {NoRow, Removed}]
      /\ \A d \in Item : staged'[d] = IF d = c THEN i ELSE staged[d]
  BY <1>1, <1>2, <1>3 DEF ImageTypeInvariant
<1>5. /\ namedBy' \in [Object -> SUBSET Item]
      /\ \A o \in Object : namedBy[o] \subseteq namedBy'[o]
      /\ i \in Object => c \in namedBy'[i]
  BY <1>1, <1>2, NamesGrow
<1>6. Grows
  BY <1>1, <1>5 DEF Grows, Published
<1>7. ImageTypeInvariant'
  BY <1>1, <1>2, <1>4, <1>5 DEF ImageTypeInvariant
<1>8. Recorded(staged)'
  BY <1>1, <1>3, <1>4, <1>5 DEF ImageInv, Recorded
<1> QED BY <1>1, <1>6, <1>7, <1>8, ImageDraft

LEMMA ImageDiscard ==
    ASSUME ImageInv, NEW k \in Collection, DiscardDraft(k) PROVE ImageInv'
<1>1. /\ staged' = [c \in Item |-> IF Home[c] = k THEN NoRow ELSE staged[c]]
      /\ UNCHANGED <<collections, image, objects, put, deletion, namedBy, deleted, back, spared, cleared>>
  BY DEF DiscardDraft, history
<1>2. Grows
  BY <1>1 DEF Grows, Published
<1>3. ImageTypeInvariant'
  BY <1>1 DEF ImageInv, ImageTypeInvariant
<1>4. Recorded(staged)'
  BY <1>1, ImagesDiffer DEF ImageInv, Recorded
<1> QED BY <1>1, <1>2, <1>3, <1>4, ImageDraft

\* A published draft: what it names was recorded when it was staged; what was deleted
\* and is back is on record too.
LEMMA ImagePublish ==
    ASSUME ImageInv, NEW k \in Collection, PublishDraft(k) PROVE ImageInv'
<1> DEFINE rows == {c \in Item : Home[c] = k /\ staged[c] # NoRow}
           drops == {c \in rows : staged[c] = Removed}
<1>1. /\ image' = [c \in Item |-> IF c \in drops THEN NoRow
                                  ELSE IF c \in rows THEN staged[c] ELSE image[c]]
      /\ staged' = [c \in Item |-> IF c \in rows THEN NoRow ELSE staged[c]]
      /\ deleted' = deleted \cup (drops \cap Published)
      /\ back' = back \cup ((rows \ drops) \cap deleted)
      /\ Disturb(rows)
      /\ UNCHANGED <<collections, objects, put, namedBy, spared, cleared>>
  BY Zenon DEF PublishDraft
<1>2. ImageTypeInvariant
  BY DEF ImageInv
<1>3. \A c \in rows \ drops : staged[c] \in Image /\ staged[c] # NoRow
  BY <1>2 DEF ImageTypeInvariant
<1>4. rows \subseteq Item /\ drops \subseteq rows
      /\ \A c \in rows : Home[c] \in collections
  BY <1>2 DEF ImageTypeInvariant
<1>5. Published' = (Published \ drops) \cup (rows \ drops)
  BY <1>1, <1>3 DEF Published
<1>6. Grows
  BY <1>1, <1>5 DEF Grows
<1>7. /\ deletion' \in [Deleter -> Deletion]
      /\ \A h \in Deleter : deletion'[h].pc = deletion[h].pc /\ deletion'[h].urls = deletion[h].urls
      /\ (\A h \in Deleter : DeletionOK(deletion[h]))'
  <2>1. \A c \in Item \ rows : image'[c] = image[c]
    BY <1>1, <1>4
  <2> HIDE DEF rows
  <2> QED BY <1>1, <1>6, <2>1, Disturbed
<1>8. ImageTypeInvariant'
  <2>1. image' \in [Item -> Image \cup {NoRow}] /\ staged' \in [Item -> Image \cup {NoRow, Removed}]
    BY <1>1, <1>2, <1>3 DEF ImageTypeInvariant
  <2>2. back' \subseteq deleted' /\ deleted' \subseteq Item
    BY <1>1, <1>2, <1>4 DEF ImageTypeInvariant
  <2>3. \A c \in Item : Home[c] \notin collections' => image'[c] = NoRow /\ staged'[c] = NoRow
    BY <1>1, <1>2, <1>4 DEF ImageTypeInvariant
  <2> HIDE DEF rows, drops
  <2> QED BY <1>1, <1>2, <1>7, <2>1, <2>2, <2>3 DEF ImageTypeInvariant
<1>9. Recorded(image)' /\ Recorded(staged)'
  BY <1>1, ImagesDiffer DEF ImageInv, Recorded
<1>10. \A p \in Object : Doomed(p)' => Doomed(p)
  BY <1>1, <1>7 DEF Doomed
<1>11. (Published \cap deleted \subseteq back)' /\ (cleared \cap objects = {})'
  BY <1>1, <1>5 DEF ImageInv
<1> QED BY <1>6, <1>7, <1>8, <1>9, <1>10, <1>11, ImageInvFrom

-----------------------------------------------------------------------------
(* Pictures: deletions *)

\* One deletion goes on, and no item gets a picture.
LEMMA OneDeletion ==
    ASSUME ImageInv, Grows, NEW h \in Deleter, NEW r \in Deletion, DeletionOK(r)',
           deletion' = [deletion EXCEPT ![h] = r],
           \A c \in Item : image'[c] = image[c] \/ image'[c] = NoRow
    PROVE  /\ deletion' \in [Deleter -> Deletion]
           /\ \A g \in Deleter : deletion'[g] = IF g = h THEN r ELSE deletion[g]
           /\ (\A g \in Deleter : DeletionOK(deletion[g]))'
<1>1. deletion \in [Deleter -> Deletion]
  BY DEF ImageInv, ImageTypeInvariant
<1>2. \A g \in Deleter : deletion'[g] = IF g = h THEN r ELSE deletion[g]
  BY <1>1
<1>3. ASSUME NEW g \in Deleter PROVE DeletionOK(deletion[g])'
  <2>1. CASE g = h
    BY <1>2, <2>1
  <2>2. CASE g # h
    <3>1. PICK s \in Deletion : s = deletion[g] /\ s = deletion'[g] /\ DeletionOK(s)
      BY <1>1, <1>2, <2>2 DEF ImageInv
    <3>2. DeletionOK(s)'
      BY <3>1, DeletionKept DEF Deletion
    <3> QED BY <3>1, <3>2
  <2> QED BY <2>1, <2>2
<1> QED BY <1>1, <1>2, <1>3

\* Steps that change only a deletion, to one that removes no more from the store.
LEMMA ImageLocal ==
    ASSUME ImageInv, NEW h \in Deleter, NEW r \in Deletion, DeletionOK(r)',
           deletion' = [deletion EXCEPT ![h] = r],
           r.pc = "store" => deletion[h].pc = "store" /\ r.urls \subseteq deletion[h].urls,
           UNCHANGED <<collections, image, staged, objects, put, namedBy, deleted, back, spared>>,
           cleared' \subseteq put /\ cleared' \cap objects = {}
    PROVE  ImageInv'
<1>1. Published' = Published
  BY DEF Published
<1>2. Grows
  BY <1>1 DEF Grows
<1>3. /\ deletion' \in [Deleter -> Deletion]
      /\ \A g \in Deleter : deletion'[g] = IF g = h THEN r ELSE deletion[g]
      /\ (\A g \in Deleter : DeletionOK(deletion[g]))'
  BY <1>2, OneDeletion
<1>4. ImageTypeInvariant'
  BY <1>3 DEF ImageInv, ImageTypeInvariant
<1>5. Recorded(image)' /\ Recorded(staged)'
  BY DEF ImageInv, Recorded
<1>6. \A p \in Object : Doomed(p)' => Doomed(p)
  BY <1>3 DEF Doomed
<1>7. (Published \cap deleted \subseteq back)' /\ (cleared \cap objects = {})'
  BY <1>1 DEF ImageInv
<1> QED BY <1>2, <1>3, <1>4, <1>5, <1>6, <1>7, ImageInvFrom

LEMMA NoDeletionKept == DeletionOK(NoDeletion)'
BY DEF NoDeletion, DeletionOK, Whole

\* A delete begins: the pictures it reads are those of its items, as they are.
LEMMA ImageBegin ==
    ASSUME ImageInv, NEW h \in Deleter, NEW s \in Deletion, Begin(h, s),
           s.pc = "rows", s.urls = {}, s.took = {}, Whole(s)
    PROVE  ImageInv'
<1> DEFINE urls == {image[c] : c \in s.cards \cap Published} \cap Object
<1>1. UNCHANGED <<collections, image, staged, objects, put, namedBy, deleted, back, spared, cleared>>
  BY DEF Begin, history
<1>2. PICK r : /\ deletion' = [deletion EXCEPT ![h] = r]
               /\ r = [s EXCEPT !.urls = urls] \/ r = [s EXCEPT !.clean = FALSE]
  BY Zenon DEF Begin
<1>3. /\ r \in Deletion /\ r.pc = "rows" /\ r.took = {} /\ r.cards = s.cards /\ r.one = s.one
      /\ r.urls = urls \/ (r.urls = {} /\ ~r.clean)
  BY <1>2 DEF Deletion
<1>4. Whole(r)
  BY <1>3 DEF Whole
<1>5. ASSUME NEW o \in r.urls
      PROVE  \E c \in r.cards \cap namedBy'[o] : c \in Published' \cup deleted'
  <2>1. PICK c \in s.cards \cap Published : image[c] = o /\ o \in Object
    BY <1>3, <1>5
  <2>2. c \in namedBy[o]
    BY <2>1 DEF ImageInv, Recorded, Published
  <2> QED BY <1>1, <1>3, <2>1, <2>2 DEF Published
<1>6. r.clean => {image'[c] : c \in r.cards \cap Published'} \cap Object \subseteq r.urls
  BY <1>1, <1>3 DEF Published
<1> HIDE DEF urls
<1>7. DeletionOK(r)'
  BY <1>3, <1>4, <1>5, <1>6 DEF DeletionOK, Whole
<1>8. cleared' \subseteq put /\ cleared' \cap objects = {}
  BY <1>1 DEF ImageInv, ImageTypeInvariant
<1> QED BY <1>1, <1>2, <1>3, <1>7, <1>8, ImageLocal

LEMMA ImageBegins ==
    ASSUME ImageInv, NEW h \in Deleter,
           \/ \E c \in Item : DeleteCard(h, c)
           \/ \E scope \in Scopes : DeleteCollections(h, scope)
    PROVE  ImageInv'
<1>1. ASSUME NEW c \in Item, DeleteCard(h, c) PROVE ImageInv'
  <2> DEFINE s == [NoDeletion EXCEPT !.pc = "rows", !.cards = {c}, !.one = TRUE]
  <2>1. s \in Deletion /\ s.pc = "rows" /\ s.urls = {} /\ s.took = {} /\ Whole(s)
    BY DEF NoDeletion, Deletion, Whole
  <2>2. Begin(h, s)
    BY <1>1 DEF DeleteCard
  <2> HIDE DEF s
  <2> QED BY <2>1, <2>2, ImageBegin
<1>2. ASSUME NEW scope \in Scopes, DeleteCollections(h, scope) PROVE ImageInv'
  <2> DEFINE s == [NoDeletion EXCEPT !.pc = "rows", !.cards = {c \in Item : Home[c] \in scope}]
  <2>1. s \in Deletion /\ s.pc = "rows" /\ s.urls = {} /\ s.took = {} /\ Whole(s)
    BY DEF NoDeletion, Deletion, Whole
  <2>2. Begin(h, s)
    BY <1>2 DEF DeleteCollections
  <2> HIDE DEF s
  <2> QED BY <2>1, <2>2, ImageBegin
<1> QED BY <1>1, <1>2

\* The rows go: what the deletion had read is excused, since its items are deleted.
LEMMA ImageRowsGone ==
    ASSUME ImageInv, NEW h \in Deleter, NEW r \in Deletion, r = deletion[h], r.pc = "rows",
           RowsGo(h), NEW s, s = [r EXCEPT !.pc = "store", !.took = Took(r)],
           deletion' = [deletion EXCEPT ![h] = s],
           UNCHANGED <<objects, put, namedBy, back, spared, cleared>>
    PROVE  ImageInv'
<1>1. /\ image' = [c \in Item |-> IF c \in r.cards THEN NoRow ELSE image[c]]
      /\ deleted' = deleted \cup (r.cards \cap Published)
  BY DEF RowsGo
<1>2. IF r.one THEN UNCHANGED <<collections, staged>>
      ELSE /\ collections' = collections \ {Home[c] : c \in r.cards}
           /\ staged' = [c \in Item |-> IF c \in r.cards THEN NoRow ELSE staged[c]]
  BY Zenon DEF RowsGo
<1>3. ImageTypeInvariant /\ DeletionOK(r)
  BY DEF ImageInv
<1>4. Published' = Published \ r.cards
  BY <1>1 DEF Published
<1>5. Grows
  BY <1>1, <1>4 DEF Grows
<1>6. /\ s \in Deletion /\ s.pc = "store" /\ s.cards = r.cards /\ s.one = r.one
      /\ s.urls = r.urls /\ s.took = Took(r) /\ s.clean = r.clean
  BY DEF Deletion, Took
<1>7. Took(r) \subseteq put /\ Took(r) \subseteq r.urls
  BY <1>3 DEF Took, DeletionOK, ImageInv, Recorded, Deletion
<1>8. DeletionOK(s)'
  BY <1>3, <1>6, <1>7 DEF DeletionOK, Whole
<1>9. /\ deletion' \in [Deleter -> Deletion]
      /\ \A g \in Deleter : deletion'[g] = IF g = h THEN s ELSE deletion[g]
      /\ (\A g \in Deleter : DeletionOK(deletion[g]))'
  BY <1>1, <1>5, <1>6, <1>8, OneDeletion
<1>10. ImageTypeInvariant'
  <2>1. image' \in [Item -> Image \cup {NoRow}]
    BY <1>1, <1>3 DEF ImageTypeInvariant
  <2>2. staged' \in [Item -> Image \cup {NoRow, Removed}] /\ collections' \subseteq Collection
    BY <1>2, <1>3 DEF ImageTypeInvariant
  <2>3. back' \subseteq deleted' /\ deleted' \subseteq Item
    BY <1>1, <1>3 DEF ImageTypeInvariant, Published
  <2>4. \A c \in Item : Home[c] \notin collections' => image'[c] = NoRow /\ staged'[c] = NoRow
    <3>1. CASE r.one
      BY <1>1, <1>2, <1>3, <3>1 DEF ImageTypeInvariant
    <3>2. CASE ~r.one
      <4>1. \A c \in Item : Home[c] \in {Home[d] : d \in r.cards} => c \in r.cards
        BY <1>3, <3>2 DEF DeletionOK, Whole
      <4>2. collections' = collections \ {Home[c] : c \in r.cards}
            /\ staged' = [c \in Item |-> IF c \in r.cards THEN NoRow ELSE staged[c]]
        BY <1>2, <3>2
      <4> QED BY <1>1, <1>3, <4>1, <4>2 DEF ImageTypeInvariant
    <3> QED BY <3>1, <3>2
  <2> QED BY <1>3, <1>9, <2>1, <2>2, <2>3, <2>4 DEF ImageTypeInvariant
<1>11. Recorded(image)'
  BY <1>1, ImagesDiffer DEF ImageInv, Recorded
<1>12. Recorded(staged)'
  BY <1>2, ImagesDiffer DEF ImageInv, Recorded
<1>13. ASSUME NEW p \in Object, Doomed(p)' PROVE Doomed(p) \/ Excused(p)'
  <2>1. CASE p \in r.urls
    <3>1. PICK c \in r.cards \cap namedBy[p] : c \in Published \cup deleted
      BY <1>3, <2>1 DEF DeletionOK
    <3>2. c \in namedBy'[p] /\ c \in deleted'
      BY <1>1, <3>1
    <3> QED BY <3>2 DEF Excused
  <2>2. CASE p \notin r.urls
    BY <1>6, <1>9, <1>13, <2>2 DEF Doomed
  <2> QED BY <2>1, <2>2
<1>14. (Published \cap deleted \subseteq back)' /\ (cleared \cap objects = {})'
  BY <1>1, <1>4 DEF ImageInv
<1> QED BY <1>5, <1>9, <1>10, <1>11, <1>12, <1>13, <1>14, ImageInvFrom

\* The rows stay: what a collection's deletion goes on to remove is excused, since
\* all who named it are on record as spared.
LEMMA ImageRowsSpared ==
    ASSUME ImageInv, NEW h \in Deleter, NEW r \in Deletion, r = deletion[h], r.pc = "rows",
           ~r.one, NEW s, s = [r EXCEPT !.pc = "store", !.clean = FALSE],
           deletion' = [deletion EXCEPT ![h] = s],
           spared' = spared \cup UNION {namedBy[o] : o \in r.urls},
           UNCHANGED <<collections, image, staged, deleted, objects, put, namedBy, back, cleared>>
    PROVE  ImageInv'
<1>1. ImageTypeInvariant /\ DeletionOK(r)
  BY DEF ImageInv
<1>2. Published' = Published
  BY DEF Published
<1>3. Grows
  BY <1>2 DEF Grows
<1>4. /\ s \in Deletion /\ s.pc = "store" /\ s.cards = r.cards /\ s.one = r.one
      /\ s.urls = r.urls /\ s.took = r.took
  BY DEF Deletion
<1>5. DeletionOK(s)'
  BY <1>1, <1>4 DEF DeletionOK, Whole
<1>6. /\ deletion' \in [Deleter -> Deletion]
      /\ \A g \in Deleter : deletion'[g] = IF g = h THEN s ELSE deletion[g]
      /\ (\A g \in Deleter : DeletionOK(deletion[g]))'
  BY <1>3, <1>4, <1>5, OneDeletion
<1>7. ImageTypeInvariant'
  <2>1. spared' \subseteq Item
    BY <1>1 DEF ImageTypeInvariant, Deletion
  <2> QED BY <1>1, <1>6, <2>1 DEF ImageTypeInvariant
<1>8. Recorded(image)' /\ Recorded(staged)'
  BY DEF ImageInv, Recorded
<1>9. ASSUME NEW p \in Object, Doomed(p)' PROVE Doomed(p) \/ Excused(p)'
  <2>1. CASE p \in r.urls
    <3>1. PICK c \in namedBy[p] : TRUE
      BY <1>1, <2>1 DEF DeletionOK
    <3>2. c \in namedBy'[p] /\ c \in spared'
      BY <2>1, <3>1
    <3> QED BY <3>2 DEF Excused
  <2>2. CASE p \notin r.urls
    BY <1>4, <1>6, <1>9, <2>2 DEF Doomed
  <2> QED BY <2>1, <2>2
<1>10. (Published \cap deleted \subseteq back)' /\ (cleared \cap objects = {})'
  BY <1>2 DEF ImageInv
<1> QED BY <1>3, <1>6, <1>7, <1>8, <1>9, <1>10, ImageInvFrom

LEMMA ImageDeleteRows ==
    ASSUME ImageInv, NEW h \in Deleter, DeleteRows(h) PROVE ImageInv'
<1>1. PICK r \in Deletion : r = deletion[h]
  BY DEF ImageInv, ImageTypeInvariant
<1>2. r.pc = "rows" /\ UNCHANGED <<objects, put, namedBy, back, cleared>>
  BY <1>1 DEF DeleteRows
<1>3. \/ /\ RowsGo(h)
         /\ deletion' = [deletion EXCEPT ![h].pc = "store", ![h].took = Took(r)]
         /\ UNCHANGED spared
      \/ /\ deletion' = [deletion EXCEPT ![h] = IF r.one THEN NoDeletion
                                ELSE [r EXCEPT !.pc = "store", !.clean = FALSE]]
         /\ spared' = IF r.one THEN spared
                      ELSE spared \cup UNION {namedBy[o] : o \in r.urls}
         /\ UNCHANGED <<collections, image, staged, deleted>>
  BY <1>1, Zenon DEF DeleteRows
<1>4. CASE /\ RowsGo(h)
           /\ deletion' = [deletion EXCEPT ![h].pc = "store", ![h].took = Took(r)]
           /\ UNCHANGED spared
  <2>1. PICK s : s = [r EXCEPT !.pc = "store", !.took = Took(r)]
    OBVIOUS
  <2>2. deletion' = [deletion EXCEPT ![h] = s]
    BY <1>1, <1>4, <2>1 DEF ImageInv, ImageTypeInvariant
  <2> QED BY <1>1, <1>2, <1>4, <2>1, <2>2, ImageRowsGone
<1>5. CASE /\ deletion' = [deletion EXCEPT ![h] = IF r.one THEN NoDeletion
                                  ELSE [r EXCEPT !.pc = "store", !.clean = FALSE]]
           /\ spared' = IF r.one THEN spared
                        ELSE spared \cup UNION {namedBy[o] : o \in r.urls}
           /\ UNCHANGED <<collections, image, staged, deleted>>
  <2>1. CASE r.one
    <3>1. deletion' = [deletion EXCEPT ![h] = NoDeletion] /\ UNCHANGED spared
      BY <1>5, <2>1
    <3>2. cleared' \subseteq put /\ cleared' \cap objects = {}
      BY <1>2 DEF ImageInv, ImageTypeInvariant
    <3> QED BY <1>2, <1>5, <3>1, <3>2, NoDeletionOK, NoDeletionKept, ImageLocal
  <2>2. CASE ~r.one
    <3>1. PICK s : s = [r EXCEPT !.pc = "store", !.clean = FALSE]
      OBVIOUS
    <3>2. /\ deletion' = [deletion EXCEPT ![h] = s]
          /\ spared' = spared \cup UNION {namedBy[o] : o \in r.urls}
      BY <1>5, <2>2, <3>1
    <3> QED BY <1>1, <1>2, <1>5, <2>2, <3>1, <3>2, ImageRowsSpared
  <2> QED BY <2>1, <2>2
<1> QED BY <1>3, <1>4, <1>5

\* An object goes: it was on the list of a deletion.
LEMMA ImageDeleteURL ==
    ASSUME ImageInv, NEW h \in Deleter, NEW u \in Object, DeleteURL(h, u) PROVE ImageInv'
<1>1. PICK r \in Deletion : r = deletion[h] /\ DeletionOK(r)
  BY DEF ImageInv, ImageTypeInvariant
<1>2. /\ r.pc = "store" /\ u \in r.urls
      /\ UNCHANGED <<collections, image, staged, put, namedBy, deleted, back, spared, cleared>>
  BY <1>1 DEF DeleteURL, history
<1>3. \/ /\ objects' = objects \ {u}
         /\ deletion' = [deletion EXCEPT ![h].urls = @ \ {u}]
      \/ /\ deletion' = [deletion EXCEPT ![h].urls = @ \ {u}, ![h].clean = FALSE, ![h].took = {}]
         /\ UNCHANGED objects
  BY Zenon DEF DeleteURL
<1>4. deletion \in [Deleter -> Deletion]
  BY DEF ImageInv, ImageTypeInvariant
<1>5. CASE /\ objects' = objects \ {u}
           /\ deletion' = [deletion EXCEPT ![h].urls = @ \ {u}]
  <2>1. PICK s : s = [r EXCEPT !.urls = r.urls \ {u}]
    OBVIOUS
  <2>2. deletion' = [deletion EXCEPT ![h] = s]
    BY <1>1, <1>4, <1>5, <2>1
  <2>3. /\ s \in Deletion /\ s.pc = "store" /\ s.cards = r.cards /\ s.one = r.one
        /\ s.urls = r.urls \ {u} /\ s.took = r.took
    BY <1>2, <2>1 DEF Deletion
  <2>4. Published' = Published
    BY <1>2 DEF Published
  <2>5. Grows
    BY <1>2, <1>5, <2>4 DEF Grows
  <2>6. DeletionOK(s)'
    BY <1>1, <1>2, <1>5, <2>3 DEF DeletionOK, Whole
  <2>7. /\ deletion' \in [Deleter -> Deletion]
        /\ \A g \in Deleter : deletion'[g] = IF g = h THEN s ELSE deletion[g]
        /\ (\A g \in Deleter : DeletionOK(deletion[g]))'
    BY <1>2, <2>2, <2>3, <2>5, <2>6, OneDeletion
  <2>8. ImageTypeInvariant'
    BY <1>2, <1>5, <2>7 DEF ImageInv, ImageTypeInvariant
  <2>9. Recorded(image)' /\ Recorded(staged)'
    BY <1>2 DEF ImageInv, Recorded
  <2>10. ASSUME NEW p \in Object, Doomed(p)' PROVE Doomed(p)
    <3>1. CASE p = u
      BY <1>1, <1>2, <3>1 DEF Doomed
    <3>2. CASE p # u
      BY <1>1, <1>2, <1>5, <2>3, <2>7, <2>10, <3>2 DEF Doomed
    <3> QED BY <3>1, <3>2
  <2>11. (Published \cap deleted \subseteq back)' /\ (cleared \cap objects = {})'
    BY <1>2, <1>5, <2>4 DEF ImageInv
  <2> QED BY <2>5, <2>7, <2>8, <2>9, <2>10, <2>11, ImageInvFrom
<1>6. CASE /\ deletion' = [deletion EXCEPT ![h].urls = @ \ {u}, ![h].clean = FALSE, ![h].took = {}]
           /\ UNCHANGED objects
  <2>1. PICK s : s = [r EXCEPT !.urls = r.urls \ {u}, !.clean = FALSE, !.took = {}]
    OBVIOUS
  <2>2. deletion' = [deletion EXCEPT ![h] = s]
    BY <1>1, <1>4, <1>6, <2>1
  <2>3. /\ s \in Deletion /\ s.pc = "store" /\ s.cards = r.cards /\ s.one = r.one
        /\ s.urls = r.urls \ {u} /\ s.took = {} /\ s.clean = FALSE
    BY <1>2, <2>1 DEF Deletion
  <2>4. DeletionOK(s)'
    BY <1>1, <2>3 DEF DeletionOK, Whole
  <2>5. cleared' \subseteq put /\ cleared' \cap objects = {}
    BY <1>2 DEF ImageInv, ImageTypeInvariant
  <2> QED BY <1>1, <1>2, <1>6, <2>2, <2>3, <2>4, <2>5, ImageLocal
<1> QED BY <1>3, <1>5, <1>6

LEMMA ImageReply ==
    ASSUME ImageInv, NEW h \in Deleter, Reply(h) PROVE ImageInv'
<1>1. PICK r \in Deletion : r = deletion[h] /\ DeletionOK(r)
  BY DEF ImageInv, ImageTypeInvariant
<1>2. /\ r.urls = {} /\ deletion' = [deletion EXCEPT ![h] = NoDeletion]
      /\ cleared' = IF r.clean THEN cleared \cup r.took ELSE cleared
      /\ UNCHANGED <<collections, image, staged, objects, put, namedBy, deleted, back, spared>>
  BY <1>1 DEF Reply
<1>3. cleared' \subseteq put /\ cleared' \cap objects = {}
  BY <1>1, <1>2 DEF ImageInv, ImageTypeInvariant, DeletionOK
<1> QED BY <1>2, <1>3, NoDeletionOK, NoDeletionKept, ImageLocal

LEMMA ImageAbort ==
    ASSUME ImageInv, NEW h \in Deleter, AbortDelete(h) PROVE ImageInv'
<1>1. /\ deletion' = [deletion EXCEPT ![h] = NoDeletion]
      /\ UNCHANGED <<collections, image, staged, objects, put, namedBy, deleted, back, spared, cleared>>
  BY DEF AbortDelete, history
<1>2. cleared' \subseteq put /\ cleared' \cap objects = {}
  BY <1>1 DEF ImageInv, ImageTypeInvariant
<1> QED BY <1>1, <1>2, NoDeletionOK, NoDeletionKept, ImageLocal

LEMMA ImageIdle == ASSUME ImageInv, UNCHANGED imageVars PROVE ImageInv'
<1>1. UNCHANGED <<image, objects, put, deletion, deleted, back, cleared, staged, namedBy, spared, collections>>
  BY DEF imageVars, history
<1>2. Grows
  BY <1>1 DEF Grows, Published
<1>3. ImageTypeInvariant' /\ Recorded(staged)'
  BY <1>1 DEF ImageInv, ImageTypeInvariant, Recorded
<1> QED BY <1>1, <1>2, <1>3, ImageDraft

LEMMA ImageStep == ImageInv /\ [ImageNext]_imageVars => ImageInv'
<1> SUFFICES ASSUME ImageInv, [ImageNext]_imageVars PROVE ImageInv'
  OBVIOUS
<1>1. ASSUME NEW c \in Item, Edit(c) PROVE ImageInv'
  BY <1>1, ImageSave, ImageStage DEF Edit
<1>2. ASSUME NEW h \in Deleter, Delete(h) PROVE ImageInv'
  <2>1. ASSUME \/ \E c \in Item : DeleteCard(h, c)
               \/ \E scope \in Scopes : DeleteCollections(h, scope)
        PROVE  ImageInv'
    BY <2>1, ImageBegins
  <2>2. ASSUME NEW u \in Object, DeleteURL(h, u) PROVE ImageInv'
    BY <2>2, ImageDeleteURL
  <2> QED BY <1>2, <2>1, <2>2, ImageDeleteRows, ImageReply, ImageAbort DEF Delete
<1>3. ASSUME UNCHANGED imageVars PROVE ImageInv'
  BY <1>3, ImageIdle
<1> QED BY <1>1, <1>2, <1>3, ImageUpload, ImageDiscard, ImagePublish DEF ImageNext

LEMMA ImageInvAlways == ImageSpec => []ImageInv
BY ImageInitInv, ImageStep, PTL DEF ImageSpec

\* Types, and a deleted collection leaves neither rows nor a draft, however the
\* deletion of its items and its own overlap.
THEOREM ImageTypeCorrect == ImageSpec => []ImageTypeInvariant
BY ImageInvAlways, PTL DEF ImageInv

\* For any number of deletions at the same time and any uploads, saves and drafts in
\* between, a picture disappears from under a published card only if the card shares
\* it, came back from the draft, or outlived a delete of its collection that failed.
THEOREM PictureKeptAlways == ImageSpec => []PictureKept
<1>1. ImageInv => PictureKept
  <2> SUFFICES ASSUME ImageInv, NEW c \in Published, image[c] \in Object \ objects,
                      namedBy[image[c]] = {c}
               PROVE  c \in back \/ c \in spared
    BY DEF PictureKept
  <2>1. image[c] \in put
    BY DEF ImageInv, Recorded, Published
  <2>2. Excused(image[c])
    BY <2>1 DEF ImageInv, Doomed
  <2>3. c \in deleted \cup spared
    BY <2>2 DEF Excused
  <2> QED BY <2>3 DEF ImageInv
<1> QED BY <1>1, ImageInvAlways, PTL

\* A deletion that went well and was not disturbed leaves no object its rows named.
THEOREM PicturesGoAlways == ImageSpec => []PicturesGo
<1>1. ImageInv => PicturesGo
  BY DEF ImageInv, PicturesGo
<1> QED BY <1>1, ImageInvAlways, PTL
=============================================================================
