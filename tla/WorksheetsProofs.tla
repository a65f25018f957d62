-------------------------- MODULE WorksheetsProofs --------------------------
(***************************************************************************)
(* Proofs about Worksheets, for any exercises, answers, batches and number *)
(* of simultaneous requests of a user.                                     *)
(***************************************************************************)
EXTENDS Worksheets, FiniteSetTheorems, TLAPS

-----------------------------------------------------------------------------
(* Types *)

LEMMA FamilyItems == ASSUME NEW e \in Exercise PROVE Family(e) \subseteq Item
BY DEF Family, Item

LEMMA IdleType == Idle \in Request
BY DEF Idle, Request

\* What ListByParent lists are sentences, each of them once.
LEMMA ListingsType ==
    ASSUME NEW S \in SUBSET Sentence, NEW f \in Listings(S)
    PROVE  f \in Seq(S) /\ \A s \in S : \E k \in 1 .. Len(f) : f[k] = s
<1>1. IsFiniteSet(S) /\ Cardinality(S) \in Nat
  BY WorksheetsAssumption, FS_Subset, FS_CardinalityType
<1>2. f \in [1 .. Cardinality(S) -> S] /\ \A s \in S : \E k \in 1 .. Cardinality(S) : f[k] = s
  BY DEF Listings
<1>3. f \in Seq(S) /\ Len(f) = Cardinality(S)
  BY <1>1, <1>2
<1> QED BY <1>2, <1>3

LEMMA MarkersType ==
    ASSUME NEW ids \in Seq(Item)
    PROVE  /\ Markers(ids) \in Seq(Mark) /\ Len(Markers(ids)) = Len(ids)
           /\ \A k \in 1 .. Len(ids) : Markers(ids)[k] = [item |-> ids[k], entry |-> Blank]
<1>1. Len(ids) \in Nat /\ \A k \in 1 .. Len(ids) : ids[k] \in Item
  OBVIOUS
<1>2. \A k \in 1 .. Len(ids) : [item |-> ids[k], entry |-> Blank] \in Mark
  BY <1>1 DEF Mark, Entry
<1>3. Markers(ids) \in [1 .. Len(ids) -> Mark]
  BY <1>1, <1>2 DEF Markers
<1>4. \A k \in 1 .. Len(ids) : Markers(ids)[k] = [item |-> ids[k], entry |-> Blank]
  BY DEF Markers
<1> HIDE DEF Markers
<1> QED BY <1>1, <1>3, <1>4

\* A reset writes a marker for the exercise and for each of its published sentences.
LEMMA ResetRows ==
    ASSUME NEW e \in Exercise, NEW S \in SUBSET Sentence, NEW f \in Listings(S),
           NEW rows, rows = Markers(<<e>> \o f)
    PROVE  /\ rows \in Seq(Mark)
           /\ \A k \in 1 .. Len(rows) : rows[k].entry = Blank /\ rows[k].item \in {e} \cup S
           /\ \A i \in {e} \cup S : \E k \in 1 .. Len(rows) : rows[k].item = i
<1> DEFINE ids == <<e>> \o f
<1>1. f \in Seq(S) /\ Len(f) \in Nat /\ \A s \in S : \E k \in 1 .. Len(f) : f[k] = s
  BY ListingsType
<1>2. f \in Seq(Item) /\ <<e>> \in Seq(Item) /\ S \subseteq Item /\ e \in Item
  BY <1>1 DEF Item
<1>3. /\ ids \in Seq(Item) /\ Len(ids) = Len(f) + 1
      /\ ids[1] = e /\ \A k \in 1 .. Len(f) : ids[k + 1] = f[k]
  BY <1>1, <1>2
<1>4. \A k \in 1 .. Len(ids) : ids[k] \in {e} \cup S
  <2> TAKE k \in 1 .. Len(ids)
  <2>1. CASE k = 1 BY <2>1, <1>3
  <2>2. CASE k # 1
    <3>1. k - 1 \in 1 .. Len(f) /\ ids[k - 1 + 1] = f[k - 1] /\ k - 1 + 1 = k
      BY <2>2, <1>1, <1>3
    <3> QED BY <3>1, <1>1
  <2> QED BY <2>1, <2>2
<1>5. \A i \in {e} \cup S : \E k \in 1 .. Len(ids) : ids[k] = i
  <2> TAKE i \in {e} \cup S
  <2>1. CASE i = e BY <2>1, <1>1, <1>3
  <2>2. CASE i \in S
    <3>1. PICK k \in 1 .. Len(f) : f[k] = i BY <2>2, <1>1
    <3>2. k + 1 \in 1 .. Len(ids) /\ ids[k + 1] = i BY <3>1, <1>1, <1>3
    <3> QED BY <3>2
  <2> QED BY <2>1, <2>2
<1> HIDE DEF ids
<1>6. /\ Markers(ids) \in Seq(Mark) /\ Len(Markers(ids)) = Len(ids)
      /\ \A k \in 1 .. Len(ids) : Markers(ids)[k] = [item |-> ids[k], entry |-> Blank]
  BY <1>3, MarkersType
<1>7. \A k \in 1 .. Len(Markers(ids)) :
          Markers(ids)[k].entry = Blank /\ Markers(ids)[k].item \in {e} \cup S
  <2> TAKE k \in 1 .. Len(Markers(ids))
  <2>1. k \in 1 .. Len(ids) /\ Markers(ids)[k] = [item |-> ids[k], entry |-> Blank]
    BY <1>6
  <2>2. ids[k] \in {e} \cup S BY <2>1, <1>4
  <2> QED BY <2>1, <2>2
<1>8. \A i \in {e} \cup S : \E k \in 1 .. Len(Markers(ids)) : Markers(ids)[k].item = i
  <2> TAKE i \in {e} \cup S
  <2>1. PICK k \in 1 .. Len(ids) : ids[k] = i BY <1>5
  <2>2. k \in 1 .. Len(Markers(ids)) /\ Markers(ids)[k] = [item |-> ids[k], entry |-> Blank]
    BY <1>6
  <2> QED BY <2>1, <2>2
<1>9. rows = Markers(ids)
  BY DEF ids
<1> QED BY <1>6, <1>7, <1>8, <1>9

LEMMA Elements ==
    ASSUME NEW T, NEW s \in Seq(T)
    PROVE  /\ Len(s) \in Nat /\ DOMAIN s = 1 .. Len(s) /\ s = [k \in 1 .. Len(s) |-> s[k]]
           /\ \A k \in 1 .. Len(s) : s[k] \in T
OBVIOUS

LEMMA BatchRows ==
    ASSUME NEW rows \in Batches
    PROVE  /\ rows \in Seq(Mark) /\ DOMAIN rows = 1 .. Len(rows)
           /\ \A k \in DOMAIN rows : rows[k].item \in Item /\ rows[k].entry \in Entry
<1>1. rows \in Seq([item : Item, entry : Answer])
  BY WorksheetsAssumption
<1>2. /\ Len(rows) \in Nat /\ DOMAIN rows = 1 .. Len(rows)
      /\ rows = [k \in 1 .. Len(rows) |-> rows[k]]
      /\ \A k \in 1 .. Len(rows) : rows[k] \in [item : Item, entry : Answer]
  BY <1>1, Elements
<1>3. [item : Item, entry : Answer] \subseteq Mark
  BY DEF Mark, Entry
<1>4. \A k \in 1 .. Len(rows) : rows[k] \in Mark
  BY <1>2, <1>3
<1>5. rows \in [1 .. Len(rows) -> Mark]
  BY <1>2, <1>4
<1>6. \A k \in 1 .. Len(rows) : rows[k].item \in Item /\ rows[k].entry \in Entry
  BY <1>4 DEF Mark
<1> QED BY <1>2, <1>5, <1>6

RecordRequest(rows) == [Idle EXCEPT !.pc = "next", !.rows = rows,
                                    !.touches = {rows[k].item : k \in DOMAIN rows}]

ResetRequest(e) == [Idle EXCEPT !.pc = "list", !.exercise = e, !.touches = Family(e)]

\* The steps of a request change its record so.
LEMMA StepTypes ==
    ASSUME NEW r \in Request
    PROVE  /\ \A q \in Seq(Mark), F \in SUBSET Item :
                [r EXCEPT !.pc = "next", !.rows = q, !.touches = F] \in Request
           /\ \A e \in Exercise, F \in SUBSET Item :
                [r EXCEPT !.pc = "list", !.exercise = e, !.touches = F] \in Request
           /\ \A q \in Seq(Mark) : [r EXCEPT !.pc = "next", !.rows = q] \in Request
           /\ \A t \in Nat : [r EXCEPT !.pc = "insert", !.at = t] \in Request
           /\ [r EXCEPT !.pc = "next", !.done = @ + 1] \in Request
           /\ \A A \in SUBSET Item : [r EXCEPT !.alone = A] \in Request
<1>1. \A q \in Seq(Mark), F \in SUBSET Item :
          [r EXCEPT !.pc = "next", !.rows = q, !.touches = F] \in Request
  BY DEF Request
<1>2. \A e \in Exercise, F \in SUBSET Item :
          [r EXCEPT !.pc = "list", !.exercise = e, !.touches = F] \in Request
  BY DEF Request
<1>3. \A q \in Seq(Mark) : [r EXCEPT !.pc = "next", !.rows = q] \in Request
  BY DEF Request
<1>4. \A t \in Nat : [r EXCEPT !.pc = "insert", !.at = t] \in Request
  BY DEF Request
<1>5. [r EXCEPT !.pc = "next", !.done = @ + 1] \in Request
  <2>1. \A n \in Nat : [r EXCEPT !.pc = "next", !.done = n] \in Request
    BY DEF Request
  <2>2. r.done + 1 \in Nat
    BY DEF Request
  <2> QED BY <2>1, <2>2
<1>6. \A A \in SUBSET Item : [r EXCEPT !.alone = A] \in Request
  BY DEF Request
<1> QED BY <1>1, <1>2, <1>3, <1>4, <1>5, <1>6

LEMMA RequestsType ==
    /\ \A rows \in Batches : RecordRequest(rows) \in Request
    /\ \A e \in Exercise : ResetRequest(e) \in Request
<1>1. ASSUME NEW rows \in Batches PROVE RecordRequest(rows) \in Request
  <2>1. rows \in Seq(Mark) /\ DOMAIN rows = 1 .. Len(rows) BY BatchRows
  <2>2. \A k \in DOMAIN rows : rows[k].item \in Item BY BatchRows
  <2>3. {rows[k].item : k \in DOMAIN rows} \in SUBSET Item BY <2>2
  <2> QED BY <2>1, <2>3, IdleType, StepTypes DEF RecordRequest
<1>2. ASSUME NEW e \in Exercise PROVE ResetRequest(e) \in Request
  BY FamilyItems, IdleType, StepTypes DEF ResetRequest
<1> QED BY <1>1, <1>2

\* The m-th of rows is the last about its item, of the first n.
Last(rows, n, m) == m \in 1 .. n /\ \A k \in 1 .. n : rows[k].item = rows[m].item => k <= m

\* What the code keeps true of a request: a reset is about the exercise and its
\* sentences and writes markers, and the rows a request writes are about its items.
\* The last conjunct carries the existence of last rows along the writing.
Formed(r) ==
    /\ r.alone \subseteq r.touches
    /\ r.pc = "idle" => r.touches = {}
    /\ r.pc = "list" => r.exercise # None /\ r.done = 0 /\ Len(r.rows) = 0
    /\ r.done <= Len(r.rows)
    /\ r.pc = "insert" => r.done < Len(r.rows)
    /\ \A k \in 1 .. Len(r.rows) : r.rows[k].item \in r.touches
    /\ r.exercise = None => \A i \in r.touches : \E k \in 1 .. Len(r.rows) : r.rows[k].item = i
    /\ r.exercise # None => /\ r.touches = Family(r.exercise)
                            /\ \A k \in 1 .. Len(r.rows) : r.rows[k].entry = Blank
    /\ \A k \in 1 .. r.done :
          \E m \in 1 .. r.done : Last(r.rows, r.done, m) /\ r.rows[m].item = r.rows[k].item

TypeOK == TypeInvariant /\ \A h \in Handler : Formed(req[h])

LEMMA RowType ==
    ASSUME NEW r \in Request, NEW k \in 1 .. Len(r.rows)
    PROVE  r.rows[k] \in Mark /\ r.rows[k].item \in Item /\ r.rows[k].entry \in Entry
<1>1. r.rows \in Seq(Mark)
  BY DEF Request
<1>2. r.rows[k] \in Mark
  BY <1>1
<1> QED BY <1>2 DEF Mark

LEMMA RequestType ==
    ASSUME NEW r \in Request
    PROVE  /\ r.pc \in {"idle", "list", "next", "insert"} /\ r.exercise \in Exercise \cup {None}
           /\ r.rows \in Seq(Mark) /\ Len(r.rows) \in Nat /\ DOMAIN r.rows = 1 .. Len(r.rows)
           /\ r.done \in Nat /\ r.at \in Nat /\ r.touches \subseteq Item /\ r.alone \subseteq Item
BY DEF Request

LEMMA FormedIdle == Formed(Idle)
BY DEF Formed, Idle

LEMMA FormedBegin ==
    /\ \A rows \in Batches : Formed(RecordRequest(rows))
    /\ \A e \in Exercise : Formed(ResetRequest(e))
<1>1. ASSUME NEW rows \in Batches PROVE Formed(RecordRequest(rows))
  <2> DEFINE r == RecordRequest(rows)
  <2>1. DOMAIN rows = 1 .. Len(rows) /\ Len(rows) \in Nat BY BatchRows
  <2>2. /\ r.pc = "next" /\ r.exercise = None /\ r.rows = rows /\ r.done = 0
        /\ r.touches = {rows[k].item : k \in DOMAIN rows} /\ r.alone = {}
    BY DEF RecordRequest, Idle
  <2> HIDE DEF r
  <2>3. Formed(r) BY <2>1, <2>2 DEF Formed
  <2> QED BY <2>3 DEF r
<1>2. ASSUME NEW e \in Exercise PROVE Formed(ResetRequest(e))
  <2> DEFINE r == ResetRequest(e)
  <2>1. /\ r.pc = "list" /\ r.exercise = e /\ r.rows = <<>> /\ r.done = 0
        /\ r.touches = Family(e) /\ r.alone = {}
    BY DEF ResetRequest, Idle
  <2>2. e # None /\ Len(r.rows) = 0 BY <2>1, WorksheetsAssumption
  <2> HIDE DEF r
  <2>3. Formed(r) BY <2>1, <2>2 DEF Formed
  <2> QED BY <2>3 DEF r
<1> QED BY <1>1, <1>2

LEMMA FormedSteps ==
    ASSUME NEW r \in Request, Formed(r)
    PROVE  /\ \A A \in SUBSET r.touches : Formed([r EXCEPT !.alone = A])
           /\ r.pc = "next" /\ r.done < Len(r.rows) =>
                \A t \in Nat : Formed([r EXCEPT !.pc = "insert", !.at = t])
           /\ r.pc = "insert" => Formed([r EXCEPT !.pc = "next", !.done = @ + 1])
           /\ r.pc = "list" => \A S \in SUBSET Sentence : \A f \in Listings(S) :
                (\A s \in S : Parent[s] = r.exercise) =>
                  Formed([r EXCEPT !.pc = "next", !.rows = Markers(<<r.exercise>> \o f)])
<1>1. \A A \in SUBSET r.touches : Formed([r EXCEPT !.alone = A])
  <2> TAKE A \in SUBSET r.touches
  <2> DEFINE q == [r EXCEPT !.alone = A]
  <2>1. /\ q.pc = r.pc /\ q.exercise = r.exercise /\ q.rows = r.rows /\ q.done = r.done
        /\ q.touches = r.touches /\ q.alone = A
    BY DEF Request
  <2> HIDE DEF q
  <2>3. Formed(q) BY <2>1 DEF Formed
  <2> QED BY <2>3 DEF q
<1>2. ASSUME r.pc = "next", r.done < Len(r.rows), NEW t \in Nat
      PROVE  Formed([r EXCEPT !.pc = "insert", !.at = t])
  <2> DEFINE q == [r EXCEPT !.pc = "insert", !.at = t]
  <2>1. /\ q.pc = "insert" /\ q.exercise = r.exercise /\ q.rows = r.rows /\ q.done = r.done
        /\ q.touches = r.touches /\ q.alone = r.alone
    BY DEF Request
  <2> HIDE DEF q
  <2>3. Formed(q) BY <1>2, <2>1 DEF Formed
  <2> QED BY <2>3 DEF q
<1>3. ASSUME r.pc = "insert" PROVE Formed([r EXCEPT !.pc = "next", !.done = @ + 1])
  <2> DEFINE q == [r EXCEPT !.pc = "next", !.done = @ + 1]
  <2>1. /\ q.pc = "next" /\ q.exercise = r.exercise /\ q.rows = r.rows /\ q.done = r.done + 1
        /\ q.touches = r.touches /\ q.alone = r.alone
    BY DEF Request
  <2>2. r.done \in Nat /\ Len(r.rows) \in Nat BY RequestType
  <2> HIDE DEF q
  <2>3. \A k \in 1 .. q.done :
           \E m \in 1 .. q.done : Last(q.rows, q.done, m) /\ q.rows[m].item = q.rows[k].item
    <3> TAKE k \in 1 .. q.done
    <3>1. CASE q.rows[k].item = q.rows[q.done].item
      <4>1. q.done \in 1 .. q.done /\ Last(q.rows, q.done, q.done) BY <2>1, <2>2 DEF Last
      <4> QED BY <4>1, <3>1
    <3>2. CASE q.rows[k].item # q.rows[q.done].item
      <4>1. k \in 1 .. r.done BY <2>1, <2>2, <3>2
      <4>2. PICK m \in 1 .. r.done : Last(r.rows, r.done, m) /\ r.rows[m].item = r.rows[k].item
        BY <4>1 DEF Formed
      <4>3. m \in 1 .. q.done /\ Last(q.rows, q.done, m) BY <4>2, <3>2, <2>1, <2>2 DEF Last
      <4> QED BY <4>2, <4>3, <2>1
    <3> QED BY <3>1, <3>2
  <2>4. Formed(q) BY <1>3, <2>1, <2>2, <2>3 DEF Formed
  <2> QED BY <2>4 DEF q
<1>4. ASSUME r.pc = "list", NEW S \in SUBSET Sentence, NEW f \in Listings(S),
             \A s \in S : Parent[s] = r.exercise
      PROVE  Formed([r EXCEPT !.pc = "next", !.rows = Markers(<<r.exercise>> \o f)])
  <2> DEFINE rows == Markers(<<r.exercise>> \o f)
             q == [r EXCEPT !.pc = "next", !.rows = rows]
  <2>1. /\ q.pc = "next" /\ q.exercise = r.exercise /\ q.rows = rows /\ q.done = r.done
        /\ q.touches = r.touches /\ q.alone = r.alone
    BY DEF Request
  <2>2. r.exercise # None /\ r.done = 0 /\ r.touches = Family(r.exercise) /\ r.exercise \in Exercise
    BY <1>4, RequestType DEF Formed
  <2>3. /\ rows \in Seq(Mark)
        /\ \A k \in 1 .. Len(rows) : rows[k].entry = Blank /\ rows[k].item \in {r.exercise} \cup S
    BY <2>2, ResetRows
  <2>4. {r.exercise} \cup S \subseteq Family(r.exercise) BY <1>4 DEF Family
  <2>5. Len(rows) \in Nat BY <2>3
  <2> HIDE DEF rows, q
  <2>6. Formed(q) BY <2>1, <2>2, <2>3, <2>4, <2>5 DEF Formed
  <2> QED BY <2>6 DEF q, rows
<1> QED BY <1>1, <1>2, <1>3, <1>4

\* A step of one request.
LEMMA OneRequest ==
    ASSUME TypeOK, NEW h \in Handler, NEW r \in Request, Formed(r), req' = [req EXCEPT ![h] = r]
    PROVE  /\ req' \in [Handler -> Request] /\ req'[h] = r
           /\ \A g \in Handler : Formed(req'[g]) /\ (g # h => req'[g] = req[g])
BY DEF TypeOK, TypeInvariant

LEMMA BeginType ==
    ASSUME TypeOK, NEW h \in Handler, NEW r \in Request, Formed(r),
           NEW news \in [Item -> SUBSET Entry], Begin(h, r, news)
    PROVE  TypeOK'
<1> DEFINE others == UNION {req[g].touches : g \in Handler \ {h}}
<1> USE DEF TypeInvariant, TypeOK
<1>1. /\ req' = [g \in Handler |-> IF g = h THEN [r EXCEPT !.alone = r.touches \ others]
                                   ELSE [req[g] EXCEPT !.alone = @ \ r.touches]]
      /\ owed' = [i \in Item |-> IF i \in r.touches THEN owed[i] \cup news[i] ELSE owed[i]]
      /\ UNCHANGED <<live, gone, events, now>>
  BY DEF Begin
<1> HIDE DEF others
<1>2. [r EXCEPT !.alone = r.touches \ others] \in Request /\ Formed([r EXCEPT !.alone = r.touches \ others])
  <2>1. r.touches \ others \in SUBSET Item /\ r.touches \ others \in SUBSET r.touches
    BY RequestType
  <2> QED BY <2>1, StepTypes, FormedSteps
<1>3. ASSUME NEW g \in Handler
      PROVE  /\ [req[g] EXCEPT !.alone = @ \ r.touches] \in Request
             /\ Formed([req[g] EXCEPT !.alone = @ \ r.touches])
  <2>1. req[g] \in Request /\ Formed(req[g]) OBVIOUS
  <2>2. req[g].alone \ r.touches \in SUBSET Item /\ req[g].alone \ r.touches \in SUBSET req[g].touches
    BY <2>1, RequestType DEF Formed
  <2>3. /\ [req[g] EXCEPT !.alone = req[g].alone \ r.touches] \in Request
        /\ Formed([req[g] EXCEPT !.alone = req[g].alone \ r.touches])
    BY <2>1, <2>2, StepTypes, FormedSteps
  <2> QED BY <2>3
<1>4. req' \in [Handler -> Request]
  BY <1>1, <1>2, <1>3
<1>5. owed' \in [Item -> SUBSET Entry]
  BY <1>1
<1>6. ASSUME NEW g \in Handler PROVE Formed(req'[g])
  BY <1>1, <1>2, <1>3
<1>7. TypeInvariant'
  BY <1>1, <1>4, <1>5
<1> QED BY <1>6, <1>7

\* What a batch asks for, what a reset asks for, and that a request begins with it.
LEMMA BeginNews ==
    /\ \A rows \in Batches : [i \in Item |-> Asked(rows, i)] \in [Item -> SUBSET Entry]
    /\ [i \in Item |-> {Blank}] \in [Item -> SUBSET Entry]
<1>1. ASSUME NEW rows \in Batches, NEW i \in Item PROVE Asked(rows, i) \in SUBSET Entry
  <2>1. \A k \in DOMAIN rows : rows[k].entry \in Entry BY BatchRows
  <2> QED BY <2>1 DEF Asked
<1> QED BY <1>1 DEF Entry

LEMMA RecordBegins ==
    ASSUME NEW h \in Handler, NEW rows \in Batches, Record(h, rows)
    PROVE  Begin(h, RecordRequest(rows), [i \in Item |-> Asked(rows, i)])
BY DEF Record, RecordRequest

LEMMA ResetBegins ==
    ASSUME NEW h \in Handler, NEW e \in Exercise, Reset(h, e)
    PROVE  Begin(h, ResetRequest(e), [i \in Item |-> {Blank}])
BY DEF Reset, ResetRequest

\* The request after ListByParent, Stamp and Insert.
LEMMA ListStep ==
    ASSUME TypeOK, NEW h \in Handler, ListByParent(h)
    PROVE  \E f \in Listings({s \in live \cap Sentence : Parent[s] = req[h].exercise}) :
              LET r == [req[h] EXCEPT !.pc = "next", !.rows = Markers(<<req[h].exercise>> \o f)]
              IN  r \in Request /\ Formed(r) /\ req' = [req EXCEPT ![h] = r]
<1> DEFINE S == {s \in live \cap Sentence : Parent[s] = req[h].exercise}
<1>1. req[h] \in Request /\ req[h].pc = "list" /\ Formed(req[h])
  BY DEF ListByParent, TypeOK, TypeInvariant
<1>2. req[h].exercise \in Exercise
  BY <1>1, RequestType DEF Formed
<1>3. PICK f \in Listings(S) :
          req' = [req EXCEPT ![h].pc = "next", ![h].rows = Markers(<<req[h].exercise>> \o f)]
  BY DEF ListByParent
<1> DEFINE rows == Markers(<<req[h].exercise>> \o f)
           r == [req[h] EXCEPT !.pc = "next", !.rows = rows]
<1>4. S \in SUBSET Sentence /\ \A s \in S : Parent[s] = req[h].exercise
  OBVIOUS
<1>5. req' = [req EXCEPT ![h] = r]
  BY <1>3 DEF TypeOK, TypeInvariant
<1> HIDE DEF S
<1>6. rows \in Seq(Mark)
  BY <1>2, <1>4, ResetRows
<1>7. r \in Request
  <2> HIDE DEF rows
  <2> QED BY <1>1, <1>6, StepTypes
<1>8. Formed(r)
  BY <1>1, <1>4, FormedSteps
<1> QED BY <1>5, <1>7, <1>8 DEF S

LEMMA StampStep ==
    ASSUME TypeOK, NEW h \in Handler, Stamp(h)
    PROVE  LET r == [req[h] EXCEPT !.pc = "insert", !.at = now]
           IN  r \in Request /\ Formed(r) /\ req' = [req EXCEPT ![h] = r]
<1>1. req[h] \in Request /\ Formed(req[h]) /\ now \in Nat
  BY DEF TypeOK, TypeInvariant
<1>2. req[h].pc = "next" /\ req[h].done < Len(req[h].rows)
  BY DEF Stamp
<1>3. req' = [req EXCEPT ![h] = [req[h] EXCEPT !.pc = "insert", !.at = now]]
  BY DEF Stamp, TypeOK, TypeInvariant
<1> QED BY <1>1, <1>2, <1>3, StepTypes, FormedSteps

\* The row an INSERT writes, and the request after it.
LEMMA InsertStep ==
    ASSUME TypeOK, NEW h \in Handler, req[h].pc = "insert"
    PROVE  LET row == req[h].rows[req[h].done + 1]
               r == [req[h] EXCEPT !.pc = "next", !.done = @ + 1]
           IN  /\ req[h].done + 1 \in 1 .. Len(req[h].rows)
               /\ row \in Mark /\ row.item \in Item /\ row.entry \in Entry /\ row.item \in req[h].touches
               /\ r \in Request /\ Formed(r)
               /\ [req EXCEPT ![h].pc = "next", ![h].done = @ + 1] = [req EXCEPT ![h] = r]
<1>1. req[h] \in Request /\ Formed(req[h])
  BY DEF TypeOK, TypeInvariant
<1>2. req[h].done + 1 \in 1 .. Len(req[h].rows)
  BY <1>1, RequestType DEF Formed
<1>3. /\ req[h].rows[req[h].done + 1] \in Mark
      /\ req[h].rows[req[h].done + 1].item \in Item
      /\ req[h].rows[req[h].done + 1].entry \in Entry
      /\ req[h].rows[req[h].done + 1].item \in req[h].touches
  BY <1>1, <1>2, RowType DEF Formed
<1>4. [req EXCEPT ![h].pc = "next", ![h].done = @ + 1]
         = [req EXCEPT ![h] = [req[h] EXCEPT !.pc = "next", !.done = @ + 1]]
  BY DEF TypeOK, TypeInvariant
<1> QED BY <1>1, <1>2, <1>3, <1>4, StepTypes, FormedSteps

\* What a batch that is written asked last for an item of its own.
LEMMA LastRow ==
    ASSUME NEW r \in Request, Formed(r), r.done = Len(r.rows), r.exercise = None,
           NEW i \in r.touches
    PROVE  \E m \in 1 .. r.done :
              Last(r.rows, r.done, m) /\ r.rows[m].item = i /\ LastAsked(r.rows, i) = r.rows[m].entry
<1>1. PICK k \in 1 .. Len(r.rows) : r.rows[k].item = i
  BY DEF Formed
<1>2. PICK m \in 1 .. r.done : Last(r.rows, r.done, m) /\ r.rows[m].item = i
  BY <1>1 DEF Formed
<1>3. DOMAIN r.rows = 1 .. r.done /\ r.done \in Nat
  BY RequestType
<1> DEFINE top == CHOOSE n \in DOMAIN r.rows :
                    /\ r.rows[n].item = i
                    /\ \A l \in DOMAIN r.rows : r.rows[l].item = i => l <= n
<1>4. top \in DOMAIN r.rows /\ r.rows[top].item = i /\ \A l \in DOMAIN r.rows : r.rows[l].item = i => l <= top
  BY <1>2, <1>3 DEF Last
<1>5. LastAsked(r.rows, i) = r.rows[top].entry
  BY DEF LastAsked
<1> HIDE DEF top
<1>6. top = m
  BY <1>2, <1>3, <1>4 DEF Last
<1> QED BY <1>2, <1>5, <1>6

LEMMA TypeStep == TypeOK /\ [Next]_vars => TypeOK'
<1> SUFFICES ASSUME TypeOK, [Next]_vars PROVE TypeOK'
  OBVIOUS
<1>1. ASSUME NEW h \in Handler, NEW rows \in Batches, Record(h, rows) PROVE TypeOK'
  BY <1>1, RecordBegins, RequestsType, FormedBegin, BeginNews, BeginType
<1>2. ASSUME NEW h \in Handler, NEW e \in Exercise, Reset(h, e) PROVE TypeOK'
  BY <1>2, ResetBegins, RequestsType, FormedBegin, BeginNews, BeginType
<1>3. ASSUME NEW h \in Handler, ListByParent(h) PROVE TypeOK'
  <2>1. PICK r \in Request : Formed(r) /\ req' = [req EXCEPT ![h] = r]
    BY <1>3, ListStep
  <2>2. UNCHANGED <<live, gone, events, now, owed>>
    BY <1>3 DEF ListByParent
  <2> QED BY <2>1, <2>2, OneRequest DEF TypeOK, TypeInvariant
<1>4. ASSUME NEW h \in Handler, Stamp(h) PROVE TypeOK'
  <2>1. PICK r \in Request : Formed(r) /\ req' = [req EXCEPT ![h] = r]
    BY <1>4, StampStep
  <2>2. UNCHANGED <<live, gone, events, now, owed>>
    BY <1>4 DEF Stamp
  <2> QED BY <2>1, <2>2, OneRequest DEF TypeOK, TypeInvariant
<1>5. ASSUME NEW h \in Handler, Insert(h) PROVE TypeOK'
  <2> DEFINE row == req[h].rows[req[h].done + 1]
             r == [req[h] EXCEPT !.pc = "next", !.done = @ + 1]
             event == [item |-> row.item, entry |-> row.entry, at |-> req[h].at]
  <2>1. req[h].pc = "insert" /\ UNCHANGED <<live, gone, owed>>
    BY <1>5 DEF Insert
  <2>2. /\ row.item \in Item /\ row.entry \in Entry /\ r \in Request /\ Formed(r)
        /\ [req EXCEPT ![h].pc = "next", ![h].done = @ + 1] = [req EXCEPT ![h] = r]
    BY <2>1, InsertStep
  <2>3. CASE row.item \in live
    <3>1. /\ events' = events \cup {event}
          /\ now' = IF req[h].at = now THEN now + 1 ELSE now
          /\ req' = [req EXCEPT ![h].pc = "next", ![h].done = @ + 1]
      BY <1>5, <2>3 DEF Insert
    <3> HIDE DEF row
    <3>2. event \in Event /\ event.item \in live
      BY <2>2, <2>3 DEF Event, TypeOK, TypeInvariant, Request
    <3> HIDE DEF r, event
    <3>3. req' = [req EXCEPT ![h] = r]
      BY <2>2, <3>1
    <3>4. req' \in [Handler -> Request] /\ \A g \in Handler : Formed(req'[g])
      BY <2>2, <3>3, OneRequest
    <3> QED BY <2>1, <3>1, <3>2, <3>4 DEF TypeOK, TypeInvariant
  <2>4. CASE row.item \notin live
    <3>1. req' = [req EXCEPT ![h] = Idle] /\ UNCHANGED <<events, now>>
      BY <1>5, <2>4 DEF Insert
    <3> QED BY <2>1, <3>1, OneRequest, IdleType, FormedIdle DEF TypeOK, TypeInvariant
  <2> QED BY <2>3, <2>4
<1>6. ASSUME NEW h \in Handler, Reply(h) PROVE TypeOK'
  <2> DEFINE r == req[h]
  <2>1. r \in Request /\ Formed(r)
    BY DEF TypeOK, TypeInvariant
  <2>2. /\ r.done = Len(r.rows) /\ req' = [req EXCEPT ![h] = Idle]
        /\ owed' = [i \in Item |->
              IF i \notin r.alone THEN owed[i]
              ELSE IF r.exercise # None THEN {Blank} ELSE {LastAsked(r.rows, i)}]
        /\ UNCHANGED <<live, gone, events, now>>
    BY <1>6 DEF Reply
  <2>3. ASSUME NEW i \in r.alone, r.exercise = None PROVE LastAsked(r.rows, i) \in Entry
    <3>1. i \in r.touches BY <2>1 DEF Formed
    <3>2. PICK m \in 1 .. r.done : LastAsked(r.rows, i) = r.rows[m].entry
      BY <2>1, <2>2, <2>3, <3>1, LastRow
    <3> QED BY <2>1, <2>2, <3>2, RowType
  <2> HIDE DEF r
  <2>4. owed' \in [Item -> SUBSET Entry]
    BY <2>2, <2>3 DEF TypeOK, TypeInvariant, Entry
  <2> QED BY <2>2, <2>4, OneRequest, IdleType, FormedIdle DEF TypeOK, TypeInvariant
<1>7. ASSUME NEW h \in Handler, Abort(h) PROVE TypeOK'
  <2>1. req' = [req EXCEPT ![h] = Idle] /\ UNCHANGED <<live, gone, events, now, owed>>
    BY <1>7 DEF Abort
  <2> QED BY <2>1, OneRequest, IdleType, FormedIdle DEF TypeOK, TypeInvariant
<1>8. ASSUME NEW i \in Item, DeleteItem(i) PROVE TypeOK'
  <2> DEFINE lost == IF i \in Exercise THEN Family(i) ELSE {i}
  <2>1. /\ live' = live \ lost /\ gone' = gone \cup (lost \cap live)
        /\ events' = {e \in events : e.item \notin lost} /\ UNCHANGED <<now, req, owed>>
    BY <1>8 DEF DeleteItem
  <2>2. \A s \in live' \cap Sentence : Parent[s] \in live'
    <3> TAKE s \in live' \cap Sentence
    <3>1. s \in live \ lost /\ Parent[s] \in live /\ Parent[s] \in Exercise
      BY <2>1, WorksheetsAssumption DEF TypeOK, TypeInvariant
    <3>2. Parent[s] # i
      BY <3>1 DEF Family
    <3>3. Parent[s] \notin lost
      BY <3>1, <3>2, WorksheetsAssumption DEF Family
    <3> QED BY <2>1, <3>1, <3>3
  <2> HIDE DEF lost
  <2>3. TypeInvariant'
    BY <2>1, <2>2 DEF TypeOK, TypeInvariant
  <2> QED BY <2>1, <2>3 DEF TypeOK
<1>9. ASSUME NEW i \in Item, AddItem(i) PROVE TypeOK'
  BY <1>9 DEF AddItem, TypeOK, TypeInvariant
<1>10. CASE UNCHANGED vars
  BY <1>10 DEF vars, TypeOK, TypeInvariant
<1> QED BY <1>1, <1>2, <1>3, <1>4, <1>5, <1>6, <1>7, <1>8, <1>9, <1>10 DEF Next, Serve

LEMMA TypeInit == Init => TypeOK
BY IdleType, FormedIdle DEF Init, TypeOK, TypeInvariant, Item, Entry

\* Rows, requests and the clock have their types, a row of the log belongs to a
\* published item, and a published sentence to a published exercise.
THEOREM TypeCorrect == Spec => []TypeInvariant
<1>1. TypeOK => TypeInvariant BY DEF TypeOK
<1> QED BY <1>1, TypeInit, TypeStep, PTL DEF Spec

-----------------------------------------------------------------------------
(* What is found on a worksheet *)

\* Rows are stamped with times that are over when the INSERT ends.
Clock ==
    /\ \A e \in events : e.at < now
    /\ \A h \in Handler : req[h].pc = "insert" => req[h].at <= now

\* What a request is alone on, no other request is about.
Alone == \A g, h \in Handler : g # h => req[g].alone \cap req[h].touches = {}

\* The entries a request writes may be found.
Expected ==
    \A h \in Handler :
        /\ \A k \in 1 .. Len(req[h].rows) : req[h].rows[k].entry \in owed[req[h].rows[k].item]
        /\ req[h].exercise # None => \A i \in req[h].touches : Blank \in owed[i]

\* Rows are written for items that have been published; of the others nothing is owed.
Published ==
    /\ \A h \in Handler : \A k \in 1 .. req[h].done : req[h].rows[k].item \in live \cup gone
    /\ \A i \in Item \ (live \cup gone) : Blank \in owed[i]

\* What a reset did not list has no row.
Listed ==
    \A h \in Handler : req[h].pc \in {"next", "insert"} /\ req[h].exercise # None =>
        \A i \in req[h].alone \cap live :
            (\A k \in 1 .. Len(req[h].rows) : req[h].rows[k].item # i) => EventsOf(i) = {}

\* Of an item a request is alone on, the last row it wrote is found.
Found ==
    \A h \in Handler : \A i \in req[h].alone \cap live : \A m \in 1 .. req[h].done :
        Last(req[h].rows, req[h].done, m) /\ req[h].rows[m].item = i =>
            Worksheet(i) \subseteq {req[h].rows[m].entry}

\* A row of an item a request is alone on is stamped later than all there are.
Newest ==
    \A h \in Handler : req[h].pc = "insert" =>
        LET i == req[h].rows[req[h].done + 1].item
        IN  i \in req[h].alone => \A e \in EventsOf(i) : e.at < req[h].at

SheetInv == TypeOK /\ Clock /\ Alone /\ Expected /\ Published /\ Listed /\ Found /\ Newest /\ SheetKept

\* What an item shows depends on its rows alone.
LEMMA SameRows ==
    ASSUME NEW i, EventsOf(i)' = EventsOf(i)
    PROVE  Worksheet(i)' = Worksheet(i)
BY DEF Worksheet, Latest

\* What a row changes.
LEMMA RowAdded ==
    ASSUME NEW e \in Event, events \subseteq Event, events' = events \cup {e}
    PROVE  /\ \A i : i # e.item => EventsOf(i)' = EventsOf(i)
           /\ Worksheet(e.item)' \subseteq Worksheet(e.item) \cup {e.entry}
           /\ (\A f \in EventsOf(e.item) : f.at < e.at) => Worksheet(e.item)' = {e.entry}
<1>1. \A i : i # e.item => EventsOf(i)' = EventsOf(i)
  BY DEF EventsOf
<1>2. EventsOf(e.item)' = EventsOf(e.item) \cup {e} /\ EventsOf(e.item)' # {}
  BY DEF EventsOf
<1>3. Worksheet(e.item)' = {f.entry : f \in Latest(e.item)'}
  BY <1>2 DEF Worksheet
<1>4. \A f \in Latest(e.item)' : f = e \/ f \in Latest(e.item)
  BY <1>2 DEF Latest
<1>5. EventsOf(e.item) # {} => Worksheet(e.item) = {f.entry : f \in Latest(e.item)}
  BY DEF Worksheet
<1>6. Latest(e.item) \subseteq EventsOf(e.item)
  BY DEF Latest
<1>7. Worksheet(e.item)' \subseteq Worksheet(e.item) \cup {e.entry}
  <2>1. CASE EventsOf(e.item) = {}
    <3>1. \A f \in Latest(e.item)' : f = e BY <2>1, <1>4, <1>6
    <3> QED BY <3>1, <1>3
  <2>2. CASE EventsOf(e.item) # {} BY <2>2, <1>3, <1>4, <1>5
  <2> QED BY <2>1, <2>2
<1>8. ASSUME \A f \in EventsOf(e.item) : f.at < e.at PROVE Worksheet(e.item)' = {e.entry}
  <2>1. \A f \in EventsOf(e.item) : f \in Event BY DEF EventsOf
  <2>2. e.at \in Nat /\ \A f \in EventsOf(e.item) : f.at \in Nat BY <2>1 DEF Event
  <2>3. Latest(e.item)' = {e} BY <1>2, <1>8, <2>2 DEF Latest
  <2> QED BY <1>3, <2>3
<1> QED BY <1>1, <1>7, <1>8

\* A request begins: nothing is written yet, and it shares no item with those that
\* are alone on it.
LEMMA BeginStep ==
    ASSUME SheetInv, NEW h \in Handler, NEW r \in Request, Formed(r),
           NEW news \in [Item -> SUBSET Entry], Begin(h, r, news),
           r.done = 0, r.pc \in {"list", "next"}, r.exercise # None => r.pc = "list",
           \A k \in 1 .. Len(r.rows) : r.rows[k].entry \in news[r.rows[k].item],
           r.exercise # None => \A i \in r.touches : Blank \in news[i]
    PROVE  SheetInv'
<1> DEFINE others == UNION {req[g].touches : g \in Handler \ {h}}
<1>1. /\ req' = [g \in Handler |-> IF g = h THEN [r EXCEPT !.alone = r.touches \ others]
                                   ELSE [req[g] EXCEPT !.alone = @ \ r.touches]]
      /\ owed' = [i \in Item |-> IF i \in r.touches THEN owed[i] \cup news[i] ELSE owed[i]]
      /\ UNCHANGED <<live, gone, events, now>>
  BY DEF Begin
<1>2. TypeOK /\ TypeOK'
  BY BeginType DEF SheetInv
<1>3. \A g \in Handler : g # h => req[g].touches \cap (r.touches \ others) = {}
  OBVIOUS
<1> HIDE DEF others
<1>4. /\ req'[h].pc = r.pc /\ req'[h].exercise = r.exercise /\ req'[h].rows = r.rows
      /\ req'[h].done = 0 /\ req'[h].at = r.at /\ req'[h].touches = r.touches
      /\ req'[h].alone = r.touches \ others
  BY <1>1 DEF Request
<1>5. ASSUME NEW g \in Handler, g # h
      PROVE  /\ req'[g].pc = req[g].pc /\ req'[g].exercise = req[g].exercise
             /\ req'[g].rows = req[g].rows /\ req'[g].done = req[g].done
             /\ req'[g].at = req[g].at /\ req'[g].touches = req[g].touches
             /\ req'[g].alone = req[g].alone \ r.touches
  <2>1. req[g] \in Request BY <1>2 DEF TypeOK, TypeInvariant
  <2>2. req'[g] = [req[g] EXCEPT !.alone = @ \ r.touches] BY <1>1, <1>5
  <2> QED BY <2>1, <2>2 DEF Request
<1>6. \A i \in Item : owed[i] \subseteq owed'[i] /\ (i \in r.touches => news[i] \subseteq owed'[i])
  BY <1>1
<1>7. \A i : EventsOf(i)' = EventsOf(i)
  BY <1>1 DEF EventsOf
<1>8. \A i : Worksheet(i)' = Worksheet(i)
  BY <1>7, SameRows
<1>9. \A g \in Handler : req[g] \in Request /\ Formed(req[g])
  BY <1>2 DEF TypeOK, TypeInvariant
<1>10. live \subseteq Item /\ live' = live /\ gone' = gone /\ events' = events /\ now' = now
  BY <1>1, <1>2 DEF TypeOK, TypeInvariant
<1>11. Clock'
  BY <1>4, <1>5, <1>10 DEF SheetInv, Clock
<1>12. Alone'
  BY <1>3, <1>4, <1>5 DEF SheetInv, Alone
<1>13. Expected'
  <2> SUFFICES ASSUME NEW g \in Handler
               PROVE  /\ \A k \in 1 .. Len(req'[g].rows) :
                            req'[g].rows[k].entry \in owed'[req'[g].rows[k].item]
                      /\ req'[g].exercise # None => \A i \in req'[g].touches : Blank \in owed'[i]
    BY DEF Expected
  <2>1. CASE g = h
    <3>1. \A k \in 1 .. Len(r.rows) : r.rows[k].item \in r.touches /\ r.rows[k].item \in Item
      BY RowType DEF Formed
    <3>2. r.touches \subseteq Item BY RequestType
    <3> QED BY <2>1, <1>4, <1>6, <3>1, <3>2
  <2>2. CASE g # h
    <3>1. \A k \in 1 .. Len(req[g].rows) : req[g].rows[k].item \in Item
      BY <1>9, RowType
    <3>2. req[g].touches \subseteq Item BY <1>9, RequestType
    <3> QED BY <2>2, <1>5, <1>6, <3>1, <3>2 DEF SheetInv, Expected
  <2> QED BY <2>1, <2>2
<1>14. Published'
  <2>1. \A g \in Handler : \A k \in 1 .. req'[g].done : req'[g].rows[k].item \in live \cup gone
    BY <1>4, <1>5 DEF SheetInv, Published
  <2>2. \A i \in Item \ (live \cup gone) : Blank \in owed'[i]
    BY <1>6 DEF SheetInv, Published
  <2> QED BY <2>1, <2>2, <1>10 DEF Published
<1>15. Listed'
  <2> SUFFICES ASSUME NEW g \in Handler, req'[g].pc \in {"next", "insert"}, req'[g].exercise # None,
                      NEW i \in req'[g].alone \cap live,
                      \A k \in 1 .. Len(req'[g].rows) : req'[g].rows[k].item # i
               PROVE  EventsOf(i) = {}
    BY <1>7, <1>10 DEF Listed
  <2>1. g # h BY <1>4
  <2> QED BY <2>1, <1>5 DEF SheetInv, Listed
<1>16. Found'
  <2> SUFFICES ASSUME NEW g \in Handler, NEW i \in req'[g].alone \cap live, NEW m \in 1 .. req'[g].done,
                      Last(req'[g].rows, req'[g].done, m), req'[g].rows[m].item = i
               PROVE  Worksheet(i) \subseteq {req'[g].rows[m].entry}
    BY <1>8, <1>10 DEF Found
  <2>1. g # h BY <1>4
  <2> QED BY <2>1, <1>5 DEF SheetInv, Found
<1>17. Newest'
  <2> SUFFICES ASSUME NEW g \in Handler, req'[g].pc = "insert",
                      req'[g].rows[req'[g].done + 1].item \in req'[g].alone
               PROVE  \A e \in EventsOf(req'[g].rows[req'[g].done + 1].item) : e.at < req'[g].at
    BY <1>7 DEF Newest
  <2>1. g # h BY <1>4
  <2> QED BY <2>1, <1>5 DEF SheetInv, Newest
<1>18. SheetKept'
  BY <1>6, <1>8, <1>10 DEF SheetInv, SheetKept
<1> QED BY <1>2, <1>11, <1>12, <1>13, <1>14, <1>15, <1>16, <1>17, <1>18 DEF SheetInv

LEMMA RecordStep ==
    ASSUME SheetInv, NEW h \in Handler, NEW rows \in Batches, Record(h, rows)
    PROVE  SheetInv'
<1> DEFINE r == RecordRequest(rows)
           news == [i \in Item |-> Asked(rows, i)]
<1>1. r \in Request /\ Formed(r) /\ news \in [Item -> SUBSET Entry] /\ Begin(h, r, news)
  BY RequestsType, FormedBegin, BeginNews, RecordBegins
<1>2. r.done = 0 /\ r.pc = "next" /\ r.exercise = None /\ r.rows = rows
  BY DEF RecordRequest, Idle
<1>3. \A k \in 1 .. Len(rows) : rows[k].entry \in news[rows[k].item]
  BY BatchRows DEF Asked
<1> HIDE DEF r, news
<1> QED BY <1>1, <1>2, <1>3, BeginStep

LEMMA ResetStep ==
    ASSUME SheetInv, NEW h \in Handler, NEW e \in Exercise, Reset(h, e)
    PROVE  SheetInv'
<1> DEFINE r == ResetRequest(e)
           news == [i \in Item |-> {Blank}]
<1>1. r \in Request /\ Formed(r) /\ news \in [Item -> SUBSET Entry] /\ Begin(h, r, news)
  BY RequestsType, FormedBegin, BeginNews, ResetBegins
<1>2. r.done = 0 /\ r.pc = "list" /\ r.rows = <<>>
  BY DEF ResetRequest, Idle
<1>3. \A i \in r.touches : Blank \in news[i]
  BY <1>1, RequestType
<1>4. \A k \in 1 .. Len(r.rows) : r.rows[k].entry \in news[r.rows[k].item]
  BY <1>2
<1> HIDE DEF r, news
<1> QED BY <1>1, <1>2, <1>3, <1>4, BeginStep

\* A request goes idle.
LEMMA IdleStep ==
    ASSUME SheetInv, TypeOK', NEW h \in Handler, req' = [req EXCEPT ![h] = Idle],
           UNCHANGED <<live, gone, events, now, owed>>
    PROVE  SheetInv'
<1>1. /\ req'[h] = Idle /\ \A g \in Handler : g # h => req'[g] = req[g]
  BY DEF SheetInv, TypeOK, TypeInvariant
<1>2. /\ req'[h].pc = "idle" /\ req'[h].exercise = None /\ Len(req'[h].rows) = 0
      /\ req'[h].done = 0 /\ req'[h].touches = {} /\ req'[h].alone = {}
  BY <1>1 DEF Idle
<1>3. \A i : EventsOf(i)' = EventsOf(i)
  BY DEF EventsOf
<1>4. \A i : Worksheet(i)' = Worksheet(i)
  BY <1>3, SameRows
<1>5. Clock' BY <1>1, <1>2 DEF SheetInv, Clock
<1>6. Alone' BY <1>1, <1>2 DEF SheetInv, Alone
<1>7. Expected' BY <1>1, <1>2 DEF SheetInv, Expected
<1>8. Published' BY <1>1, <1>2 DEF SheetInv, Published
<1>9. Listed' BY <1>1, <1>2, <1>3 DEF SheetInv, Listed
<1>10. Found' BY <1>1, <1>2, <1>4 DEF SheetInv, Found
<1>11. Newest' BY <1>1, <1>2, <1>3 DEF SheetInv, Newest
<1>12. SheetKept' BY <1>4 DEF SheetInv, SheetKept
<1> QED BY <1>5, <1>6, <1>7, <1>8, <1>9, <1>10, <1>11, <1>12 DEF SheetInv

\* ListByParent: whatever is published of the exercise is listed.
LEMMA ListedStep ==
    ASSUME SheetInv, TypeOK', NEW h \in Handler, ListByParent(h)
    PROVE  SheetInv'
<1> DEFINE S == {s \in live \cap Sentence : Parent[s] = req[h].exercise}
<1>1. req[h] \in Request /\ Formed(req[h]) /\ req[h].pc = "list"
  BY DEF ListByParent, SheetInv, TypeOK, TypeInvariant
<1>2. /\ req[h].exercise \in Exercise /\ req[h].exercise # None /\ req[h].done = 0
      /\ req[h].touches = Family(req[h].exercise)
  BY <1>1, RequestType DEF Formed
<1>3. PICK f \in Listings(S) :
          req' = [req EXCEPT ![h].pc = "next", ![h].rows = Markers(<<req[h].exercise>> \o f)]
  BY DEF ListByParent
<1>4. UNCHANGED <<live, gone, events, now, owed>>
  BY DEF ListByParent
<1> DEFINE rows == Markers(<<req[h].exercise>> \o f)
<1>5. S \in SUBSET Sentence
  OBVIOUS
<1>6. Family(req[h].exercise) \cap live \subseteq {req[h].exercise} \cup S
  BY DEF Family
<1> HIDE DEF S
<1>7. /\ \A k \in 1 .. Len(rows) : rows[k].entry = Blank
      /\ \A i \in {req[h].exercise} \cup S : \E k \in 1 .. Len(rows) : rows[k].item = i
  BY <1>2, <1>5, ResetRows
<1> HIDE DEF rows
<1>8. \A g \in Handler : g # h => req'[g] = req[g]
  BY <1>3 DEF SheetInv, TypeOK, TypeInvariant
<1>9. /\ req'[h].pc = "next" /\ req'[h].rows = rows /\ req'[h].exercise = req[h].exercise
      /\ req'[h].done = 0 /\ req'[h].touches = req[h].touches /\ req'[h].alone = req[h].alone
  <2>1. req'[h] = [req[h] EXCEPT !.pc = "next", !.rows = rows]
    BY <1>3 DEF rows, SheetInv, TypeOK, TypeInvariant
  <2> QED BY <1>1, <1>2, <2>1 DEF Request
<1>10. \A i : EventsOf(i)' = EventsOf(i)
  BY <1>4 DEF EventsOf
<1>11. \A i : Worksheet(i)' = Worksheet(i)
  BY <1>10, SameRows
<1>12. Formed(req'[h]) BY DEF TypeOK
<1>13. Clock' BY <1>4, <1>8, <1>9 DEF SheetInv, Clock
<1>14. Alone' BY <1>8, <1>9 DEF SheetInv, Alone
<1>15. Expected'
  <2>1. \A k \in 1 .. Len(rows) : rows[k].item \in req[h].touches
    BY <1>9, <1>12 DEF Formed
  <2>2. \A k \in 1 .. Len(rows) : rows[k].entry \in owed[rows[k].item]
    BY <2>1, <1>2, <1>7 DEF SheetInv, Expected
  <2> QED BY <2>2, <1>4, <1>8, <1>9 DEF SheetInv, Expected
<1>16. Published' BY <1>4, <1>8, <1>9 DEF SheetInv, Published
<1>17. Listed'
  <2> SUFFICES ASSUME NEW g \in Handler, req'[g].pc \in {"next", "insert"}, req'[g].exercise # None,
                      NEW i \in req'[g].alone \cap live,
                      \A k \in 1 .. Len(req'[g].rows) : req'[g].rows[k].item # i
               PROVE  EventsOf(i) = {}
    BY <1>4, <1>10 DEF Listed
  <2>1. CASE g = h
    <3>1. i \in req[h].touches BY <2>1, <1>1, <1>9 DEF Formed
    <3>2. i \in {req[h].exercise} \cup S BY <3>1, <1>2, <1>6
    <3> QED BY <2>1, <3>2, <1>7, <1>9
  <2>2. CASE g # h BY <2>2, <1>8 DEF SheetInv, Listed
  <2> QED BY <2>1, <2>2
<1>18. Found' BY <1>4, <1>8, <1>9, <1>11 DEF SheetInv, Found
<1>19. Newest' BY <1>8, <1>9, <1>10 DEF SheetInv, Newest
<1>20. SheetKept' BY <1>4, <1>11 DEF SheetInv, SheetKept
<1> QED BY <1>13, <1>14, <1>15, <1>16, <1>17, <1>18, <1>19, <1>20 DEF SheetInv

\* An INSERT begins: every row there is was stamped before.
LEMMA StampedStep ==
    ASSUME SheetInv, TypeOK', NEW h \in Handler, Stamp(h)
    PROVE  SheetInv'
<1>1. req[h] \in Request /\ Formed(req[h]) /\ req[h].pc = "next" /\ now \in Nat
  BY DEF Stamp, SheetInv, TypeOK, TypeInvariant
<1>2. /\ \A g \in Handler : g # h => req'[g] = req[g]
      /\ UNCHANGED <<live, gone, events, now, owed>>
  BY DEF Stamp, SheetInv, TypeOK, TypeInvariant
<1>3. /\ req'[h].pc = "insert" /\ req'[h].at = now /\ req'[h].rows = req[h].rows
      /\ req'[h].exercise = req[h].exercise /\ req'[h].done = req[h].done
      /\ req'[h].touches = req[h].touches /\ req'[h].alone = req[h].alone
  <2>1. req'[h] = [req[h] EXCEPT !.pc = "insert", !.at = now]
    BY DEF Stamp, SheetInv, TypeOK, TypeInvariant
  <2> QED BY <1>1, <2>1 DEF Request
<1>4. \A i : EventsOf(i)' = EventsOf(i)
  BY <1>2 DEF EventsOf
<1>5. \A i : Worksheet(i)' = Worksheet(i)
  BY <1>4, SameRows
<1>6. Clock' BY <1>1, <1>2, <1>3 DEF SheetInv, Clock
<1>7. Alone' BY <1>2, <1>3 DEF SheetInv, Alone
<1>8. Expected' BY <1>2, <1>3 DEF SheetInv, Expected
<1>9. Published' BY <1>2, <1>3 DEF SheetInv, Published
<1>10. Listed' BY <1>1, <1>2, <1>3, <1>4 DEF SheetInv, Listed
<1>11. Found' BY <1>2, <1>3, <1>5 DEF SheetInv, Found
<1>12. Newest'
  <2>1. \A i : \A e \in EventsOf(i) : e.at < now BY DEF EventsOf, SheetInv, Clock
  <2> QED BY <2>1, <1>2, <1>3, <1>4 DEF SheetInv, Newest
<1>13. SheetKept' BY <1>2, <1>5 DEF SheetInv, SheetKept
<1> QED BY <1>6, <1>7, <1>8, <1>9, <1>10, <1>11, <1>12, <1>13 DEF SheetInv

\* An INSERT ends: alone on the item, it decides what is found there.
LEMMA InsertedStep ==
    ASSUME SheetInv, TypeOK', NEW h \in Handler, Insert(h)
    PROVE  SheetInv'
<1>1. req[h] \in Request /\ Formed(req[h]) /\ req[h].pc = "insert" /\ now \in Nat /\ events \subseteq Event
  BY DEF Insert, SheetInv, TypeOK, TypeInvariant
<1>2. PICK row \in Mark :
        /\ row = req[h].rows[req[h].done + 1] /\ req[h].done + 1 \in 1 .. Len(req[h].rows)
        /\ row.item \in Item /\ row.entry \in Entry /\ row.item \in req[h].touches
  BY <1>1, InsertStep DEF SheetInv
<1>5. req[h].done \in Nat /\ req[h].at \in Nat
  BY <1>1, RequestType
<1>6. PICK e \in Event : e.item = row.item /\ e.entry = row.entry /\ e.at = req[h].at
                         /\ e = [item |-> row.item, entry |-> row.entry, at |-> req[h].at]
  <2>1. [item |-> row.item, entry |-> row.entry, at |-> req[h].at] \in Event
    BY <1>2, <1>5 DEF Event
  <2> QED BY <2>1
<1>3. CASE row.item \notin live
  <2>1. req' = [req EXCEPT ![h] = Idle] /\ UNCHANGED <<live, gone, events, now, owed>>
    BY <1>2, <1>3 DEF Insert
  <2> QED BY <2>1, IdleStep
<1>4. CASE row.item \in live
  <2>1. /\ events' = events \cup {e} /\ now' = IF req[h].at = now THEN now + 1 ELSE now
        /\ UNCHANGED <<live, gone, owed>>
    BY <1>2, <1>4, <1>6 DEF Insert
  <2>2. \A g \in Handler : g # h => req'[g] = req[g]
    BY <1>2, <1>4 DEF Insert, SheetInv, TypeOK, TypeInvariant
  <2>3. /\ req'[h].pc = "next" /\ req'[h].rows = req[h].rows /\ req'[h].at = req[h].at
        /\ req'[h].exercise = req[h].exercise /\ req'[h].done = req[h].done + 1
        /\ req'[h].touches = req[h].touches /\ req'[h].alone = req[h].alone
    <3>1. req'[h] = [req[h] EXCEPT !.pc = "next", !.done = @ + 1]
      BY <1>2, <1>4 DEF Insert, SheetInv, TypeOK, TypeInvariant
    <3> QED BY <1>1, <3>1 DEF Request
  <2>5. /\ \A i : i # row.item => EventsOf(i)' = EventsOf(i)
        /\ Worksheet(row.item)' \subseteq Worksheet(row.item) \cup {row.entry}
        /\ (\A f \in EventsOf(row.item) : f.at < req[h].at) => Worksheet(row.item)' = {row.entry}
    BY <1>1, <1>6, <2>1, RowAdded
  <2>6. \A i : i # row.item => Worksheet(i)' = Worksheet(i)
    BY <2>5, SameRows
  <2>7. \A g \in Handler : g # h => row.item \notin req[g].alone
    BY <1>2 DEF SheetInv, Alone
  <2>8. Clock'
    <3>1. req[h].at <= now BY <1>1 DEF SheetInv, Clock
    <3>2. req[h].at < now' /\ now <= now' /\ now' \in Nat BY <3>1, <1>1, <1>5, <2>1
    <3>3. \A f \in events : f.at < now /\ f.at \in Nat BY <1>1 DEF SheetInv, Clock, Event
    <3>4. \A f \in events' : f.at < now' BY <3>2, <3>3, <1>1, <1>5, <1>6, <2>1
    <3>5. ASSUME NEW g \in Handler, req'[g].pc = "insert" PROVE req'[g].at <= now'
      <4>1. g # h /\ req'[g] = req[g] BY <3>5, <2>2, <2>3
      <4>2. req[g].at <= now /\ req[g].at \in Nat
        BY <3>5, <4>1, RequestType DEF SheetInv, Clock, TypeOK, TypeInvariant
      <4> QED BY <4>1, <4>2, <3>2, <1>1
    <3> QED BY <3>4, <3>5 DEF Clock
  <2>9. Alone' BY <2>2, <2>3 DEF SheetInv, Alone
  <2>10. Expected' BY <2>1, <2>2, <2>3 DEF SheetInv, Expected
  <2>11. Published'
    <3>1. \A k \in 1 .. req'[h].done : req'[h].rows[k].item \in live \cup gone
      <4> TAKE k \in 1 .. req'[h].done
      <4>1. CASE k \in 1 .. req[h].done BY <4>1, <2>3 DEF SheetInv, Published
      <4>2. CASE k = req[h].done + 1 BY <4>2, <1>2, <2>3, <1>4
      <4> QED BY <4>1, <4>2, <2>3, <1>5
    <3> QED BY <3>1, <2>1, <2>2 DEF SheetInv, Published
  <2>12. Listed'
    <3> SUFFICES ASSUME NEW g \in Handler, req'[g].pc \in {"next", "insert"}, req'[g].exercise # None,
                        NEW i \in req'[g].alone \cap live,
                        \A k \in 1 .. Len(req'[g].rows) : req'[g].rows[k].item # i
                 PROVE  EventsOf(i)' = {}
      BY <2>1 DEF Listed
    <3>1. i # row.item
      BY <1>2, <2>2, <2>3, <2>7
    <3>2. EventsOf(i) = {}
      BY <1>1, <2>2, <2>3 DEF SheetInv, Listed
    <3> QED BY <3>1, <3>2, <2>5
  <2>13. Found'
    <3> SUFFICES ASSUME NEW g \in Handler, NEW i \in req'[g].alone \cap live, NEW m \in 1 .. req'[g].done,
                        Last(req'[g].rows, req'[g].done, m), req'[g].rows[m].item = i
                 PROVE  Worksheet(i)' \subseteq {req'[g].rows[m].entry}
      BY <2>1 DEF Found
    <3>1. CASE g # h
      <4>1. req'[g] = req[g] /\ i # row.item BY <3>1, <2>2, <2>7
      <4>2. Worksheet(i) \subseteq {req[g].rows[m].entry} BY <4>1 DEF SheetInv, Found
      <4> QED BY <4>1, <4>2, <2>6
    <3>2. CASE g = h /\ i = row.item
      <4>1. req[h].done + 1 <= m /\ m <= req[h].done + 1
        BY <3>2, <1>2, <1>5, <2>3 DEF Last
      <4>2. m = req[h].done + 1 BY <4>1, <1>5, <2>3
      <4>3. \A f \in EventsOf(row.item) : f.at < req[h].at
        BY <3>2, <1>1, <1>2, <2>3 DEF SheetInv, Newest
      <4> QED BY <3>2, <4>2, <4>3, <1>2, <2>3, <2>5
    <3>3. CASE g = h /\ i # row.item
      <4>1. m \in 1 .. req[h].done
        BY <3>3, <1>2, <1>5, <2>3
      <4>2. Last(req[h].rows, req[h].done, m) /\ req[h].rows[m].item = i
        BY <4>1, <3>3, <1>5, <2>3 DEF Last
      <4>3. Worksheet(i) \subseteq {req[h].rows[m].entry}
        BY <4>1, <4>2, <3>3, <2>3 DEF SheetInv, Found
      <4> QED BY <4>3, <3>3, <2>3, <2>6
    <3> QED BY <3>1, <3>2, <3>3
  <2>14. Newest'
    <3> SUFFICES ASSUME NEW g \in Handler, req'[g].pc = "insert",
                        NEW i, i = req'[g].rows[req'[g].done + 1].item, i \in req'[g].alone
                 PROVE  \A f \in events' : f.item = i => f.at < req'[g].at
      BY DEF Newest, EventsOf
    <3>1. g # h /\ req'[g] = req[g] BY <2>2, <2>3
    <3>2. i # row.item BY <3>1, <2>7
    <3>3. \A f \in events' : f.item = i => f \in events BY <3>2, <1>6, <2>1
    <3> QED BY <3>1, <3>3 DEF SheetInv, Newest, EventsOf
  <2>15. SheetKept'
    <3>1. row.entry \in owed[row.item] BY <1>1, <1>2 DEF SheetInv, Expected
    <3> QED BY <3>1, <1>4, <2>1, <2>5, <2>6 DEF SheetInv, SheetKept
  <2> QED BY <2>8, <2>9, <2>10, <2>11, <2>12, <2>13, <2>14, <2>15 DEF SheetInv
<1> QED BY <1>3, <1>4

\* The reply binds what the request was alone on.
LEMMA ReplyStep ==
    ASSUME SheetInv, TypeOK', NEW h \in Handler, Reply(h)
    PROVE  SheetInv'
<1>1. /\ req[h] \in Request /\ Formed(req[h]) /\ req[h].pc = "next" /\ req[h].done = Len(req[h].rows)
      /\ req[h].done \in Nat
  BY RequestType DEF Reply, SheetInv, TypeOK, TypeInvariant
<1>2. /\ UNCHANGED <<live, gone, events, now>> /\ req'[h] = Idle
      /\ \A g \in Handler : g # h => req'[g] = req[g]
  BY DEF Reply, SheetInv, TypeOK, TypeInvariant
<1>3. owed' = [i \in Item |->
          IF i \notin req[h].alone THEN owed[i]
          ELSE IF req[h].exercise # None THEN {Blank} ELSE {LastAsked(req[h].rows, i)}]
  BY DEF Reply
<1>4. /\ \A i \in Item \ req[h].alone : owed'[i] = owed[i]
      /\ \A i \in req[h].alone :
            owed'[i] = IF req[h].exercise # None THEN {Blank} ELSE {LastAsked(req[h].rows, i)}
  BY <1>1, <1>3, RequestType
<1>5. /\ req'[h].pc = "idle" /\ req'[h].exercise = None /\ Len(req'[h].rows) = 0
      /\ req'[h].done = 0 /\ req'[h].touches = {} /\ req'[h].alone = {}
  BY <1>2 DEF Idle
<1>6. \A i : EventsOf(i)' = EventsOf(i)
  BY <1>2 DEF EventsOf
<1>7. \A i : Worksheet(i)' = Worksheet(i)
  BY <1>6, SameRows
<1>8. req[h].alone \subseteq req[h].touches
  BY <1>1 DEF Formed
<1>9. Clock' BY <1>2, <1>5 DEF SheetInv, Clock
<1>10. Alone' BY <1>2, <1>5 DEF SheetInv, Alone
<1>11. Expected'
  <2> SUFFICES ASSUME NEW g \in Handler, g # h
               PROVE  /\ \A k \in 1 .. Len(req[g].rows) : req[g].rows[k].entry \in owed'[req[g].rows[k].item]
                      /\ req[g].exercise # None => \A i \in req[g].touches : Blank \in owed'[i]
    BY <1>2, <1>5 DEF Expected
  <2>1. req[g] \in Request /\ Formed(req[g]) /\ req[g].touches \subseteq Item
    BY RequestType DEF SheetInv, TypeOK, TypeInvariant
  <2>2. \A i \in req[g].touches : i \in Item \ req[h].alone
    BY <2>1 DEF SheetInv, Alone
  <2>3. \A k \in 1 .. Len(req[g].rows) : req[g].rows[k].item \in req[g].touches
    BY <2>1 DEF Formed
  <2> QED BY <2>2, <2>3, <1>4 DEF SheetInv, Expected
<1>12. Published'
  <2>1. ASSUME NEW i \in Item \ (live \cup gone) PROVE Blank \in owed'[i]
    <3>1. CASE i \notin req[h].alone BY <3>1, <1>4 DEF SheetInv, Published
    <3>2. CASE i \in req[h].alone /\ req[h].exercise # None BY <3>2, <1>4
    <3>3. CASE i \in req[h].alone /\ req[h].exercise = None
      <4>1. \E m \in 1 .. req[h].done : req[h].rows[m].item = i
        BY <3>3, <1>1, <1>8, LastRow
      <4> QED BY <4>1, <2>1 DEF SheetInv, Published
    <3> QED BY <3>1, <3>2, <3>3
  <2> QED BY <2>1, <1>2, <1>5 DEF SheetInv, Published
<1>13. Listed' BY <1>2, <1>5, <1>6 DEF SheetInv, Listed
<1>14. Found' BY <1>2, <1>5, <1>7 DEF SheetInv, Found
<1>15. Newest' BY <1>2, <1>5, <1>6 DEF SheetInv, Newest
<1>16. SheetKept'
  <2> SUFFICES ASSUME NEW i \in live PROVE Worksheet(i) \subseteq owed'[i]
    BY <1>2, <1>7 DEF SheetKept
  <2>1. i \in Item BY DEF SheetInv, TypeOK, TypeInvariant
  <2>2. CASE i \notin req[h].alone BY <2>1, <2>2, <1>4 DEF SheetInv, SheetKept
  <2>3. CASE i \in req[h].alone /\ req[h].exercise = None
    <3>1. PICK m \in 1 .. req[h].done :
             /\ Last(req[h].rows, req[h].done, m) /\ req[h].rows[m].item = i
             /\ LastAsked(req[h].rows, i) = req[h].rows[m].entry
      BY <2>3, <1>1, <1>8, LastRow
    <3>2. Worksheet(i) \subseteq {req[h].rows[m].entry}
      BY <2>3, <3>1 DEF SheetInv, Found
    <3> QED BY <2>3, <3>1, <3>2, <1>4
  <2>4. CASE i \in req[h].alone /\ req[h].exercise # None
    <3>1. CASE \A k \in 1 .. Len(req[h].rows) : req[h].rows[k].item # i
      <4>1. EventsOf(i) = {} BY <2>4, <3>1, <1>1 DEF SheetInv, Listed
      <4> QED BY <2>4, <4>1, <1>4 DEF Worksheet
    <3>2. CASE \E k \in 1 .. Len(req[h].rows) : req[h].rows[k].item = i
      <4>1. PICK m \in 1 .. req[h].done : Last(req[h].rows, req[h].done, m) /\ req[h].rows[m].item = i
        BY <3>2, <1>1 DEF Formed
      <4>2. Worksheet(i) \subseteq {req[h].rows[m].entry}
        BY <2>4, <4>1 DEF SheetInv, Found
      <4>3. req[h].rows[m].entry = Blank
        BY <2>4, <4>1, <1>1 DEF Formed
      <4> QED BY <2>4, <4>2, <4>3, <1>4
    <3> QED BY <3>1, <3>2
  <2> QED BY <2>2, <2>3, <2>4
<1> QED BY <1>9, <1>10, <1>11, <1>12, <1>13, <1>14, <1>15, <1>16 DEF SheetInv

\* An item is deleted: what remains keeps its rows.
LEMMA DeleteStep ==
    ASSUME SheetInv, TypeOK', NEW i \in Item, DeleteItem(i)
    PROVE  SheetInv'
<1>1. PICK lost : /\ live' = live \ lost /\ gone' = gone \cup (lost \cap live)
                  /\ events' = {e \in events : e.item \notin lost} /\ UNCHANGED <<now, req, owed>>
  BY DEF DeleteItem
<1>2. \A j \in live' : EventsOf(j)' = EventsOf(j)
  BY <1>1 DEF EventsOf
<1>3. \A j \in live' : Worksheet(j)' = Worksheet(j)
  BY <1>2, SameRows
<1>4. live' \subseteq live /\ live' \cup gone' = live \cup gone /\ events' \subseteq events
  BY <1>1
<1>5. Clock' BY <1>1, <1>4 DEF SheetInv, Clock
<1>6. Alone' BY <1>1 DEF SheetInv, Alone
<1>7. Expected' BY <1>1 DEF SheetInv, Expected
<1>8. Published' BY <1>1, <1>4 DEF SheetInv, Published
<1>9. Listed' BY <1>1, <1>2, <1>4 DEF SheetInv, Listed
<1>10. Found' BY <1>1, <1>3, <1>4 DEF SheetInv, Found
<1>11. Newest' BY <1>1, <1>4 DEF SheetInv, Newest, EventsOf
<1>12. SheetKept' BY <1>1, <1>3, <1>4 DEF SheetInv, SheetKept
<1> QED BY <1>5, <1>6, <1>7, <1>8, <1>9, <1>10, <1>11, <1>12 DEF SheetInv

\* An item is published: it has no row, and no request can have written one.
LEMMA AddStep ==
    ASSUME SheetInv, TypeOK', NEW i \in Item, AddItem(i)
    PROVE  SheetInv'
<1>1. i \notin live \cup gone /\ live' = live \cup {i} /\ UNCHANGED <<gone, events, now, req, owed>>
  BY DEF AddItem
<1>2. \A j : EventsOf(j)' = EventsOf(j)
  BY <1>1 DEF EventsOf
<1>3. \A j : Worksheet(j)' = Worksheet(j)
  BY <1>2, SameRows
<1>4. EventsOf(i) = {} /\ Worksheet(i) = {Blank}
  BY <1>1 DEF SheetInv, TypeOK, TypeInvariant, EventsOf, Worksheet
<1>5. Clock' BY <1>1 DEF SheetInv, Clock
<1>6. Alone' BY <1>1 DEF SheetInv, Alone
<1>7. Expected' BY <1>1 DEF SheetInv, Expected
<1>8. Published' BY <1>1 DEF SheetInv, Published
<1>9. Listed' BY <1>1, <1>2, <1>4 DEF SheetInv, Listed
<1>10. Found'
  <2>1. \A h \in Handler : \A m \in 1 .. req[h].done : req[h].rows[m].item # i
    BY <1>1 DEF SheetInv, Published
  <2> QED BY <2>1, <1>1, <1>3 DEF SheetInv, Found
<1>11. Newest' BY <1>1, <1>2 DEF SheetInv, Newest
<1>12. SheetKept' BY <1>1, <1>3, <1>4 DEF SheetInv, SheetKept, Published
<1> QED BY <1>5, <1>6, <1>7, <1>8, <1>9, <1>10, <1>11, <1>12 DEF SheetInv

LEMMA SheetInit == Init => SheetInv
<1> SUFFICES ASSUME Init PROVE SheetInv
  OBVIOUS
<1>1. TypeOK BY TypeInit
<1>2. /\ events = {} /\ gone = {} /\ \A i \in Item : owed[i] = {Blank}
      /\ \A h \in Handler : /\ req[h].pc = "idle" /\ req[h].exercise = None /\ Len(req[h].rows) = 0
                            /\ req[h].done = 0 /\ req[h].touches = {} /\ req[h].alone = {}
  BY DEF Init, Idle
<1>3. \A i : Worksheet(i) = {Blank}
  BY <1>2 DEF Worksheet, EventsOf
<1>4. live \subseteq Item BY <1>1 DEF TypeOK, TypeInvariant
<1>5. Clock /\ Alone /\ Expected BY <1>2 DEF Clock, Alone, Expected
<1>6. Published /\ Listed BY <1>2 DEF Published, Listed
<1>7. Found /\ Newest BY <1>2 DEF Found, Newest
<1>8. SheetKept BY <1>2, <1>3, <1>4 DEF SheetKept
<1> QED BY <1>1, <1>5, <1>6, <1>7, <1>8 DEF SheetInv

LEMMA SheetStep == SheetInv /\ [Next]_vars => SheetInv'
<1> SUFFICES ASSUME SheetInv, [Next]_vars PROVE SheetInv'
  OBVIOUS
<1>1. TypeOK' BY TypeStep DEF SheetInv
<1>2. ASSUME NEW h \in Handler, Serve(h) PROVE SheetInv'
  <2>1. CASE \E rows \in Batches : Record(h, rows) BY <2>1, RecordStep
  <2>2. CASE \E e \in Exercise : Reset(h, e) BY <2>2, ResetStep
  <2>3. CASE ListByParent(h) BY <2>3, <1>1, ListedStep
  <2>4. CASE Stamp(h) BY <2>4, <1>1, StampedStep
  <2>5. CASE Insert(h) BY <2>5, <1>1, InsertedStep
  <2>6. CASE Reply(h) BY <2>6, <1>1, ReplyStep
  <2>7. CASE Abort(h) BY <2>7, <1>1, IdleStep DEF Abort
  <2> QED BY <1>2, <2>1, <2>2, <2>3, <2>4, <2>5, <2>6, <2>7 DEF Serve
<1>3. ASSUME NEW i \in Item, DeleteItem(i) PROVE SheetInv'
  BY <1>1, <1>3, DeleteStep
<1>4. ASSUME NEW i \in Item, AddItem(i) PROVE SheetInv'
  BY <1>1, <1>4, AddStep
<1>5. CASE UNCHANGED vars
  <2>1. UNCHANGED <<live, gone, events, now, req, owed>> BY <1>5 DEF vars
  <2>2. \A i : EventsOf(i)' = EventsOf(i) BY <2>1 DEF EventsOf
  <2>3. \A i : Worksheet(i)' = Worksheet(i) BY <2>2, SameRows
  <2>4. Clock' /\ Alone' /\ Expected' /\ Published'
    BY <2>1 DEF SheetInv, Clock, Alone, Expected, Published
  <2>5. Listed' BY <2>1, <2>2 DEF SheetInv, Listed
  <2>6. Newest' BY <2>1, <2>2 DEF SheetInv, Newest
  <2>7. Found' BY <2>1, <2>3 DEF SheetInv, Found
  <2>8. SheetKept' BY <2>1, <2>3 DEF SheetInv, SheetKept
  <2> QED BY <1>1, <2>4, <2>5, <2>6, <2>7, <2>8 DEF SheetInv
<1> QED BY <1>2, <1>3, <1>4, <1>5 DEF Next

\* A published item shows one of the entries the user may find: after a batch that no
\* other request disturbed, the last answer given for it, after such a reset a blank.
THEOREM SheetKeptAlways == Spec => []SheetKept
<1>1. SheetInv => SheetKept BY DEF SheetInv
<1> QED BY <1>1, SheetInit, SheetStep, PTL DEF Spec
=============================================================================
