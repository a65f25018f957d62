--------------------------- MODULE ItemDraftsProofs ---------------------------
(***************************************************************************)
(* Proofs about ItemDrafts, for every number of editors, items and bodies. *)
(***************************************************************************)
EXTENDS ItemDrafts, WellFoundedInduction, TLAPS

-----------------------------------------------------------------------------
(* Helpers *)

\* A set of ranks has a greatest one.
LEMMA GreatestRank ==
  ASSUME NEW T \in SUBSET Rank, T # {}
  PROVE  \E r \in T : \A s \in T : s <= r
<1> DEFINE D == {n \in Nat : \E r \in T : n = MaxRank - r}
<1>1. D # {} /\ D \subseteq Nat
  <2>1. PICK r \in T : TRUE
    OBVIOUS
  <2>2. MaxRank - r \in Nat
    BY ConstantsAssumption DEF Rank
  <2> QED BY <2>1, <2>2
<1>2. PICK n \in D : \A m \in D : ~(<<m, n>> \in OpToRel(<, Nat))
  <2> HIDE DEF D
  <2> QED BY <1>1, NatLessThanWellFounded, WFMin
<1>3. PICK r \in T : n = MaxRank - r
  OBVIOUS
<1>4. ASSUME NEW s \in T PROVE s <= r
  <2>1. MaxRank - s \in D
    BY ConstantsAssumption DEF Rank
  <2>2. ~(MaxRank - s < n)
    BY <1>2, <2>1 DEF OpToRel
  <2> QED BY <1>3, <2>2, ConstantsAssumption DEF Rank
<1> QED BY <1>4

\* LastRank is a rank.
LEMMA LastRankType ==
  ASSUME NEW f \in Table, NEW p
  PROVE  LastRank(f, p) \in Rank
<1> DEFINE ranks == {f[i].rank : i \in {j \in Present(f) : f[j].parent = p}}
<1>1. ranks \subseteq Rank
  BY DEF Table, Item, Present
<1>2. CASE ranks = {}
  BY <1>2, ConstantsAssumption DEF LastRank, Rank
<1>3. CASE ranks # {}
  <2>1. \E r \in ranks : \A s \in ranks : s <= r
    <3> HIDE DEF ranks
    <3> QED BY <1>1, <1>3, GreatestRank
  <2>2. (CHOOSE r \in ranks : \A s \in ranks : s <= r) \in ranks
    <3> HIDE DEF ranks
    <3> QED BY <2>1
  <2> QED BY <1>1, <1>3, <2>2 DEF LastRank
<1> QED BY <1>2, <1>3

\* The idle request, and a request written into req, when the ids in `known` are out.
LEMMA IdleRequest == NoRequest \in Request /\ NoRows \in Staging /\ Present(NoRows) = {}
BY ConstantsAssumption DEF NoRequest, Request, PC, NoRows, Staging, Row, Rank, Present

RequestOK(r, known) ==
  /\ r.todo \subseteq known /\ Present(r.rows) \subseteq known
  /\ r.pc \in {"set", "remove", "mark"} => r.tgt \in known
  /\ r.pc = "set" => r.val \in Item

LEMMA SetRequest ==
  ASSUME TypeInvariant, used \subseteq used', NEW e \in Editor,
         NEW r \in Request, RequestOK(r, used'), Set(e, r)
  PROVE  req' \in [Editor -> Request] /\ RequestTypeOK'
<1>1. req \in [Editor -> Request]
  BY DEF TypeInvariant, TypeOK
<1>2. req' \in [Editor -> Request]
  BY <1>1 DEF Set
<1>3. \A a \in Editor : req'[a] = IF a = e THEN r ELSE req[a]
  BY <1>1 DEF Set
<1>4. \A a \in Editor : RequestOK(req[a], used')
  BY DEF TypeInvariant, RequestTypeOK, RequestOK
<1>5. \A a \in Editor : RequestOK(req'[a], used')
  BY <1>3, <1>4
<1> QED BY <1>2, <1>5 DEF RequestTypeOK, RequestOK, Present

LEMMA FinishRequest ==
  ASSUME TypeInvariant, used' = used, NEW e \in Editor, Finish(e)
  PROVE  req' \in [Editor -> Request] /\ RequestTypeOK'
<1>1. RequestOK(NoRequest, used')
  BY IdleRequest DEF RequestOK, NoRequest
<1> QED BY <1>1, IdleRequest, SetRequest DEF Finish

\* A row written into the staging table.
LEMMA StageRow ==
  ASSUME TypeInvariant, NEW i \in used, NEW r \in Row, draft' = [draft EXCEPT ![i] = r]
  PROVE  draft' \in Staging /\ Present(draft)' \subseteq used
<1>1. draft \in Staging /\ Present(draft) \subseteq used
  BY DEF TypeInvariant, TypeOK
<1>2. \A j \in ItemId : draft'[j] = IF j = i THEN r ELSE draft[j]
  BY <1>1 DEF Staging
<1>3. draft' \in Staging
  BY <1>1 DEF Staging
<1> QED BY <1>1, <1>2, <1>3 DEF Present

\* A staging table with nothing in it.
LEMMA EmptyDraft == draft' = NoRows => draft' \in Staging /\ Present(draft)' = {}
BY IdleRequest DEF Present, NoRows, Staging, Row

-----------------------------------------------------------------------------
(* Deleting items with what hangs below them *)

\* T holds the children of its members.
Closed(f, T) == \A i \in Present(f) : f[i].parent \in T => i \in T

\* The ids below S are the least such set that holds S.
LEMMA DescendantsLeast ==
  ASSUME NEW f, NEW S \in SUBSET ItemId
  PROVE  /\ S \subseteq Descendants(f, S) /\ Descendants(f, S) \subseteq ItemId
         /\ Closed(f, Descendants(f, S))
         /\ \A T \in SUBSET ItemId : S \subseteq T /\ Closed(f, T) => Descendants(f, S) \subseteq T
<1> DEFINE children == {i \in Present(f) : f[i].parent # None}
           below == {<<f[i].parent, i>> : i \in children}
           closed == {T \in {S \cup U : U \in SUBSET children} :
                         \A b \in below : b[1] \in T => b[2] \in T}
           D == {i \in ItemId : \A T \in closed : i \in T}
<1>1. ASSUME NEW T \in SUBSET ItemId
      PROVE  (\A b \in below : b[1] \in T => b[2] \in T) <=> Closed(f, T)
  <2>1. ASSUME \A b \in below : b[1] \in T => b[2] \in T,
               NEW i \in Present(f), f[i].parent \in T
        PROVE  i \in T
    <3>1. f[i].parent # None
      BY <2>1, ConstantsAssumption
    <3>2. <<f[i].parent, i>> \in below
      BY <3>1
    <3>3. <<f[i].parent, i>>[1] = f[i].parent /\ <<f[i].parent, i>>[2] = i
      OBVIOUS
    <3> HIDE DEF below
    <3> QED BY <2>1, <3>2, <3>3
  <2>2. ASSUME Closed(f, T), NEW b \in below, b[1] \in T PROVE b[2] \in T
    <3>1. PICK i \in Present(f) : b = <<f[i].parent, i>>
      OBVIOUS
    <3>2. b[1] = f[i].parent /\ b[2] = i
      BY <3>1
    <3> QED BY <2>2, <3>2 DEF Closed
  <2> HIDE DEF below
  <2> QED BY <2>1, <2>2 DEF Closed
<1> HIDE DEF below
<1>2. children \subseteq ItemId
  BY DEF Present
<1>3. \A T \in closed : T \in SUBSET ItemId /\ S \subseteq T /\ Closed(f, T)
  BY <1>1, <1>2
\* Of a closed set only S and the children in it matter.
<1>4. ASSUME NEW T \in SUBSET ItemId, S \subseteq T, Closed(f, T)
      PROVE  S \cup (T \cap children) \in closed
  <2> DEFINE W == S \cup (T \cap children)
  <2>1. W \in SUBSET ItemId /\ W \subseteq T
    BY <1>2, <1>4
  <2>2. Closed(f, W)
    <3>1. SUFFICES ASSUME NEW i \in Present(f), f[i].parent \in W PROVE i \in T /\ i \in children
      BY DEF Closed
    <3>2. i \in T
      BY <1>4, <2>1, <3>1 DEF Closed
    <3>3. f[i].parent # None
      BY <2>1, <3>1, ConstantsAssumption
    <3> QED BY <3>1, <3>2, <3>3
  <2> HIDE DEF children
  <2>3. W \in {S \cup U : U \in SUBSET children}
    OBVIOUS
  <2> HIDE DEF W
  <2>4. W \in closed
    BY <1>1, <2>1, <2>2, <2>3
  <2> QED BY <2>4 DEF W
<1> HIDE DEF closed
<1>5. S \subseteq D /\ D \subseteq ItemId
  BY <1>3
<1>6. \A T \in SUBSET ItemId : S \subseteq T /\ Closed(f, T) => D \subseteq T
  <2> SUFFICES ASSUME NEW T \in SUBSET ItemId, S \subseteq T, Closed(f, T), NEW i \in D
               PROVE  i \in T
    OBVIOUS
  <2>1. i \in S \cup (T \cap children)
    BY <1>4
  <2> QED BY <2>1
<1>7. ASSUME NEW i \in Present(f), f[i].parent \in D PROVE i \in D
  <2>1. i \in ItemId
    BY DEF Present
  <2>2. ASSUME NEW T \in closed PROVE i \in T
    BY <1>3, <1>7, <2>2 DEF Closed
  <2> QED BY <2>1, <2>2
<1> HIDE DEF D
<1>8. Closed(f, D)
  BY <1>7 DEF Closed
<1>9. Descendants(f, S) = D
  BY DEF Descendants, D, closed, below, children
<1> QED BY <1>5, <1>6, <1>8, <1>9

LEMMA DeleteRowsForm ==
  ASSUME NEW f, NEW S
  PROVE  DeleteRows(f, S) = [i \in ItemId |-> IF i \in Descendants(f, S) THEN None ELSE f[i]]
BY DEF DeleteRows

\* Deleting rows, with the cascade, leaves items of the table.
LEMMA DeleteRowsType ==
  ASSUME NEW f \in Table, NEW S \in SUBSET ItemId
  PROVE  DeleteRows(f, S) \in Table /\ Present(DeleteRows(f, S)) \subseteq Present(f)
<1>1. DeleteRows(f, S) \in Table
  BY DeleteRowsForm DEF Table
<1>2. \A i \in ItemId : DeleteRows(f, S)[i] \in {f[i], None}
  BY DeleteRowsForm
<1> QED BY <1>1, <1>2 DEF Present

\* Deleting nothing changes nothing.
LEMMA DeleteNothing == ASSUME NEW f \in Table PROVE DeleteRows(f, {}) = f
<1>1. Descendants(f, {}) \subseteq {}
  <2>1. Closed(f, {})
    BY DEF Closed
  <2> QED BY <2>1, DescendantsLeast
<1> QED BY <1>1, DeleteRowsForm DEF Table

\* A deletion leaves no orphans when none was there: an item that stays does not hang
\* below one that goes.
LEMMA DeleteRowsLiveParents ==
  ASSUME NEW f \in Table, Orphans(f) = {}, NEW S \in SUBSET ItemId
  PROVE  Orphans(DeleteRows(f, S)) = {}
<1> DEFINE g == DeleteRows(f, S)
           D == Descendants(f, S)
<1>1. \A i \in ItemId : g[i] = IF i \in D THEN None ELSE f[i]
  BY DeleteRowsForm
<1>2. Closed(f, D)
  BY DescendantsLeast
<1> HIDE DEF g, D
<1>3. SUFFICES ASSUME NEW i \in ItemId, g[i] # None, g[i].parent # None, g[g[i].parent] = None
               PROVE  FALSE
  BY DEF Orphans, Orphan, g
<1>4. g[i] = f[i] /\ i \notin D /\ f[i] \in Item
  BY <1>1, <1>3 DEF Table
<1>5. f[i].parent \in ItemId /\ f[f[i].parent] # None
  BY <1>3, <1>4 DEF Item, Orphans, Orphan
<1>6. f[i].parent \in D
  BY <1>1, <1>3, <1>4, <1>5
<1>7. i \in Present(f)
  BY <1>3, <1>4 DEF Present
<1> QED BY <1>2, <1>4, <1>6, <1>7 DEF Closed

\* The cascade from above is the promise from below: what a deletion leaves are the
\* items whose parents, and theirs, are not in what it is told to delete.
LEMMA CascadeLeavesRooted ==
  ASSUME NEW f \in Table, Orphans(f) = {}, NEW S \in SUBSET ItemId
  PROVE  DeleteRows(f, S) = Promise!WithoutOrphans([i \in ItemId |-> IF i \in S THEN None ELSE f[i]])
<1> DEFINE g == [i \in ItemId |-> IF i \in S THEN None ELSE f[i]]
           D == Descendants(f, S)
           K == {i \in ItemId : f[i] # None /\ i \notin D}
           rooted == {L \in SUBSET {i \in ItemId : g[i] # None} :
                        \A i \in L : g[i].parent \in L \cup {None}}
<1>1. \A i \in ItemId : g[i] = IF i \in S THEN None ELSE f[i]
  OBVIOUS
<1>2. S \subseteq D /\ Closed(f, D)
  BY DescendantsLeast
<1>3. None \notin ItemId
  BY ConstantsAssumption
<1> HIDE DEF g, D
<1>4. K \in rooted
  <2>1. K \subseteq {i \in ItemId : g[i] # None}
    BY <1>1, <1>2
  <2>2. ASSUME NEW i \in K, g[i].parent # None PROVE g[i].parent \in K
    <3>1. g[i] = f[i] /\ f[i] \in Item /\ i \in Present(f)
      BY <1>1, <1>2 DEF Table, Present
    <3>2. f[i].parent \in ItemId /\ f[f[i].parent] # None
      BY <2>2, <3>1 DEF Item, Orphans, Orphan
    <3>3. f[i].parent \notin D
      BY <1>2, <3>1 DEF Closed
    <3> QED BY <3>1, <3>2, <3>3
  <2> HIDE DEF K
  <2> QED BY <2>1, <2>2
<1>5. ASSUME NEW L \in rooted PROVE L \subseteq K
  <2> DEFINE T == ItemId \ L
  <2>1. S \subseteq T
    BY <1>1
  <2>2. ASSUME NEW i \in Present(f), f[i].parent \in T PROVE i \in T
    <3>1. SUFFICES ASSUME i \in L PROVE FALSE
      BY DEF Present
    <3>2. g[i] = f[i] /\ g[i].parent \in L \cup {None}
      BY <1>1, <3>1
    <3> QED BY <1>3, <2>2, <3>2
  <2>3. Closed(f, T)
    BY <2>2 DEF Closed
  <2>4. D \subseteq T
    BY <2>1, <2>3, DescendantsLeast DEF D
  <2>5. \A i \in L : i \in ItemId /\ g[i] # None
    OBVIOUS
  <2> QED BY <1>1, <2>4, <2>5
<1> HIDE DEF K, rooted
<1>6. UNION rooted = K
  BY <1>4, <1>5
<1>7. Promise!Rooted(g) = K
  BY <1>6 DEF Promise!Rooted, rooted
<1>8. Promise!WithoutOrphans(g) = [i \in ItemId |-> IF i \in K THEN g[i] ELSE None]
  BY <1>7 DEF Promise!WithoutOrphans
<1>9. ASSUME NEW i \in ItemId
      PROVE  (IF i \in D THEN None ELSE f[i]) = IF i \in K THEN g[i] ELSE None
  BY <1>1, <1>2 DEF K
<1> QED BY <1>8, <1>9, DeleteRowsForm DEF g, D

\* A table without orphans is all rooted.
LEMMA AllRooted ==
  ASSUME NEW f \in Table, Orphans(f) = {}
  PROVE  Promise!WithoutOrphans(f) = f
<1>1. [i \in ItemId |-> IF i \in {} THEN None ELSE f[i]] = f
  BY DEF Table
<1> QED BY <1>1, CascadeLeavesRooted, DeleteNothing

-----------------------------------------------------------------------------
(* What a publish transaction does to a table of items. *)

\* The table with the upserts of one class written.
Written(f, d, k) ==
  [i \in ItemId |-> IF d[i] # None /\ d[i] # Deleted /\ PublishOrder(d[i]) = k
                    THEN d[i] ELSE f[i]]

\* Writing one class of upserts.
LEMMA WrittenType ==
  ASSUME NEW f \in Table, NEW d \in Staging, NEW k
  PROVE  Written(f, d, k) \in Table
BY DEF Written, Table, Staging, Row

\* The classes one by one: two of upserts, one of deletes.
LEMMA Classes ==
  ASSUME NEW f \in Table, NEW d \in Staging
  PROVE  /\ ApplyClass(f, d, 0) = Written(f, d, 0)
         /\ ApplyClass(f, d, 1) = Written(f, d, 1)
         /\ ApplyClass(f, d, 2) = DeleteRows(f, {i \in ItemId : d[i] = Deleted})
<1> DEFINE up(k) == {i \in InClass(d, k) : d[i] # Deleted}
           wr(k) == [i \in ItemId |-> IF i \in up(k) THEN d[i] ELSE f[i]]
<1>1. \A k : ApplyClass(f, d, k) = DeleteRows(wr(k), InClass(d, k) \ up(k))
  BY DEF ApplyClass
<1>2. \A k \in 0..1 : InClass(d, k) \ up(k) = {} /\ wr(k) = Written(f, d, k)
  BY DEF InClass, PublishOrder, Written
<1>3. up(2) = {} /\ InClass(d, 2) = {i \in ItemId : d[i] = Deleted}
  BY ConstantsAssumption DEF InClass, PublishOrder
<1>4. \A k \in 0..1 : DeleteRows(Written(f, d, k), {}) = Written(f, d, k)
  BY WrittenType, DeleteNothing
<1>5. wr(2) = f
  BY <1>3 DEF Table
<1> HIDE DEF up, wr
<1>6. ApplyClass(f, d, 0) = Written(f, d, 0) /\ ApplyClass(f, d, 1) = Written(f, d, 1)
  BY <1>1, <1>2, <1>4
<1>7. ApplyClass(f, d, 2) = DeleteRows(f, {i \in ItemId : d[i] = Deleted})
  BY <1>1, <1>3, <1>5
<1> QED BY <1>6, <1>7

\* The upserts all written, and the ids the delete markers name.
Merged(f, d) == [i \in ItemId |-> IF IsUpsert(d[i]) THEN d[i] ELSE f[i]]
Marked(d) == {i \in ItemId : d[i] = Deleted}

\* What a publish leaves that some order of the rows gets through.
LEMMA AppliedForm ==
  ASSUME NEW f \in Table, NEW d \in Staging
  PROVE  /\ Applied(f, d) = DeleteRows(Merged(f, d), Marked(d))
         /\ Merged(f, d) \in Table
         /\ Present(Merged(f, d)) \subseteq Present(f) \cup Present(d)
         /\ Orphans(f) = {} /\ ~Rejected(f, d) => Orphans(Merged(f, d)) = {}
<1> DEFINE f0 == Written(f, d, 0)
           f1 == Written(f0, d, 1)
           m == Merged(f, d)
<1>1. f0 \in Table
  BY WrittenType
<1>2. f1 \in Table
  <2> HIDE DEF f0
  <2> QED BY <1>1, WrittenType
<1>3. f1 = m
  BY DEF Written, Merged, IsUpsert, PublishOrder
<1>4. ApplyClass(f, d, 0) = f0 /\ ApplyClass(f0, d, 1) = f1
  <2> HIDE DEF f0
  <2>1. ApplyClass(f, d, 0) = f0
    BY Classes DEF f0
  <2>2. ApplyClass(f0, d, 1) = f1
    BY <1>1, Classes
  <2> QED BY <2>1, <2>2
<1>5. ApplyClass(f1, d, 2) = DeleteRows(f1, Marked(d))
  <2> HIDE DEF f1
  <2> QED BY <1>2, Classes DEF Marked
<1>6. Applied(f, d) = DeleteRows(m, Marked(d))
  <2> HIDE DEF f0, f1, m
  <2> QED BY <1>3, <1>4, <1>5 DEF Applied
<1>7. \A i \in ItemId : m[i] = IF IsUpsert(d[i]) THEN d[i] ELSE f[i]
  BY DEF Merged
<1>8. \A i \in ItemId : f0[i] # None => m[i] # None
  BY <1>7 DEF Written, IsUpsert
<1>9. Present(m) \subseteq Present(f) \cup Present(d)
  BY <1>7 DEF Present, IsUpsert
<1>10. ASSUME Orphans(f) = {}, ~Rejected(f, d) PROVE Orphans(m) = {}
  <2>1. ~EveryOrderFails(f0, d, 1)
    BY <1>4, <1>10 DEF Rejected
  <2> HIDE DEF f0, f1, m
  <2>2. SUFFICES ASSUME NEW i \in ItemId, m[i] # None, m[i].parent # None, m[m[i].parent] = None
                 PROVE  EveryOrderFails(f0, d, 1)
    BY <2>1 DEF Orphans, Orphan
  <2> DEFINE p == m[i].parent
  <2>3. p \in ItemId /\ p # i
    BY <1>2, <1>3, <2>2 DEF Table, Item
  <2>4. IsUpsert(d[i])
    <3>1. SUFFICES ASSUME ~IsUpsert(d[i]) PROVE FALSE
      OBVIOUS
    <3>2. m[i] = f[i] /\ f[p] # None
      BY <1>7, <1>10, <2>2, <3>1 DEF Orphans, Orphan
    <3> QED BY <1>7, <2>2, <2>3, <3>2 DEF IsUpsert
  <2>5. d[i] = m[i] /\ i \in InClass(d, 1)
    BY <1>7, <2>2, <2>4 DEF InClass, PublishOrder, IsUpsert
  <2>6. BreaksKey(f0, d, i)
    BY <1>8, <2>2, <2>3, <2>4, <2>5 DEF BreaksKey
  <2>7. p \notin InClass(d, 1)
    BY <1>7, <2>2, <2>3 DEF InClass, PublishOrder, IsUpsert
  <2>8. {i} \in (SUBSET {j \in InClass(d, 1) : BreaksKey(f0, d, j)}) \ {{}}
    BY <2>5, <2>6
  <2>9. \A j \in {i} : d[j].parent \in {i} \/ d[j].parent \notin InClass(d, 1)
    BY <2>5, <2>7
  <2> QED BY <2>8, <2>9 DEF EveryOrderFails
<1> HIDE DEF m
<1> QED BY <1>2, <1>3, <1>6, <1>9, <1>10 DEF m

LEMMA AppliedType ==
  ASSUME NEW f \in Table, NEW d \in Staging
  PROVE  Applied(f, d) \in Table /\ Present(Applied(f, d)) \subseteq Present(f) \cup Present(d)
<1>1. Marked(d) \in SUBSET ItemId
  BY DEF Marked
<1> QED BY <1>1, AppliedForm, DeleteRowsType

LEMMA AppliedLiveParents ==
  ASSUME NEW f \in Table, NEW d \in Staging, Orphans(f) = {}, ~Rejected(f, d)
  PROVE  Orphans(Applied(f, d)) = {}
<1>1. Marked(d) \in SUBSET ItemId
  BY DEF Marked
<1> QED BY <1>1, AppliedForm, DeleteRowsLiveParents

-----------------------------------------------------------------------------
(* Type correctness *)

\* What an editor's request holds, by the ids that are out.
LEMMA LocalRequest ==
  ASSUME TypeInvariant, NEW e \in Editor
  PROVE  req[e] \in Request /\ RequestOK(req[e], used) /\ used \subseteq ItemId
BY DEF TypeInvariant, TypeOK, RequestTypeOK, RequestOK

LEMMA InitType == Init => TypeInvariant
<1> SUFFICES ASSUME Init PROVE TypeInvariant
  OBVIOUS
<1>1. RequestOK(NoRequest, used)
  BY IdleRequest DEF RequestOK, NoRequest
<1>2. RequestTypeOK
  BY <1>1 DEF Init, RequestTypeOK, RequestOK
<1>3. TypeOK
  BY IdleRequest, ConstantsAssumption, InitItemsAssumption DEF Init, TypeOK, Present
<1>4. Present(items) \cup Present(draft) \subseteq used
  BY IdleRequest DEF Init
<1> QED BY <1>2, <1>3, <1>4 DEF TypeInvariant

\* The granular staging requests.
LEMMA EditType ==
  ASSUME TypeInvariant, NEW e \in Editor, Edit(e)
  PROVE  TypeInvariant'
<1> USE DEF TypeInvariant, TypeOK
<1>1. ASSUME NEW kind, Begin(e, kind)
      PROVE  sent' \in 0..MaxRequests
  BY <1>1, ConstantsAssumption DEF Begin
<1>2. CASE \E given \in Given : StageDraftItem(e, given)
  <2> PICK given \in Given : StageDraftItem(e, given)
    BY <1>2
  <2>1. PICK i \in ItemId, b \in Body, shape \in Shapes, r \in Rank :
            /\ used' = used \cup {i}
            /\ Set(e, [NoRequest EXCEPT !.pc = "set", !.tgt = i,
                                        !.val = [type |-> shape.type, parent |-> shape.parent,
                                                 body |-> b, rank |-> r]])
    BY Zenon DEF StageDraftItem
  <2> DEFINE v == [type |-> shape.type, parent |-> shape.parent, body |-> b, rank |-> r]
             q == [NoRequest EXCEPT !.pc = "set", !.tgt = i, !.val = v]
  <2>2. v \in Item
    <3>1. shape \in [type : Type, parent : ItemId \cup {None}]
      BY ConstantsAssumption
    <3> QED BY <3>1 DEF Item
  <2> HIDE DEF v
  <2>3. q \in Request /\ RequestOK(q, used')
    BY <2>1, <2>2, IdleRequest DEF Request, RequestOK, PC, NoRequest
  <2>4. req' \in [Editor -> Request] /\ RequestTypeOK'
    <3>1. Set(e, q) /\ used \subseteq used'
      BY <2>1 DEF v
    <3> QED BY <2>3, <3>1, SetRequest
  <2> QED BY <1>1, <2>1, <2>4 DEF StageDraftItem, Present
<1>3. CASE MoveDraftItem(e)
  <2> DEFINE cur(i) == IF IsUpsert(draft[i]) THEN draft[i] ELSE items[i]
  <2>1. PICK i \in used, r \in Rank :
            /\ cur(i) # None
            /\ Set(e, [NoRequest EXCEPT !.pc = "set", !.tgt = i,
                                        !.val = [cur(i) EXCEPT !.rank = r]])
    BY <1>3 DEF MoveDraftItem, Between
  <2> DEFINE v == [cur(i) EXCEPT !.rank = r]
             q == [NoRequest EXCEPT !.pc = "set", !.tgt = i, !.val = v]
  <2>2. cur(i) \in Item
    BY <2>1 DEF IsUpsert, Table, Staging, Row
  <2>3. v \in Item
    <3> HIDE DEF cur
    <3> QED BY <2>2 DEF Item
  <2>4. used' = used
    BY <1>3 DEF MoveDraftItem
  <2>5. q \in Request /\ RequestOK(q, used')
    <3> HIDE DEF v, cur
    <3> QED BY <2>1, <2>3, <2>4, IdleRequest DEF Request, RequestOK, PC, NoRequest
  <2>6. req' \in [Editor -> Request] /\ RequestTypeOK'
    BY <2>1, <2>4, <2>5, SetRequest
  <2> QED BY <1>1, <1>3, <2>6 DEF MoveDraftItem, Present
<1>4. CASE WriteStaged(e)
  <2>1. req[e].tgt \in used /\ req[e].val \in Row
    BY <1>4, LocalRequest DEF WriteStaged, RequestOK, Row
  <2>2. draft' \in Staging /\ Present(draft)' \subseteq used
    BY <1>4, <2>1, StageRow DEF WriteStaged
  <2> QED BY <1>4, <2>2, FinishRequest DEF WriteStaged, Present
<1>5. CASE StageDraftDelete(e)
  <2>1. PICK i \in used :
           Set(e, [NoRequest EXCEPT !.pc = IF items[i] = None THEN "remove" ELSE "mark",
                                    !.tgt = i])
    BY <1>5 DEF StageDraftDelete
  <2> DEFINE q == [NoRequest EXCEPT !.pc = IF items[i] = None THEN "remove" ELSE "mark",
                                    !.tgt = i]
  <2>2. q \in Request /\ RequestOK(q, used') /\ used' = used
    BY <1>5, IdleRequest DEF StageDraftDelete, Request, RequestOK, PC, NoRequest
  <2>3. req' \in [Editor -> Request] /\ RequestTypeOK'
    BY <2>1, <2>2, SetRequest
  <2> QED BY <1>1, <1>5, <2>3 DEF StageDraftDelete, Present
<1>6. CASE RemoveStaged(e) \/ MarkDeleted(e)
  <2>1. req[e].tgt \in used
    BY <1>6, LocalRequest DEF RemoveStaged, MarkDeleted, RequestOK
  <2>2. draft' \in Staging /\ Present(draft)' \subseteq used
    BY <1>6, <2>1, StageRow DEF RemoveStaged, MarkDeleted, Row
  <2>3. req' \in [Editor -> Request] /\ RequestTypeOK'
    BY <1>6, FinishRequest DEF RemoveStaged, MarkDeleted
  <2> QED BY <1>6, <2>2, <2>3 DEF RemoveStaged, MarkDeleted, Present
<1>7. CASE RevertDraftItem(e)
  <2>1. PICK i \in used : draft' = [draft EXCEPT ![i] = None]
    BY <1>7 DEF RevertDraftItem
  <2>2. draft' \in Staging /\ Present(draft)' \subseteq used
    BY <2>1, StageRow DEF Row
  <2> QED BY <1>1, <1>7, <2>2 DEF RevertDraftItem, RequestTypeOK, Present
<1>8. CASE DiscardDraft(e)
  BY <1>1, <1>8, EmptyDraft DEF DiscardDraft, RequestTypeOK, Present
<1>9. CASE McpDiscardDraft(e)
  <2> DEFINE q == [NoRequest EXCEPT !.pc = "clear"]
  <2>1. q \in Request /\ RequestOK(q, used') /\ used' = used
    BY <1>9, IdleRequest DEF McpDiscardDraft, Request, RequestOK, PC, NoRequest
  <2>2. req' \in [Editor -> Request] /\ RequestTypeOK'
    BY <1>9, <2>1, SetRequest DEF McpDiscardDraft
  <2> QED BY <1>1, <1>9, <2>2 DEF McpDiscardDraft, Present
<1>10. CASE ClearDraft(e)
  BY <1>10, EmptyDraft, FinishRequest DEF ClearDraft, Present
<1> QED BY <1>2, <1>3, <1>4, <1>5, <1>6, <1>7, <1>8, <1>9, <1>10 DEF Edit

\* UpdateDraft.
LEMMA UpdateDraftType ==
  ASSUME TypeInvariant, NEW e \in Editor, UpdateDraftSteps(e)
  PROVE  TypeInvariant'
<1> USE DEF TypeInvariant, TypeOK
<1>0. req[e] \in Request /\ RequestOK(req[e], used)
  BY LocalRequest
<1>1. CASE UpdateDraft(e)
  <2>1. PICK kept \in SUBSET used, new \in SUBSET (Card \ used) :
          /\ used' = used \cup new
          /\ Set(e, [NoRequest EXCEPT !.pc = "ud_list", !.new = new,
                                      !.want = kept \cup new, !.todo = kept \cup new])
    BY <1>1, Zenon DEF UpdateDraft
  <2> DEFINE q == [NoRequest EXCEPT !.pc = "ud_list", !.new = new,
                                    !.want = kept \cup new, !.todo = kept \cup new]
  <2>2. kept \cup new \in SUBSET ItemId /\ new \in SUBSET ItemId
    BY DEF ItemId
  <2>3. q \in Request /\ RequestOK(q, used')
    BY <2>1, <2>2, IdleRequest DEF Request, RequestOK, PC, NoRequest
  <2>4. req' \in [Editor -> Request] /\ RequestTypeOK'
    BY <2>1, <2>3, SetRequest
  <2>5. sent' \in 0..MaxRequests
    BY <1>1, ConstantsAssumption DEF UpdateDraft, Begin
  <2> QED BY <1>1, <2>1, <2>2, <2>4, <2>5, EmptyDraft DEF UpdateDraft, Present
<1>2. CASE UpdateDraftList(e)
  <2> DEFINE q == [req[e] EXCEPT !.pc = "ud_set", !.rows = items,
                                 !.last = LastRank(items, None)]
  <2>1. items \in Staging /\ LastRank(items, None) \in Rank
    BY LastRankType DEF Table, Staging, Row
  <2>2. q \in Request /\ RequestOK(q, used') /\ used' = used
    BY <1>0, <1>2, <2>1 DEF UpdateDraftList, Request, RequestOK, PC
  <2>3. req' \in [Editor -> Request] /\ RequestTypeOK'
    BY <1>2, <2>2, SetRequest DEF UpdateDraftList
  <2> QED BY <1>2, <2>3 DEF UpdateDraftList, Present
<1>3. CASE UpdateDraftSet(e)
  <2>1. PICK i \in req[e].todo, b \in Body :
          /\ StagedRank(e, i) \in Rank
          /\ draft' = [draft EXCEPT ![i] = [type |-> "card", parent |-> None, body |-> b,
                                            rank |-> StagedRank(e, i)]]
          /\ Set(e, [req[e] EXCEPT !.todo = @ \ {i},
                                   !.last = IF i \in req[e].new THEN StagedRank(e, i) ELSE @])
    BY <1>3, Zenon DEF UpdateDraftSet
  <2> DEFINE r == [type |-> "card", parent |-> None, body |-> b, rank |-> StagedRank(e, i)]
             q == [req[e] EXCEPT !.todo = @ \ {i},
                                 !.last = IF i \in req[e].new THEN StagedRank(e, i) ELSE @]
  <2>2. r \in Row
    BY <2>1 DEF Row, Item, Type
  <2>3. i \in used
    BY <1>0, <2>1 DEF RequestOK
  <2>4. draft' \in Staging /\ Present(draft)' \subseteq used
    <3> HIDE DEF r
    <3> QED BY <2>1, <2>2, <2>3, StageRow DEF r
  <2>5. q \in Request /\ RequestOK(q, used') /\ used' = used
    BY <1>0, <1>3, <2>1 DEF UpdateDraftSet, Request, RequestOK
  <2>6. req' \in [Editor -> Request] /\ RequestTypeOK'
    BY <2>1, <2>5, SetRequest
  <2> QED BY <1>3, <2>4, <2>6 DEF UpdateDraftSet, Present
<1>4. CASE UpdateDraftStaged(e)
  <2> DEFINE q == [req[e] EXCEPT !.pc = "ud_mark", !.todo = Dropped(e)]
  <2>1. Dropped(e) \subseteq Present(req[e].rows)
    BY DEF Dropped, LiveCards
  <2>2. q \in Request /\ RequestOK(q, used') /\ used' = used
    BY <1>0, <1>4, <2>1 DEF UpdateDraftStaged, Request, RequestOK, PC, Present
  <2>3. req' \in [Editor -> Request] /\ RequestTypeOK'
    BY <1>4, <2>2, SetRequest DEF UpdateDraftStaged
  <2> QED BY <1>4, <2>3 DEF UpdateDraftStaged, Present
<1>5. CASE UpdateDraftMark(e)
  <2>1. PICK i \in req[e].todo : /\ draft' = [draft EXCEPT ![i] = Deleted]
                                 /\ Set(e, [req[e] EXCEPT !.todo = @ \ {i}])
    BY <1>5 DEF UpdateDraftMark
  <2>2. i \in used
    BY <1>0, <2>1 DEF RequestOK
  <2>3. draft' \in Staging /\ Present(draft)' \subseteq used
    BY <2>1, <2>2, StageRow DEF Row
  <2> DEFINE q == [req[e] EXCEPT !.todo = @ \ {i}]
  <2>4. q \in Request /\ RequestOK(q, used') /\ used' = used
    BY <1>0, <1>5 DEF UpdateDraftMark, Request, RequestOK
  <2>5. req' \in [Editor -> Request] /\ RequestTypeOK'
    BY <2>1, <2>4, SetRequest
  <2> QED BY <1>5, <2>3, <2>5 DEF UpdateDraftMark, Present
<1>6. CASE UpdateDraftReturn(e)
  BY <1>6, FinishRequest DEF UpdateDraftReturn, Present
<1> QED BY <1>1, <1>2, <1>3, <1>4, <1>5, <1>6 DEF UpdateDraftSteps

\* Bulk imports and their live counterparts.
LEMMA BatchItemType ==
  ASSUME TypeInvariant, NEW e \in Editor, NEW i \in NextOfBatch(e), NEW b \in Body,
         BatchItem(e, i, b).rank \in Rank
  PROVE  i \in used /\ i \in ItemId /\ BatchItem(e, i, b) \in Item
<1>1. req[e] \in Request /\ RequestOK(req[e], used) /\ used \subseteq ItemId
  BY LocalRequest
<1>2. i \in req[e].todo /\ i \in used /\ i \in ItemId
  BY <1>1 DEF NextOfBatch, RequestOK
<1>3. CASE i \in Sentence
  <2>1. \E x \in Exercise : x \in req[e].want
    BY <1>3 DEF NextOfBatch
  <2>2. BatchItem(e, i, b).parent \in ItemId
    BY <1>3, <2>1 DEF BatchItem, ItemId
  <2> QED BY <1>2, <1>3, <2>2 DEF BatchItem, Item, Type
<1>4. CASE i \notin Sentence
  BY <1>2, <1>4 DEF BatchItem, Item, Type
<1> QED BY <1>2, <1>3, <1>4

LEMMA ImportedType ==
  ASSUME TypeInvariant, used' = used, NEW e \in Editor, NEW i, NEW r \in Rank,
         Imported(e, i, r), req[e].pc \in {"import_draft", "import_live"}
  PROVE  req' \in [Editor -> Request] /\ RequestTypeOK'
<1> DEFINE q == [req[e] EXCEPT !.todo = @ \ {i},
                               !.last = IF i \in Sentence THEN @ ELSE r]
<1>1. q \in Request /\ RequestOK(q, used')
  BY LocalRequest DEF Request, RequestOK
<1> QED BY <1>1, SetRequest DEF Imported

LEMMA ImportType ==
  ASSUME TypeInvariant, NEW e \in Editor, Import(e)
  PROVE  TypeInvariant'
<1> USE DEF TypeInvariant, TypeOK
<1>1. ASSUME NEW mode \in {"import_draft", "import_live"}, ImportItems(e, mode)
      PROVE  TypeInvariant'
  <2>1. PICK batch \in SUBSET (ItemId \ used) :
          /\ used' = used \cup batch
          /\ Set(e, [NoRequest EXCEPT !.pc = mode, !.want = batch, !.todo = batch,
                                      !.last = LastRank(items, None)])
    BY <1>1, Zenon DEF ImportItems
  <2> DEFINE q == [NoRequest EXCEPT !.pc = mode, !.want = batch, !.todo = batch,
                                    !.last = LastRank(items, None)]
  <2>2. LastRank(items, None) \in Rank
    BY LastRankType
  <2>3. q \in Request /\ RequestOK(q, used')
    BY <2>1, <2>2, IdleRequest DEF Request, RequestOK, PC, NoRequest
  <2>4. req' \in [Editor -> Request] /\ RequestTypeOK'
    BY <2>1, <2>3, SetRequest
  <2>5. sent' \in 0..MaxRequests
    BY <1>1, ConstantsAssumption DEF ImportItems, Begin
  <2> QED BY <1>1, <2>1, <2>4, <2>5 DEF ImportItems, Present
<1>2. CASE ImportStage(e)
  <2>1. PICK i \in NextOfBatch(e), b \in Body :
          /\ BatchItem(e, i, b).rank \in Rank
          /\ draft' = [draft EXCEPT ![i] = BatchItem(e, i, b)]
          /\ Imported(e, i, BatchItem(e, i, b).rank)
    BY <1>2 DEF ImportStage
  <2>2. draft' \in Staging /\ Present(draft)' \subseteq used
    BY <2>1, BatchItemType, StageRow DEF Row
  <2>3. req' \in [Editor -> Request] /\ RequestTypeOK'
    BY <1>2, <2>1, ImportedType DEF ImportStage
  <2> QED BY <1>2, <2>2, <2>3 DEF ImportStage, Present
<1>3. CASE ImportCreate(e)
  <2>1. PICK i \in NextOfBatch(e), b \in Body :
          /\ BatchItem(e, i, b).rank \in Rank
          /\ items' = [items EXCEPT ![i] = BatchItem(e, i, b)]
          /\ Imported(e, i, BatchItem(e, i, b).rank)
    BY <1>3 DEF ImportCreate
  <2>2. items' \in Table /\ Present(items)' \subseteq used
    BY <2>1, BatchItemType DEF Table, Present
  <2>3. req' \in [Editor -> Request] /\ RequestTypeOK'
    BY <1>3, <2>1, ImportedType DEF ImportCreate
  <2> QED BY <1>3, <2>2, <2>3 DEF ImportCreate, Present
<1>4. CASE ImportReturn(e)
  BY <1>4, FinishRequest DEF ImportReturn, Present
<1> QED BY <1>1, <1>2, <1>3, <1>4 DEF Import

LEMMA LiveType ==
  ASSUME TypeInvariant, NEW e \in Editor, Live(e)
  PROVE  TypeInvariant'
<1> USE DEF TypeInvariant, TypeOK
<1>1. sent' \in 0..MaxRequests
  BY ConstantsAssumption DEF Live, UpdateCard, DeleteCard, Begin
<1>2. CASE UpdateCard(e)
  <2>1. PICK i \in Present(items), b \in Body : items' = [items EXCEPT ![i].body = b]
    BY <1>2 DEF UpdateCard
  <2>2. items' \in Table /\ Present(items)' \subseteq Present(items)
    BY <2>1 DEF Present, Table, Item
  <2> QED BY <1>1, <1>2, <2>2 DEF UpdateCard, RequestTypeOK, Present
<1>3. CASE DeleteCard(e)
  <2>1. PICK i \in Present(items) : items' = DeleteRows(items, {i})
    BY <1>3 DEF DeleteCard
  <2>2. {i} \in SUBSET ItemId
    BY DEF Present
  <2>3. items' \in Table /\ Present(items') \subseteq Present(items)
    BY <2>1, <2>2, DeleteRowsType
  <2> QED BY <1>1, <1>3, <2>3 DEF DeleteCard, RequestTypeOK, Present
<1> QED BY <1>2, <1>3 DEF Live

LEMMA PublishType ==
  ASSUME TypeInvariant, NEW e \in Editor, Publish(e)
  PROVE  TypeInvariant'
<1> USE DEF TypeInvariant, TypeOK
<1>0. req[e] \in Request /\ RequestOK(req[e], used)
  BY LocalRequest
<1>1. CASE PublishDraft(e) \/ McpPublishDraft(e)
  <2> DEFINE q == [NoRequest EXCEPT !.pc = "list"]
  <2>1. q \in Request /\ RequestOK(q, used') /\ used' = used
    BY <1>1, IdleRequest DEF PublishDraft, McpPublishDraft, Request, RequestOK, PC, NoRequest
  <2>2. req' \in [Editor -> Request] /\ RequestTypeOK'
    BY <1>1, <2>1, SetRequest DEF PublishDraft, McpPublishDraft
  <2>3. sent' \in 0..MaxRequests
    BY <1>1, ConstantsAssumption DEF PublishDraft, McpPublishDraft, Begin
  <2> QED BY <1>1, <2>2, <2>3 DEF PublishDraft, McpPublishDraft, Present
<1>2. CASE PublishList(e)
  <2> DEFINE q == [req[e] EXCEPT !.pc = "commit", !.rows = draft]
  <2>1. q \in Request /\ RequestOK(q, used') /\ used' = used
    BY <1>0, <1>2 DEF PublishList, Request, RequestOK, PC
  <2>2. req' \in [Editor -> Request] /\ RequestTypeOK'
    BY <1>2, <2>1, SetRequest DEF PublishList
  <2> QED BY <1>2, <2>2 DEF PublishList, Present
<1>3. CASE PublishCommit(e)
  <2>1. req[e].rows \in Staging /\ Present(req[e].rows) \subseteq used
    BY <1>0 DEF Request, RequestOK
  <2>2. items' \in Table /\ Present(items') \subseteq used
    BY <1>3, <2>1, AppliedType DEF PublishCommit
  <2> QED BY <1>3, <2>2, EmptyDraft, FinishRequest DEF PublishCommit, Present
<1> QED BY <1>1, <1>2, <1>3 DEF Publish

LEMMA StepType == TypeInvariant /\ [Next]_vars => TypeInvariant'
<1> SUFFICES ASSUME TypeInvariant, [Next]_vars PROVE TypeInvariant'
  OBVIOUS
<1>1. ASSUME NEW e \in Editor, Abort(e) PROVE TypeInvariant'
  BY <1>1, FinishRequest DEF Abort, TypeInvariant, TypeOK, Present
<1>2. CASE UNCHANGED vars
  BY <1>2 DEF vars, TypeInvariant, TypeOK, RequestTypeOK, Present
<1> QED BY <1>1, <1>2, EditType, UpdateDraftType, ImportType, LiveType, PublishType DEF Next

\* Types; and an item is in the tables, in the rows a request has read or in what it is
\* about to write only under an id that was handed out, so that a new item never takes
\* the place of another.
THEOREM TypeCorrect == Spec => []TypeInvariant
BY InitType, StepType, PTL DEF Spec

-----------------------------------------------------------------------------
(* Items and their parents *)

LEMMA StepLiveParents ==
  TypeInvariant /\ LiveParents /\ [Next]_vars => LiveParents'
<1> SUFFICES ASSUME TypeInvariant, LiveParents, [Next]_vars PROVE LiveParents'
  OBVIOUS
<1> USE DEF LiveParents
<1>0. items \in Table
  BY DEF TypeInvariant, TypeOK
<1>1. CASE UNCHANGED items
  BY <1>1 DEF Orphans, Orphan
<1>2. ASSUME NEW e \in Editor, ImportCreate(e) PROVE LiveParents'
  <2>1. PICK i \in NextOfBatch(e), b \in Body :
          /\ BatchItem(e, i, b).rank \in Rank
          /\ BatchItem(e, i, b).parent \in Present(items) \cup {None}
          /\ items' = [items EXCEPT ![i] = BatchItem(e, i, b)]
    BY <1>2 DEF ImportCreate
  <2> DEFINE it == BatchItem(e, i, b)
  <2>2. i \in ItemId /\ it \in Item /\ it # None
    BY <2>1, BatchItemType, ConstantsAssumption
  <2> HIDE DEF it
  <2>3. \A j \in ItemId : items'[j] = IF j = i THEN it ELSE items[j]
    BY <1>0, <2>1 DEF Table, it
  <2>4. it.parent \in Present(items) \cup {None}
    BY <2>1 DEF it
  <2>5. ASSUME NEW j \in ItemId, items'[j] # None, items'[j].parent # None
        PROVE  items'[items'[j].parent] # None
    <3>1. items'[j].parent \in ItemId /\ items[items'[j].parent] # None
      BY <1>0, <2>2, <2>3, <2>4, <2>5 DEF Orphans, Orphan, Present, Table, Item, ItemId
    <3> QED BY <2>2, <2>3, <3>1
  <2> QED BY <2>5 DEF Orphans, Orphan
<1>3. ASSUME NEW e \in Editor, UpdateCard(e) PROVE LiveParents'
  <2>1. PICK i \in Present(items), b \in Body : items' = [items EXCEPT ![i].body = b]
    BY <1>3 DEF UpdateCard
  <2>2. items[i] \in Item /\ i \in ItemId
    BY <1>0, <2>1 DEF Present, Table
  <2>3. \A j \in ItemId : /\ items'[j] = None <=> items[j] = None
                          /\ items[j] # None => items'[j].parent = items[j].parent
    BY <1>0, <2>1, <2>2, ConstantsAssumption DEF Table, Item
  <2>4. \A j \in ItemId : items[j] # None /\ items[j].parent # None => items[j].parent \in ItemId
    BY <1>0 DEF Table, Item, ItemId
  <2> QED BY <2>3, <2>4 DEF Orphans, Orphan
<1>4. ASSUME NEW e \in Editor, DeleteCard(e) PROVE LiveParents'
  <2>1. PICK i \in Present(items) : items' = DeleteRows(items, {i})
    BY <1>4 DEF DeleteCard
  <2>2. {i} \in SUBSET ItemId
    BY DEF Present
  <2> QED BY <1>0, <2>1, <2>2, DeleteRowsLiveParents DEF Orphans, Orphan
<1>5. ASSUME NEW e \in Editor, PublishCommit(e) PROVE LiveParents'
  <2>1. req[e].rows \in Staging
    BY LocalRequest DEF Request
  <2>2. Orphans(Applied(items, req[e].rows)) = {}
    BY <1>0, <1>5, <2>1, AppliedLiveParents DEF PublishCommit
  <2> QED BY <1>5, <2>2 DEF PublishCommit, Orphans, Orphan
<1>6. ASSUME NEW e \in Editor, Edit(e) \/ UpdateDraftSteps(e) PROVE UNCHANGED items
  BY <1>6 DEF Edit, UpdateDraftSteps, StageDraftItem, MoveDraftItem, WriteStaged,
              StageDraftDelete, RemoveStaged, MarkDeleted, RevertDraftItem, DiscardDraft,
              McpDiscardDraft, ClearDraft, UpdateDraft, UpdateDraftList, UpdateDraftSet,
              UpdateDraftStaged, UpdateDraftMark, UpdateDraftReturn
<1>7. ASSUME NEW e \in Editor, Import(e) \/ Publish(e) \/ Live(e) \/ Abort(e),
             ~ImportCreate(e), ~UpdateCard(e), ~DeleteCard(e), ~PublishCommit(e)
      PROVE  UNCHANGED items
  BY <1>7 DEF Import, Publish, Live, Abort, ImportItems, ImportStage, ImportReturn,
              PublishDraft, McpPublishDraft, PublishList
<1> QED BY <1>1, <1>2, <1>3, <1>4, <1>5, <1>6, <1>7 DEF Next, vars

\* Readers never see an item whose parent is gone.
THEOREM LiveParentsAlways == Spec => []LiveParents
<1>1. Init => LiveParents
  BY InitItemsAssumption DEF Init, LiveParents, Orphans, Orphan
<1> QED BY <1>1, TypeCorrect, StepLiveParents, PTL DEF Spec

-----------------------------------------------------------------------------
(* What publishing would do *)

\* The overlay, less what hangs below an item that is not in it, is the published result.
LEMMA OverlayApplied ==
  ASSUME TypeInvariant, LiveParents, ~Rejected(items, draft)
  PROVE  Applied(items, draft) = Promise!WithoutOrphans(OverlayDraft(items, draft))
<1> DEFINE m == Merged(items, draft)
           D == Marked(draft)
           o == [i \in ItemId |-> IF i \in D THEN None ELSE m[i]]
<1>1. items \in Table /\ draft \in Staging /\ Orphans(items) = {}
  BY DEF TypeInvariant, TypeOK, LiveParents
<1>2. Applied(items, draft) = DeleteRows(m, D) /\ m \in Table /\ Orphans(m) = {}
  BY <1>1, AppliedForm
<1>3. D \in SUBSET ItemId
  BY DEF Marked
<1>4. o = OverlayDraft(items, draft)
  BY ConstantsAssumption DEF OverlayDraft, Merged, Marked, IsUpsert
<1> HIDE DEF m, D
<1>5. DeleteRows(m, D) = Promise!WithoutOrphans(o)
  BY <1>2, <1>3, CascadeLeavesRooted
<1> HIDE DEF o
<1> QED BY <1>2, <1>4, <1>5

\* The editor's preview is what publishing would produce.
THEOREM PreviewFaithfulAlways == Spec => []PreviewFaithful
<1>1. TypeInvariant /\ LiveParents => PreviewFaithful
  BY OverlayApplied DEF PreviewFaithful
<1> QED BY <1>1, TypeCorrect, LiveParentsAlways, PTL

\* The rows applied again to what they left.
LEMMA AppliedTwice ==
  ASSUME NEW f \in Table, NEW d \in Staging, Orphans(f) = {},
         ~Rejected(f, d), ~Rejected(Applied(f, d), d)
  PROVE  Applied(Applied(f, d), d) = Applied(f, d)
<1> DEFINE once == Applied(f, d)
           m == Merged(f, d)
           n == Merged(once, d)
           S == Marked(d)
           D == Descendants(m, S)
           E == Descendants(n, S)
           T == E \cup {i \in ItemId : n[i] = None}
<1>1. S \in SUBSET ItemId /\ None \notin ItemId
  BY ConstantsAssumption DEF Marked
<1>2. once = DeleteRows(m, S) /\ m \in Table /\ Orphans(m) = {}
  BY AppliedForm
<1>3. once \in Table /\ Orphans(once) = {}
  BY AppliedType, AppliedLiveParents
<1>4. Applied(once, d) = DeleteRows(n, S) /\ n \in Table /\ Orphans(n) = {}
  <2> HIDE DEF once
  <2>1. ~Rejected(once, d)
    BY DEF once
  <2> QED BY <1>3, <2>1, AppliedForm
<1>5. \A i \in ItemId : once[i] = IF i \in D THEN None ELSE m[i]
  <2> HIDE DEF once
  <2> QED BY <1>2, DeleteRowsForm
<1>6. \A i \in ItemId : m[i] = (IF IsUpsert(d[i]) THEN d[i] ELSE f[i])
                        /\ n[i] = (IF IsUpsert(d[i]) THEN d[i] ELSE once[i])
  BY DEF Merged
<1>7. \A i \in ItemId : /\ n[i] \in {m[i], None}
                        /\ n[i] = None => i \in D \/ m[i] = None
  <2> HIDE DEF once, m, n, D
  <2> QED BY <1>5, <1>6
<1>8. /\ S \subseteq D /\ D \subseteq ItemId /\ Closed(m, D)
      /\ \A U \in SUBSET ItemId : S \subseteq U /\ Closed(m, U) => D \subseteq U
  <2> HIDE DEF m, S
  <2> QED BY <1>1, DescendantsLeast
<1>9. /\ S \subseteq E /\ E \subseteq ItemId /\ Closed(n, E)
      /\ \A U \in SUBSET ItemId : S \subseteq U /\ Closed(n, U) => E \subseteq U
  <2> HIDE DEF n, S
  <2> QED BY <1>1, DescendantsLeast
<1> HIDE DEF once, m, n, S, D, E
<1>10. E \subseteq D
  <2>1. Closed(n, D)
    BY <1>7, <1>8 DEF Closed, Present
  <2> QED BY <1>8, <1>9, <2>1
<1>11. D \subseteq T
  <2>1. ASSUME NEW i \in Present(m), m[i].parent \in T PROVE i \in T
    <3>1. i \in ItemId /\ m[i] # None
      BY DEF Present
    <3>2. SUFFICES ASSUME n[i] # None PROVE i \in E
      BY <3>1
    <3>3. n[i] = m[i] /\ i \in Present(n) /\ n[i].parent \in ItemId
      BY <1>7, <1>9, <2>1, <3>1, <3>2 DEF Present
    <3>4. n[n[i].parent] # None
      BY <1>1, <1>4, <3>1, <3>2, <3>3 DEF Orphans, Orphan
    <3> QED BY <1>9, <2>1, <3>3, <3>4 DEF Closed
  <2>2. Closed(m, T)
    <3> HIDE DEF T
    <3> QED BY <2>1 DEF Closed
  <2> QED BY <1>8, <1>9, <2>2
<1>12. \A i \in ItemId : (IF i \in E THEN None ELSE n[i]) = once[i]
  BY <1>5, <1>7, <1>10, <1>11
<1>13. DeleteRows(n, S) = [i \in ItemId |-> once[i]]
  BY <1>12, DeleteRowsForm DEF E
<1>14. [i \in ItemId |-> once[i]] = once
  BY <1>3 DEF Table
<1> QED BY <1>4, <1>13, <1>14 DEF once

\* Publishing the same rows twice is publishing them once.
THEOREM RepublishHarmlessAlways == Spec => []RepublishHarmless
<1>1. TypeInvariant /\ LiveParents => RepublishHarmless
  BY AppliedTwice DEF RepublishHarmless, TypeInvariant, TypeOK, LiveParents
<1> QED BY <1>1, TypeCorrect, LiveParentsAlways, PTL

\* A diff that is empty shows what is published, in some order.
THEOREM EmptyDiffIsReorderAlways == Spec => []EmptyDiffIsReorder
<1>1. TypeInvariant => EmptyDiffIsReorder
  <2> SUFFICES ASSUME TypeInvariant, GetDraftDiff(items, draft) = {}, NEW i \in ItemId
               PROVE  /\ OverlayDraft(items, draft)[i] # None <=> items[i] # None
                      /\ items[i] # None => SameItem(OverlayDraft(items, draft)[i], items[i])
    BY DEF EmptyDiffIsReorder, Present
  <2> DEFINE shown == OverlayDraft(items, draft)[i]
  <2>1. shown = IF draft[i] = None THEN items[i] ELSE IF draft[i] = Deleted THEN None ELSE draft[i]
    BY DEF OverlayDraft
  <2>2. draft[i] = Deleted => items[i] = None
    BY DEF GetDraftDiff
  <2>3. draft[i] \notin {None, Deleted} => items[i] # None /\ SameItem(items[i], draft[i])
    BY DEF GetDraftDiff, IsUpsert
  <2> HIDE DEF shown
  <2> QED BY <2>1, <2>2, <2>3 DEF SameItem, shown
<1> QED BY <1>1, TypeCorrect, PTL

\* Rows whose staged children hang below a published item, themselves or a staged item
\* without a parent are published in whatever order the database lists them.
THEOREM FlatDraftPublishesAlways == Spec => []FlatDraftPublishes
<1>1. TypeInvariant => FlatDraftPublishes
  <2> SUFFICES ASSUME TypeInvariant,
                      NEW d \in {draft} \cup {req[e].rows : e \in {f \in Editor : req[f].pc = "commit"}},
                      ParentsFirst(d)
               PROVE  ~MayFail(items, d)
    BY DEF FlatDraftPublishes
  <2> DEFINE f0 == Written(items, d, 0)
  <2>1. items \in Table /\ d \in Staging
    BY LocalRequest DEF TypeInvariant, TypeOK, Request
  <2>2. ~SomeOrderFails(items, d, 0)
    <3> SUFFICES ASSUME NEW i \in InClass(d, 0), BreaksKey(items, d, i) PROVE FALSE
      BY DEF SomeOrderFails
    <3> QED BY DEF InClass, PublishOrder, BreaksKey, IsUpsert
  <2>3. ~SomeOrderFails(f0, d, 1)
    <3> SUFFICES ASSUME NEW i \in InClass(d, 1), BreaksKey(f0, d, i) PROVE FALSE
      BY DEF SomeOrderFails
    <3>1. i \in ItemId /\ IsUpsert(d[i])
      BY DEF InClass, BreaksKey
    <3> DEFINE p == d[i].parent
    <3>2. p \in ItemId /\ p # i /\ f0[p] = None
      BY <2>1, <3>1 DEF BreaksKey, IsUpsert, Staging, Row, Item
    <3>3. p \in Present(items) \/ (IsUpsert(d[p]) /\ d[p].parent = None)
      BY <3>1, <3>2, ConstantsAssumption DEF ParentsFirst
    <3> QED BY <3>2, <3>3 DEF Written, IsUpsert, PublishOrder, Present
  <2>4. ApplyClass(items, d, 0) = f0
    BY <2>1, Classes
  <2> QED BY <2>2, <2>3, <2>4 DEF MayFail
<1> QED BY <1>1, TypeCorrect, PTL

-----------------------------------------------------------------------------
(* An editor who works alone *)

Lone == \A a, b \in Editor : a = b

\* Where a request holds the rows it will publish, an item it has seen unpublished, or
\* the cards it stages one by one.
Bulk == {"ud_list", "ud_set", "ud_mark"}
Held == {"commit", "remove"} \cup Bulk
Steps(e) ==
  Edit(e) \/ UpdateDraftSteps(e) \/ Import(e) \/ Live(e) \/ Publish(e) \/ Abort(e)

LEMMA BulkHolds ==
  ASSUME TypeInvariant, NEW e \in Editor, UpdateDraftSteps(e)
  PROVE  req'[e].pc \notin {"commit", "remove"}
<1>req. req[e] \in Request /\ req \in [Editor -> Request]
  BY DEF TypeInvariant, TypeOK
<1>set. ASSUME NEW r, Set(e, r), r.pc \notin {"commit", "remove"}
        PROVE  req'[e].pc \notin {"commit", "remove"}
  BY <1>req, <1>set DEF Set
<1>fin. ASSUME Finish(e) PROVE req'[e].pc \notin {"commit", "remove"}
  BY <1>set, <1>fin DEF Finish, NoRequest
<1>1. CASE UpdateDraft(e)
  <2>1. PICK new, todo : Set(e, [NoRequest EXCEPT !.pc = "ud_list", !.new = new,
                                                  !.want = todo, !.todo = todo])
    BY <1>1 DEF UpdateDraft
  <2> QED BY <2>1, <1>set DEF NoRequest
<1>2. CASE UpdateDraftList(e) \/ UpdateDraftStaged(e)
  BY <1>2, <1>set, <1>req DEF UpdateDraftList, UpdateDraftStaged, Request
<1>3. CASE UpdateDraftSet(e)
  <2>1. PICK i, r : Set(e, [req[e] EXCEPT !.todo = @ \ {i},
                                          !.last = IF i \in req[e].new THEN r ELSE @])
    BY <1>3 DEF UpdateDraftSet
  <2> QED BY <1>3, <2>1, <1>set, <1>req DEF UpdateDraftSet, Request
<1>4. CASE UpdateDraftMark(e)
  <2>1. PICK i : Set(e, [req[e] EXCEPT !.todo = @ \ {i}])
    BY <1>4 DEF UpdateDraftMark
  <2> QED BY <1>4, <2>1, <1>set, <1>req DEF UpdateDraftMark, Request
<1>5. CASE UpdateDraftReturn(e)
  BY <1>5, <1>fin DEF UpdateDraftReturn
<1> QED BY <1>1, <1>2, <1>3, <1>4, <1>5 DEF UpdateDraftSteps

LEMMA StepHolds ==
  ASSUME TypeInvariant, NEW e \in Editor, Steps(e)
  PROVE  \/ PublishList(e) \/ StageDraftDelete(e) \/ UpdateDraftSteps(e)
         \/ req'[e].pc \notin Held
<1> USE DEF Held, Bulk
<1>0. req \in [Editor -> Request]
  BY DEF TypeInvariant, TypeOK
<1>set. ASSUME NEW r, Set(e, r), r.pc \notin Held
        PROVE  req'[e].pc \notin Held
  BY <1>0, <1>set DEF Set
<1>idle. NoRequest.pc = "idle" /\ NoRequest = [NoRequest EXCEPT !.pc = "idle"]
  BY IdleRequest DEF NoRequest
<1>fin. ASSUME Finish(e) PROVE req'[e].pc \notin Held
  BY <1>set, <1>fin, <1>idle DEF Finish
<1>req. req[e] \in Request
  BY <1>0
<1>1. ASSUME Edit(e), ~StageDraftDelete(e) PROVE req'[e].pc \notin Held
  <2>1. CASE (\E given \in Given : StageDraftItem(e, given)) \/ MoveDraftItem(e)
    <3>1. PICK i, v : Set(e, [NoRequest EXCEPT !.pc = "set", !.tgt = i, !.val = v])
      BY <2>1 DEF StageDraftItem, MoveDraftItem
    <3> QED BY <3>1, <1>set DEF NoRequest
  <2>2. CASE McpDiscardDraft(e)
    BY <2>2, <1>set DEF McpDiscardDraft, NoRequest
  <2>3. CASE WriteStaged(e) \/ RemoveStaged(e) \/ MarkDeleted(e) \/ ClearDraft(e)
    BY <2>3, <1>fin DEF WriteStaged, RemoveStaged, MarkDeleted, ClearDraft
  <2>4. CASE RevertDraftItem(e) \/ DiscardDraft(e)
    BY <2>4 DEF RevertDraftItem, DiscardDraft, Begin
  <2> QED BY <1>1, <2>1, <2>2, <2>3, <2>4 DEF Edit
<1>3. ASSUME Import(e) PROVE req'[e].pc \notin Held
  <2>1. CASE ImportItems(e, "import_draft") \/ ImportItems(e, "import_live")
    <3>1. PICK mode \in {"import_draft", "import_live"} : ImportItems(e, mode)
      BY <2>1
    <3>2. PICK want, l : Set(e, [NoRequest EXCEPT !.pc = mode, !.want = want,
                                                 !.todo = want, !.last = l])
      BY <3>1 DEF ImportItems
    <3> QED BY <3>1, <3>2, <1>set DEF NoRequest
  <2>2. CASE ImportStage(e) \/ ImportCreate(e)
    <3>1. PICK i, r : Imported(e, i, r)
      BY <2>2 DEF ImportStage, ImportCreate
    <3> QED BY <2>2, <3>1, <1>set, <1>req DEF ImportStage, ImportCreate, Imported, Request
  <2>3. CASE ImportReturn(e)
    BY <2>3, <1>fin DEF ImportReturn
  <2> QED BY <1>3, <2>1, <2>2, <2>3 DEF Import
<1>4. ASSUME Live(e) PROVE req'[e].pc \notin Held
  BY <1>4 DEF Live, UpdateCard, DeleteCard, Begin
<1>5. ASSUME Publish(e), ~PublishList(e) PROVE req'[e].pc \notin Held
  BY <1>0, <1>5, IdleRequest
     DEF Publish, PublishDraft, McpPublishDraft, PublishCommit, Set, Finish, Request, NoRequest
<1>6. ASSUME Abort(e) PROVE req'[e].pc \notin Held
  BY <1>0, <1>6, IdleRequest DEF Abort, Set, Finish, Request, NoRequest
<1> QED BY <1>1, <1>3, <1>4, <1>5, <1>6 DEF Steps

LEMMA StepLoneRows ==
  ASSUME Lone, TypeInvariant, LoneRows, [Next]_vars
  PROVE  LoneRows'
<1>0. req \in [Editor -> Request]
  BY DEF TypeInvariant, TypeOK
<1>1. CASE UNCHANGED vars
  BY <1>1 DEF LoneRows, vars
<1>2. ASSUME NEW e \in Editor, PublishList(e) PROVE LoneRows'
  BY <1>0, <1>2 DEF Lone, LoneRows, PublishList, Set, Request
<1>3. ASSUME NEW e \in Editor, req'[e].pc # "commit" PROVE LoneRows'
  BY <1>3 DEF Lone, LoneRows
<1>4. ASSUME NEW e \in Editor, StageDraftDelete(e) PROVE req'[e].pc # "commit"
  BY <1>0, <1>4 DEF StageDraftDelete, Set, NoRequest
<1> QED BY <1>1, <1>2, <1>3, <1>4, StepHolds, BulkHolds DEF Next, Steps, Held

\* An item a lone editor removes from the draft is not published either.
LoneRemoval == \A e \in Editor : req[e].pc = "remove" => items[req[e].tgt] = None

LEMMA StepLoneRemoval ==
  ASSUME Lone, TypeInvariant, LoneRemoval, [Next]_vars
  PROVE  LoneRemoval'
<1>0. req \in [Editor -> Request]
  BY DEF TypeInvariant, TypeOK
<1>1. CASE UNCHANGED vars
  BY <1>1 DEF LoneRemoval, vars
<1>2. ASSUME NEW e \in Editor, req'[e].pc # "remove" PROVE LoneRemoval'
  BY <1>2 DEF Lone, LoneRemoval
<1>3. ASSUME NEW e \in Editor, PublishList(e) PROVE req'[e].pc # "remove"
  BY <1>0, <1>3 DEF PublishList, Set, Request
<1>4. ASSUME NEW e \in Editor, StageDraftDelete(e) PROVE LoneRemoval'
  <2>1. PICK i \in used :
           Set(e, [NoRequest EXCEPT !.pc = IF items[i] = None THEN "remove" ELSE "mark",
                                    !.tgt = i])
    BY <1>4 DEF StageDraftDelete
  <2>2. /\ req'[e].tgt = i
        /\ req'[e].pc = "remove" => items[i] = None
    BY <1>0, <2>1 DEF Set, NoRequest
  <2>3. items' = items
    BY <1>4 DEF StageDraftDelete
  <2> QED BY <2>2, <2>3 DEF Lone, LoneRemoval
<1> QED BY <1>1, <1>2, <1>3, <1>4, StepHolds, BulkHolds DEF Next, Steps, Held

\* What a lone editor deletes, by a marker or by taking back what was only staged,
\* is gone from the preview.
THEOREM LoneDeletionShows == ASSUME Lone PROVE Spec => DeletedFromPreview
<1> DEFINE Shows == \A e \in Editor : (RemoveStaged(e) \/ MarkDeleted(e)) =>
                       OverlayDraft(items', draft')[req[e].tgt] = None
<1>1. TypeInvariant /\ LoneRemoval => Shows
  <2> SUFFICES ASSUME TypeInvariant, LoneRemoval, NEW e \in Editor,
                      RemoveStaged(e) \/ MarkDeleted(e)
               PROVE  OverlayDraft(items', draft')[req[e].tgt] = None
    OBVIOUS
  <2>1. req[e].tgt \in ItemId /\ items' = items
    BY LocalRequest DEF RequestOK, RemoveStaged, MarkDeleted
  <2>2. CASE RemoveStaged(e)
    <3>1. draft'[req[e].tgt] = None /\ items[req[e].tgt] = None
      BY <2>1, <2>2 DEF RemoveStaged, LoneRemoval, TypeInvariant, TypeOK, Staging
    <3> QED BY <2>1, <3>1 DEF OverlayDraft
  <2>3. CASE MarkDeleted(e)
    <3>1. draft'[req[e].tgt] = Deleted
      BY <2>1, <2>3 DEF MarkDeleted, TypeInvariant, TypeOK, Staging
    <3> QED BY <2>1, <3>1, ConstantsAssumption DEF OverlayDraft
  <2> QED BY <2>2, <2>3
<1>2. Init => LoneRemoval
  BY DEF Init, LoneRemoval, NoRequest
<1>3. TypeInvariant /\ LoneRemoval /\ [Next]_vars => LoneRemoval'
  BY StepLoneRemoval
<1>4. TypeInvariant /\ LoneRemoval /\ [Next]_vars => [Shows]_vars
  BY <1>1
<1> QED BY <1>2, <1>3, <1>4, TypeCorrect, PTL DEF Spec, DeletedFromPreview

\* How far a lone editor's UpdateDraft has come: it has staged, as cards, the items it
\* asks for that are no longer to do, and no others; then it has marked the live cards it
\* drops, but those that are to do.
StagedCard(i) == IsUpsert(draft[i]) /\ draft[i].type = "card"
LoneBulk ==
  \A e \in Editor :
    /\ req[e].pc = "ud_list" => draft = NoRows /\ req[e].todo = req[e].want
    /\ req[e].pc = "ud_set" =>
         /\ req[e].rows = items /\ req[e].todo \subseteq req[e].want
         /\ \A i \in ItemId : IF i \in req[e].want \ req[e].todo THEN StagedCard(i)
                              ELSE draft[i] = None
    /\ req[e].pc = "ud_mark" =>
         /\ req[e].todo \cap req[e].want = {}
         /\ \A i \in ItemId :
              IF i \in req[e].want THEN StagedCard(i)
              ELSE \/ draft[i] = Deleted
                   \/ /\ draft[i] = None
                      /\ items[i] # None /\ items[i].type = "card" => i \in req[e].todo

LEMMA StepLoneBulk ==
  ASSUME Lone, TypeInvariant, LoneBulk, [Next]_vars
  PROVE  LoneBulk'
<1> USE DEF Bulk
<1>0. /\ req \in [Editor -> Request] /\ draft \in Staging
      /\ \A e \in Editor : req[e] \in Request
  BY DEF TypeInvariant, TypeOK
<1>1. CASE UNCHANGED vars
  BY <1>1 DEF LoneBulk, vars, StagedCard, IsUpsert
<1>2. ASSUME NEW e \in Editor, req'[e].pc \notin Bulk PROVE LoneBulk'
  BY <1>2 DEF Lone, LoneBulk
<1>3. ASSUME NEW e \in Editor, PublishList(e) PROVE req'[e].pc \notin Bulk
  BY <1>0, <1>3 DEF PublishList, Set, Request
<1>4. ASSUME NEW e \in Editor, StageDraftDelete(e) PROVE req'[e].pc \notin Bulk
  BY <1>0, <1>4 DEF StageDraftDelete, Set, NoRequest
<1>5. ASSUME NEW e \in Editor, UpdateDraft(e) PROVE LoneBulk'
  <2>1. PICK kept \in SUBSET used, new \in SUBSET (Card \ used) :
          Set(e, [NoRequest EXCEPT !.pc = "ud_list", !.new = new,
                                   !.want = kept \cup new, !.todo = kept \cup new])
    BY <1>5, Zenon DEF UpdateDraft
  <2>2. req'[e].pc = "ud_list" /\ req'[e].want = kept \cup new /\ req'[e].todo = kept \cup new
    BY <1>0, <2>1 DEF Set, NoRequest
  <2>3. draft' = NoRows
    BY <1>5 DEF UpdateDraft
  <2> QED BY <2>2, <2>3 DEF Lone, LoneBulk
<1>6. ASSUME NEW e \in Editor, UpdateDraftList(e) PROVE LoneBulk'
  <2>1. /\ req'[e].pc = "ud_set" /\ req'[e].want = req[e].want /\ req'[e].todo = req[e].todo
        /\ req'[e].rows = items /\ req[e].pc = "ud_list"
    BY <1>0, <1>6 DEF UpdateDraftList, Set, Request
  <2>2. UNCHANGED <<items, draft>>
    BY <1>6 DEF UpdateDraftList
  <2>3. draft = NoRows /\ req[e].todo = req[e].want
    BY <2>1 DEF LoneBulk
  <2>4. \A i \in ItemId : draft'[i] = None /\ i \notin req'[e].want \ req'[e].todo
    BY <1>0, <2>1, <2>2, <2>3 DEF NoRows
  <2> QED BY <2>1, <2>2, <2>3, <2>4 DEF Lone, LoneBulk
<1>7. ASSUME NEW e \in Editor, UpdateDraftSet(e) PROVE LoneBulk'
  <2>1. PICK i \in req[e].todo, b \in Body :
          /\ draft' = [draft EXCEPT ![i] = [type |-> "card", parent |-> None, body |-> b,
                                            rank |-> StagedRank(e, i)]]
          /\ Set(e, [req[e] EXCEPT !.todo = @ \ {i},
                                   !.last = IF i \in req[e].new THEN StagedRank(e, i) ELSE @])
          /\ StagedRank(e, i) \in Rank
    BY <1>7, Zenon DEF UpdateDraftSet
  <2>2. PICK r \in Item : r.type = "card" /\ draft' = [draft EXCEPT ![i] = r]
    <3>1. [type |-> "card", parent |-> None, body |-> b, rank |-> StagedRank(e, i)] \in Item
      BY <2>1 DEF Item, Type
    <3> QED BY <2>1, <3>1
  <2>3. /\ req'[e].pc = "ud_set" /\ req'[e].want = req[e].want
        /\ req'[e].todo = req[e].todo \ {i} /\ req'[e].rows = req[e].rows
        /\ req[e].pc = "ud_set" /\ i \in ItemId
    BY <1>0, <1>7, <2>1 DEF UpdateDraftSet, Set, Request
  <2>4. UNCHANGED items
    BY <1>7 DEF UpdateDraftSet
  <2>5. req[e].todo \subseteq req[e].want /\ req[e].rows = items
    BY <2>3 DEF LoneBulk
  <2>6. ASSUME NEW c \in ItemId
        PROVE  IF c \in req'[e].want \ req'[e].todo THEN StagedCard(c)' ELSE draft'[c] = None
    <3>1. IF c \in req[e].want \ req[e].todo THEN StagedCard(c) ELSE draft[c] = None
      BY <2>3 DEF LoneBulk
    <3>2. IsUpsert(r)
      BY ConstantsAssumption DEF IsUpsert
    <3>3. draft'[c] = IF c = i THEN r ELSE draft[c]
      BY <1>0, <2>2, <2>3 DEF Staging
    <3> QED BY <3>1, <3>2, <3>3, <2>2, <2>3, <2>5 DEF StagedCard, IsUpsert
  <2> QED BY <2>3, <2>4, <2>5, <2>6 DEF Lone, LoneBulk
<1>8. ASSUME NEW e \in Editor, UpdateDraftStaged(e) PROVE LoneBulk'
  <2>1. /\ req'[e].pc = "ud_mark" /\ req'[e].want = req[e].want /\ req'[e].todo = Dropped(e)
        /\ req[e].pc = "ud_set" /\ req[e].todo = {}
    BY <1>0, <1>8 DEF UpdateDraftStaged, Set, Request
  <2>2. UNCHANGED <<items, draft>>
    BY <1>8 DEF UpdateDraftStaged
  <2>3. /\ req[e].rows = items
        /\ \A i \in ItemId : IF i \in req[e].want THEN StagedCard(i) ELSE draft[i] = None
    BY <2>1 DEF LoneBulk
  <2>4. /\ Dropped(e) \cap req[e].want = {}
        /\ \A i \in ItemId : i \notin req[e].want /\ items[i] # None /\ items[i].type = "card"
                             => i \in Dropped(e)
    BY <2>3 DEF Dropped, LiveCards, Present
  <2>5. \A i \in ItemId : StagedCard(i)' <=> StagedCard(i)
    BY <2>2 DEF StagedCard, IsUpsert
  <2>6. \A i \in ItemId :
          IF i \in req'[e].want THEN StagedCard(i)'
          ELSE draft'[i] = None /\ (items'[i] # None /\ items'[i].type = "card" => i \in req'[e].todo)
    BY <2>1, <2>2, <2>3, <2>4, <2>5
  <2> QED BY <2>1, <2>4, <2>6 DEF Lone, LoneBulk
<1>9. ASSUME NEW e \in Editor, UpdateDraftMark(e) PROVE LoneBulk'
  <2>1. PICK i \in req[e].todo :
          /\ draft' = [draft EXCEPT ![i] = Deleted]
          /\ Set(e, [req[e] EXCEPT !.todo = @ \ {i}])
    BY <1>9, Zenon DEF UpdateDraftMark
  <2>2. /\ req'[e].pc = "ud_mark" /\ req'[e].want = req[e].want
        /\ req'[e].todo = req[e].todo \ {i} /\ req[e].pc = "ud_mark" /\ i \in ItemId
    BY <1>0, <1>9, <2>1 DEF UpdateDraftMark, Set, Request
  <2>3. UNCHANGED items
    BY <1>9 DEF UpdateDraftMark
  <2>4. i \notin req[e].want /\ req[e].todo \cap req[e].want = {}
    BY <2>1, <2>2 DEF LoneBulk
  <2>5. ASSUME NEW c \in ItemId
        PROVE  IF c \in req'[e].want THEN StagedCard(c)'
               ELSE \/ draft'[c] = Deleted
                    \/ /\ draft'[c] = None
                       /\ items'[c] # None /\ items'[c].type = "card" => c \in req'[e].todo
    <3>1. IF c \in req[e].want THEN StagedCard(c)
          ELSE \/ draft[c] = Deleted
               \/ /\ draft[c] = None
                  /\ items[c] # None /\ items[c].type = "card" => c \in req[e].todo
      BY <2>2 DEF LoneBulk
    <3>2. draft'[c] = IF c = i THEN Deleted ELSE draft[c]
      BY <1>0, <2>1, <2>2 DEF Staging
    <3> QED BY <3>1, <3>2, <2>2, <2>3, <2>4 DEF StagedCard, IsUpsert
  <2> QED BY <2>2, <2>4, <2>5 DEF Lone, LoneBulk
<1>10. ASSUME NEW e \in Editor, UpdateDraftReturn(e) PROVE req'[e].pc \notin Bulk
  BY <1>0, <1>10 DEF UpdateDraftReturn, Finish, Set, NoRequest
<1> QED
  BY <1>1, <1>2, <1>3, <1>4, <1>5, <1>6, <1>7, <1>8, <1>9, <1>10, StepHolds
     DEF Next, Steps, Held, UpdateDraftSteps

\* A lone editor who saves the whole list of cards then sees these cards and no other,
\* whatever was staged before and whatever is published.
THEOREM LoneUpdateExact == ASSUME Lone PROVE Spec => UpdateDraftExact
<1> DEFINE Exact == \A e \in Editor : UpdateDraftReturn(e) =>
                      {i \in Present(Shown) : Shown[i].type = "card"} = req[e].want
<1>1. TypeInvariant /\ LoneBulk => Exact
  <2> SUFFICES ASSUME TypeInvariant, LoneBulk, NEW e \in Editor, UpdateDraftReturn(e)
               PROVE  {i \in Present(Shown) : Shown[i].type = "card"} = req[e].want
    OBVIOUS
  <2>1. req[e].pc = "ud_mark" /\ req[e].todo = {} /\ req[e].want \subseteq ItemId
    BY LocalRequest DEF UpdateDraftReturn, Request
  <2>2. \A i \in ItemId :
          IF i \in req[e].want THEN StagedCard(i)
          ELSE \/ draft[i] = Deleted
               \/ draft[i] = None /\ ~(items[i] # None /\ items[i].type = "card")
    BY <2>1 DEF LoneBulk
  <2>3. ASSUME NEW i \in ItemId
        PROVE  Shown[i] # None /\ Shown[i].type = "card" <=> i \in req[e].want
    <3>1. Shown[i] = IF draft[i] = None THEN items[i]
                     ELSE IF draft[i] = Deleted THEN None ELSE draft[i]
      BY DEF Shown, OverlayDraft
    <3> QED BY <2>2, <3>1, ConstantsAssumption DEF StagedCard, IsUpsert
  <2> QED BY <2>1, <2>3 DEF Present
<1>2. Init => LoneBulk
  BY DEF Init, LoneBulk, NoRequest
<1>3. TypeInvariant /\ LoneBulk /\ [Next]_vars => LoneBulk'
  BY StepLoneBulk
<1>4. TypeInvariant /\ LoneBulk => [Exact]_vars
  BY <1>1
<1> QED BY <1>2, <1>3, <1>4, TypeCorrect, PTL DEF Spec, UpdateDraftExact

preview == OverlayDraft(items, draft)

\* A row staged changes the preview at its id alone.
LEMMA StagePreview ==
  ASSUME TypeInvariant, NEW i \in ItemId, NEW r \in Row, UNCHANGED items,
         draft' = [draft EXCEPT ![i] = r]
  PROVE  Promise!Stage(i)
<1>1. draft \in Staging /\ items \in Table
  BY DEF TypeInvariant, TypeOK
<1>2. \A j \in ItemId : draft'[j] = IF j = i THEN r ELSE draft[j]
  BY <1>1 DEF Staging
<1>3. draft' \in Staging
  BY <1>1 DEF Staging
<1>4. preview' \in Table
  BY <1>1, <1>3, ConstantsAssumption DEF preview, OverlayDraft, Table, Staging, Row
<1>5. \A j \in ItemId \ {i} : preview'[j] = preview[j]
  BY <1>2 DEF preview, OverlayDraft
<1> QED BY <1>4, <1>5 DEF Promise!Stage, Promise!Table, Table, preview

\* An empty draft shows the published content.
LEMMA EmptyPreview == items \in Table => OverlayDraft(items, NoRows) = items
BY DEF OverlayDraft, NoRows, Table

\* A live write of one id is a live edit.
LEMMA LivePreview ==
  ASSUME TypeInvariant, TypeInvariant', UNCHANGED draft, NEW i \in ItemId,
         items' = Promise!WithoutOrphans([items EXCEPT ![i] = items'[i]])
  PROVE  Promise!LiveEdit(i)
<1>1. items' \in Table /\ draft \in Staging
  BY DEF TypeInvariant, TypeOK
<1>2. preview' \in Table
  BY <1>1, ConstantsAssumption DEF preview, OverlayDraft, Table, Staging, Row
<1>3. \A j \in ItemId : \/ preview'[j] = preview[j]
                        \/ preview[j] = items[j] /\ preview'[j] = items'[j]
  BY DEF preview, OverlayDraft
<1> QED BY <1>1, <1>2, <1>3 DEF Promise!LiveEdit, Promise!Table, Table, preview

LEMMA PromiseStep ==
  ASSUME Lone, TypeInvariant, TypeInvariant', LiveParents, LiveParents', LoneRows, [Next]_vars
  PROVE  [Promise!Next]_<<items, preview>>
<1>0. /\ items \in Table /\ draft \in Staging /\ Orphans(items) = {} /\ items' \in Table
      /\ \A e \in Editor : req[e] \in Request /\ RequestOK(req[e], used)
      /\ used \subseteq ItemId
  BY LocalRequest DEF TypeInvariant, TypeOK, LiveParents
<1>1. CASE UNCHANGED <<items, draft>>
  BY <1>1 DEF preview, OverlayDraft
<1>stage. ASSUME NEW i \in ItemId, NEW r \in Row, UNCHANGED items,
                 draft' = [draft EXCEPT ![i] = r]
          PROVE  Promise!Next
  BY <1>stage, StagePreview DEF Promise!Next
<1>clear. ASSUME UNCHANGED items, draft' = NoRows PROVE Promise!Next
  <2>1. preview' = items
    BY <1>0, <1>clear, EmptyPreview DEF preview
  <2> QED BY <1>clear, <2>1 DEF Promise!Next, Promise!Discard, preview
<1>live. ASSUME UNCHANGED draft, NEW i \in ItemId,
                items' = Promise!WithoutOrphans([items EXCEPT ![i] = items'[i]])
         PROVE  Promise!Next
  BY <1>live, LivePreview DEF Promise!Next
<1>2. ASSUME NEW e \in Editor, WriteStaged(e) PROVE Promise!Next
  BY <1>0, <1>2, <1>stage DEF WriteStaged, RequestOK, Row
<1>3. ASSUME NEW e \in Editor, RemoveStaged(e) \/ MarkDeleted(e) PROVE Promise!Next
  BY <1>0, <1>3, <1>stage DEF RemoveStaged, MarkDeleted, RequestOK, Row
<1>4. ASSUME NEW e \in Editor, RevertDraftItem(e) PROVE Promise!Next
  BY <1>0, <1>4, <1>stage DEF RevertDraftItem, Row
<1>5. ASSUME NEW e \in Editor, DiscardDraft(e) \/ ClearDraft(e) \/ UpdateDraft(e)
      PROVE  Promise!Next
  BY <1>5, <1>clear DEF DiscardDraft, ClearDraft, UpdateDraft
<1>6. ASSUME NEW e \in Editor, UpdateDraftSet(e) PROVE Promise!Next
  <2>1. PICK i \in req[e].todo, b \in Body :
          /\ StagedRank(e, i) \in Rank
          /\ draft' = [draft EXCEPT ![i] = [type |-> "card", parent |-> None, body |-> b,
                                            rank |-> StagedRank(e, i)]]
    BY <1>6, Zenon DEF UpdateDraftSet
  <2>2. i \in ItemId
    BY <2>1, LocalRequest DEF Request
  <2>3. [type |-> "card", parent |-> None, body |-> b, rank |-> StagedRank(e, i)] \in Row
    BY <2>1 DEF Row, Item, Type
  <2> QED BY <1>6, <2>1, <2>2, <2>3, <1>stage DEF UpdateDraftSet
<1>7. ASSUME NEW e \in Editor, UpdateDraftMark(e) PROVE Promise!Next
  BY <1>7, <1>stage, LocalRequest DEF UpdateDraftMark, Row, Request
<1>8. ASSUME NEW e \in Editor, ImportStage(e) PROVE Promise!Next
  <2>1. PICK i \in NextOfBatch(e), b \in Body :
          /\ BatchItem(e, i, b).rank \in Rank
          /\ draft' = [draft EXCEPT ![i] = BatchItem(e, i, b)]
    BY <1>8 DEF ImportStage
  <2> QED BY <1>8, <2>1, <1>stage, BatchItemType DEF ImportStage, Row
<1>full. ASSUME NEW i \in ItemId, items' = [items EXCEPT ![i] = items'[i]]
         PROVE  items' = Promise!WithoutOrphans([items EXCEPT ![i] = items'[i]])
  <2>1. Orphans(items') = {}
    BY DEF LiveParents, Orphans, Orphan
  <2> QED BY <1>0, <1>full, <2>1, AllRooted
<1>9. ASSUME NEW e \in Editor, ImportCreate(e) PROVE Promise!Next
  <2>1. PICK i \in NextOfBatch(e), b \in Body :
          /\ BatchItem(e, i, b).rank \in Rank
          /\ items' = [items EXCEPT ![i] = BatchItem(e, i, b)]
    BY <1>9 DEF ImportCreate
  <2>2. i \in ItemId
    BY <2>1, BatchItemType
  <2>3. items' = [items EXCEPT ![i] = items'[i]]
    BY <1>0, <2>1, <2>2 DEF Table
  <2>4. UNCHANGED draft
    BY <1>9 DEF ImportCreate
  <2> QED BY <2>2, <2>3, <2>4, <1>full, <1>live
<1>10. ASSUME NEW e \in Editor, UpdateCard(e) PROVE Promise!Next
  <2>1. PICK i \in Present(items), b \in Body : items' = [items EXCEPT ![i].body = b]
    BY <1>10 DEF UpdateCard
  <2>2. i \in ItemId /\ items' = [items EXCEPT ![i] = items'[i]]
    BY <1>0, <2>1 DEF Present, Table
  <2> QED BY <1>10, <2>2, <1>full, <1>live DEF UpdateCard
<1>11. ASSUME NEW e \in Editor, DeleteCard(e) PROVE Promise!Next
  <2>1. PICK i \in Present(items) : items' = DeleteRows(items, {i})
    BY <1>11 DEF DeleteCard
  <2>2. i \in ItemId /\ {i} \in SUBSET ItemId
    BY <2>1 DEF Present
  <2> DEFINE g == [j \in ItemId |-> IF j \in {i} THEN None ELSE items[j]]
  <2>3. items' = Promise!WithoutOrphans(g)
    BY <1>0, <2>1, <2>2, CascadeLeavesRooted
  <2>4. items'[i] = None
    <3>1. i \in Descendants(items, {i})
      BY <2>2, DescendantsLeast
    <3> QED BY <2>1, <2>2, <3>1, DeleteRowsForm
  <2>5. g = [items EXCEPT ![i] = items'[i]]
    BY <1>0, <2>2, <2>4 DEF Table
  <2> QED BY <1>11, <2>2, <2>3, <2>5, <1>live DEF DeleteCard
<1>12. ASSUME NEW e \in Editor, PublishCommit(e) PROVE Promise!Next
  <2>1. req[e].rows = draft
    BY <1>12 DEF LoneRows, PublishCommit
  <2>2. items' = Promise!WithoutOrphans(preview)
    BY <1>12, <2>1, OverlayApplied DEF PublishCommit, preview
  <2>3. preview' = items'
    BY <1>0, <1>12 DEF PublishCommit, preview, OverlayDraft, NoRows, Table
  <2> QED BY <2>2, <2>3 DEF Promise!Next, Promise!Publish, preview
<1>13. ASSUME NEW e \in Editor,
              \/ \E given \in Given : StageDraftItem(e, given)
              \/ MoveDraftItem(e) \/ StageDraftDelete(e) \/ McpDiscardDraft(e)
              \/ UpdateDraftList(e) \/ UpdateDraftStaged(e) \/ UpdateDraftReturn(e)
              \/ ImportItems(e, "import_draft") \/ ImportItems(e, "import_live") \/ ImportReturn(e)
              \/ PublishDraft(e) \/ McpPublishDraft(e) \/ PublishList(e) \/ Abort(e)
       PROVE  UNCHANGED <<items, draft>>
  BY <1>13 DEF StageDraftItem, MoveDraftItem, StageDraftDelete, McpDiscardDraft,
               UpdateDraftList, UpdateDraftStaged, UpdateDraftReturn, ImportItems, ImportReturn,
               PublishDraft, McpPublishDraft, PublishList, Abort
<1>14. CASE UNCHANGED vars
  BY <1>1, <1>14 DEF vars
<1> QED
  BY <1>1, <1>2, <1>3, <1>4, <1>5, <1>6, <1>7, <1>8, <1>9, <1>10, <1>11, <1>12, <1>13, <1>14
     DEF Next, Edit, UpdateDraftSteps, Import, Live, Publish

\* For an editor who works alone the draft keeps its promise: what is published
\* is exactly the preview, and staging never reaches the readers.
THEOREM LoneEditorPromise == ASSUME Lone PROVE Spec => PromiseKept
<1>1. Init => Promise!Init /\ LiveParents /\ LoneRows
  <2> SUFFICES ASSUME Init PROVE Promise!Init /\ LiveParents /\ LoneRows
    OBVIOUS
  <2>1. Promise!Init
    BY InitItemsAssumption, EmptyPreview DEF Init, Promise!Init, Promise!Table, Table
  <2>2. LiveParents
    BY InitItemsAssumption DEF Init, LiveParents, Orphans, Orphan
  <2>3. LoneRows
    BY DEF Init, LoneRows, NoRequest
  <2> QED BY <2>1, <2>2, <2>3
<1>2. TypeInvariant /\ LoneRows /\ [Next]_vars => LoneRows'
  BY StepLoneRows
<1>3. /\ TypeInvariant /\ TypeInvariant' /\ LiveParents /\ LiveParents' /\ LoneRows /\ [Next]_vars
      => [Promise!Next]_<<items, OverlayDraft(items, draft)>>
  BY PromiseStep DEF preview
<1> QED BY <1>1, <1>2, <1>3, TypeCorrect, LiveParentsAlways, PTL
        DEF Spec, PromiseKept, Promise!Spec
===============================================================================
