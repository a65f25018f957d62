----------------------------- MODULE DraftPromise -----------------------------
(***************************************************************************)
(* What the draft promises its one editor.  `published` is what readers    *)
(* see and `preview` what the editor sees.  Staging changes the preview    *)
(* alone, item by item; reverting an item or discarding the draft brings   *)
(* the published content back; publishing makes the preview the published  *)
(* content, less the items that hang below one that is not in it; a live   *)
(* edit changes the published content, and the preview where nothing is    *)
(* staged.                                                                 *)
(***************************************************************************)
CONSTANTS ItemId, Item, None

VARIABLES published, preview

Table == [ItemId -> Item \cup {None}]

\* The items of f whose parents, and theirs, are all in f: the union of the sets of
\* items that hold the parents of their members.
Rooted(f) ==
  UNION {K \in SUBSET {i \in ItemId : f[i] # None} :
           \A i \in K : f[i].parent \in K \cup {None}}

WithoutOrphans(f) ==
  LET rooted == Rooted(f)
  IN  [i \in ItemId |-> IF i \in rooted THEN f[i] ELSE None]

Init == published \in Table /\ preview = published

\* One item staged: as an edit, as its deletion, or as its published value again.
Stage(i) ==
  /\ preview' \in Table
  /\ \A j \in ItemId \ {i} : preview'[j] = preview[j]
  /\ UNCHANGED published

Discard ==
  /\ preview' = published
  /\ UNCHANGED published

Publish ==
  /\ published' = WithoutOrphans(preview)
  /\ preview' = published'

\* One published item written, or deleted with all that hangs below it.  What is
\* staged stays in the preview; the rest of the preview follows.
LiveEdit(i) ==
  /\ published' \in Table
  /\ published' = WithoutOrphans([published EXCEPT ![i] = published'[i]])
  /\ preview' \in Table
  /\ \A j \in ItemId :
       \/ preview'[j] = preview[j]
       \/ preview[j] = published[j] /\ preview'[j] = published'[j]

Next ==
  \/ \E i \in ItemId : Stage(i) \/ LiveEdit(i)
  \/ Discard
  \/ Publish

Spec == Init /\ [][Next]_<<published, preview>>
===============================================================================
