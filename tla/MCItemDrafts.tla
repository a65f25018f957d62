----------------------------- MODULE MCItemDrafts -----------------------------
(* Small instances of ItemDrafts. *)
EXTENDS ItemDrafts, TLC

CONSTANTS c1, c2, x1, s1, b1, b2

\* One card and one exercise with a sentence are published; c2 is a new id.
Published ==
  [i \in ItemId |->
     CASE i = c1 -> [type |-> "card", parent |-> None, body |-> b1, rank |-> 1]
       [] i = x1 -> [type |-> "exercise", parent |-> None, body |-> b1, rank |-> 2]
       [] i = s1 -> [type |-> "sentence", parent |-> x1, body |-> b1, rank |-> 1]
       [] OTHER -> None]

\* Only the card is: an import may bring the exercise with its sentence.
OneCard == [Published EXCEPT ![x1] = None, ![s1] = None]

\* Cards and exercises, and sentences below the exercise or below a sentence, itself
\* included: chains of staged items, and items that hang below themselves.
Nested ==
  [type : {"card", "exercise"}, parent : {None}] \cup [type : {"sentence"}, parent : {x1, s1}]

\* The same, and below any item whatever.
AnyParent ==
  Nested \cup [type : {"card", "exercise", "sentence"}, parent : ItemId]

\* Every kind of request.
AllRequests ==
  {"StageDraftItem", "MoveDraftItem", "StageDraftDelete", "RevertDraftItem",
   "DiscardDraft", "McpDiscardDraft", "UpdateDraft", "import_draft", "import_live",
   "UpdateCard", "DeleteCard", "PublishDraft", "McpPublishDraft"}

\* Editors are interchangeable (only invariants are checked under this symmetry).
EditorSymmetry == Permutations(Editor)

===============================================================================
