---------------------------- MODULE ImportEntries ----------------------------
(* What an import accepts: itemimport.BuildItem, shared by POST /import and the *)
(* MCP tools, and the older endpoints for cards, tests and exercises, which     *)
(* have validators of their own.  Texts are TRUE when something is left of them *)
(* after trimming; a sentence is the number of its blanks.                      *)
EXTENDS Integers, Sequences

CONSTANTS
    Bad,        \* the validator's error
    MaxRows     \* how many rows, or sentences, one REST import may bring

ASSUME MaxRowsAssumption == MaxRows \in Nat

Sentence == [blanks: Nat, answer: Seq(BOOLEAN), lists: Nat]
Option == [text: BOOLEAN, correct: BOOLEAN]
Entry == [type: {"card", "quiz", "exercise", "other"},
          term: BOOLEAN, definition: BOOLEAN, question: BOOLEAN,
          options: Seq(Option),
          kind: {"bank", "choice", "other"}, sentences: Seq(Sentence)]

\* What a loop that skips the other positions collects.
Kept(s, positions) ==
    LET upTo[n \in 0 .. Len(s)] ==
            IF n = 0 THEN <<>>
            ELSE IF n \in positions THEN Append(upTo[n - 1], s[n]) ELSE upTo[n - 1]
    IN  upTo[Len(s)]

\* The items of a batch that are not Bad.
Built(s) == Kept(s, {k \in DOMAIN s : s[k] # Bad})
Complete(s) == \A k \in DOMAIN s : s[k] # Bad
Texts(options) == Kept(options, {k \in DOMAIN options : options[k].text})
HasCorrectOption(options) == \E k \in DOMAIN options : options[k].correct

-----------------------------------------------------------------------------
\* BuildSentence: one non-empty answer for each blank; for choice, no lists of wrong
\* options or one for each blank; for bank they are ignored.
BuildSentence(kind, s) ==
    IF /\ s.blanks > 0
       /\ Len(s.answer) = s.blanks
       /\ \A k \in DOMAIN s.answer : s.answer[k]
       /\ kind = "choice" /\ s.lists > 0 => s.lists = s.blanks
      THEN [s EXCEPT !.lists = IF kind = "choice" THEN @ ELSE 0]
      ELSE Bad

BuildCard(e) ==
    IF (e.term \/ e.question) /\ e.definition THEN [type |-> "card"] ELSE Bad

BuildQuiz(e) ==
    IF e.question /\ Len(Texts(e.options)) >= 2 /\ HasCorrectOption(Texts(e.options))
      THEN [type |-> "quiz", options |-> Texts(e.options)] ELSE Bad

\* One sentence that is refused refuses the exercise.
BuildExercise(e) ==
    LET sentences == [k \in DOMAIN e.sentences |-> BuildSentence(e.kind, e.sentences[k])]
    IN  IF e.kind # "other" /\ e.sentences # <<>> /\ Complete(sentences)
          THEN [type |-> "exercise", kind |-> e.kind, sentences |-> sentences] ELSE Bad

BuildItem(e) ==
    CASE e.type = "card"     -> BuildCard(e)
      [] e.type = "quiz"     -> BuildQuiz(e)
      [] e.type = "exercise" -> BuildExercise(e)
      [] e.type = "other"    -> Bad

CountSentences(e) == IF e.type = "exercise" THEN Len(e.sentences) ELSE 0

-----------------------------------------------------------------------------
\* Mutant: the older validator lets any number of lists pass.
HandlerSentenceAnyLists(kind, s) ==
    IF s.blanks = 0 \/ Len(s.answer) # s.blanks \/ \E k \in DOMAIN s.answer : ~s.answer[k]
      THEN Bad ELSE [s EXCEPT !.lists = IF kind = "choice" THEN @ ELSE 0]

\* handler.buildSentence, the older copy of BuildSentence.
HandlerSentence(kind, s) ==
    IF \/ s.blanks = 0
       \/ Len(s.answer) # s.blanks
       \/ \E k \in DOMAIN s.answer : ~s.answer[k]
       \/ kind = "choice" /\ s.lists > 0 /\ s.lists # s.blanks
      THEN Bad
      ELSE [s EXCEPT !.lists = IF kind = "choice" THEN @ ELSE 0]

\* ImportCSV: an entry is a question and an answer.
ParseCard(e) == IF e.question /\ e.definition THEN [type |-> "card"] ELSE Bad

\* ImportTests.
ParseTest(e) ==
    LET options == Texts(e.options)
    IN  IF ~e.question \/ Len(options) < 2 \/ ~HasCorrectOption(options)
          THEN Bad ELSE [type |-> "quiz", options |-> options]

\* ImportExercises: refused sentences are left out, an exercise without any too.
ParseExercise(e) ==
    LET sentences == Built([k \in DOMAIN e.sentences |-> HandlerSentence(e.kind, e.sentences[k])])
    IN  IF e.kind = "other" \/ sentences = <<>>
          THEN Bad ELSE [type |-> "exercise", kind |-> e.kind, sentences |-> sentences]

-----------------------------------------------------------------------------
\* One list of entries sent through a channel: what each entry becomes.
Parse(channel, e) ==
    CASE channel = "cards"     -> ParseCard(e)
      [] channel = "tests"     -> ParseTest(e)
      [] channel = "exercises" -> ParseExercise(e)
      [] channel \in {"items", "add", "stage", "create"} -> BuildItem(e)

Parsed(channel, batch) == [k \in DOMAIN batch |-> Parse(channel, batch[k])]

\* The rows counted against the cap: sentences, or cards and questions.
Rows(channel, items) ==
    LET upTo[n \in 0 .. Len(items)] ==
            IF n = 0 THEN 0
            ELSE upTo[n - 1] + (IF channel \in {"cards", "tests"} THEN 1
                                ELSE IF items[n].type = "exercise" THEN Len(items[n].sentences)
                                ELSE 0)
    IN  upTo[Len(items)]

\* Over REST bad entries are skipped, and the import is refused when none is left or
\* there are too many.  An MCP tool refuses a batch with any, and an empty one;
\* create_collection may come without items.
Refused(channel, batch) ==
    LET parsed == Parsed(channel, batch)
    IN  CASE channel \in {"add", "stage"} -> batch = <<>> \/ ~Complete(parsed)
          [] channel = "create" -> ~Complete(parsed)
          [] OTHER -> Built(parsed) = <<>> \/ Rows(channel, Built(parsed)) > MaxRows
=============================================================================
