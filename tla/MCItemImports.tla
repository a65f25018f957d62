---------------------------- MODULE MCItemImports ----------------------------
EXTENDS ItemImports, TLC

CONSTANTS k1, k2

Blank == [type |-> "other", term |-> FALSE, definition |-> FALSE, question |-> FALSE,
          options |-> <<>>, kind |-> "other", sentences |-> <<>>]

Card1 == [Blank EXCEPT !.type = "card", !.question = TRUE, !.definition = TRUE]
Untyped == [Card1 EXCEPT !.type = "other"]

Gap == [blanks |-> 1, answer |-> <<TRUE>>, lists |-> 0]
Gaps(lists) == [blanks |-> 2, answer |-> <<TRUE, TRUE>>, lists |-> lists]
Exercise(kind, sentences) ==
    [Blank EXCEPT !.type = "exercise", !.kind = kind, !.sentences = sentences]

Quiz(options) == [Blank EXCEPT !.type = "quiz", !.question = TRUE, !.options = options]
Answer(text, correct) == [text |-> text, correct |-> correct]

\* Two cards; an exercise of two sentences; one whose second sentence has a list of
\* wrong options too many; a card without its type beside a quiz whose only right option
\* is empty; a quiz; nothing.
Files ==
    {<<Card1, Card1>>,
     <<Exercise("bank", <<Gap, Gaps(1)>>)>>,
     <<Exercise("choice", <<Gaps(2), Gaps(3)>>)>>,
     <<Untyped, Quiz(<<Answer(TRUE, FALSE), Answer(TRUE, FALSE), Answer(FALSE, TRUE)>>)>>,
     <<Quiz(<<Answer(TRUE, TRUE), Answer(FALSE, FALSE), Answer(TRUE, FALSE)>>)>>,
     <<>>}

OwnRanks == {<<0, 1>>}

ImportSymmetry == Permutations(Handler)
=============================================================================
