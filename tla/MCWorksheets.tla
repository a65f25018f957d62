---------------------------- MODULE MCWorksheets ----------------------------
EXTENDS Worksheets, TLC

CONSTANTS e1, s1, s2, right, wrong

OneExercise == [s \in {s1, s2} |-> e1]

Given(i, a) == [item |-> i, entry |-> a]

\* A quiz and a sentence; one sentence answered twice in a batch.
Sheets == {<<Given(e1, right), Given(s2, wrong)>>, <<Given(s1, wrong), Given(s1, right)>>}

HandlerSymmetry == Permutations(Handler)
=============================================================================
