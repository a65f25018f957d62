--------------------------- MODULE MCCardProgress ---------------------------
EXTENDS CardProgress

\* The code's intervals are 1, 2, 7, 14, 30 and 180 days.
ShortDays == [level \in 1 .. 6 |-> IF level <= 3 THEN 1 ELSE 2]
=============================================================================
