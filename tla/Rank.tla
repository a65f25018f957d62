-------------------------------- MODULE Rank --------------------------------
(* The keys items are sorted by: internal/rank/rank.go.  A key is a string of  *)
(* digits, read as the fraction 0.d1 d2 d3 ..., so that there is always one     *)
(* between two others.                                                          *)
EXTENDS Integers, Sequences

CONSTANT Base  \* the number of digits, 36 in the code

ASSUME BaseAssumption == Base \in Nat /\ Base >= 2

Digit == 0 .. Base - 1
Key == Seq(Digit)

\* The order of the keys, that of strings: the first digit that differs decides,
\* and a key comes before those it is the beginning of.
Precedes(a, b) ==
    \E q \in 1 .. Len(b) :
        /\ \A i \in 1 .. q - 1 : i <= Len(a) /\ a[i] = b[i]
        /\ q <= Len(a) => a[q] < b[q]

\* The digits between which Between looks for one, at a position.
Lo(a, i) == IF i <= Len(a) THEN a[i] ELSE 0
Hi(b, i) == IF i <= Len(b) THEN b[i] ELSE Base

\* Mutant: adjacent digits count as room.
RoomIfAdjacent(a, b, i) == Lo(a, i) < Hi(b, i)

Room(a, b, i) == Lo(a, i) + 1 < Hi(b, i)

\* The position the loop of Between stops at.
Place(a, b) ==
    CHOOSE p \in 1 .. Len(a) + Len(b) + 1 :
        /\ Room(a, b, p)
        /\ \A i \in 1 .. p - 1 : ~Room(a, b, i)

\* Between: a's digits up to there, then the middle.  The empty a stands for
\* before everything, the empty b for after everything.
Between(a, b) ==
    [i \in 1 .. Place(a, b) |->
        IF i < Place(a, b) THEN Lo(a, i) ELSE (Lo(a, i) + Hi(b, i)) \div 2]

First == Between(<<>>, <<>>)
After(prev) == Between(prev, <<>>)
Before(next) == Between(<<>>, next)

\* Sequence: the n-th of the keys of a fresh list.
Sequence[n \in Nat] == IF n = 0 THEN <<>> ELSE After(Sequence[n - 1])

\* A key there is room before: it names no beginning of the list, and does not end
\* in the lowest digit.
Usable(k) == k # <<>> /\ k[Len(k)] # 0
=============================================================================
