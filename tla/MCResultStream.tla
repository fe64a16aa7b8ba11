--------------------------- MODULE MCResultStream ---------------------------
(* Small instances of ResultStream for TLC. *)
EXTENDS ResultStream, FiniteSets

CONSTANTS r1, r2, r3, r4, r5, r6, q1, q2, q3, q4, q5

\* Two readers of two queries, one with rows and one without any.
TwoReaders == {r1, r2}
OwnQid   == [r \in TwoReaders |-> IF r = r1 THEN q1 ELSE q2]
SomeRows == [q \in {q1, q2, q3, q4, q5} |-> IF q \in {q1, q4} THEN 2 ELSE 0]

\* Two readers of the same query.
SameQid  == [r \in TwoReaders |-> q1]
OneRow   == [q \in {q1} |-> 1]

\* Rows under a heading line; neither; a pseudo command's; rows without a
\* heading line, for two readers; only the heading.
SixReaders == {r1, r2, r3, r4, r5, r6}
MixedQid == [r \in SixReaders |->
               CASE r = r1 -> q1 [] r = r2 -> q2 [] r = r3 -> q3
                 [] r \in {r4, r5} -> q4 [] r = r6 -> q5]
PseudoReader == {r3}
OnlyPseudo == [r \in {r3} |-> q3]

\* Bounds: one reader at a time, or r1 and r2, or r4 and r5 side by side.  Of the
\* latter the second disturbs by its file and its Close: its own scan does not
\* end before that, and it is not switched to the file.
Started == {r \in Readers : opened[r] \/ client[r] # "idle" \/ ctxDone[r]}
Disturbs(r) == verdict[r] = "none" /\ dl[r] # "swapping"
PairOrAlone == \/ Cardinality(Started) <= 1
               \/ Started = {r1, r2} /\ Disturbs(r2)
               \/ Started = {r4, r5} /\ Disturbs(r5)
=============================================================================
