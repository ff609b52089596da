--------------------------- MODULE MCJobThreads ---------------------------
(* A small instance of JobThreads for TLC.  The job files' names stand for *)
(* nothing but themselves: of the orders that differ only in which of them *)
(* comes first, second and third one is enough.                            *)
EXTENDS JobThreads

CONSTANTS f1, f2, f3

Before(f, g) == \E i, j \in 1 .. Entries : i < j /\ dir[i] = f /\ dir[j] = g

MCInit == Init /\ Before(f1, f2) /\ Before(f2, f3)

MCSpec == MCInit /\ [][Next]_vars /\ Fairness
=============================================================================
