---------------------------- MODULE MCSessions ----------------------------
(* A small instance of Sessions for TLC, in three loads.  Which client     *)
(* starts first and which name is which makes no difference.               *)
EXTENDS Sessions

CONSTANTS p1, p2, p3, A, B, C

MCInit == Init /\ id[p1] = A /\ id[p2] \in {A, B} /\ id[p3] = C

On(p) == cpc[p] # "off"

\* Two clients with one name or two, one of which dies or asks.
Pair == ~On(p3) /\ signals = 0 /\ deaths + requests <= 1

\* A signal comes while there is one client; the second starts when it is gone.
Interrupted == ~On(p3) /\ deaths + requests = 0 /\ (On(p2) => id[p2] = B /\ Gone(p1))

\* Two clients start together and compete for the one manager that the first
\* leaves, which stays connected or died while its manager waits for it.
FirstStays == cpc[p1] = "connected" \/ \E m \in Managers : Stuck(m)
Competing == id[p2] = B /\ signals = 0 /\ deaths + requests <= 1 /\ FirstStays
Together == ~On(p3) /\ On(p3)' => cpc[p2] = "send"

MCNext == /\ Next
          /\ On(p2)' => On(p1)
          /\ (Pair \/ Interrupted \/ Competing)'
          /\ Together

MCSpec == MCInit /\ [][MCNext]_vars /\ Fairness
=============================================================================
