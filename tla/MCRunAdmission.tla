--------------------------- MODULE MCRunAdmission ---------------------------
(* Small instances of RunAdmission. *)
EXTENDS RunAdmission, TLC

CONSTANTS h1, h2

\* Sizes of the plans of three requests.
TwoNoneOne == [r \in Requests |-> IF r = 1 THEN 2 ELSE IF r = 2 THEN 0 ELSE 1]

\* Bound: the request of two variants by itself, or the other two together.
Apart == published \subseteq {1} \/ 1 \notin published
\* Bound: workers that are under way at once.
TwoWorkers == Cardinality({w \in Workers : pc[w] # "idle"}) <= 2
=============================================================================
