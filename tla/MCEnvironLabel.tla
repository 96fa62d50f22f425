--------------------------- MODULE MCEnvironLabel ---------------------------
(* Instance of EnvironLabel for TLC; the byte ceiling and the number of
   variables are scaled down, the value cap is the real one. *)
EXTENDS EnvironLabel

\* Keys that are small, large and larger than the ceiling; values around the cap.
MCVariables ==
    {[key |-> 1, val |-> 0, sensitive |-> FALSE],
     [key |-> 4, val |-> 256, sensitive |-> FALSE],
     [key |-> 4, val |-> 257, sensitive |-> FALSE],
     [key |-> 4, val |-> 40000, sensitive |-> TRUE],
     [key |-> 322, val |-> 16, sensitive |-> FALSE],
     [key |-> 320, val |-> 16, sensitive |-> FALSE],
     [key |-> 700, val |-> 1, sensitive |-> FALSE]}

MCEnvirons == UNION {[1..n -> MCVariables] : n \in 0..4}
=============================================================================
