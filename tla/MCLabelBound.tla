---------------------------- MODULE MCLabelBound ----------------------------
(* Instance of LabelBound for TLC: limits and lengths around every threshold. *)
EXTENDS LabelBound

MCLabels == {"cmdline", "ci_job_id", "bogus"}

\* Around zero, the floor (49), the ceiling (8143) and math.MaxInt.
MCLimits == {-1, 0, 48, 49, 8143, 8144, 1000060}

MCScalars == [integer : {TRUE}, n : MCLimits] \union {[integer |-> FALSE, n |-> 512]}

MCFiles ==
    UNION {[strictOk : {TRUE}, keys : {ks}, limit : [ks -> MCScalars]] :
             ks \in {ls \in SUBSET MCLabels : Cardinality(ls) <= 2}}
    \union [strictOk : {FALSE}, keys : {{}}, limit : [{} -> MCScalars]]

\* A value: ascii one-byte runes, then runes of width bytes.
MCValues == [len : {0, 32, 33, 50, 8144, 20000}, ascii : {0, 31}, width : {1, 4}]

MCLen(v) == v.len
MCRuneStart(v, i) == i < v.ascii \/ (i - v.ascii) % v.width = 0
=============================================================================
