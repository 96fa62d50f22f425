---------------------------- MODULE EnvironLabel ----------------------------
(***************************************************************************)
(* exporter/collector.go, scrubEnviron: the "environ" label of             *)
(* gitlab_process_info.  The variables are visited in the order of their   *)
(* keys; of a variable the lengths of its key and value (after             *)
(* sanitizing) and whether isSensitivePair holds are kept.                 *)
(***************************************************************************)
EXTENDS Integers, FiniteSets, Sequences

CONSTANTS
    maxEnvironVars,      \* 100
    maxEnvironValueLen,  \* 256
    maxEnvironBytes,     \* 8192
    Environs             \* the environments of the processes

Variable == [key : Nat, val : Nat, sensitive : BOOLEAN]

ASSUME LimitsAssumption ==
    maxEnvironVars \in Nat /\ maxEnvironValueLen \in Nat /\ maxEnvironBytes \in Nat

\* An environment is a sequence of variables, sorted by key.
ASSUME EnvironAssumption == Environs \subseteq Seq(Variable)

VARIABLES
    environ,    \* the process's variables
    count,      \* len(keys) after the cap
    next,       \* index of the loop
    blen,       \* b.Len()
    kept,       \* the variables written to b
    truncated   \* environ_truncated

vars == <<environ, count, next, blen, kept, truncated>>

TypeOK ==
    /\ environ \in Environs
    /\ count \in Nat
    /\ next \in Nat
    /\ blen \in Nat
    /\ kept \subseteq 1..Len(environ)
    /\ truncated \in BOOLEAN

\* More than maxEnvironVars variables: the first ones are considered.
Init ==
    /\ environ \in Environs
    /\ count = IF Len(environ) > maxEnvironVars THEN maxEnvironVars ELSE Len(environ)
    /\ truncated = (Len(environ) > maxEnvironVars)
    /\ next = 1
    /\ blen = 0
    /\ kept = {}

-----------------------------------------------------------------------------
\* Decimal digits of a length below 10^10, at least 1.
Digits(n) == Cardinality({d \in 0..9 : 10^d <= n})

\* len("[REDACTED]")
redactedLen == 10

\* len("[TRUNCATED;len=") + digits + len("]")
environTruncMarker(n) == 15 + Digits(n) + 1

\* Redaction wins over truncation.
RenderedLen(v) ==
    CASE v.sensitive -> redactedLen
      [] ~v.sensitive /\ v.val > maxEnvironValueLen -> environTruncMarker(v.val)
      [] OTHER -> v.val

PairLen(v) == v.key + 1 + RenderedLen(v)

\* len(", "), between two pairs
sep == IF blen > 0 THEN 2 ELSE 0

\* Mutation: the separator is not counted.
Fits_NoSeparator(v) == blen + PairLen(v) <= maxEnvironBytes

Fits(v) == blen + sep + PairLen(v) <= maxEnvironBytes

\* Mutation: the loop stops at the first pair that does not fit.
Omit_Stops ==
    /\ next <= count
    /\ ~Fits(environ[next])
    /\ truncated' = TRUE
    /\ next' = count + 1
    /\ UNCHANGED <<environ, count, blen, kept>>

\* Mutation: a skipped pair does not set the flag.
Omit_Silent ==
    /\ next <= count
    /\ ~Fits(environ[next])
    /\ next' = next + 1
    /\ UNCHANGED <<environ, count, blen, kept, truncated>>

\* Skip the pair, not the rest of the list.
Omit ==
    /\ next <= count
    /\ ~Fits(environ[next])
    /\ truncated' = TRUE
    /\ next' = next + 1
    /\ UNCHANGED <<environ, count, blen, kept>>

Write ==
    /\ next <= count
    /\ Fits(environ[next])
    /\ blen' = blen + sep + PairLen(environ[next])
    /\ kept' = kept \union {next}
    /\ next' = next + 1
    /\ UNCHANGED <<environ, count, truncated>>

Return == next > count /\ UNCHANGED vars

Next == Omit \/ Write \/ Return

Spec == Init /\ [][Next]_vars

-----------------------------------------------------------------------------
\* The label never exceeds the ceiling, separators included (collector.go:286-292).
EnvironFits == blen <= maxEnvironBytes

\* environ_truncated means exactly one thing: some variable is missing from the
\* list (collector.go:311-316).
FlagMeansOmitted == next > count => (truncated <=> kept # 1..Len(environ))

\* A variable that is missing although it was among those considered would not
\* fit the finished label: one oversized pair costs no other (collector.go:352-362).
OmittedWouldNotFit ==
    next > count =>
        \A k \in (1..count) \ kept : blen + 2 + PairLen(environ[k]) > maxEnvironBytes
=============================================================================
