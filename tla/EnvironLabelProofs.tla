------------------------- MODULE EnvironLabelProofs -------------------------
(* Theorems about EnvironLabel, for all limits and all environments. *)
EXTENDS EnvironLabel, FiniteSetTheorems, TLAPS

\* The loop has decided about the variables before next, and about no other.
Progress ==
    /\ count <= Len(environ)
    /\ next >= 1 /\ next <= count + 1
    /\ kept \subseteq 1..(next - 1)
    /\ count < Len(environ) => truncated
    /\ (\E k \in 1..(next - 1) : k \notin kept) => truncated
    /\ truncated => (count < Len(environ) \/ \E k \in 1..(next - 1) : k \notin kept)

\* What was skipped did not fit then and fits even less now.
SkippedTooLong ==
    \A k \in (1..(next - 1)) \ kept : blen + 2 + PairLen(environ[k]) > maxEnvironBytes

EnvironInv == TypeOK /\ Progress /\ EnvironFits /\ SkippedTooLong

\* A rendered pair has a length.
LEMMA PairLenNat == ASSUME NEW v \in Variable PROVE PairLen(v) \in Nat
<1>1. v.key \in Nat /\ v.val \in Nat /\ v.sensitive \in BOOLEAN
  BY DEF Variable
<1>2. Digits(v.val) \in Nat
  <2> DEFINE D == {d \in 0..9 : 10^d <= v.val}
  <2>1. ASSUME NEW a \in Int, NEW b \in Int PROVE IsFiniteSet(a..b)
    BY FS_Interval
  <2>2. 0 \in Int /\ 9 \in Int
    OBVIOUS
  <2>3. IsFiniteSet(0..9)
    BY <2>1, <2>2, Zenon
  <2>4. IsFiniteSet(D)
    BY <2>3, FS_Subset
  <2> QED
    BY <2>4, FS_CardinalityType DEF Digits
<1>3. RenderedLen(v) \in Nat
  BY <1>1, <1>2, LimitsAssumption DEF RenderedLen, redactedLen, environTruncMarker
<1> QED
  BY <1>1, <1>3 DEF PairLen

LEMMA InitEnviron == Init => EnvironInv
<1> SUFFICES ASSUME Init PROVE EnvironInv
  OBVIOUS
<1>1. Len(environ) \in Nat
  BY EnvironAssumption DEF Init
<1>2. TypeOK /\ EnvironFits /\ SkippedTooLong
  BY <1>1, LimitsAssumption DEF Init, TypeOK, EnvironFits, SkippedTooLong
<1>3. CASE Len(environ) > maxEnvironVars
  <2>1. truncated = TRUE /\ count = maxEnvironVars /\ next = 1 /\ kept = {}
    BY <1>3 DEF Init
  <2> QED
    BY <1>1, <1>2, <1>3, <2>1, LimitsAssumption DEF EnvironInv, Progress
<1>4. CASE ~(Len(environ) > maxEnvironVars)
  <2>1. ~truncated
    BY <1>4, Zenon DEF Init
  <2>2. count = Len(environ) /\ next = 1 /\ kept = {}
    BY <1>4 DEF Init
  <2> QED
    BY <1>1, <1>2, <2>1, <2>2 DEF EnvironInv, Progress
<1> QED
  BY <1>3, <1>4

LEMMA EnvironStep == EnvironInv /\ [Next]_vars => EnvironInv'
<1> SUFFICES ASSUME EnvironInv, [Next]_vars PROVE EnvironInv'
  OBVIOUS
<1> USE LimitsAssumption
<1>1. environ \in Seq(Variable) /\ Len(environ) \in Nat
  BY EnvironAssumption DEF EnvironInv, TypeOK
<1>2. \A k \in 1..Len(environ) : environ[k] \in Variable /\ PairLen(environ[k]) \in Nat
  BY <1>1, PairLenNat
<1>3. /\ blen \in Nat /\ next \in Nat /\ count \in Nat /\ sep \in {0, 2} /\ truncated \in BOOLEAN
  BY DEF EnvironInv, TypeOK, sep
<1>4. CASE Omit
  <2>1. /\ UNCHANGED <<environ, count, blen, kept>> /\ next' = next + 1 /\ truncated' = TRUE
        /\ next <= count /\ ~Fits(environ[next]) /\ next >= 1 /\ count <= Len(environ)
    BY <1>4 DEF Omit, EnvironInv, Progress
  <2>2. TypeOK' /\ EnvironFits'
    BY <1>3, <2>1 DEF EnvironInv, TypeOK, EnvironFits
  <2>3. next \notin kept /\ next \in 1..Len(environ)
    BY <1>1, <1>3, <2>1 DEF EnvironInv, Progress
  <2>4. Progress'
    BY <1>1, <1>3, <2>1, <2>3 DEF EnvironInv, Progress
  <2>5. blen + 2 + PairLen(environ[next]) > maxEnvironBytes
    BY <1>2, <1>3, <2>1, <2>3 DEF Fits
  <2>6. SkippedTooLong'
    <3> SUFFICES ASSUME NEW k \in (1..next) \ kept
                 PROVE  blen + 2 + PairLen(environ[k]) > maxEnvironBytes
      BY <1>3, <2>1 DEF SkippedTooLong, PairLen, RenderedLen
    <3>1. k = next \/ k \in (1..(next - 1)) \ kept
      BY <1>3
    <3> QED
      BY <2>5, <3>1 DEF EnvironInv, SkippedTooLong
  <2> QED
    BY <2>2, <2>4, <2>6 DEF EnvironInv
<1>5. CASE Write
  <2>1. /\ UNCHANGED <<environ, count, truncated>> /\ next' = next + 1 /\ kept' = kept \union {next}
        /\ blen' = blen + sep + PairLen(environ[next])
        /\ next <= count /\ Fits(environ[next]) /\ next >= 1 /\ count <= Len(environ)
    BY <1>5 DEF Write, EnvironInv, Progress
  <2>2. next \in 1..Len(environ)
    BY <1>1, <1>3, <2>1
  <2>3. blen' \in Nat /\ blen' >= blen /\ blen' <= maxEnvironBytes
    BY <1>2, <1>3, <2>1, <2>2 DEF Fits
  <2>4. TypeOK' /\ EnvironFits'
    BY <1>3, <2>1, <2>2, <2>3 DEF EnvironInv, TypeOK, EnvironFits
  <2>5. Progress'
    BY <1>1, <1>3, <2>1, <2>2 DEF EnvironInv, Progress
  <2>6. SkippedTooLong'
    <3> SUFFICES ASSUME NEW k \in (1..next) \ (kept \union {next})
                 PROVE  blen' + 2 + PairLen(environ[k]) > maxEnvironBytes
      BY <1>3, <2>1 DEF SkippedTooLong, PairLen, RenderedLen
    <3>1. k \in (1..(next - 1)) \ kept /\ k \in 1..Len(environ)
      BY <1>1, <1>3, <2>1
    <3>2. blen + 2 + PairLen(environ[k]) > maxEnvironBytes
      BY <3>1 DEF EnvironInv, SkippedTooLong
    <3> QED
      BY <1>2, <1>3, <2>3, <3>1, <3>2
  <2> QED
    BY <2>4, <2>5, <2>6 DEF EnvironInv
<1>6. CASE UNCHANGED vars
  BY <1>6 DEF vars, EnvironInv, TypeOK, Progress, EnvironFits, SkippedTooLong, PairLen, RenderedLen
<1> QED
  BY <1>4, <1>5, <1>6 DEF Next, Return

\* The environ label never exceeds maxEnvironBytes (collector.go:363-370), for
\* every environment and every value of the three limits.
THEOREM EnvironBounded == Spec => []EnvironFits
<1>1. EnvironInv => EnvironFits
  BY DEF EnvironInv
<1> QED
  BY <1>1, InitEnviron, EnvironStep, PTL DEF Spec

\* environ_truncated is set exactly when a variable is missing from the label
\* (collector.go:311-330, 363-366).
THEOREM FlagExact == Spec => []FlagMeansOmitted
<1>1. EnvironInv => FlagMeansOmitted
  <2> SUFFICES ASSUME EnvironInv, next > count PROVE truncated <=> kept # 1..Len(environ)
    BY DEF FlagMeansOmitted
  <2>1. next = count + 1 /\ next - 1 = count /\ Len(environ) \in Nat /\ count \in Nat
    BY EnvironAssumption DEF EnvironInv, TypeOK, Progress
  <2>2. kept \subseteq 1..count /\ truncated \in BOOLEAN /\ count <= Len(environ)
    BY <2>1 DEF EnvironInv, TypeOK, Progress
  <2>3. truncated => kept # 1..Len(environ)
    <3>1. ASSUME count < Len(environ) PROVE kept # 1..Len(environ)
      <4>1. Len(environ) \in 1..Len(environ) /\ Len(environ) \notin kept
        BY <2>1, <2>2, <3>1
      <4> QED
        BY <4>1
    <3>2. ASSUME \E k \in 1..count : k \notin kept PROVE kept # 1..Len(environ)
      BY <2>1, <2>2, <3>2
    <3> QED
      BY <2>1, <3>1, <3>2 DEF EnvironInv, Progress
  <2>4. kept # 1..Len(environ) => truncated
    <3>1. ASSUME count = Len(environ), kept # 1..Len(environ)
          PROVE  \E k \in 1..count : k \notin kept
      BY <2>2, <3>1
    <3> QED
      BY <2>1, <2>2, <3>1 DEF EnvironInv, Progress
  <2> QED
    BY <2>2, <2>3, <2>4
<1> QED
  BY <1>1, InitEnviron, EnvironStep, PTL DEF Spec

\* No variable among those considered is left out that would still fit the
\* finished label (collector.go:352-366).
THEOREM OmittedTooLong == Spec => []OmittedWouldNotFit
<1>1. EnvironInv => OmittedWouldNotFit
  <2> SUFFICES ASSUME EnvironInv, next > count PROVE OmittedWouldNotFit
    BY DEF OmittedWouldNotFit
  <2>1. next - 1 = count
    BY DEF EnvironInv, TypeOK, Progress
  <2> QED
    BY <2>1 DEF EnvironInv, SkippedTooLong, OmittedWouldNotFit
<1> QED
  BY <1>1, InitEnviron, EnvironStep, PTL DEF Spec
=============================================================================
