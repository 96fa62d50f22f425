-------------------------- MODULE LabelBoundProofs --------------------------
(* Theorems about LabelBound, for all files and all label values. *)
EXTENDS LabelBound, FiniteSetTheorems, TLAPS

\* Every limit of the table is one truncateWithFingerprint takes as a limit,
\* with room for the marker below the downstream ceiling.
IsLimit(n) == n \in Int /\ n >= 1 /\ n <= maxLabelBytesCeiling
LimitsOK == \A l \in ContractLabels : IsLimit(limits[l])

LabelInv ==
    /\ TypeOK
    /\ LimitsOK
    /\ phase = "load" => emitted = {}
    /\ AcceptedOverridesApply
    /\ EmittedFitsDownstream
    /\ CutKeepsWholeRunes

\* A length has at most ten digits.
LEMMA DigitsBound == ASSUME NEW n \in Nat PROVE Digits(n) \in 0..10
<1> DEFINE D == {d \in 0..9 : 10^d <= n}
<1>1. IsFiniteSet(0..9) /\ Cardinality(0..9) = 10
  <2>1. ASSUME NEW a \in Int, NEW b \in Int, a <= b
        PROVE  IsFiniteSet(a..b) /\ Cardinality(a..b) = b - a + 1
    BY <2>1, FS_Interval
  <2>2. 0 \in Int /\ 9 \in Int /\ 0 <= 9
    OBVIOUS
  <2>3. IsFiniteSet(0..9) /\ Cardinality(0..9) = 9 - 0 + 1
    BY <2>1, <2>2, Zenon
  <2>4. 9 - 0 + 1 = 10
    OBVIOUS
  <2> QED
    BY <2>3, <2>4, Zenon
<1>2. D \subseteq 0..9
  OBVIOUS
<1>3. IsFiniteSet(D) /\ Cardinality(D) <= 10
  BY <1>1, <1>2, FS_Subset
<1>4. Cardinality(D) \in Nat
  BY <1>3, FS_CardinalityType
<1> QED
  BY <1>3, <1>4 DEF Digits

\* The numbers behind the names.
LEMMA Numbers == maxLabelBytesCeiling = 8143 /\ minLabelBytes = 49 /\ maxEnvironBytes = 8192
BY DEF minLabelBytes, maxLabelBytesCeiling, maxEnvironBytes, maxMarkerLen, truncMaxLenDigits,
       truncFingerprintLen

\* The published defaults are limits.
LEMMA DefaultsOK == \A l \in ContractLabels : IsLimit(MaxLabelBytes[l])
BY Numbers DEF MaxLabelBytes, ContractLabels, IsLimit

\* A merged table holds limits, whatever the overrides are.
LEMMA MergedOK ==
    ASSUME NEW D, NEW o \in [D -> Int]
    PROVE  /\ mergedMaxLabelBytes(o) \in [ContractLabels -> Int]
           /\ \A l \in ContractLabels : IsLimit(mergedMaxLabelBytes(o)[l])
<1> DEFINE m == mergedMaxLabelBytes(o)
<1>1. ASSUME NEW l \in ContractLabels
      PROVE  IsLimit(m[l])
  <2>1. CASE l \in D /\ o[l] >= minLabelBytes /\ o[l] <= maxLabelBytesCeiling
    <3>1. m[l] = o[l]
      BY <2>1 DEF mergedMaxLabelBytes
    <3>2. o[l] \in Int /\ o[l] >= 1
      BY <2>1, Numbers
    <3> QED
      BY <2>1, <3>1, <3>2 DEF IsLimit
  <2>2. CASE ~(l \in D /\ o[l] >= minLabelBytes /\ o[l] <= maxLabelBytesCeiling)
    <3>1. m[l] = MaxLabelBytes[l]
      BY <2>2 DEF mergedMaxLabelBytes
    <3> QED
      BY <3>1, DefaultsOK
  <2> QED
    BY <2>1, <2>2
<1>2. m = [l \in ContractLabels |-> m[l]]
  BY DEF mergedMaxLabelBytes
<1> HIDE DEF m
<1>3. m \in [ContractLabels -> Int]
  BY <1>1, <1>2 DEF IsLimit
<1> QED
  BY <1>1, <1>3 DEF m

LEMMA UnmarshalInt ==
    ASSUME NEW f \in Files
    PROVE  UnmarshalYAML(f) \in [f.keys -> Int]
BY FileAssumption DEF UnmarshalYAML, labelByteLimit, Scalar, MaxInt

\* A limit that passes validation was not clamped, and the merge applies it.
LEMMA ValidatedApplies ==
    ASSUME NEW f \in Files, ~Rejects(f), NEW l \in f.keys
    PROVE  /\ l \in ContractLabels
           /\ mergedMaxLabelBytes(UnmarshalYAML(f))[l] = f.limit[l].n
<1>1. DOMAIN UnmarshalYAML(f) = f.keys /\ UnmarshalYAML(f)[l] = labelByteLimit(f.limit[l])
  BY DEF UnmarshalYAML
<1>2. f.limit[l].n \in Int
  BY FileAssumption DEF Scalar
<1>3. /\ l \in ContractLabels
      /\ labelByteLimit(f.limit[l]) >= minLabelBytes
      /\ labelByteLimit(f.limit[l]) <= maxLabelBytesCeiling
  BY <1>1 DEF Rejects, validateMaxLabelBytes
<1>4. labelByteLimit(f.limit[l]) = f.limit[l].n
  BY <1>2, <1>3 DEF labelByteLimit, MaxInt, minLabelBytes, maxLabelBytesCeiling, maxEnvironBytes,
     maxMarkerLen, truncMaxLenDigits, truncFingerprintLen
<1> QED
  BY <1>1, <1>3, <1>4 DEF mergedMaxLabelBytes

\* What truncateWithFingerprint emits for a limit of the table.
LEMMA TruncateOK ==
    ASSUME NEW l \in ContractLabels, NEW v \in Values, NEW max, IsLimit(max)
    PROVE  /\ \A e \in truncateWithFingerprint(l, v, max) :
                /\ e \in Emission
                /\ e.label = l
                /\ e.prefix + e.marker <= maxEnvironBytes
                /\ e.marker > 0 => /\ e.prefix <= max
                                   /\ max - e.prefix < 4
                                   /\ RuneStart(e.value, e.prefix)
           /\ \A e, f \in truncateWithFingerprint(l, v, max) : e = f
<1> USE DEF maxLabelBytesCeiling, maxEnvironBytes, maxMarkerLen, truncMaxLenDigits, truncFingerprintLen
<1>1. max \in Nat /\ max > 0 /\ max <= 8143 /\ Len(v) \in Nat
  BY ValueAssumption, Numbers DEF IsLimit
<1>2. CASE Len(v) <= max
  BY <1>1, <1>2 DEF truncateWithFingerprint, Emission
<1>3. CASE Len(v) > max
  <2>1. PICK j \in (max - 3)..max : j >= 0 /\ RuneStart(v, j)
    BY <1>1, <1>3, ValueAssumption
  <2>2. \A i \in 0..max : IsCut(v, max, i) => j <= i /\ RuneStart(v, i)
    BY <1>1, <2>1 DEF IsCut
  <2>3. \A i, k \in 0..max : (IsCut(v, max, i) /\ IsCut(v, max, k)) => i = k
    BY <1>1, <2>2 DEF IsCut
  <2>4. Digits(Len(v)) \in 0..10
    BY <1>1, DigitsBound
  <2>5. \A e \in truncateWithFingerprint(l, v, max) : \E i \in 0..max :
          /\ IsCut(v, max, i)
          /\ e = [label |-> l, value |-> v, prefix |-> i,
                  marker |-> 3 + 5 + Digits(Len(v)) + 8 + truncFingerprintLen + 1]
    BY <1>1, <1>3 DEF truncateWithFingerprint
  <2>6. ASSUME NEW e \in truncateWithFingerprint(l, v, max)
        PROVE  /\ e \in Emission /\ e.label = l
               /\ e.prefix + e.marker <= maxEnvironBytes
               /\ e.prefix <= max /\ max - e.prefix < 4
               /\ RuneStart(e.value, e.prefix)
    <3>1. PICK i \in 0..max :
            /\ IsCut(v, max, i)
            /\ e = [label |-> l, value |-> v, prefix |-> i,
                    marker |-> 3 + 5 + Digits(Len(v)) + 8 + truncFingerprintLen + 1]
      BY <2>5
    <3> QED
      BY <1>1, <2>1, <2>2, <2>4, <3>1 DEF Emission
  <2>7. \A e, f \in truncateWithFingerprint(l, v, max) : e = f
    BY <2>3, <2>5
  <2> QED
    BY <2>6, <2>7
<1> QED
  BY <1>1, <1>2, <1>3

LEMMA InitLabel == Init => LabelInv
BY DefaultsOK DEF Init, LabelInv, TypeOK, LimitsOK, AcceptedOverridesApply, EmittedFitsDownstream,
   CutKeepsWholeRunes, MaxLabelBytes

LEMMA LabelStep == LabelInv /\ [Next]_vars => LabelInv'
<1> SUFFICES ASSUME LabelInv, [Next]_vars PROVE LabelInv'
  OBVIOUS
<1> USE DEF LabelInv
<1>1. CASE RejectConfig
  BY <1>1 DEF RejectConfig, TypeOK, LimitsOK, AcceptedOverridesApply, EmittedFitsDownstream,
     CutKeepsWholeRunes
<1>2. CASE LoadConfig \/ EmbedConfig
  <2>1. file \in Files /\ file' = file /\ emitted' = emitted /\ phase' \in {"serving", "embedded"}
        /\ limits' = mergedMaxLabelBytes(UnmarshalYAML(file))
    BY <1>2 DEF LoadConfig, EmbedConfig, TypeOK
  <2>2. limits' \in [ContractLabels -> Int] /\ LimitsOK'
    BY <2>1, MergedOK, UnmarshalInt DEF LimitsOK
  <2>3. AcceptedOverridesApply'
    BY <1>2, <2>1, ValidatedApplies DEF LoadConfig, EmbedConfig, AcceptedOverridesApply
  <2>4. emitted = {}
    BY <1>2 DEF LoadConfig, EmbedConfig
  <2> QED
    BY <2>1, <2>2, <2>3, <2>4 DEF TypeOK, EmittedFitsDownstream, CutKeepsWholeRunes
<1>3. ASSUME NEW l \in ContractLabels, NEW v \in Values, BoundLabel(l, v)
      PROVE  LabelInv'
  <2>1. IsLimit(limits[l])
    BY DEF LimitsOK
  <2>2. UNCHANGED <<phase, file, limits>> /\ emitted' = truncateWithFingerprint(l, v, limits[l])
    BY <1>3 DEF BoundLabel
  <2>3. TypeOK' /\ EmittedFitsDownstream' /\ CutKeepsWholeRunes'
    BY <2>1, <2>2, TruncateOK DEF TypeOK, EmittedFitsDownstream, CutKeepsWholeRunes
  <2>4. LimitsOK' /\ AcceptedOverridesApply' /\ phase' # "load"
    BY <1>3, <2>2 DEF BoundLabel, LimitsOK, AcceptedOverridesApply
  <2> QED
    BY <2>3, <2>4
<1>4. CASE UNCHANGED vars
  BY <1>4 DEF vars, TypeOK, LimitsOK, AcceptedOverridesApply, EmittedFitsDownstream,
     CutKeepsWholeRunes
<1> QED
  BY <1>1, <1>2, <1>3, <1>4 DEF Next, Done

\* The state keeps its type; in particular the limit table has exactly the
\* labels of the published contract (labelbound.go:103-115).
THEOREM LabelTypeCorrect == Spec => []TypeOK
<1>1. LabelInv => TypeOK
  BY DEF LabelInv
<1> QED
  BY <1>1, InitLabel, LabelStep, PTL DEF Spec

\* An accepted configuration is in effect as written, for every file: load-time
\* validation and the merge agree on every integer (config.go:59-134,
\* labelbound.go:103-115).
THEOREM AcceptedApply == Spec => []AcceptedOverridesApply
<1>1. LabelInv => AcceptedOverridesApply
  BY DEF LabelInv
<1> QED
  BY <1>1, InitLabel, LabelStep, PTL DEF Spec

\* Every bounded label value fits the downstream limit of 8192 bytes, whatever
\* the value and whatever configuration the collector was built from
\* (labelbound.go:51-80, 148-163).
THEOREM EmittedFits == Spec => []EmittedFitsDownstream
<1>1. LabelInv => EmittedFitsDownstream
  BY DEF LabelInv
<1> QED
  BY <1>1, InitLabel, LabelStep, PTL DEF Spec

\* A cut value keeps whole runes and loses less than one rune of its limit
\* (labelbound.go:152-158).
THEOREM CutWholeRunes == Spec => []CutKeepsWholeRunes
<1>1. LabelInv => CutKeepsWholeRunes
  BY DEF LabelInv
<1> QED
  BY <1>1, InitLabel, LabelStep, PTL DEF Spec
=============================================================================
