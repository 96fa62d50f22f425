----------------------------- MODULE LabelBound -----------------------------
(***************************************************************************)
(* exporter/config.go and exporter/labelbound.go: the life of a label-size *)
(* override, from the YAML file through LoadConfig and the collector's     *)
(* limit table to the label values it bounds.                              *)
(*                                                                         *)
(* A label value is valid UTF-8 here (the collectors sanitize first); of   *)
(* its text only the length in bytes and the rune boundaries are kept.     *)
(***************************************************************************)
EXTENDS Integers, FiniteSets

CONSTANTS
    Labels,            \* keys that may appear under max_label_bytes
    Files,             \* configuration files, see FileAssumption
    Values,            \* sanitized label values
    Len(_),            \* len(v)
    RuneStart(_, _)    \* utf8.RuneStart(v[i])

maxEnvironBytes == 8192
truncFingerprintLen == 12
truncMaxLenDigits == 20
\* the ellipsis, "[len=", the digits, ";sha256=", the fingerprint, "]"
maxMarkerLen == 3 + 5 + truncMaxLenDigits + 8 + truncFingerprintLen + 1
minLabelBytes == maxMarkerLen
maxLabelBytesCeiling == maxEnvironBytes - maxMarkerLen

ContractLabels ==
    {"name", "cmdline", "ci_job_name", "ci_project_path", "ci_job_id", "ci_pipeline_id"}

MaxLabelBytes ==
    [l \in ContractLabels |->
        CASE l = "name" -> 128
          [] l = "cmdline" -> 2048
          [] l \in {"ci_job_name", "ci_project_path"} -> 256
          [] OTHER -> 32]

(***************************************************************************)
(* A scalar under max_label_bytes as yaml.v2 resolves it: an integer, or   *)
(* something else (a float, an exponent, a string).  MaxInt is math.MaxInt *)
(* scaled down: what matters is that it is above the ceiling.              *)
(***************************************************************************)
MaxInt == 1000000
Scalar == [integer : BOOLEAN, n : Int]

\* strictOk: yaml.UnmarshalStrict accepts the file's top-level keys.
ASSUME FileAssumption ==
    \A f \in Files : /\ f.strictOk \in BOOLEAN
                     /\ f.keys \subseteq Labels
                     /\ f.limit \in [f.keys -> Scalar]

\* A rune has at most four bytes, and the first byte starts one.
ASSUME ValueAssumption ==
    \A v \in Values :
        /\ Len(v) \in Nat
        /\ \A i \in 0..(Len(v) - 1) :
             /\ RuneStart(v, i) \in BOOLEAN
             /\ \E j \in (i - 3)..i : j >= 0 /\ RuneStart(v, j)

\* ARG_MAX keeps every length far below this.
ASSUME LengthAssumption == \A v \in Values : Len(v) < 2000000000

VARIABLES
    phase,      \* "load", "rejected", "serving" or "embedded"
    file,       \* the file named by --config
    limits,     \* the collector's limit table
    emitted     \* the bounded label value, in a set; {} before that

vars == <<phase, file, limits, emitted>>

Emission == [label : ContractLabels, value : Values, prefix : Nat, marker : Nat]

TypeOK ==
    /\ phase \in {"load", "rejected", "serving", "embedded"}
    /\ file \in Files
    /\ limits \in [ContractLabels -> Int]
    /\ emitted \subseteq Emission

Init ==
    /\ phase = "load"
    /\ file \in Files
    /\ limits = MaxLabelBytes
    /\ emitted = {}

-----------------------------------------------------------------------------
(* Loading *)

\* Mutation: an integer that does not fit wraps to a small one.
labelByteLimit_Wraps(s) == s.n % MaxInt

\* An integer that does not fit an int is clamped, not rejected.
labelByteLimit(s) ==
    CASE s.n > MaxInt -> MaxInt
      [] s.n < -MaxInt - 1 -> -MaxInt - 1
      [] OTHER -> s.n

\* LabelByteLimits.UnmarshalYAML: one scalar that is no integer fails the load.
UnmarshalOK(f) == \A l \in f.keys : f.limit[l].integer

UnmarshalYAML(f) == [l \in f.keys |-> labelByteLimit(f.limit[l])]

validateMaxLabelBytes(overrides) ==
    \A l \in DOMAIN overrides :
        /\ l \in ContractLabels
        /\ overrides[l] > 0
        /\ overrides[l] >= minLabelBytes
        /\ overrides[l] <= maxLabelBytesCeiling

\* Mutation: an override is trusted, whatever its size.
mergedMaxLabelBytes_Trusting(overrides) ==
    [l \in ContractLabels |->
        IF l \in DOMAIN overrides THEN overrides[l] ELSE MaxLabelBytes[l]]

mergedMaxLabelBytes(overrides) ==
    [l \in ContractLabels |->
        IF /\ l \in DOMAIN overrides
           /\ overrides[l] >= minLabelBytes
           /\ overrides[l] <= maxLabelBytesCeiling
        THEN overrides[l]
        ELSE MaxLabelBytes[l]]

Rejects(f) ==
    \/ ~f.strictOk
    \/ ~UnmarshalOK(f)
    \/ ~validateMaxLabelBytes(UnmarshalYAML(f))

\* LoadConfig returns an error, and run returns it.
RejectConfig ==
    /\ phase = "load"
    /\ Rejects(file)
    /\ phase' = "rejected"
    /\ UNCHANGED <<file, limits, emitted>>

\* LoadConfig succeeds and the collector is built from its result.
LoadConfig ==
    /\ phase = "load"
    /\ ~Rejects(file)
    /\ phase' = "serving"
    /\ limits' = mergedMaxLabelBytes(UnmarshalYAML(file))
    /\ UNCHANGED <<file, emitted>>

\* A caller builds the collector from a *Config that LoadConfig never saw.
EmbedConfig ==
    /\ phase = "load"
    /\ UnmarshalOK(file)
    /\ phase' = "embedded"
    /\ limits' = mergedMaxLabelBytes(UnmarshalYAML(file))
    /\ UNCHANGED <<file, emitted>>

-----------------------------------------------------------------------------
(* Bounding *)

\* Decimal digits of a length n >= 1.
Digits(n) == Cardinality({d \in 0..9 : 10^d <= n})

\* Mutation: the cut is made at max, wherever that is.
IsCut_NoWalkBack(v, max, i) == i = max

\* The walk back from max to the start of a rune.
IsCut(v, max, i) ==
    /\ i \in 0..max
    /\ i = 0 \/ RuneStart(v, i)
    /\ \A j \in (i + 1)..max : ~RuneStart(v, j)

truncateWithFingerprint(l, v, max) ==
    IF max <= 0 \/ Len(v) <= max
    THEN {[label |-> l, value |-> v, prefix |-> Len(v), marker |-> 0]}
    ELSE {[label |-> l, value |-> v, prefix |-> i,
           marker |-> 3 + 5 + Digits(Len(v)) + 8 + truncFingerprintLen + 1] :
             i \in {k \in 0..max : IsCut(v, max, k)}}

\* boundLabelWith, for a label of the contract.  What it returns depends on
\* nothing bounded before, so a behaviour bounds one value.
BoundLabel(l, v) ==
    /\ phase \in {"serving", "embedded"}
    /\ emitted = {}
    /\ emitted' = truncateWithFingerprint(l, v, limits[l])
    /\ UNCHANGED <<phase, file, limits>>

\* A rejected configuration ends the program.
Done ==
    /\ phase = "rejected" \/ emitted # {}
    /\ UNCHANGED vars

Next ==
    \/ RejectConfig \/ LoadConfig \/ EmbedConfig \/ Done
    \/ \E l \in ContractLabels, v \in Values : BoundLabel(l, v)

Spec == Init /\ [][Next]_vars

-----------------------------------------------------------------------------
(* Properties *)

\* A configuration that is accepted is in effect as written: no override of it
\* is clamped, dropped or replaced (config.go:106-109: "an override that is
\* silently ignored is indistinguishable from a limit that is being applied").
AcceptedOverridesApply ==
    phase = "serving" =>
        \A l \in file.keys : l \in ContractLabels /\ limits[l] = file.limit[l].n

\* Whatever configuration the collector was built from, a bounded value fits
\* the downstream label_value_length_limit: one value over it would cost the
\* whole scrape (labelbound.go:69-80).
EmittedFitsDownstream ==
    \A e \in emitted : e.prefix + e.marker <= maxEnvironBytes

\* A cut leaves whole runes, stays within the limit and gives up less than one
\* rune of it; exactly one result is emitted (labelbound.go:152-158).
CutKeepsWholeRunes ==
    /\ \A e \in emitted : e.marker > 0 =>
        /\ e.prefix <= limits[e.label]
        /\ limits[e.label] - e.prefix < 4
        /\ RuneStart(e.value, e.prefix)
    /\ \A e, f \in emitted : e = f
=============================================================================
