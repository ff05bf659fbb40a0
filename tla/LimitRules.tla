----------------------------- MODULE LimitRules -----------------------------
(***************************************************************************)
(* The rules of internal/sandbox/limits.go and docker.go that turn a       *)
(* configured range and a requested value into the limit that is enforced. *)
(* A range is a record [min, max] of durations or of byte counts: the two  *)
(* are resolved and applied by the same code on different units.           *)
(***************************************************************************)
EXTENDS Integers

Least(a, b)    == IF a <= b THEN a ELSE b
Greatest(a, b) == IF a >= b THEN a ELSE b

\* valueWithDefault: zero means unset.
valueWithDefault(value, default) == IF value = 0 THEN default ELSE value

\* A range as resolveLangLimits computes it from the configured pair: the
\* maximum first, then an unset minimum is the floor, but never above the
\* maximum.  An explicit minimum is kept for validation to judge.
ResolveRange(min, max, floor, ceiling) ==
    LET top == valueWithDefault(max, ceiling)
    IN  [min |-> IF min = 0 THEN Least(floor, top) ELSE min, max |-> top]

\* The clauses of validateLangLimits about one range.
ValidRange(range) ==
    /\ range.min >= 0
    /\ range.max >= 0
    /\ range.min <= range.max

\* effectiveTimeout and effectiveMemoryBytes.
effectiveTimeout(req, range) ==
    IF req <= 0 THEN range.max
                ELSE Greatest(range.min, Least(req, range.max))

effectiveMemoryBytes(req, range) ==
    IF req <= 0 THEN range.max
                ELSE Greatest(range.min, Least(req, range.max))
=============================================================================
