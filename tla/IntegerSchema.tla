--------------------------- MODULE IntegerSchema ---------------------------
(***************************************************************************)
(* The JSON schema of an integer field with validation rules               *)
(* (buf/jsonschema.go: generateIntValidation, generateUintValidation and   *)
(* their callers for 32 and 64 bits).                                      *)
(*                                                                         *)
(* A width is given by half of the numbers it holds, 2^31 or 2^63, so that *)
(* "bits < 53" reads 2 * half < SafeLimit, and every number of a small     *)
(* width can be looked at.                                                 *)
(***************************************************************************)
EXTENDS JSONSchema

CONSTANTS
    SafeLimit,   \* integers of JSON are exact below 2^53
    NarrowHalf,  \* 2^31
    WideHalf,    \* 2^63
    Listed       \* the sets of values that const and in may give, {} for neither

ASSUME WidthAssumption ==
    /\ NarrowHalf \in Nat /\ WideHalf \in Nat /\ SafeLimit \in Nat
    /\ 0 < NarrowHalf /\ 2 * NarrowHalf < SafeLimit /\ SafeLimit < WideHalf

maxSafeInteger == SafeLimit - 1
Safe == -maxSafeInteger..maxSafeInteger

\* The numbers of a type.
Type(signed, half) == IF signed THEN -half..half - 1 ELSE 0..2 * half - 1

\* A bound that is not set.
None == [kind |-> "none", val |-> 0]
Bound(kinds, numbers) == {None} \cup [kind : kinds, val : numbers]

\* The rules of a field: protobuf lets each side have one bound.
Rules(numbers) ==
    [lower : Bound({"gt", "gte"}, numbers),
     upper : Bound({"lt", "lte"}, numbers),
     values : {S \in Listed : S \subseteq numbers}]

NoRules == [lower |-> None, upper |-> None, values |-> {}]

\* A plausible slip: one condition for both kinds of bounds.
Bug_IsOr(r) ==
    /\ r.lower # None
    /\ r.upper # None
    /\ r.upper.val <= r.lower.val

\* isOr: the bounds exclude each other, so they stand for two ranges.
IsOr(r) ==
    /\ r.lower # None
    /\ r.upper # None
    /\ IF r.lower.kind = "gte" /\ r.upper.kind = "lte"
         THEN r.upper.val < r.lower.val
         ELSE r.upper.val <= r.lower.val

\* The upper bound, the same for both kinds of types.
Upper(r, otherwise) ==
    CASE r.upper.kind = "lt" ->
            Keyword("exclusiveMaximum", r.upper.val, r.upper.val <= maxSafeInteger)
      [] r.upper.kind = "lte" ->
            Keyword("maximum", r.upper.val, r.upper.val < maxSafeInteger)
      [] OTHER -> otherwise

\* generateIntValidation. The limits of wide types are computed, and not used.
GenerateInt(r, half) ==
    LET minVal == IF 2 * half >= SafeLimit THEN -maxSafeInteger ELSE -half
        maxExclVal == IF 2 * half >= SafeLimit THEN maxSafeInteger + 1 ELSE half
        lower == IF r.lower.kind = "gt"
                   THEN Keyword("exclusiveMinimum", r.lower.val, r.lower.val >= -maxSafeInteger)
                   ELSE Keyword("minimum", r.lower.val, r.lower.val > -maxSafeInteger)
        atMost == Keyword("exclusiveMaximum", maxExclVal, 2 * half < SafeLimit)
        atLeast == Keyword("minimum", minVal, 2 * half < SafeLimit)
        upper == Upper(r, atMost)
    IN  IF IsOr(r)
          THEN {Branch(r.values, upper \cup atLeast), Branch({}, lower \cup atMost)}
          ELSE {Branch(r.values,
                    upper \cup IF r.lower = None
                                 THEN Keyword("minimum", minVal, 2 * half <= SafeLimit)
                                 ELSE lower)}

\* generateUintValidation.
GenerateUint(r, half) ==
    LET word == IF r.lower.kind = "gt" THEN "exclusiveMinimum" ELSE "minimum"
        atMost == Keyword("exclusiveMaximum", 2 * half, 2 * half < SafeLimit)
        upper == Upper(r, atMost)
    IN  IF IsOr(r)
          THEN {Branch(r.values, upper \cup Keyword("minimum", 0, TRUE)),
                Branch({}, atMost \cup
                    Keyword(word, r.lower.val,
                            r.lower.kind = "gte" \/ r.lower.val <= maxSafeInteger))}
          ELSE {Branch(r.values,
                    upper \cup IF r.lower = None
                                 THEN Keyword("minimum", 0, TRUE)
                                 ELSE Keyword(word, r.lower.val, TRUE))}

\* A field with no rules of its type gets the range of the type, the safe part of it.
Unruled(signed, half) ==
    LET most == IF 2 * half < SafeLimit
                  THEN IF signed THEN half - 1 ELSE 2 * half - 1
                  ELSE maxSafeInteger
        least == IF ~signed THEN 0
                 ELSE IF 2 * half < SafeLimit THEN -half ELSE -maxSafeInteger
    IN  {Branch({}, Keyword("minimum", least, TRUE) \cup Keyword("maximum", most, TRUE))}

\* The integer schemas of a field: generateInt32Validation, generateInt64Validation
\* and their unsigned fellows.
IntegerNumbers(f) ==
    IF f.half = WideHalf /\ f.string64 THEN {}
    ELSE IF ~f.ruled THEN Unruled(f.signed, f.half)
    ELSE IF f.signed THEN GenerateInt(f.rules, f.half)
    ELSE GenerateUint(f.rules, f.half)

\* A string of digits is always taken.
IntegerTexts(f) == {Matching(IF f.signed THEN "numeral" ELSE "digits")}

-----------------------------------------------------------------------------
\* Half of x is beyond the lower bound, and within the upper bound.
AboveLower(r, x) ==
    CASE r.lower.kind = "gt" -> x > 2 * r.lower.val
      [] r.lower.kind = "gte" -> x >= 2 * r.lower.val
      [] OTHER -> TRUE
BelowUpper(r, x) ==
    CASE r.upper.kind = "lt" -> x < 2 * r.upper.val
      [] r.upper.kind = "lte" -> x <= 2 * r.upper.val
      [] OTHER -> TRUE

\* Some half of one of the numbers, or of a number and its successor, is between the bounds.
Between(r, numbers) ==
    \E n \in numbers, d \in {0, 1} :
        AboveLower(r, 2 * n + d) /\ BelowUpper(r, 2 * n + d)

\* The numbers that the rules allow. Two bounds with some real number between them
\* have to be met both; with none between them, one is enough.
Allowed(r, numbers) ==
    LET oneOf == r.lower # None /\ r.upper # None /\ ~Between(r, numbers)
    IN  {n \in numbers :
            /\ r.values = {} \/ n \in r.values
            /\ IF oneOf THEN AboveLower(r, 2 * n) \/ BelowUpper(r, 2 * n)
                        ELSE AboveLower(r, 2 * n) /\ BelowUpper(r, 2 * n)}

\* A choice between two ranges loses the values it is limited to, and an unsigned one
\* its lower bound where JSON does not hold that exactly.
Loosened(f) ==
    /\ IsOr(f.rules)
    /\ \/ f.rules.values # {}
       \/ ~f.signed /\ f.rules.lower.val > maxSafeInteger
=============================================================================
