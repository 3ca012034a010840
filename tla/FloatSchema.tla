---------------------------- MODULE FloatSchema ----------------------------
(***************************************************************************)
(* The JSON schema of a float or double field (buf/jsonschema.go:          *)
(* generateFloatValidation). Numbers are integers here, of which those up  *)
(* to FloatMax fit a float and those up to DoubleMax a double. The numbers *)
(* beyond stand for the infinities and NaN, which JSON cannot write as     *)
(* numbers: a value of theirs is the word "Infinity", "-Infinity" or       *)
(* "NaN".                                                                  *)
(***************************************************************************)
EXTENDS IntegerSchema

CONSTANTS FloatMax, DoubleMax

ASSUME FloatAssumption ==
    FloatMax \in Nat /\ DoubleMax \in Nat /\ FloatMax < DoubleMax

Inf == DoubleMax + 1
NaN == DoubleMax + 2
Extremes == {Inf, -Inf, NaN}

FloatType(single) ==
    IF single THEN -FloatMax..FloatMax ELSE -DoubleMax..DoubleMax

\* The rules; FloatLists are the values that const and in may give, {} for neither.
FloatRules(single, FloatLists) ==
    LET bounds == FloatType(single) \cup {Inf, -Inf}
    IN  [lower : Bound({"gt", "gte"}, bounds), upper : Bound({"lt", "lte"}, bounds),
         finite : BOOLEAN,
         values : {S \in FloatLists : S \subseteq FloatType(single) \cup Extremes}]

NoFloatRules == [lower |-> None, upper |-> None, finite |-> FALSE, values |-> {}]

\* A plausible slip: an upper bound takes +Infinity away also where it is one of two ranges.
Bug_IncludePosInf(r) ==
    r.upper = None \/ (r.upper.kind = "lte" /\ r.upper.val = Inf)

\* includePosInf, includeNegInf and includeNaN, as far as the bounds decide.
IncludePosInf(r) ==
    r.upper = None \/ IsOr(r) \/ (r.upper.kind = "lte" /\ r.upper.val = Inf)

IncludeNegInf(r) ==
    r.lower = None \/ IsOr(r) \/ (r.lower.kind = "gte" /\ r.lower.val = -Inf)

IncludeNaN(r) == r.lower = None /\ r.upper = None

\* The extremes that the schema lists.
Included(r) ==
    {x \in Extremes :
        /\ IF r.values = {} THEN ~r.finite ELSE x \in r.values
        /\ x = Inf => IncludePosInf(r)
        /\ x = -Inf => IncludeNegInf(r)
        /\ x = NaN => IncludeNaN(r)}

\* The number schema and, for bounds that stand for two ranges, the other one.
FloatNumbers(f) ==
    LET r == f.rules
        lower == Keyword(IF r.lower.kind = "gt" THEN "exclusiveMinimum" ELSE "minimum",
                         r.lower.val, r.lower # None)
        upper == Keyword(IF r.upper.kind = "lt" THEN "exclusiveMaximum" ELSE "maximum",
                         r.upper.val, r.upper # None)
        least == Keyword("minimum", -FloatMax, f.single /\ r.lower = None)
        most == Keyword("maximum", FloatMax, f.single /\ r.upper = None)
    IN  IF IsOr(r)
          THEN {Branch(r.values, upper), Branch({}, lower)}
          ELSE {Branch(r.values, lower \cup least \cup upper \cup most)}

\* Where an extreme is taken any other spelling of one is, and with it any text.
FloatTexts(f) ==
    IF Included(f.rules) = {} THEN {Matching("numeral")}
    ELSE {Listing(Included(f.rules)), Matching("any")}

-----------------------------------------------------------------------------
\* Some rule names an infinity or NaN: a number that a schema cannot bear.
NamesExtreme(r) ==
    \/ r.lower # None /\ r.lower.val \in Extremes
    \/ r.upper # None /\ r.upper.val \in Extremes
    \/ r.values \cap Extremes # {}

\* What json.Marshal refuses.
Writable(numbers) ==
    \A b \in numbers :
        /\ b.values \cap Extremes = {}
        /\ \A k \in b.keywords : k.val \notin Extremes

\* The values the rules allow. No bound holds for NaN.
AllowedFloats(r, single) ==
    {x \in Allowed([lower |-> r.lower, upper |-> r.upper, values |-> r.values],
                   FloatType(single) \cup Extremes) :
        /\ r.finite => x \notin Extremes
        /\ x = NaN => IncludeNaN(r)}

\* Of two ranges neither holds for a float what bounds the type, and the second
\* loses the values that const or in give.
FloatLoosened(f) == IsOr(f.rules) /\ (f.single \/ f.rules.values # {})
=============================================================================
