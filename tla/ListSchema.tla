---------------------------- MODULE ListSchema ----------------------------
(***************************************************************************)
(* The JSON schemas of fields whose values can be listed: Booleans         *)
(* (buf/jsonschema.go: generateBoolValidation) and enums                   *)
(* (generateEnumValidation, generateEnumInt32Validation). An enum declares *)
(* names with numbers, maybe two names with one number, and is open: a     *)
(* value may have a number that has no name.                               *)
(*                                                                         *)
(* Of a field, besides its rules:                                          *)
(*   presence  it tells unset from zero                                    *)
(*   where     "singular", or an "item" of a list, a "key" or "value" of a *)
(*             map: hasImplicitPresence in the code                        *)
(*   required, ifZero   its rules say so, the latter by                    *)
(*                      IGNORE_IF_ZERO_VALUE                               *)
(***************************************************************************)
EXTENDS JSONSchema, FiniteSetsExt

CONSTANT Int32  \* the numbers an enum value may have

MinInt32 == CHOOSE n \in Int32 : \A k \in Int32 : n <= k
MaxInt32 == CHOOSE n \in Int32 : \A k \in Int32 : n >= k

ASSUME Int32Assumption ==
    /\ MinInt32 \in Int /\ MaxInt32 \in Int
    /\ Int32 = MinInt32..MaxInt32
    /\ 0 \in Int32

\* The zero value stands for absence.
Implicit(f) == ~f.presence /\ f.where = "singular"

Demanded(f) == f.required /\ ~f.ifZero

\* A required field must be true when it cannot be told from an unset one.
BoolTruths(f) ==
    IF ~f.presence /\ f.required THEN {TRUE}
    ELSE IF f.const # {} THEN f.const
    ELSE BOOLEAN

AllowedTruths(f) ==
    {b \in BOOLEAN : /\ f.const = {} \/ b \in f.const
                     /\ Implicit(f) /\ Demanded(f) => b}

\* Where the schema of a Boolean is narrower than the rules: "required" on what is
\* not a field of its own, or not for zero. And where it is wider: const is not seen.
BoolDiffers(f) ==
    ~f.presence /\ f.required /\ (~Implicit(f) \/ f.ifZero \/ f.const = {FALSE})

-----------------------------------------------------------------------------
AllowZero(f) == ~(Implicit(f) /\ Demanded(f))

HideZero(f) == Implicit(f) /\ ~Demanded(f)

\* The declared values that are not removed.
Selected(f) ==
    {v \in f.declared :
        /\ v.number = 0 => AllowZero(f)
        /\ f.const = {} \/ v.number \in f.const
        /\ f.in = {} \/ v.number \in f.in
        /\ v.number \notin f.notIn}

NamesOf(values) == {v.name : v \in values}

\* Zero is taken when it is spelled out, and not suggested.
EnumTexts(f) ==
    LET hidden == {v \in Selected(f) : HideZero(f) /\ v.number = 0}
        shown == Selected(f) \ hidden
    IN  {Listing({v.name}) : v \in hidden}
        \cup IF shown = {} THEN {} ELSE {Listing(NamesOf(shown))}

Run(low, high) ==
    Branch({}, Keyword("minimum", low, TRUE) \cup Keyword("maximum", high, TRUE))

\* The next number belongs to the run, or ends it and begins another.
Extend(n, run) ==
    IF n = run.last + 1 THEN [run EXCEPT !.last = n]
    ELSE [start |-> n, last |-> n, ranges |-> run.ranges \cup {Run(run.start, run.last)}]

\* A plausible slip: the last run of numbers is left out.
Bug_Ranges(numbers) ==
    LET first == Min(numbers)
        init == [start |-> first, last |-> first, ranges |-> {}]
        end == MapThenFoldSet(Extend, init, LAMBDA n : n, Max, numbers \ {first})
    IN  IF numbers = {} THEN {} ELSE end.ranges

\* generateEnumInt32Validation: the numbers, in ascending order, as runs without a gap.
\* The fold takes the greatest number last.
Ranges(numbers) ==
    LET first == Min(numbers)
        init == [start |-> first, last |-> first, ranges |-> {}]
        end == MapThenFoldSet(Extend, init, LAMBDA n : n, Max, numbers \ {first})
    IN  IF numbers = {} THEN {} ELSE end.ranges \cup {Run(end.start, end.last)}

\* Whether numbers that have no name are left out.
Closed(f) == f.definedOnly \/ f.const # {} \/ f.in # {}

EnumNumbers(f) ==
    IF Closed(f) THEN Ranges({v.number : v \in Selected(f)})
    ELSE IF AllowZero(f) THEN {Run(MinInt32, MaxInt32)}
    ELSE {Branch({}, Keyword("minimum", MinInt32, TRUE) \cup Keyword("exclusiveMaximum", 0, TRUE)),
          Branch({}, Keyword("exclusiveMinimum", 0, TRUE) \cup Keyword("maximum", MaxInt32, TRUE))}

\* The numbers that the rules allow.
AllowedNumbers(f) ==
    {n \in Int32 :
        /\ f.const = {} \/ n \in f.const
        /\ f.in = {} \/ n \in f.in
        /\ n \notin f.notIn
        /\ f.definedOnly => \E v \in f.declared : v.number = n
        /\ Implicit(f) /\ Demanded(f) => n # 0}
=============================================================================
