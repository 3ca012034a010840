---------------------------- MODULE FieldSchema ----------------------------
(***************************************************************************)
(* The JSON schema of a field of any scalar type (buf/jsonschema.go:       *)
(* generateFieldValidation), as the program asks for it: never a strict    *)
(* one. A field is a field of its own or stands for the items of a list,   *)
(* or the keys or values of a map, whose schemas are made the same way.    *)
(***************************************************************************)
EXTENDS FloatSchema, ListSchema, TextSchema

CONSTANTS
    ScalarField,  \* for each kind of type the fields: what they are, and their rules
    Text,         \* strings that a client may send
    Sizes         \* lengths of the bytes it may send

\* What a field of each kind is, and rules of its kind.
IntegerField(f) ==
    /\ f.signed \in BOOLEAN /\ f.string64 \in BOOLEAN /\ f.ruled \in BOOLEAN
    /\ f.half \in {NarrowHalf, WideHalf}
    /\ f.rules \in IF f.ruled THEN Rules(Type(f.signed, f.half)) ELSE {NoRules}

FloatField(f) ==
    /\ f.single \in BOOLEAN
    /\ f.rules.lower \in Bound({"gt", "gte"}, FloatType(f.single) \cup {Inf, -Inf})
    /\ f.rules.upper \in Bound({"lt", "lte"}, FloatType(f.single) \cup {Inf, -Inf})
    /\ f.rules.values \subseteq FloatType(f.single) \cup Extremes

StringField(f) ==
    /\ f.rules.len \cup f.rules.minLen \cup f.rules.maxLen \cup f.rules.maxBytes \subseteq Nat
    /\ ~f.ruled => f.rules = NoStringRules

\* No rule speaks of a number of bytes that a client could not send.
BytesField(f) ==
    /\ f.rules.len \cup f.rules.minLen \cup f.rules.maxLen \subseteq Sizes
    /\ \A rule \in {f.rules.len, f.rules.minLen, f.rules.maxLen} : \A n, k \in rule : n = k
    /\ ~f.ruled => f.rules = NoBytesRules

BoolField(f) ==
    /\ f.presence \in BOOLEAN /\ f.required \in BOOLEAN /\ f.ifZero \in BOOLEAN
    /\ f.const \in {{}, {FALSE}, {TRUE}}

\* A name stands for one number; const and in may name numbers that have no name.
EnumField(f) ==
    /\ f.definedOnly \in BOOLEAN
    /\ IsFiniteSet(f.declared)
    /\ \A v \in f.declared : v.number \in Int32
    /\ \A v, w \in f.declared : v.name = w.name => v.number = w.number

ASSUME FieldAssumption ==
    \A kind \in DOMAIN ScalarField : \A f \in ScalarField[kind] :
        /\ f.kind = kind
        /\ kind \in {"bool", "enum", "integer", "float", "string", "bytes"}
        /\ kind = "integer" => IntegerField(f)
        /\ kind = "float" => FloatField(f)
        /\ kind = "string" => StringField(f)
        /\ kind = "bytes" => BytesField(f)
        /\ kind = "bool" => BoolField(f)
        /\ kind = "enum" => EnumField(f)

\* A character takes at least one byte.
ASSUME TextAssumption ==
    /\ Sizes \subseteq Nat
    /\ \A t \in Text : t.chars \in Nat /\ t.size \in Nat /\ t.chars <= t.size

VARIABLES
    field,   \* the field
    schema,  \* its schema
    done     \* whether that has been made

fieldVars == <<field, schema, done>>

\* A plausible slip: the default of an integer that is only taken as a text is a number.
Bug_Default(f) ==
    CASE f.kind = "bool" -> {Truth(FALSE)}
      [] f.kind = "string" -> {Word([chars |-> 0, size |-> 0, fits |-> {}])}
      [] f.kind = "bytes" -> {Null}
      [] OTHER -> {Number(0)}

\* The zero value, in the form in which it is written. That of bytes is nil in Go.
Default(f) ==
    CASE f.kind = "bool" -> {Truth(FALSE)}
      [] f.kind = "string" -> {Word([chars |-> 0, size |-> 0, fits |-> {}])}
      [] f.kind = "bytes" -> {Null}
      [] f.kind = "integer" /\ f.half = WideHalf /\ f.string64 -> {Numeral(0)}
      [] OTHER -> {Number(0)}

\* generateDefault, called unless a Boolean must be true.
HasImplicitDefault(f) == Implicit(f) /\ ~Demanded(f)

Defaults(f) ==
    IF HasImplicitDefault(f) /\ ~(f.kind = "bool" /\ f.required) THEN Default(f) ELSE {}

SchemaOf(f) ==
    CASE f.kind = "bool" -> [NoSchema EXCEPT !.truths = BoolTruths(f)]
      [] f.kind = "enum" -> [NoSchema EXCEPT !.numbers = EnumNumbers(f), !.texts = EnumTexts(f)]
      [] f.kind = "integer" -> [NoSchema EXCEPT !.numbers = IntegerNumbers(f), !.texts = IntegerTexts(f)]
      [] f.kind = "float" -> [NoSchema EXCEPT !.numbers = FloatNumbers(f), !.texts = FloatTexts(f)]
      [] f.kind = "string" -> [NoSchema EXCEPT !.texts = StringTexts(f)]
      [] f.kind = "bytes" -> [NoSchema EXCEPT !.texts = BytesTexts(f)]

FieldInit ==
    /\ \E kind \in DOMAIN ScalarField : field \in ScalarField[kind]
    /\ schema = NoSchema
    /\ done = FALSE

GenerateField ==
    /\ ~done
    /\ done' = TRUE
    /\ schema' = [SchemaOf(field) EXCEPT !.default = Defaults(field)]
    /\ UNCHANGED field

FieldSpec == FieldInit /\ [][GenerateField]_fieldVars

-----------------------------------------------------------------------------
\* Each number that the rules of an integer field allow can be sent as a text, and as
\* a number where JSON holds it exactly, unless -string64 wants it "as strings only"
\* (README.md:77). Of the numbers that JSON holds exactly no others are taken, but for
\* the two cases of Loosened.
IntegersExact ==
    done /\ field.kind = "integer" =>
        LET allowed == Allowed(field.rules, Type(field.signed, field.half))
        IN  /\ \A n \in allowed : TakesNumeral(schema.texts, n)
            /\ IF field.half = WideHalf /\ field.string64 THEN schema.numbers = {}
               ELSE \A n \in allowed \cap Safe : TakesNumber(schema.numbers, n)
            /\ ~Loosened(field) =>
                  \A n \in Safe : TakesNumber(schema.numbers, n) => n \in allowed

\* The schema of a Boolean lists what its rules allow. That of an enum lists exactly
\* the names of allowed numbers, and takes the allowed numbers, those without a name
\* where const and in do not list numbers; not_in is only lost on numbers of an enum
\* that is open.
ListedExact ==
    /\ done /\ field.kind = "bool" /\ ~BoolDiffers(field) =>
          schema.truths = AllowedTruths(field)
    /\ done /\ field.kind = "enum" =>
          LET allowed == AllowedNumbers(field)
              numbers == {v.number : v \in field.declared}
          IN  /\ \A v \in field.declared : Lists(schema.texts, v.name) <=> v.number \in allowed
              /\ \A n \in IF Closed(field) THEN allowed \cap numbers ELSE allowed :
                    TakesNumber(schema.numbers, n)
              /\ \A n \in MinInt32 - 1..MaxInt32 + 1 :
                    TakesNumber(schema.numbers, n) =>
                        n \in allowed \/ (n \in field.notIn /\ ~Closed(field))

\* The schema of a float can be written as JSON unless a rule names an infinity or NaN,
\* which json.Marshal refuses, and with it the whole tool set. It then takes the finite
\* numbers that the rules allow and, but for the named cases, no others, and lists the
\* infinities and NaN exactly when they are allowed.
FloatsExact ==
    done /\ field.kind = "float" =>
        LET allowed == AllowedFloats(field.rules, field.single)
        IN  /\ ~Writable(schema.numbers) => NamesExtreme(field.rules)
            /\ Writable(schema.numbers) =>
                  /\ \A x \in allowed \ Extremes :
                        TakesNumber(schema.numbers, x) /\ TakesNumeral(schema.texts, x)
                  /\ \A x \in FloatType(FALSE) :
                        TakesNumber(schema.numbers, x) => x \in allowed \/ FloatLoosened(field)
                  /\ \A x \in Extremes : Lists(schema.texts, x) <=> x \in allowed

\* Where the schema of a text is narrower than the rules: len_bytes without max_bytes,
\* and an empty text where "required" does not forbid one.
Narrowed(f, chars) ==
    \/ f.kind = "string" /\ f.rules.lenBytes # {} /\ f.rules.maxBytes = {}
    \/ f.required /\ ~(Implicit(f) /\ Demanded(f)) /\ chars = 0

MustNotBeEmpty(f) == f.ruled /\ Implicit(f) /\ Demanded(f)

\* Rules on lengths that some length meets, and whose arithmetic on bytes fits its width.
MeetsLengths(r, n) == Meets(n, r.len, r.minLen, r.maxLen)
Sensible(r) ==
    /\ \E n \in Sizes : MeetsLengths(r, n)
    /\ \A n \in r.len \cup r.minLen \cup r.maxLen : 4 * n < Modulus

\* The two ways to write n bytes.
Encodings(n) == {[chars |-> c, size |-> n, fits |-> {}] : c \in {Unpadded(n), Padded(n)}}

\* A string that the rules allow is taken, and one that is taken has an allowed number
\* of characters and the form that was asked for last. Bytes of an allowed length are
\* taken with padding and without, and those that are taken fill as many groups of
\* three as some allowed length does: no rule is off by a group.
TextsFit ==
    /\ done /\ field.kind = "string" /\ Sensible(field.rules) =>
          \A t \in Text :
              /\ AllowsString(field.rules, t) /\ (MustNotBeEmpty(field) => t.chars > 0) =>
                    TakesText(schema.texts, t) \/ Narrowed(field, t.chars)
              /\ TakesText(schema.texts, t) =>
                    /\ MeetsLengths(field.rules, t.chars)
                    /\ field.rules.values = {} \/ t \in field.rules.values
                    /\ Pattern(field.rules) \in t.fits \cup {"any"}
    /\ done /\ field.kind = "bytes" /\ Sensible(field.rules) =>
          \A n \in Sizes : \A t \in Encodings(n) :
              /\ MeetsLengths(field.rules, n) /\ (MustNotBeEmpty(field) => n > 0) =>
                    TakesText(schema.texts, t) \/ Narrowed(field, n)
              /\ TakesText(schema.texts, t) =>
                    \E k \in Sizes : Padded(k) = Padded(n) /\ MeetsLengths(field.rules, k)

\* The rules allow zero.
AllowsZero(f) ==
    CASE f.kind = "bool" -> FALSE \in AllowedTruths(f)
      [] f.kind = "enum" -> 0 \in AllowedNumbers(f) /\ \E v \in f.declared : v.number = 0
      [] f.kind = "integer" -> 0 \in Allowed(f.rules, Type(f.signed, f.half))
      [] f.kind = "float" -> 0 \in AllowedFloats(f.rules, f.single)
      [] f.kind = "string" -> AllowsString(f.rules, [chars |-> 0, size |-> 0, fits |-> {}])
      [] f.kind = "bytes" -> Meets(0, f.rules.len, f.rules.minLen, f.rules.maxLen)

Takes(s, json) ==
    CASE json.form = "number" -> TakesNumber(s.numbers, json.val)
      [] json.form = "numeral" -> TakesNumeral(s.texts, json.val)
      [] json.form = "truth" -> json.val \in s.truths
      [] json.form = "word" -> TakesText(s.texts, json.val)
      [] json.form = "null" -> FALSE

\* A schema that names a default takes it, in the form in which it is named, wherever
\* the rules allow zero; and no default excuses a client from a field that is demanded.
\* The default of bytes is the exception: it is null, which no schema takes.
DefaultFits ==
    \A json \in schema.default :
        /\ ~Demanded(field)
        /\ AllowsZero(field) =>
              \/ Takes(schema, json)
              \/ field.kind = "string" /\ Narrowed(field, 0)
              \/ field.kind = "bytes"
=============================================================================
