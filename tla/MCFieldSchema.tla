--------------------------- MODULE MCFieldSchema ---------------------------
(***************************************************************************)
(* FieldSchema over every rule of small scalar types. Integers have two    *)
(* and five bits, of which JSON holds three exactly; floats reach two and  *)
(* doubles three; enums have four bits and lengths are computed with five. *)
(***************************************************************************)
EXTENDS FieldSchema, TLC

MCListed == {{}, {1}, {-1, 0, 1}, {0, 3, 9}, {-9, 12}}
MCInt32 == -8..7

AtMostOne(S) == {{}} \cup {{x} : x \in S}

\* A field of its own that cannot tell zero from unset, with no demands; and any other.
Plain == [presence : {FALSE}, where : {"singular"}, required : {FALSE}, ifZero : {FALSE}]
Contexts ==
    [presence : BOOLEAN, where : {"singular"}, required : BOOLEAN, ifZero : BOOLEAN]
    \cup [presence : {FALSE}, where : {"item", "key", "value"}, required : BOOLEAN, ifZero : BOOLEAN]

\* Fields in every context if their rules are few, and else in the plain one.
Put(fields, Few(_)) ==
    {p[1] @@ p[2] : p \in {q \in Contexts \X fields : q[1] \in Plain \/ Few(q[2])}}

IntegersOf(signed, half) ==
    [kind : {"integer"}, signed : {signed}, half : {half}, string64 : BOOLEAN,
     ruled : {TRUE}, rules : Rules(Type(signed, half))]
    \cup [kind : {"integer"}, signed : {signed}, half : {half}, string64 : BOOLEAN,
          ruled : {FALSE}, rules : {NoRules}]

IntegerFields == UNION {IntegersOf(signed, half) : signed \in BOOLEAN, half \in {NarrowHalf, WideHalf}}

Floats ==
    UNION {[kind : {"float"}, single : {single},
            rules : FloatRules(single, {{}, {1}, {-1, 0}, {0, 3}, {Inf}, {-Inf, NaN}})] :
               single \in BOOLEAN}

Bools == [kind : {"bool"}, const : AtMostOne(BOOLEAN)]

\* Gaps between the numbers, an end of the type, and two names for one number.
Value(name, number) == [name |-> name, number |-> number]
Enums ==
    [kind : {"enum"},
     declared : {{Value("A", 0), Value("B", 1), Value("C", 2), Value("D", 5), Value("E", 5)},
                 {Value("A", -8), Value("B", 0), Value("C", 0), Value("D", 7)}},
     const : AtMostOne({0, 2, 5, 6}), in : {{}, {1}, {0, 5}, {2, 6, 7}},
     notIn : {{}, {0}, {1, 6}}, definedOnly : BOOLEAN]

\* Up to three characters, of up to two bytes each.
MCText ==
    {t \in [chars : 0..3, size : 0..6, fits : SUBSET Shapes] :
        t.size \in t.chars..2 * t.chars}

StringLengths ==
    {[NoStringRules EXCEPT !.len = k, !.minLen = low, !.maxLen = high] :
        k \in AtMostOne({0, 2}), low \in AtMostOne(0..2), high \in AtMostOne({0, 2})}
StringForms ==
    {[NoStringRules EXCEPT !.lenBytes = k, !.maxBytes = high, !.values = vs, !.shapes = shapes] :
        k \in AtMostOne({2}), high \in AtMostOne({0, 3}),
        vs \in {{}, {[chars |-> 1, size |-> 2, fits |-> Shapes]}},
        shapes \in {S \in SUBSET Shapes : ~{"noted", "well known"} \subseteq S}}
Strings(rules) ==
    [kind : {"string"}, ruled : {TRUE}, rules : rules]
    \cup [kind : {"string"}, ruled : {FALSE}, rules : {NoStringRules}]

Bytes(numbers) ==
    [kind : {"bytes"}, ruled : {TRUE},
     rules : [len : AtMostOne(numbers), minLen : AtMostOne(numbers), maxLen : AtMostOne(numbers)]]
    \cup [kind : {"bytes"}, ruled : {FALSE},
          rules : {NoBytesRules}]

MCField ==
    LET OneBound(f) == f.rules.values = {} /\ (f.rules.lower = None \/ f.rules.upper = None)
        OnlyLengths(f) == f.rules \in StringLengths
        FewLengths(f) == f.rules.len \cup f.rules.minLen \cup f.rules.maxLen \subseteq {0, 2, 3}
        NoMatter(f) == TRUE
    IN  [integer |-> Put(IntegerFields, OneBound),
         float   |-> Put(Floats, OneBound),
         string  |-> Put(Strings(StringForms \cup StringLengths), OnlyLengths),
         bytes   |-> Put(Bytes(0..8), FewLengths),
         enum    |-> Put(Enums, NoMatter),
         bool    |-> Put(Bools, NoMatter)]
=============================================================================
