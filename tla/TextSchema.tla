---------------------------- MODULE TextSchema ----------------------------
(***************************************************************************)
(* The JSON schemas of strings and bytes (buf/jsonschema.go:               *)
(* generateStringValidation, generateWellKnownPattern,                     *)
(* generateBytesValidation, base64EncodedLength).                          *)
(*                                                                         *)
(* A text is [chars, size, fits]: its characters, the bytes they take or   *)
(* stand for, and the constraints of its field on its form that it meets:  *)
(* a well-known form, a pattern, an affix (prefix, suffix, contains). Some *)
(* well-known forms (e-mail, IPv4, IPv6) are only "noted", as the format   *)
(* of the schema. A rule on a number is {} or has one element.             *)
(***************************************************************************)
EXTENDS JSONSchema, FiniteSets

CONSTANT
    Modulus  \* of the 64-bit arithmetic on lengths, 2^64

ASSUME ModulusAssumption == Modulus \in Nat \ {0}

Shapes == {"noted", "well known", "pattern", "affix"}

\* The rules of a field that has none.
NoStringRules == [len |-> {}, minLen |-> {}, maxLen |-> {}, lenBytes |-> {}, maxBytes |-> {},
                  values |-> {}, shapes |-> {}]
NoBytesRules == [len |-> {}, minLen |-> {}, maxLen |-> {}]

\* maxLength of a string. Of len_bytes only that it is set is looked at; the
\* number is that of max_bytes, which is zero when that is not set.
MaxLength(r) ==
    IF r.len # {} THEN r.len
    ELSE IF r.maxLen # {} THEN r.maxLen
    ELSE IF r.lenBytes # {} /\ r.maxBytes = {} THEN {0}
    ELSE r.maxBytes

MinLength(r, required) ==
    IF r.len # {} THEN r.len
    ELSE IF r.minLen \notin {{}, {0}} THEN r.minLen
    ELSE IF required THEN {1}
    ELSE {}

\* Each kind of constraint on the form replaces the one before; a format is no pattern.
Pattern(r) ==
    IF "pattern" \in r.shapes THEN "pattern"
    ELSE IF "affix" \in r.shapes THEN "affix"
    ELSE IF "well known" \in r.shapes THEN "well known"
    ELSE "any"

Lengths(low, high) ==
    {[word |-> "minLength", val |-> n] : n \in low} \cup
    {[word |-> "maxLength", val |-> n] : n \in high}

StringTexts(f) ==
    IF ~f.ruled THEN {Matching("any")}
    ELSE {[pattern |-> Pattern(f.rules), values |-> f.rules.values,
           keywords |-> Lengths(MinLength(f.rules, f.required), MaxLength(f.rules))]}

\* A plausible slip: lengths that are a multiple of three are padded too.
Bug_Padding(n) ==
    LET characters == ((n * 4) % Modulus) \div 3 + (IF n % 3 = 0 THEN 0 ELSE 1)
    IN  4 - (characters % 4)

\* base64EncodedLength. Four times the length may not fit in 64 bits.
Characters(n) == ((n * 4) % Modulus) \div 3 + (IF n % 3 = 0 THEN 0 ELSE 1)
Padding(n) == (4 - (Characters(n) % 4)) % 4

\* At most what the limit takes with padding, at least what it takes without.
BytesTexts(f) ==
    LET r == f.rules
        low == IF r.len # {} THEN r.len ELSE r.minLen
        high == IF r.len # {} THEN r.len ELSE r.maxLen
    IN  IF ~f.ruled THEN {Matching("base64")}
        ELSE {[pattern |-> "base64", values |-> {},
               keywords |->
                  Lengths(IF low # {} THEN {Characters(n) : n \in low}
                          ELSE IF f.required THEN {1} ELSE {},
                          {Characters(n) + Padding(n) : n \in high})]}

\* Some alternative takes the text.
TakesText(texts, t) ==
    \E b \in texts :
        /\ b.values = {} \/ t \in b.values
        /\ b.pattern \in {"any", "base64"} \cup t.fits
        /\ \A k \in b.keywords : Holds(k, t.chars)

-----------------------------------------------------------------------------
\* A number meets the rules for it.
Meets(n, exactly, atLeast, atMost) ==
    /\ \A k \in exactly : n = k
    /\ \A k \in atLeast : n >= k
    /\ \A k \in atMost : n <= k

\* The rules allow the string.
AllowsString(r, t) ==
    /\ r.values = {} \/ t \in r.values
    /\ Meets(t.chars, r.len, r.minLen, r.maxLen)
    /\ Meets(t.size, r.lenBytes, {}, r.maxBytes)
    /\ r.shapes \subseteq t.fits

\* What n bytes take in base64, without padding and with it.
Unpadded(n) == 4 * (n \div 3) + (IF n % 3 = 0 THEN 0 ELSE (n % 3) + 1)
Padded(n) == 4 * ((n + 2) \div 3)
=============================================================================
