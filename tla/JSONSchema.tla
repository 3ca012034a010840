---------------------------- MODULE JSONSchema ----------------------------
(***************************************************************************)
(* What the parts of a JSON schema mean that the schema of a field is made *)
(* of. The generator writes anyOf over alternatives for numbers and for    *)
(* texts. Nothing is both, so that a schema is kept as the alternatives of *)
(* each:                                                                   *)
(*   numbers  integer and number schemas [values, keywords]                *)
(*   texts    string schemas [pattern, values, keywords]                   *)
(*   truths   the Boolean values it lists                                  *)
(*   default  {} or the one JSON value that it names as default            *)
(* An alternative whose values are {} lists none, and takes any.           *)
(*                                                                         *)
(* A JSON value is [form, val]: a "number", a "truth", a "numeral", which  *)
(* is the text of a number, a "word", any other text, or null.             *)
(***************************************************************************)
EXTENDS Integers

Number(n)  == [form |-> "number", val |-> n]
Numeral(n) == [form |-> "numeral", val |-> n]
Word(w)    == [form |-> "word", val |-> w]
Truth(b)   == [form |-> "truth", val |-> b]
Null       == [form |-> "null", val |-> 0]

\* A keyword of a schema with its number, as a set: {} when the keyword is left out.
Keyword(word, val, given) == IF given THEN {[word |-> word, val |-> val]} ELSE {}

Branch(values, keywords) == [values |-> values, keywords |-> keywords]

\* Texts of the given pattern, and the texts of a list.
Matching(pattern) == [pattern |-> pattern, values |-> {}, keywords |-> {}]
Listing(words)    == [pattern |-> "any", values |-> words, keywords |-> {}]

NoSchema == [numbers |-> {}, texts |-> {}, truths |-> {}, default |-> {}]

\* Keywords on numbers, and on the number of characters of a text.
Holds(k, n) ==
    CASE k.word \in {"minimum", "minLength"} -> n >= k.val
      [] k.word \in {"maximum", "maxLength"} -> n <= k.val
      [] k.word = "exclusiveMinimum" -> n > k.val
      [] k.word = "exclusiveMaximum" -> n < k.val

\* Some alternative for numbers takes number n.
TakesNumber(numbers, n) ==
    \E b \in numbers :
        /\ b.values = {} \/ n \in b.values
        /\ \A k \in b.keywords : Holds(k, n)

\* Some alternative for texts takes the text of number n.
TakesNumeral(texts, n) ==
    \E t \in texts :
        /\ t.values = {}
        /\ t.pattern \in {"any", "numeral"} \/ (t.pattern = "digits" /\ n >= 0)

\* Some list of texts holds word w.
Lists(texts, w) == \E t \in texts : w \in t.values
=============================================================================
