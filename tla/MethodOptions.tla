---------------------------- MODULE MethodOptions ----------------------------
(***************************************************************************)
(* What -require-method-option looks for in the options of a method        *)
(* (main.go: methodOptionFields, hasMethodOption). The options are read as *)
(* they are encoded, with no knowledge of what declares them: a sequence   *)
(* of fields                                                               *)
(*   [number, wireType, varint]                                            *)
(* where varint is the number that a reader of a varint finds at the start *)
(* of the encoded value: its length, for a value that has one. At          *)
(* malformed data the reader stops; options that were parsed hold none.    *)
(***************************************************************************)
EXTENDS Naturals, Sequences

Malformed == [number |-> 0, wireType |-> "malformed", varint |-> 0]

\* Positions of the fields that are read: those with no malformed data up to them.
Read(options) ==
    {i \in DOMAIN options : \A j \in 1..i : options[j] # Malformed}

\* A plausible slip: the type of a field is not looked at.
Bug_HasMethodOption(options, fieldNum, expectedValues) ==
    \E i \in Read(options) :
        /\ options[i].number = fieldNum
        /\ options[i].varint \in expectedValues
        /\ \A j \in 1..i - 1 : options[j].number # fieldNum

\* The first varint of that number decides.
HasMethodOption(options, fieldNum, expectedValues) ==
    LET Matches(i) == options[i].number = fieldNum /\ options[i].wireType = "varint"
    IN  \E i \in Read(options) :
            /\ Matches(i)
            /\ options[i].varint \in expectedValues
            /\ \A j \in 1..i - 1 : ~Matches(j)
=============================================================================
