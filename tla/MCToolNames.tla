---------------------------- MODULE MCToolNames ----------------------------
(***************************************************************************)
(* Universes of proto files for ToolNames. In the plain ones no identifier *)
(* holds an underscore.                                                    *)
(***************************************************************************)
EXTENDS ToolNames

\* Fields 3 and 4 are options of the method's own, of which 3 is required to be 1.
Varint(number, value) == [number |-> number, wireType |-> "varint", varint |-> value]
Text(number, length) == [number |-> number, wireType |-> "bytes", varint |-> length]

Of(name, streaming, options) ==
    [name |-> name, streaming |-> streaming, options |-> options, writable |-> TRUE]

Unary(name)      == Of(name, FALSE, <<Varint(4, 2), Varint(3, 1)>>)
Unselected(name) == Of(name, FALSE, <<Varint(4, 1), Varint(3, 2)>>)
Streamed(name)   == Of(name, TRUE, <<Varint(3, 1)>>)
\* An option of that number that is a text of one byte, one that is a list of numbers,
\* and no option; a method of which an infinity is demanded.
Textual(name)    == Of(name, FALSE, <<Text(3, 1)>>)
Repeated(name)   == Of(name, FALSE, <<Varint(3, 2), Varint(3, 1)>>)
Bare(name)       == Of(name, FALSE, <<>>)
Unwritable(name) == [Unary(name) EXCEPT !.writable = FALSE]

InPackage(pkg, simple, methods) ==
    [pkg |-> pkg, simple |-> simple, methods |-> methods]

File(path, sound, services) ==
    [path |-> path, sound |-> sound, services |-> services]

Words == {"a", "b", "c", "S", "T", "U", "Get", "Put", "Del"}

a == <<"a">>
b == <<"b">>
ab == <<"a", ".", "b">>
S == <<"S">>
T == <<"T">>
Get == <<"Get">>
Put == <<"Put">>
Del == <<"Del">>

\* Services of one simple name, one of them in no package, where it takes over a name of
\* another's, and one of them not chosen;
\* streaming and unselected siblings; a file that grows by a method that collides and one
\* that grows by a service; a service that a second file defines again; and a file that
\* cannot be used, because it does not parse or because of one schema.
Plain ==
    {File("a1", TRUE, {InPackage(a, S, {Unary(Get), Unary(Put)})}),
     File("a2", TRUE, {InPackage(a, T, {Repeated(Get), Streamed(Put)})}),
     File("a2", TRUE, {InPackage(a, T, {Repeated(Get), Streamed(Put), Unary(Del)})}),
     File("b", TRUE, {InPackage(b, S, {Unary(Get), Unselected(Put)})}),
     File("b", TRUE, {InPackage(b, S, {Unary(Get), Unselected(Put)}),
                      InPackage(b, T, {Unary(Del), Textual(Get)})}),
     File("ab", TRUE, {InPackage(ab, T, {Unary(Put), Bare(Get)}), InPackage(ab, S, {Unary(Get)})}),
     File("none", TRUE, {InPackage(<<>>, S, {Unary(Del), Unary(Put)})}),
     File("again", TRUE, {InPackage(a, S, {Unary(Get)})}),
     File("broken", FALSE, {InPackage(b, <<"U">>, {Unary(Get)})}),
     File("broken", TRUE, {InPackage(b, <<"U">>, {Unwritable(Get), Unary(Put)})})}

SomeChosen == {<<"S">>, <<"a", ".", "S">>, <<"a", ".", "T">>, <<"b", ".", "S">>,
               <<"b", ".", "T">>, <<"b", ".", "U">>, <<"a", ".", "b", ".", "T">>}

\* Packages a.b_c and a_b.c, both legal, flatten to one string.
Underscored ==
    {File("left", TRUE, {InPackage(<<"a", ".", "b", "_", "c">>, S, {Unary(Get)})}),
     File("right", TRUE, {InPackage(<<"a", "_", "b", ".", "c">>, S, {Unary(Get)})})}
     \cup Plain

\* The hypothesis of the proofs holds of the plain universe, and leaves out the other one.
ASSUME PlainDistinguishable == Distinguishable <=> Universe = Plain
=============================================================================
