-------------------------- MODULE MCMessageSchema --------------------------
(***************************************************************************)
(* MessageSchema over all declarations, of up to two fields each, of two   *)
(* message types and of a well-known one that may use either, with fields  *)
(* of every kind the properties tell apart. Recursion through one type or  *)
(* more, a type used twice, and a recursive field that is left out are     *)
(* among them.                                                             *)
(***************************************************************************)
EXTENDS MessageSchema, TLC

CONSTANTS Tree, Leaf, Stamp, Number

Plain(of) ==
    [of |-> of, visibility |-> "FieldVisible", aliased |-> FALSE,
     required |-> FALSE, resolves |-> TRUE]

Kinds(of) ==
    {Plain(of), [Plain(of) EXCEPT !.visibility = "FieldHide", !.required = TRUE]}

FieldDecls ==
    Kinds(Number) \cup Kinds(Leaf)
    \cup {Plain(Tree), Plain(Stamp),
          [Plain(Tree) EXCEPT !.visibility = "FieldIgnore"],
          [Plain(Leaf) EXCEPT !.aliased = TRUE, !.required = TRUE],
          [Plain(Number) EXCEPT !.aliased = TRUE, !.visibility = "FieldHide"],
          [Plain(Number) EXCEPT !.resolves = FALSE]}

UpToTwo(S) == {<<>>} \cup {<<f>> : f \in S} \cup {<<f, g>> : f \in S, g \in S}

MCDeclarations ==
    {(Tree :> t) @@ (Leaf :> l) @@ (Stamp :> s) :
        t \in UpToTwo(FieldDecls), l \in UpToTwo(FieldDecls),
        s \in {<<Plain(Number)>>, <<Plain(Number), Plain(Leaf)>>}}
=============================================================================
