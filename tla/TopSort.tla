------------------------------ MODULE TopSort ------------------------------
(***************************************************************************)
(* The order in which the files of a reflection are handed on              *)
(* (grpcmcp/server.go: the loop that ends LoadDescriptorsFromReflection,   *)
(* and topSort). protodesc.NewFile wants the imports of a file registered  *)
(* before it; the files come out of a map, in an order that Go does not    *)
(* fix, and what they import is up to the backend: an import may be        *)
(* missing, and nothing keeps imports from forming a cycle.                *)
(*                                                                         *)
(* The recursion is a stack of frames, one for each call of topSort, with  *)
(* the imports that its loop has still to look at.                         *)
(***************************************************************************)
EXTENDS Naturals, Sequences, FiniteSets

CONSTANT File  \* the names of proto files

ASSUME FileAssumption == IsFiniteSet(File)

VARIABLES
    all,      \* the files that were gathered
    imports,  \* [File -> the files it imports]
    roots,    \* gathered files the loop has not come to
    stack,    \* the calls of topSort in progress
    seen,     \* files that topSort has been called for
    ds,       \* the list it builds
    outcome   \* "running", "failed" or "done"

schema == <<all, imports>>
vars == <<schema, roots, stack, seen, ds, outcome>>

Frame == [file : File, left : SUBSET File]

Init ==
    /\ all \in SUBSET File
    /\ imports \in [File -> SUBSET File]
    /\ roots = all
    /\ stack = <<>>
    /\ seen = {}
    /\ ds = <<>>
    /\ outcome = "running"

Top == stack[Len(stack)]

Push(s, f) == Append(s, [file |-> f, left |-> imports[f]])

\* A plausible slip: a file that was seen is visited again.
Bug_Call(s, f) ==
    /\ stack' = Push(s, f)
    /\ seen' = seen \cup {f}

\* A call of topSort returns at once for a file that was seen.
Call(s, f) ==
    /\ stack' = IF f \in seen THEN s ELSE Push(s, f)
    /\ seen' = seen \cup {f}

\* The loop over the map comes to file f.
Root(f) ==
    /\ outcome = "running"
    /\ stack = <<>>
    /\ f \in roots
    /\ roots' = roots \ {f}
    /\ Call(stack, f)
    /\ UNCHANGED <<schema, ds, outcome>>

\* The loop of the innermost call comes to an import that was gathered.
Import(g) ==
    /\ outcome = "running"
    /\ stack # <<>>
    /\ g \in Top.left \cap all
    /\ Call([stack EXCEPT ![Len(stack)].left = @ \ {g}], g)
    /\ UNCHANGED <<schema, roots, ds, outcome>>

\* A plausible slip: an import that is not there is passed over.
Bug_ImportMissing(g) ==
    /\ outcome = "running"
    /\ stack # <<>>
    /\ g \in Top.left \ all
    /\ stack' = [stack EXCEPT ![Len(stack)].left = @ \ {g}]
    /\ UNCHANGED <<schema, roots, seen, ds, outcome>>

\* An import that was not gathered ends every call with an error.
ImportMissing(g) ==
    /\ outcome = "running"
    /\ stack # <<>>
    /\ g \in Top.left \ all
    /\ outcome' = "failed"
    /\ UNCHANGED <<schema, roots, stack, seen, ds>>

\* A plausible slip: a file waits until its imports are listed.
Bug_Emit ==
    /\ outcome = "running"
    /\ stack # <<>>
    /\ Top.left = {}
    /\ imports[Top.file] \subseteq {ds[i] : i \in DOMAIN ds}
    /\ ds' = Append(ds, Top.file)
    /\ stack' = SubSeq(stack, 1, Len(stack) - 1)
    /\ UNCHANGED <<schema, roots, seen, outcome>>

\* A plausible slip: the file is listed before the loop over its imports.
Bug_EmitFirst ==
    /\ outcome = "running"
    /\ stack # <<>>
    /\ ds' = IF \E i \in DOMAIN ds : ds[i] = Top.file THEN ds ELSE Append(ds, Top.file)
    /\ stack' = IF Top.left = {} THEN SubSeq(stack, 1, Len(stack) - 1) ELSE stack
    /\ UNCHANGED <<schema, roots, seen, outcome>>

\* The innermost call lists its file, after its imports, and returns.
Emit ==
    /\ outcome = "running"
    /\ stack # <<>>
    /\ Top.left = {}
    /\ ds' = Append(ds, Top.file)
    /\ stack' = SubSeq(stack, 1, Len(stack) - 1)
    /\ UNCHANGED <<schema, roots, seen, outcome>>

Finish ==
    /\ outcome = "running"
    /\ stack = <<>>
    /\ roots = {}
    /\ outcome' = "done"
    /\ UNCHANGED <<schema, roots, stack, seen, ds>>

Next ==
    \/ \E f \in File : Root(f) \/ Import(f) \/ ImportMissing(f)
    \/ Emit
    \/ Finish

Spec == Init /\ [][Next]_vars

FairSpec == Spec /\ WF_vars(Next)

-----------------------------------------------------------------------------
\* Every variable has its type.
TypeOK ==
    /\ all \subseteq File
    /\ imports \in [File -> SUBSET File]
    /\ roots \subseteq all
    /\ stack \in Seq(Frame)
    /\ seen \subseteq all
    /\ ds \in Seq(all)
    /\ outcome \in {"running", "failed", "done"}

\* Ways to number the files so that a file comes after all that it imports.
\* There is one exactly when the imports of the gathered files form no cycle.
Rankings ==
    {rank \in [File -> 0..Cardinality(File)] :
        \A f \in all : \A g \in imports[f] : rank[g] < rank[f]}

\* Whatever order the map yields the files in, each one is listed after all its
\* imports, as protodesc.NewFile demands, unless the imports form a cycle.
ImportsFirst ==
    Rankings # {} =>
        \A i \in DOMAIN ds : imports[ds[i]] \subseteq {ds[j] : j \in 1..i-1}

\* No file is listed twice, and in the end every gathered file is listed.
EachFileOnce ==
    /\ \A i, j \in DOMAIN ds : ds[i] = ds[j] => i = j
    /\ outcome = "done" => {ds[i] : i \in DOMAIN ds} = all

\* The sort fails exactly when some gathered file has an import that was not
\* gathered, whether or not the order came to it late.
FailsForMissing ==
    /\ outcome = "failed" => \E f \in all : ~(imports[f] \subseteq all)
    /\ outcome = "done" => \A f \in all : imports[f] \subseteq all

\* The sort ends, also when the imports form a cycle.
Ends == <>(outcome # "running")
=============================================================================
