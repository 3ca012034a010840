--------------------------- MODULE MessageSchema ---------------------------
(***************************************************************************)
(* The JSON schema of a tool's input (buf/jsonschema.go: Generate and what *)
(* it calls, with the options the program sets, so with proto names and    *)
(* neither strict nor bundled). A field whose type is a message has the    *)
(* schema of that message put in its place, so the calls follow the        *)
(* message types down: the recursion is a stack of frames, one for each    *)
(* call of generateMessage.                                                *)
(*                                                                         *)
(* A list and a map hold the schema of their elements one level further    *)
(* down ("items", "additionalProperties"). The calls are the same, and the *)
(* extra level is left out. What the schema of a scalar says is too.       *)
(***************************************************************************)
EXTENDS Naturals, Sequences, FiniteSets

CONSTANTS
    Message,       \* the message types
    WellKnown,     \* those with a generator of their own
    Scalar,        \* the type of every other field
    Declarations,  \* the ways the message types may be declared
    StackLimit     \* calls of generateMessage that a goroutine's stack has room for

FieldDecl ==
    [of : Message \cup {Scalar},
     visibility : {"FieldVisible", "FieldHide", "FieldIgnore"},
     aliased : BOOLEAN,   \* the JSON name differs from the proto name
     required : BOOLEAN,  \* its rules say so
     resolves : BOOLEAN]  \* its rules can be read

ASSUME MessageAssumption ==
    /\ IsFiniteSet(Message)
    /\ WellKnown \subseteq Message
    /\ Scalar \notin Message

ASSUME DeclarationsAssumption == Declarations \subseteq [Message -> Seq(FieldDecl)]

ASSUME StackLimitAssumption == StackLimit \in Nat \ {0}

VARIABLES
    fields,    \* [Message -> its fields, in order]
    root,      \* the message that the schema is for
    stack,     \* the calls of generateMessage in progress
    accepts,   \* the names the schema has, with the path of the field
    required,  \* the paths of the fields it demands
    outcome    \* "running", or "schema", "custom", "empty" or "crashed"

input == <<fields, root>>
vars == <<input, stack, accepts, required, outcome>>

Path == Seq(Nat \ {0})
Frame == [msg : Message, at : Path, next : Nat \ {0}]
Name == [at : Path, name : {"proto", "json"}, in : {"properties", "patternProperties"}]

Init ==
    /\ fields \in Declarations
    /\ root \in Message
    /\ stack = <<>>
    /\ accepts = {}
    /\ required = {}
    /\ outcome = "running"

Top == stack[Len(stack)]
Below == SubSeq(stack, 1, Len(stack) - 1)
Call(msg, at) == [msg |-> msg, at |-> at, next |-> 1]

\* The field that a call of generateMessage has come to, and where it is.
Field(frame) == fields[frame.msg][frame.next]
Here(frame) == Append(frame.at, frame.next)

\* generate: a type with a generator of its own is left to that one.
Generate ==
    /\ outcome = "running"
    /\ stack = <<>>
    /\ IF root \in WellKnown
         THEN outcome' = "custom" /\ stack' = stack
         ELSE stack' = <<Call(root, <<>>)>> /\ outcome' = outcome
    /\ UNCHANGED <<input, accepts, required>>

\* Some call is at a field.
AtField ==
    /\ outcome = "running"
    /\ stack # <<>>
    /\ Top.next \in DOMAIN fields[Top.msg]

\* A call goes on to its next field.
Advance(calls) == [calls EXCEPT ![Len(calls)].next = @ + 1]

\* A plausible slip: the loop stays at the field.
Bug_Ignore ==
    /\ AtField
    /\ Field(Top).visibility = "FieldIgnore"
    /\ UNCHANGED vars

\* A comment in the proto file keeps the field out of the schema.
Ignore ==
    /\ AtField
    /\ Field(Top).visibility = "FieldIgnore"
    /\ stack' = Advance(stack)
    /\ UNCHANGED <<input, accepts, required, outcome>>

\* Rules that cannot be read end every call, and the schema is empty.
Unreadable ==
    /\ AtField
    /\ Field(Top).visibility # "FieldIgnore"
    /\ ~Field(Top).resolves
    /\ outcome' = "empty"
    /\ UNCHANGED <<input, stack, accepts, required>>

Entry(frame, name, in) == [at |-> Here(frame), name |-> name, in |-> in]

\* A plausible slip: a hidden field leaves no name of its own behind.
Bug_Names(frame) ==
    {Entry(frame, "proto", in) : in \in
        IF Field(frame).visibility = "FieldHide" THEN {} ELSE {"properties"}}
    \cup {Entry(frame, "json", in) : in \in
        IF Field(frame).aliased THEN {"patternProperties"} ELSE {}}

\* addFieldProperties: the names under which the schema takes the field.
Names(frame) ==
    {Entry(frame, "proto",
        IF Field(frame).visibility = "FieldHide" THEN "patternProperties" ELSE "properties")}
    \cup {Entry(frame, "json", in) : in \in
        IF Field(frame).aliased THEN {"patternProperties"} ELSE {}}

\* Whether the schema demands the field, decided before its own schema is made.
Demands(frame) == IF Field(frame).required THEN {Here(frame)} ELSE {}

\* A plausible slip: the comment is looked at only after the field's own schema is made.
Bug_Readable ==
    /\ AtField
    /\ Field(Top).resolves

\* The loop of generateMessage takes a field it is to describe.
Readable ==
    /\ AtField
    /\ Field(Top).visibility # "FieldIgnore"
    /\ Field(Top).resolves

AddScalar ==
    /\ Readable
    /\ Field(Top).of = Scalar
    /\ required' = required \cup Demands(Top)
    /\ accepts' = accepts \cup Names(Top)
    /\ stack' = Advance(stack)
    /\ UNCHANGED <<input, outcome>>

\* generateMessageValidation: the message is described in the field's place. It
\* calls generateMessage, not generate, so types are neither looked up among
\* those with a generator of their own nor among those that are described already.
\* Go ends the process when the stack of a goroutine is full.
Descend ==
    /\ Readable
    /\ Field(Top).of \in Message
    /\ IF Len(stack) = StackLimit
         THEN outcome' = "crashed" /\ UNCHANGED <<stack, required>>
         ELSE /\ stack' = Append(stack, Call(Field(Top).of, Here(Top)))
              /\ required' = required \cup Demands(Top)
              /\ outcome' = outcome
    /\ UNCHANGED <<input, accepts>>

\* generateMessage returns, to the loop over the fields of the caller's message.
Return ==
    /\ outcome = "running"
    /\ stack # <<>>
    /\ Top.next \notin DOMAIN fields[Top.msg]
    /\ IF Len(stack) = 1
         THEN outcome' = "schema" /\ stack' = Below /\ accepts' = accepts
         ELSE /\ accepts' = accepts \cup Names(stack[Len(stack) - 1])
              /\ stack' = Advance(Below)
              /\ outcome' = outcome
    /\ UNCHANGED <<input, required>>

Next == Generate \/ Ignore \/ Unreadable \/ AddScalar \/ Descend \/ Return

Spec == Init /\ [][Next]_vars

FairSpec == Spec /\ WF_vars(Next)

-----------------------------------------------------------------------------
\* Every variable has its type.
TypeOK ==
    /\ fields \in Declarations
    /\ root \in Message
    /\ stack \in Seq(Frame)
    /\ accepts \subseteq Name
    /\ required \subseteq Path
    /\ outcome \in {"running", "schema", "custom", "empty", "crashed"}

\* The field that is first in path p belongs to the root, the next to the type of
\* the first, and so on: types are the messages that the path goes through.
Follows(p, types) ==
    /\ types[1] = root
    /\ \A i \in DOMAIN p :
        /\ p[i] \in DOMAIN fields[types[i]]
        /\ i < Len(p) => fields[types[i]][p[i]].of = types[i + 1]

\* Some field along the path is left out of the schema by a comment.
LeftOut(p) ==
    \E types \in [DOMAIN p -> Message] :
        Follows(p, types) /\ \E i \in DOMAIN p :
            fields[types[i]][p[i]].visibility = "FieldIgnore"

\* The path leads to a field of a well-known type, or on from one.
InWellKnown(p) ==
    \E types \in [DOMAIN p -> Message] :
        Follows(p, types) /\ \E i \in DOMAIN p : types[i] \in WellKnown

\* protojson takes a field by either name, at any depth and whatever the comments
\* say. A well-known type has a JSON form of its own (a Timestamp is a string), in
\* which its fields have no names.
Reads(p, name) ==
    \E types \in [DOMAIN p -> Message] :
        /\ Follows(p, types)
        /\ \A i \in DOMAIN p : types[i] \notin WellKnown
        /\ name = "json" => fields[types[Len(p)]][p[Len(p)]].aliased

\* The names that protojson takes along paths no longer than there are types. Only
\* a type that contains itself has longer ones, and is described only where a
\* comment leaves the recursion out.
InputNames ==
    LET indexes == UNION {DOMAIN fields[m] : m \in Message}
        paths == UNION {[1..n -> indexes] : n \in 1..Cardinality(Message)}
    IN  {x \in paths \X {"proto", "json"} : Reads(x[1], x[2])}

\* The schema forbids every name it does not list, so it has to list, at every
\* depth, each name that protojson takes for a field, hidden or not, that no comment
\* leaves out. It lists no other, but for those inside well-known types: the code
\* describes these by their fields (jsonschema.go:1451), and protojson takes none.
ListsEveryName ==
    LET listed == {<<e.at, e.name>> : e \in accepts}
    IN  outcome = "schema" =>
            {x \in listed : ~InWellKnown(x[1])} = {x \in InputNames : ~LeftOut(x[1])}

\* The schema demands fields by their proto names: it also takes each of them
\* under that name, or no input would do.
DemandsCanBeMet ==
    outcome = "schema" =>
        \A p \in required : \E e \in accepts : e.at = p /\ e.name = "proto"

\* Ways to rank the message types so that a type ranks above those of its fields.
\* There is one exactly when no type contains itself, fields left out not counted.
Rankings ==
    {rank \in [Message -> 1..Cardinality(Message)] :
        \A m \in Message : \A i \in DOMAIN fields[m] :
            LET f == fields[m][i]
            IN  f.of \in Message /\ f.visibility # "FieldIgnore" => rank[f.of] < rank[m]}

\* While no message type contains itself, the calls go no deeper than there are
\* types, however often a type is used, and a stack with room for them is not filled.
DepthBounded ==
    Rankings # {} =>
        /\ Len(stack) <= Cardinality(Message)
        /\ outcome = "crashed" => StackLimit < Cardinality(Message)

\* Generate comes to an end one way or another.
GenerateEnds == <>(outcome # "running")

\* "Generate generates a JSON schema for the given message descriptor"
\* (jsonschema.go:124): it does for each, and does not bring the process down.
NeverCrashes == outcome # "crashed"
=============================================================================
