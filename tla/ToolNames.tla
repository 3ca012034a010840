---------------------------- MODULE ToolNames ----------------------------
(***************************************************************************)
(* What the tool names of ToolNaming are worth to an agent, over every     *)
(* schema that can be put together from a universe of proto files. A       *)
(* backend grows, file by file or within a file; the server refreshes its  *)
(* tools now and then, and a client lists them now and then, and in        *)
(* between calls tools by the names it was given.                          *)
(***************************************************************************)
EXTENDS ToolNaming

CONSTANTS
    Word,     \* the words that names are made of
    Universe  \* the files a backend may come to hold, in all their versions

Token == Word \cup {".", "_"}

\* The name of a service or a method holds no dot.
Dotless(id) == \A i \in DOMAIN id : id[i] # "."
Identifier == {id \in Seq(Token) : id # <<>> /\ Dotless(id)}

Method ==
    [name : Identifier, streaming : BOOLEAN, writable : BOOLEAN,
     options : Seq([number : Nat, wireType : STRING, varint : Nat])]

Service == [pkg : Seq(Token), simple : Identifier, methods : SUBSET Method]

\* What a file that protodesc.NewFile takes is known to be: its names are well formed,
\* its services have one method of a name each, and its options were parsed.
ASSUME UniverseAssumption ==
    \A f \in Universe : f.sound =>
        /\ f \in [path : STRING, sound : BOOLEAN, services : SUBSET Service]
        /\ IsFiniteSet(f.services)
        /\ \A s \in f.services :
              /\ IsFiniteSet(s.methods)
              /\ \A m, n \in s.methods : m.name = n.name => m = n
              /\ \A m \in s.methods : \A i \in DOMAIN m.options : m.options[i] # Malformed

\* Where a simple name ends and the name of a method begins can be told: an identifier
\* has no two dots or underscores side by side, and none at an end.
Dot == "."
Dash == "_"
Separator == {Dot, Dash}

Separable(id) ==
    /\ id # <<>>
    /\ id[1] \notin Separator
    /\ id[Len(id)] \notin Separator
    /\ \A i \in 1..Len(id) - 1 : id[i] \notin Separator \/ id[i + 1] \notin Separator

\* The names that can be told apart once they are tool names: besides, dots and
\* underscores are not all that two services differ in.
Distinguishable ==
    LET all == ServicesOf(Registered(Universe))
    IN  /\ \A s \in all :
              /\ Separable(s.simple)
              /\ Separable(FullName(s))
              /\ \A m \in s.methods : Separable(m.name)
        /\ \A s, t \in all :
              /\ Flatten(FullName(s)) = Flatten(FullName(t)) => FullName(s) = FullName(t)
              /\ Flatten(FullName(s)) = t.simple => FullName(s) = t.simple

VARIABLES
    fds,     \* the files of the backend
    served,  \* the tools of the server
    listed   \* the tools the client knows of

vars == <<fds, served, listed>>

Init ==
    /\ fds = {}
    /\ served = {}
    /\ listed = {}

\* g is f with more services, or with more methods in some.
Extends(f, g) ==
    \A s \in f.services : \E t \in g.services :
        FullName(s) = FullName(t) /\ s.methods \subseteq t.methods

\* A file is added, or gives way to one of its path that has more.
Grow(g) ==
    LET old == {f \in fds : f.path = g.path}
    IN  /\ g \notin fds
        /\ \A f \in old : Extends(f, g)
        /\ fds' = (fds \ old) \cup {g}
        /\ UNCHANGED <<served, listed>>

\* A refresh, which leaves the tools alone when they cannot be built.
Refresh ==
    /\ Tools(fds).ok
    /\ served' = Tools(fds).tools
    /\ UNCHANGED <<fds, listed>>

List ==
    /\ listed' = served
    /\ UNCHANGED <<fds, served>>

Next ==
    \/ \E g \in Universe : Grow(g)
    \/ Refresh
    \/ List

Spec == Init /\ [][Next]_vars

-----------------------------------------------------------------------------
\* One name stands for one method: "the shortest name that stays unique"
\* (main.go:88). The build of the tools has no check of its own.
NamesUnique ==
    \A x, y \in Tools(fds).tools : x.name = y.name => x = y

\* The files without the methods, and the services, that yield no tool.
Stripped(f) ==
    [f EXCEPT !.services =
        {[s EXCEPT !.methods = Exposed(s)] :
            s \in {x \in f.services : IsChosen(x) /\ Exposed(x) # {}}}]

\* What is not exposed has no say in the names: a streaming or unselected
\* method, or a service that exposes nothing, never forces a longer name.
UnexposedHasNoSay ==
    Tools(fds).ok =>
        Tools(fds).tools = Tools({Stripped(f) : f \in fds}).tools

\* What follows the last dot of a full name, if there is one.
SimpleOf(full) ==
    LET dots == {i \in DOMAIN full : full[i] = "."}
        last == CHOOSE i \in dots \cup {0} : \A j \in dots : j <= i
    IN  SubSeq(full, last + 1, Len(full))

\* The forms of a tool's name have the reasons that README.md:90-92 gives,
\* judged by the other tools that came out and not by what was counted. The full name
\* of a service in no package is its simple one.
QualifiedForAReason ==
    \A x \in Tools(fds).tools :
        LET method    == x.method[2]
            simple    == SimpleOf(x.method[1])
            rivals    == {y \in Tools(fds).tools \ {x} : y.method[2] = method}
            namesakes == {y \in Tools(fds).tools : y.method[1] # x.method[1]
                                                /\ SimpleOf(y.method[1]) = simple}
        IN  /\ x.name = method <=> rivals = {}
            /\ x.name = Joined(simple, method) <=>
                  rivals # {} /\ (namesakes = {} \/ x.method[1] = simple)

\* "Only expose methods where a specific proto method option matches a given value"
\* (README.md:71): a method that has a tool bears the option with a value asked for,
\* and a unary method of a chosen service that has none bears it with no such value, or
\* with another one before.
MarkedAlone ==
    Tools(fds).ok /\ OptFieldNum > 0 =>
        \A s \in ServicesOf(fds) : \A m \in s.methods :
            LET HasTool == \E x \in Tools(fds).tools : x.method = <<FullName(s), m.name>>
                Values == [i \in {i \in DOMAIN m.options :
                                    /\ m.options[i].number = OptFieldNum
                                    /\ m.options[i].wireType = "varint"}
                              |-> m.options[i].varint]
                Marks == {i \in DOMAIN Values : Values[i] \in OptValues}
            IN  /\ HasTool => IsChosen(s) /\ ~m.streaming /\ Marks # {}
                /\ IsChosen(s) /\ ~m.streaming /\ ~HasTool =>
                      \A i \in Marks : \E j \in DOMAIN Values \ Marks : j < i

\* A client of a backend that only grows never reaches a method it did not mean: a name
\* it was given at some time stands for that method or for none, however often the
\* tools were refreshed since. There is one exception: the full name of a service in no
\* package is a simple name, so such a service takes over the names of its namesake.
CallsReachWhatTheyMeant ==
    \A x \in listed, y \in served :
        x.name = y.name /\ x.method # y.method =>
            y.method = <<SimpleOf(x.method[1]), x.method[2]>>
=============================================================================
