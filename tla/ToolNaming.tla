---------------------------- MODULE ToolNaming ----------------------------
(***************************************************************************)
(* From a set of proto files to MCP tools: which methods are exposed       *)
(* (grpcmcp/server.go, Tools) and what the tools are called (main.go,      *)
(* buildToolNamer and generateToolName).                                   *)
(*                                                                         *)
(* An identifier is the sequence of its tokens: a word, "." or "_". Two    *)
(* identifiers are the same string exactly when they are the same          *)
(* sequence.                                                               *)
(*   method  [name, streaming, options, writable]   options: its encoded   *)
(*           options (MethodOptions); writable: JSON can hold its schema   *)
(*   service [pkg, simple, methods]      pkg may be empty                  *)
(*   file    [path, sound, services]     sound: protodesc.NewFile takes it *)
(***************************************************************************)
EXTENDS MethodOptions, FiniteSets

CONSTANTS
    Chosen,      \* -services: full service names; {} chooses all
    OptFieldNum, \* -require-method-option: the number of the field, 0 for no filter
    OptValues    \* and the values that it may have

ASSUME NamingAssumption == OptFieldNum \in Nat

FullName(s) == IF s.pkg = <<>> THEN s.simple ELSE s.pkg \o <<".">> \o s.simple

IsChosen(s) == Chosen = {} \/ FullName(s) \in Chosen

\* The filter that main builds: none for field number 0, which the flag may give.
MethodFilter(m) == OptFieldNum > 0 => HasMethodOption(m.options, OptFieldNum, OptValues)

\* Only unary methods that pass the filter become tools.
Exposed(s) == {m \in s.methods : ~m.streaming /\ MethodFilter(m)}

\* buildRegistry leaves out the files that do not parse. It also leaves out a
\* file that defines a name again; Tools fails on that one, so that it makes no
\* difference whether its methods are counted.
Registered(fds) == {f \in fds : f.sound}

ServicesOf(files) == UNION {f.services : f \in files}

\* A plausible slip: streaming methods are counted too.
Bug_Scanned(fds) ==
    UNION {{<<s, m>> : m \in {x \in s.methods : MethodFilter(x)}} :
              s \in {x \in ServicesOf(Registered(fds)) : IsChosen(x)}}

\* A plausible slip: the scan does not know of -services.
Bug_ScannedAll(fds) ==
    UNION {{<<s, m>> : m \in Exposed(s)} : s \in ServicesOf(Registered(fds))}

\* The methods the namer counts. It scans the files itself, apart from Tools.
Scanned(fds) ==
    UNION {{<<s, m>> : m \in Exposed(s)} :
              s \in {x \in ServicesOf(Registered(fds)) : IsChosen(x)}}

\* A plausible slip: the count is of the simple service names that define it.
Bug_MethodNameCount(fds, name) ==
    Cardinality({p[1].simple : p \in {q \in Scanned(fds) : q[2].name = name}})

MethodNameCount(fds, name) ==
    Cardinality({p \in Scanned(fds) : p[2].name = name})

\* Services that contribute at least one tool, by their simple name.
SimpleNameCount(fds, simple) ==
    Cardinality({s \in {p[1] : p \in Scanned(fds)} : s.simple = simple})

Flatten(id) == [i \in DOMAIN id |-> IF id[i] = "." THEN "_" ELSE id[i]]

Joined(service, method) == service \o <<"_", "_">> \o method

\* A plausible slip: no fall back on the full name.
Bug_GenerateToolName(hasShortCollision, hasVeryShortCollision, full, simple, method) ==
    IF ~hasVeryShortCollision THEN method ELSE Joined(simple, method)

GenerateToolName(hasShortCollision, hasVeryShortCollision, full, simple, method) ==
    IF ~hasVeryShortCollision THEN method
    ELSE IF ~hasShortCollision THEN Joined(simple, method)
    ELSE Flatten(Joined(full, method))

ToolName(fds, s, m) ==
    GenerateToolName(SimpleNameCount(fds, s.simple) > 1,
                     MethodNameCount(fds, m.name) > 1,
                     FullName(s), s.simple, m.name)

\* Tools builds a registry of its own and gives up where the namer goes on: at a
\* file that does not parse, at a name that two files define, and, for one method that
\* would become a tool, at a schema that json.Marshal refuses.
Consistent(fds) ==
    /\ fds # {}
    /\ \A f \in fds : f.sound
    /\ \A f, g \in fds : \A s \in f.services, t \in g.services :
          FullName(s) = FullName(t) => f = g /\ s = t
    /\ \A p \in Scanned(fds) : p[2].writable

\* The tools of a descriptor set, one for each exposed method. The tools are a
\* list in the code, and two of them may bear one name.
Tools(fds) ==
    [ok    |-> Consistent(fds),
     tools |->
        IF ~Consistent(fds) THEN {}
        ELSE UNION {{[name   |-> ToolName(fds, s, m),
                      method |-> <<FullName(s), m.name>>] : m \in Exposed(s)} :
                       s \in {x \in ServicesOf(fds) : IsChosen(x)}}]
=============================================================================
