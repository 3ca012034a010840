---------------------------- MODULE MCRefresh ----------------------------
(***************************************************************************)
(* Refresh on a small backend: each version is a way in which a backend's  *)
(* schema can look to reflection, and Build is what the definitions of     *)
(* ToolNaming make of its files.                                           *)
(***************************************************************************)
EXTENDS Refresh, Sequences, TLC

CONSTANTS r1, r2

Replicas == Permutations({r1, r2})

Unary(name)  == [name |-> <<name>>, streaming |-> FALSE, options |-> <<>>, writable |-> TRUE]
Stream(name) == [name |-> <<name>>, streaming |-> TRUE, options |-> <<>>, writable |-> TRUE]

Wallet  == [pkg |-> <<"pay">>, simple |-> <<"Wallet">>,
            methods |-> {Unary("Get"), Unary("Send")}]
Billing == [pkg |-> <<"pay">>, simple |-> <<"Billing">>,
            methods |-> {Unary("Get")}]
Health  == [pkg |-> <<"grpc">>, simple |-> <<"Health">>,
            methods |-> {Stream("Watch")}]
\* Two services whose full names differ and flatten to the same string.
Left    == [pkg |-> <<"a", ".", "b", "_", "c">>, simple |-> <<"S">>,
            methods |-> {Unary("Get")}]
Right   == [pkg |-> <<"a", "_", "b", ".", "c">>, simple |-> <<"S">>,
            methods |-> {Unary("Get")}]

Proto(path, sound, services) ==
    [path |-> path, sound |-> sound, services |-> services]

Content ==
    [types   |-> Proto("types", TRUE, {}),
     wallet  |-> Proto("wallet", TRUE, {Wallet}),
     billing |-> Proto("billing", TRUE, {Billing}),
     health  |-> Proto("health", TRUE, {Health}),
     left    |-> Proto("left", TRUE, {Left}),
     right   |-> Proto("right", TRUE, {Right}),
     unsound |-> Proto("unsound", FALSE, {Wallet})]

MCFile == DOMAIN Content

MCService == {"Wallet", "Billing", "Health", "Left", "Right"}

\* v1 and v2 are a release and the next one; rolling exposes no unary method;
\* bare lists no service; unread has no file for a service it lists; dangling
\* leaves an import out; bad has a file that does not parse; clash yields two
\* tools of one name.
Schema ==
    [v1       |-> [Wallet  |-> {"wallet", "types"}],
     v2       |-> [Wallet  |-> {"wallet", "types"}, Billing |-> {"billing"}],
     rolling  |-> [Health  |-> {"health"}],
     bare     |-> <<>>,
     unread   |-> [Wallet  |-> {"wallet", "types"}, Billing |-> {}],
     dangling |-> [Wallet  |-> {"wallet"}],
     bad      |-> [Wallet  |-> {"unsound"}],
     clash    |-> [Left    |-> {"left"}, Right |-> {"right"}]]

MCServes == [v \in Version |-> DOMAIN Schema[v]]

MCFiles ==
    [v \in Version |->
        [s \in MCService |-> IF s \in DOMAIN Schema[v] THEN Schema[v][s] ELSE {}]]

MCDeps ==
    [f \in MCFile |-> IF f \in {"wallet", "billing"} THEN {"types"} ELSE {}]

Naming == INSTANCE ToolNaming WITH Chosen <- {}, OptFieldNum <- 0, OptValues <- {}

MCBuild == [fs \in SUBSET MCFile |-> Naming!Tools({Content[f] : f \in fs})]

BuiltTools == UNION {MCBuild[fs].tools : fs \in SUBSET MCFile}
MCName     == {t.name : t \in BuiltTools}
MCMethod   == {t.method : t \in BuiltTools}

\* Every shape, and the few that tell apart where the tools may settle.
Shapes     == DOMAIN Schema
Steady     == {"v1", "rolling", "clash"}
=============================================================================
