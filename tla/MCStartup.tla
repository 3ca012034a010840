----------------------------- MODULE MCStartup -----------------------------
(***************************************************************************)
(* Startup over the command lines that combine its flags. -forward-header  *)
(* names at most one header and -header sets at most one.                  *)
(***************************************************************************)
EXTENDS Startup

CONSTANT User

AtMostOne(S) == {{}} \cup {{x} : x \in S}

\* Every way to set the flags of the listener and of the headers.
FrontEnd ==
    [positiveInterval : BOOLEAN, hostport : BOOLEAN,
     transport : {"http", "sse", "unknown"},
     tlsCrt : BOOLEAN, tlsKey : BOOLEAN, caFile : BOOLEAN,
     identity : BOOLEAN, forward : AtMostOne({Auth, User, Identity}),
     headers : AtMostOne({Auth, Identity}), bearer : {"none", "set", "empty"},
     clientCA : {FALSE}, clientCrt : {FALSE}, clientKey : {FALSE},
     plainURL : {TRUE}, option : {"none"},
     descriptors : {FALSE}, reflect : {TRUE}]

\* Every way to set those of the backend and of the tools.
BackEnd ==
    [positiveInterval : {TRUE}, hostport : BOOLEAN, transport : {"http", "sse"},
     tlsCrt : {FALSE}, tlsKey : {FALSE}, caFile : {FALSE},
     identity : {FALSE}, forward : {{}}, headers : {{}}, bearer : {"none", "set"},
     clientCA : BOOLEAN, clientCrt : BOOLEAN, clientKey : BOOLEAN,
     plainURL : BOOLEAN, option : {"none", "zero", "field", "malformed"},
     descriptors : BOOLEAN, reflect : BOOLEAN]

Commands == FrontEnd \cup BackEnd
=============================================================================
