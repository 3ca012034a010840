------------------------------ MODULE Startup ------------------------------
(***************************************************************************)
(* From the command line to a server: the checks of main.go in the order   *)
(* they are made, the files and the backend that it needs on the way, and  *)
(* what is in force once it serves. Whatever lies outside the process, a   *)
(* file that cannot be used, a backend that does not answer, may go either *)
(* way.                                                                    *)
(***************************************************************************)
EXTENDS Naturals, Sequences, FiniteSets

CONSTANTS
    Command,  \* the command lines the process may be started with
    Auth,     \* the Authorization header
    Identity  \* the X-Operator-Identity header

\* The environment variable of -bearer-env, if that is given, is empty or holds a token.
ASSUME CommandAssumption == \A c \in Command : c.bearer \in {"none", "empty", "set"}

VARIABLES
    flags,        \* the command line
    at,           \* what main comes to next, or "serving" or "exited"
    headers,      \* headers the operator set, with a first value
    backend,      \* settings of the backend client: "roots", "certificate"
    filter,       \* methods are filtered by an option
    source,       \* where the served tools come from
    refreshing,   \* the refresh loop runs
    listChanged,  \* the server promises to notify of changed tools
    transport,    \* "none", "stdio", "http" or "sse"
    listener      \* settings of the listener: "tls", "clients verified", and the
                  \* guards: "browsers refused", "versions checked"

outcome == <<headers, backend, filter, source, refreshing, listChanged,
             transport, listener>>
vars == <<flags, at, outcome>>

Init ==
    /\ flags \in Command
    /\ at = "interval"
    /\ headers = flags.headers
    /\ backend = {}
    /\ filter = FALSE
    /\ source = "none"
    /\ refreshing = FALSE
    /\ listChanged = FALSE
    /\ transport = "none"
    /\ listener = {}

ServeHTTP == flags.hostport

ForwardsAny == flags.identity \/ flags.forward # {}

Forwarded == flags.forward \cup IF flags.identity THEN {Identity} ELSE {}

\* A plausible slip: the collisions of -forward-header alone are looked for.
Bug_Refuses ==
    [interval    |-> ~flags.positiveInterval,
     transport   |-> ServeHTTP /\ flags.transport = "unknown",
     tlsPair     |-> flags.tlsCrt # flags.tlsKey,
     caFile      |-> flags.caFile /\ ~flags.tlsCrt,
     tlsHost     |-> flags.tlsCrt /\ ~ServeHTTP,
     forwardHost |-> ForwardsAny /\ ~ServeHTTP,
     collision   |-> flags.forward \cap headers # {},
     source      |-> ~flags.descriptors /\ ~flags.reflect]

\* The checks that only look at flags, and when they refuse them.
Refuses ==
    [interval    |-> ~flags.positiveInterval,
     transport   |-> ServeHTTP /\ flags.transport = "unknown",
     tlsPair     |-> flags.tlsCrt # flags.tlsKey,
     caFile      |-> flags.caFile /\ ~flags.tlsCrt,
     tlsHost     |-> flags.tlsCrt /\ ~ServeHTTP,
     forwardHost |-> ForwardsAny /\ ~ServeHTTP,
     collision   |-> Forwarded \cap headers # {},
     source      |-> ~flags.descriptors /\ ~flags.reflect]

\* A plausible slip: collisions are looked for before the token is set.
Bug_Order == <<"interval", "transport", "tlsPair", "caFile", "tlsHost", "forwardHost",
               "backend", "option", "collision", "bearer", "source", "reflect",
               "file", "tools", "loop", "listen">>

Order == <<"interval", "transport", "tlsPair", "caFile", "tlsHost", "forwardHost",
           "backend", "option", "bearer", "collision", "source", "reflect",
           "file", "tools", "loop", "listen">>

Proceed ==
    /\ \E i \in 1..Len(Order) - 1 : at = Order[i] /\ at' = Order[i + 1]
    /\ UNCHANGED flags

Exit ==
    /\ at' = "exited"
    /\ UNCHANGED <<flags, outcome>>

CheckFlags ==
    /\ at \in DOMAIN Refuses
    /\ IF Refuses[at] THEN Exit ELSE Proceed /\ UNCHANGED outcome

BackendOptions == flags.clientCA \/ flags.clientCrt \/ flags.clientKey

BackendSettings ==
    (IF flags.clientCA THEN {"roots"} ELSE {}) \cup
    (IF flags.clientCrt THEN {"certificate"} ELSE {})

\* The files of the backend options are read, and then not used when -url
\* starts with http://.
BackendTLS ==
    /\ at = "backend"
    /\ \/ /\ flags.clientCrt = flags.clientKey
          /\ backend' = IF flags.plainURL THEN {} ELSE BackendSettings
          /\ Proceed
          /\ UNCHANGED <<headers, filter, source, refreshing, listChanged,
                         transport, listener>>
       \/ BackendOptions /\ Exit

\* Field number 0 parses, and stands for no filter when the filter is built.
MethodOption ==
    /\ at = "option"
    /\ IF flags.option = "malformed" THEN Exit
       ELSE /\ filter' = (flags.option = "field")
            /\ Proceed
            /\ UNCHANGED <<headers, backend, source, refreshing, listChanged,
                           transport, listener>>

Bearer ==
    /\ at = "bearer"
    /\ IF flags.bearer = "empty" THEN Exit
       ELSE /\ headers' = headers \cup IF flags.bearer = "set" THEN {Auth} ELSE {}
            /\ Proceed
            /\ UNCHANGED <<backend, filter, source, refreshing, listChanged,
                           transport, listener>>

\* Reflection comes first, and a descriptor file replaces what it found.
Reflect ==
    /\ at = "reflect"
    /\ \/ /\ source' = IF flags.reflect THEN "reflection" ELSE "none"
          /\ Proceed
          /\ UNCHANGED <<headers, backend, filter, refreshing, listChanged,
                         transport, listener>>
       \/ flags.reflect /\ Exit

ReadFile ==
    /\ at = "file"
    /\ \/ /\ source' = IF flags.descriptors THEN "file" ELSE source
          /\ Proceed
          /\ UNCHANGED <<headers, backend, filter, refreshing, listChanged,
                         transport, listener>>
       \/ flags.descriptors /\ Exit

UseSSE == ServeHTTP /\ flags.transport = "sse"

\* The tools are built and the server, which declares what it will notify of.
NewServer ==
    /\ at = "tools"
    /\ \/ /\ listChanged' = (~ServeHTTP \/ UseSSE)
          /\ Proceed
          /\ UNCHANGED <<headers, backend, filter, source, refreshing, transport,
                         listener>>
       \/ Exit

\* A plausible slip: the loop starts whenever -reflect is set.
Bug_StartLoop ==
    /\ at = "loop"
    /\ refreshing' = flags.reflect
    /\ Proceed
    /\ UNCHANGED <<headers, backend, filter, source, listChanged, transport,
                   listener>>

StartLoop ==
    /\ at = "loop"
    /\ refreshing' = (flags.reflect /\ ~flags.descriptors)
    /\ Proceed
    /\ UNCHANGED <<headers, backend, filter, source, listChanged, transport,
                   listener>>

\* Both HTTP transports stand behind the same two guards.
Guards == {"browsers refused", "versions checked"}

ListenerSettings ==
    Guards \cup
    (IF flags.tlsCrt THEN {"tls"} ELSE {}) \cup
    (IF flags.tlsCrt /\ flags.caFile THEN {"clients verified"} ELSE {})

\* A plausible slip: SSE is started by its own Start, in the clear and unguarded.
Bug_Listen ==
    /\ at = "listen"
    /\ at' = "serving"
    /\ transport' = IF UseSSE THEN "sse" ELSE IF ServeHTTP THEN "http" ELSE "stdio"
    /\ listener' = IF ServeHTTP /\ ~UseSSE THEN ListenerSettings ELSE {}
    /\ UNCHANGED <<flags, headers, backend, filter, source, refreshing,
                   listChanged>>

Listen ==
    /\ at = "listen"
    /\ \/ /\ at' = "serving"
          /\ transport' = IF UseSSE THEN "sse" ELSE IF ServeHTTP THEN "http" ELSE "stdio"
          /\ listener' = IF ServeHTTP THEN ListenerSettings ELSE {}
          /\ UNCHANGED <<flags, headers, backend, filter, source, refreshing,
                         listChanged>>
       \/ ServeHTTP /\ Exit

Next ==
    \/ CheckFlags
    \/ BackendTLS
    \/ MethodOption
    \/ Bearer
    \/ Reflect
    \/ ReadFile
    \/ NewServer
    \/ StartLoop
    \/ Listen

Spec == Init /\ [][Next]_vars

-----------------------------------------------------------------------------
\* A process that serves has every security setting of its command line in
\* force; it never drops one "without a word" (main.go:304) by taking
\* another way through the checks. Backend options are the exception that it
\* announces, when -url is http://.
SettingsInForce ==
    at = "serving" =>
        /\ flags.tlsCrt \/ flags.tlsKey => "tls" \in listener
        /\ flags.caFile => "clients verified" \in listener
        /\ transport # "stdio" => Guards \subseteq listener
        /\ ForwardsAny => transport \in {"http", "sse"}
        /\ flags.clientCA /\ ~flags.plainURL => "roots" \in backend
        /\ (flags.clientCrt \/ flags.clientKey) /\ ~flags.plainURL =>
              "certificate" \in backend
        /\ flags.bearer # "none" => Auth \in headers
        /\ flags.option = "field" => filter

\* A forwarded header is never one that the operator set, the token of
\* -bearer-env included, so no caller replaces a credential of the operator.
NoCollision ==
    at = "serving" =>
        /\ Forwarded \cap headers = {}
        /\ flags.bearer # "none" => Auth \notin Forwarded

\* Tools are refreshed from reflection exactly when they came from there, and
\* the server promises to tell of a change only over a transport that can.
RefreshFitsSource ==
    at = "serving" =>
        /\ refreshing <=> source = "reflection"
        /\ listChanged <=> transport \in {"stdio", "sse"}
=============================================================================
