------------------------------ MODULE Serving ------------------------------
(***************************************************************************)
(* The server from its command line to the requests it sends: Startup,     *)
(* which makes the settings, the guards before the HTTP transports         *)
(* (origin.go), and ToolCalls, which works under what Startup let pass.    *)
(* The two share the map of the operator's headers (main.go, headers): the *)
(* flags fill it, -bearer-env sets the token in it, the check for          *)
(* collisions reads it, and every call starts from it.                     *)
(***************************************************************************)
EXTENDS ToolCalls

CONSTANTS
    Command,          \* command lines; of a command, map is what -header gives
    Auth,             \* Authorization
    Token,            \* what the environment has for -bearer-env
    Origin,           \* the header that only a browser sends
    ProtocolVersion,  \* Mcp-Protocol-Version
    Supported         \* the versions that mcp-go knows

ASSUME ServingAssumption ==
    /\ {Auth, Origin, ProtocolVersion} \subseteq Header
    /\ Token \in Value \ {Empty}
    /\ Supported \subseteq Value

VARIABLES flags, at, backend, filter, source, refreshing, listChanged, transport, listener

main == <<flags, at, backend, filter, source, refreshing, listChanged, transport, listener>>
calls == <<settings, pc, inbound, ref, left, sent>>
all == <<main, calls, heap>>

\* Startup looks at the headers by their first values.
SetHeaders == {n \in Header : Get(heap[Flags], n) # Empty}
Main == INSTANCE Startup WITH headers <- SetHeaders

\* The headers that the operator asks for.
AskedFor(command) ==
    IF command.bearer = "set" THEN Put(command.map, Auth, Token) ELSE command.map

ASSUME CommandLineAssumption ==
    \A c \in Command :
        /\ c.identity \in BOOLEAN
        /\ c.forward \subseteq Header
        /\ c.bearer \in {"none", "empty", "set"}
        /\ c.map \in Map
        /\ AskedFor(c) \in Offered

Launch ==
    /\ flags \in Command
    /\ heap = [r \in Call \cup {Flags} |-> IF r = Flags THEN flags.map ELSE Nothing]
    /\ Main!Init
    /\ forwardIdentity = flags.identity
    /\ forwardNames = flags.forward
    /\ configured = AskedFor(flags)
    /\ pc = [c \in Call |-> "idle"]
    /\ inbound = [c \in Call |-> Nothing]
    /\ ref = [c \in Call |-> NoMap]
    /\ left = [c \in Call |-> {}]
    /\ sent = [c \in Call |-> Nothing]

\* A step of main, of which one writes to the map.
Start ==
    /\ heap' = IF at = "bearer" /\ flags.bearer = "set"
                 THEN [heap EXCEPT ![Flags] = Put(@, Auth, Token)]
                 ELSE heap
    /\ Main!Next
    /\ UNCHANGED calls

rejectBrowserOrigin(h) == "browsers refused" \in listener /\ h[Origin] # <<>>

rejectUnsupportedProtocolVersion(h) ==
    /\ "versions checked" \in listener
    /\ Get(h, ProtocolVersion) \notin Supported \cup {Empty}

\* What a request may bear that reaches the handler of a tool. A request that a guard
\* answers changes nothing, and stdio has no headers.
Admitted(h) ==
    IF transport = "stdio" THEN h = Nothing
    ELSE ~rejectBrowserOrigin(h) /\ ~rejectUnsupportedProtocolVersion(h)

Serve ==
    /\ at = "serving"
    /\ Next
    /\ \A c \in Call : inbound'[c] # inbound[c] => Admitted(inbound'[c])
    /\ UNCHANGED main

Step == Start \/ Serve

System == Launch /\ [][Step]_all

-----------------------------------------------------------------------------
\* No request of a browser, and none in a version of the protocol that the server does
\* not speak, becomes a call, over either of the HTTP transports: "both protections
\* apply to this transport too" (main.go:514).
KeptOut ==
    \A c \in Call : pc[c] # "idle" =>
        /\ inbound[c][Origin] = <<>>
        /\ Get(inbound[c], ProtocolVersion) \in Supported \cup {Empty}

\* What main serves is ToolCalls, whose calls know of no startup: its settings are
\* accepted ones, and its map is the one that the operator asked for and stays that.
\* Until it serves, the map is taken to be there; of a command line that is refused,
\* nothing is forwarded.
Calls ==
    INSTANCE ToolCalls WITH
        forwardIdentity <- forwardIdentity /\ Accepted(configured, forwardNames, forwardIdentity),
        forwardNames <- IF Accepted(configured, forwardNames, forwardIdentity)
                          THEN forwardNames ELSE {},
        heap <- IF at = "serving" THEN heap ELSE [heap EXCEPT ![Flags] = configured]

ImplementsToolCalls == Calls!Spec
=============================================================================
