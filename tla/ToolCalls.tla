----------------------------- MODULE ToolCalls -----------------------------
(***************************************************************************)
(* Tool calls that run at once, and the headers each of them sends to the  *)
(* backend. The headers the operator set are one map (main.go, headers)    *)
(* that every call starts from: StaticHeaders clones it, the providers of  *)
(* -forward-operator-identity and -forward-header write to what they get   *)
(* from the provider they wrap, and toolHandler copies the result into the *)
(* request (grpcmcp/server.go).                                            *)
(*                                                                         *)
(* A map is a reference into a heap, so that whether two calls write to    *)
(* one map is a matter of what each step hands to the next.                *)
(***************************************************************************)
EXTENDS Sequences, FiniteSets

CONSTANTS
    Call,      \* slots for calls in progress: goroutines of the HTTP server
    Header,    \* header names in canonical form
    Value,     \* header values
    Empty,     \* the empty value
    Identity,  \* X-Operator-Identity
    Flags,     \* the reference of the map the flags filled
    NoMap,     \* no map yet
    Offered,   \* header maps the operator may configure
    Inbound    \* header maps an MCP request may bear

Map == [Header -> Seq(Value)]

ASSUME HeaderAssumption ==
    /\ Empty \in Value
    /\ Identity \in Header
    /\ Offered \subseteq Map
    /\ Inbound \subseteq Map

ASSUME ReferenceAssumption ==
    /\ Flags \notin Call
    /\ NoMap \notin Call \cup {Flags}

VARIABLES
    forwardIdentity,  \* -forward-operator-identity
    forwardNames,     \* -forward-header, the names given
    heap,             \* [reference -> map]
    pc,               \* [Call -> where its handler stands]
    inbound,          \* [Call -> the headers of the MCP request]
    ref,              \* [Call -> the map its provider chain hands on]
    left,             \* [Call -> forwarded names still to be copied]
    sent,             \* [Call -> the headers of the request to the backend]
    configured        \* history: the headers the operator set

settings == <<forwardIdentity, forwardNames, configured>>
vars == <<settings, heap, pc, inbound, ref, left, sent>>

Nothing == [n \in Header |-> <<>>]

\* http.Header.Get: the first value, or the empty one.
Get(h, n) == IF h[n] = <<>> THEN Empty ELSE Head(h[n])

Put(h, n, v) == [h EXCEPT ![n] = <<v>>]

\* The flags that main refuses: a name that is forwarded and set.
Accepted(h, names, identity) ==
    /\ \A n \in names : Get(h, n) = Empty
    /\ identity => Get(h, Identity) = Empty

Init ==
    /\ forwardIdentity \in BOOLEAN
    /\ forwardNames \in SUBSET Header
    /\ configured \in {h \in Offered : Accepted(h, forwardNames, forwardIdentity)}
    /\ heap = [r \in Call \cup {Flags} |-> IF r = Flags THEN configured ELSE Nothing]
    /\ pc = [c \in Call |-> "idle"]
    /\ inbound = [c \in Call |-> Nothing]
    /\ ref = [c \in Call |-> NoMap]
    /\ left = [c \in Call |-> {}]
    /\ sent = [c \in Call |-> Nothing]

-----------------------------------------------------------------------------
Goto(c, from, to) == pc[c] = from /\ pc' = [pc EXCEPT ![c] = to]

\* A request to call a tool arrives and its arguments are parsed.
Receive(c, h) ==
    /\ Goto(c, "idle", "clone")
    /\ inbound' = [inbound EXCEPT ![c] = h]
    /\ UNCHANGED <<settings, heap, ref, left, sent>>

\* The arguments do not fit the message: the call ends with an error result.
RejectArguments(c) ==
    /\ Goto(c, "clone", "idle")
    /\ inbound' = [inbound EXCEPT ![c] = Nothing]
    /\ UNCHANGED <<settings, heap, ref, left, sent>>

\* A plausible slip: the map itself is returned.
Bug_StaticHeaders(c) ==
    /\ Goto(c, "clone", "identity")
    /\ ref' = [ref EXCEPT ![c] = Flags]
    /\ UNCHANGED <<settings, heap, inbound, left, sent>>

StaticHeaders(c) ==
    /\ Goto(c, "clone", "identity")
    /\ heap' = [heap EXCEPT ![c] = heap[Flags]]
    /\ ref' = [ref EXCEPT ![c] = c]
    /\ UNCHANGED <<settings, inbound, left, sent>>

\* A header is copied from the MCP request when it has a value there.
Forward(c, n) ==
    LET v == Get(inbound[c], n)
    IN  heap' = IF v = Empty THEN heap
                ELSE [heap EXCEPT ![ref[c]] = Put(@, n, v)]

OperatorIdentity(c) ==
    /\ Goto(c, "identity", "forward")
    /\ IF forwardIdentity THEN Forward(c, Identity) ELSE UNCHANGED heap
    /\ left' = [left EXCEPT ![c] = forwardNames]
    /\ UNCHANGED <<settings, inbound, ref, sent>>

ForwardHeader(c, n) ==
    /\ pc[c] = "forward"
    /\ n \in left[c]
    /\ Forward(c, n)
    /\ left' = [left EXCEPT ![c] = @ \ {n}]
    /\ UNCHANGED <<settings, pc, inbound, ref, sent>>

\* addHeaders: the values of every header that src has replace those of dst.
AddHeaders(dst, src) ==
    [n \in Header |-> IF src[n] = <<>> THEN dst[n] ELSE src[n]]

\* The request is sent; what happens to it from here on changes no header.
Send(c) ==
    /\ left[c] = {}
    /\ Goto(c, "forward", "sent")
    /\ sent' = [sent EXCEPT ![c] = AddHeaders(Nothing, heap[ref[c]])]
    /\ UNCHANGED <<settings, heap, inbound, ref, left>>

\* The backend's answer, or its error, becomes the result of the call.
Answer(c) ==
    /\ Goto(c, "sent", "idle")
    /\ heap' = [heap EXCEPT ![c] = Nothing]
    /\ ref' = [ref EXCEPT ![c] = NoMap]
    /\ sent' = [sent EXCEPT ![c] = Nothing]
    /\ inbound' = [inbound EXCEPT ![c] = Nothing]
    /\ UNCHANGED <<settings, left>>

Next ==
    \E c \in Call :
        \/ \E h \in Inbound : Receive(c, h)
        \/ RejectArguments(c)
        \/ StaticHeaders(c)
        \/ OperatorIdentity(c)
        \/ \E n \in Header : ForwardHeader(c, n)
        \/ Send(c)
        \/ Answer(c)

Spec == Init /\ [][Next]_vars

-----------------------------------------------------------------------------
\* Every variable has its type.
TypeOK ==
    /\ forwardIdentity \in BOOLEAN
    /\ forwardNames \subseteq Header
    /\ configured \in Map
    /\ heap \in [Call \cup {Flags} -> Map]
    /\ pc \in [Call -> {"idle", "clone", "identity", "forward", "sent"}]
    /\ inbound \in [Call -> Map]
    /\ ref \in [Call -> Call \cup {Flags, NoMap}]
    /\ left \in [Call -> SUBSET Header]
    /\ sent \in [Call -> Map]

Forwarded(n) == n \in forwardNames \/ (forwardIdentity /\ n = Identity)

\* "The header is read per request, so it identifies the caller of that tool
\* call" (README.md:73): a request carries the caller's own value of each
\* forwarded header, and otherwise what the operator set, whatever calls ran
\* before it or beside it.
Attributed ==
    \A c \in Call : pc[c] = "sent" =>
        \A n \in Header :
            sent[c][n] = IF Forwarded(n) /\ Get(inbound[c], n) # Empty
                         THEN <<Get(inbound[c], n)>>
                         ELSE configured[n]

\* A header whose first value the operator set reaches the backend as it was
\* set on every call, all of its values, whatever the callers sent. The check
\* of the flags at startup is what it takes.
OperatorWins ==
    \A c \in Call : pc[c] = "sent" =>
        \A n \in Header :
            Get(configured, n) # Empty => sent[c][n] = configured[n]

\* No call ever writes to the map the flags filled, which later calls and every
\* refresh of the tools start from.
FlagsIntact == [][heap'[Flags] = heap[Flags]]_vars
=============================================================================
