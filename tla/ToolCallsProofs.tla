-------------------------- MODULE ToolCallsProofs --------------------------
(***************************************************************************)
(* The properties of ToolCalls, proved for any number of calls at once,    *)
(* any headers and any settings.                                           *)
(***************************************************************************)
EXTENDS ToolCalls, TLAPS

\* A call writes to a map of its own, from when it has one until it returns.
Owned ==
    \A c \in Call :
        /\ ref[c] \in {c, NoMap}
        /\ ref[c] = c <=> pc[c] \in {"identity", "forward", "sent"}
        /\ left[c] \subseteq forwardNames

\* The map of the flags is what the operator set and main accepted.
FlagsKept ==
    /\ heap[Flags] = configured
    /\ Accepted(configured, forwardNames, forwardIdentity)

\* The header that call c is to send for n once n has been copied.
Due(c, n) ==
    IF Get(inbound[c], n) # Empty THEN <<Get(inbound[c], n)>> ELSE configured[n]

Copied(c, n) ==
    \/ n \in forwardNames \ left[c]
    \/ forwardIdentity /\ n = Identity

\* The map of a call is that of the flags but for the headers copied so far.
InProgress ==
    \A c \in Call :
        /\ pc[c] = "identity" => heap[c] = configured
        /\ pc[c] = "forward" =>
              \A n \in Header :
                  heap[c][n] = IF Copied(c, n) THEN Due(c, n) ELSE configured[n]

IInv == TypeOK /\ Owned /\ FlagsKept /\ InProgress /\ Attributed

-----------------------------------------------------------------------------
\* What a map has under a name is a value, or the empty one.
LEMMA GetType ==
    ASSUME NEW h \in Map, NEW n \in Header
    PROVE  Get(h, n) \in Value
BY HeaderAssumption DEF Get, Map

\* Put leaves a map a map, and sets one name.
LEMMA PutMap ==
    ASSUME NEW h \in Map, NEW n \in Header, NEW v \in Value
    PROVE  /\ Put(h, n, v) \in Map
           /\ Put(h, n, v)[n] = <<v>>
           /\ \A x \in Header : x # n => Put(h, n, v)[x] = h[x]
BY DEF Put, Map

\* Initially every call is idle and the flags have been accepted.
LEMMA InitIInv == Init => IInv
<1> SUFFICES ASSUME Init PROVE IInv
    OBVIOUS
<1>0. Nothing \in Map
    BY DEF Nothing, Map
<1>1. TypeOK
    BY <1>0, HeaderAssumption DEF Init, TypeOK
<1>2. Owned
    BY ReferenceAssumption DEF Init, Owned
<1>3. FlagsKept
    BY DEF Init, FlagsKept
<1>4. InProgress /\ Attributed
    BY DEF Init, InProgress, Attributed
<1> QED
    BY <1>1, <1>2, <1>3, <1>4 DEF IInv

\* Copying one header changes nothing but that header of the call's own map.
LEMMA ForwardStep ==
    ASSUME IInv, NEW c \in Call, NEW n \in Header, ref[c] = c, Forward(c, n)
    PROVE  /\ heap' \in [Call \cup {Flags} -> Map]
           /\ \A r \in Call \cup {Flags} : r # c => heap'[r] = heap[r]
           /\ \A x \in Header : x # n => heap'[c][x] = heap[c][x]
           /\ heap'[c][n] = IF Get(inbound[c], n) # Empty
                            THEN <<Get(inbound[c], n)>> ELSE heap[c][n]
<1> DEFINE v == Get(inbound[c], n)
<1>1. v \in Value
    BY GetType DEF IInv, TypeOK
<1>2. CASE v = Empty
    BY <1>2 DEF Forward, IInv, TypeOK
<1>3. CASE v # Empty
    <2>1. heap' = [heap EXCEPT ![c] = Put(heap[c], n, v)]
        BY <1>3 DEF Forward
    <2>2. heap[c] \in Map
        BY DEF IInv, TypeOK
    <2>3. Put(heap[c], n, v) \in Map
        BY <1>1, <2>2, PutMap
    <2>4. heap \in [Call \cup {Flags} -> Map]
        BY DEF IInv, TypeOK
    <2>5. heap' \in [Call \cup {Flags} -> Map]
        BY <2>1, <2>3, <2>4
    <2>6. heap'[c] = Put(heap[c], n, v)
        BY <2>1, <2>4
    <2>7. \A r \in Call \cup {Flags} : r # c => heap'[r] = heap[r]
        BY <2>1, <2>4
    <2>8. /\ \A x \in Header : x # n => heap'[c][x] = heap[c][x]
          /\ heap'[c][n] = <<v>>
        BY <1>1, <2>2, <2>6, PutMap
    <2> QED
        BY <1>3, <2>5, <2>7, <2>8
<1> QED
    BY <1>2, <1>3

\* What one call does leaves the maps and the requests of the others alone.
LEMMA OthersStep ==
    ASSUME IInv, NEW c \in Call,
           UNCHANGED settings,
           heap'[Flags] = heap[Flags],
           \A d \in Call \ {c} :
               /\ heap'[d] = heap[d]
               /\ pc'[d] = pc[d]
               /\ inbound'[d] = inbound[d]
               /\ ref'[d] = ref[d]
               /\ left'[d] = left[d]
               /\ sent'[d] = sent[d],
           TypeOK',
           /\ ref'[c] \in {c, NoMap}
           /\ ref'[c] = c <=> pc'[c] \in {"identity", "forward", "sent"}
           /\ left'[c] \subseteq forwardNames,
           pc'[c] = "identity" => heap'[c] = configured,
           pc'[c] = "forward" =>
              \A n \in Header :
                  heap'[c][n] = IF Copied(c, n)' THEN Due(c, n)' ELSE configured[n],
           pc'[c] = "sent" =>
              \A n \in Header :
                  sent'[c][n] = IF Forwarded(n) THEN Due(c, n)' ELSE configured[n]
    PROVE  IInv'
<1>1. Owned'
    BY DEF Owned, IInv, settings
<1>2. FlagsKept'
    BY DEF FlagsKept, Accepted, Get, IInv, settings
<1>3. InProgress'
    <2>1. ASSUME NEW d \in Call \ {c}, NEW n \in Header
          PROVE  Copied(d, n)' = Copied(d, n) /\ Due(d, n)' = Due(d, n)
        BY <2>1 DEF Copied, Due, Get, settings
    <2> QED
        BY <2>1 DEF InProgress, IInv, settings
<1>4. Attributed'
    <2>1. ASSUME NEW d \in Call, pc'[d] = "sent", NEW n \in Header
          PROVE  sent'[d][n] = IF Forwarded(n)' /\ Get(inbound'[d], n) # Empty
                               THEN <<Get(inbound'[d], n)>> ELSE configured'[n]
        <3>1. CASE d = c
            BY <2>1, <3>1 DEF Forwarded, Due, Get, settings
        <3>2. CASE d # c
            BY <2>1, <3>2 DEF Attributed, Forwarded, Get, IInv, settings
        <3> QED
            BY <3>1, <3>2
    <2> QED
        BY <2>1 DEF Attributed, Get
<1> QED
    BY <1>1, <1>2, <1>3, <1>4 DEF IInv

\* Every step of a call keeps the invariant.
LEMMA StepIInv == IInv /\ [Next]_vars => IInv'
<1> SUFFICES ASSUME IInv, [Next]_vars PROVE IInv'
    OBVIOUS
<1> USE ReferenceAssumption
<1>0. TypeOK /\ Owned /\ FlagsKept /\ InProgress /\ Attributed
    BY DEF IInv
<1>n. Nothing \in Map
    BY DEF Nothing, Map
<1>1. ASSUME NEW c \in Call, NEW h \in Inbound, Receive(c, h) PROVE IInv'
    <2>1. TypeOK'
        BY <1>0, <1>1, HeaderAssumption DEF TypeOK, Receive, Goto, settings
    <2> QED
        BY <1>0, <1>1, <2>1, OthersStep DEF Receive, Goto, TypeOK, Owned, settings
<1>2. ASSUME NEW c \in Call, RejectArguments(c) PROVE IInv'
    <2>1. TypeOK'
        BY <1>0, <1>n, <1>2 DEF TypeOK, RejectArguments, Goto, settings
    <2> QED
        BY <1>0, <1>2, <2>1, OthersStep DEF RejectArguments, Goto, TypeOK, Owned, settings
<1>3. ASSUME NEW c \in Call, StaticHeaders(c) PROVE IInv'
    <2>1. TypeOK'
        BY <1>0, <1>3 DEF TypeOK, StaticHeaders, Goto, settings
    <2>2. heap'[c] = configured
        BY <1>0, <1>3 DEF TypeOK, StaticHeaders, FlagsKept
    <2> QED
        BY <1>0, <1>3, <2>1, <2>2, OthersStep
        DEF StaticHeaders, Goto, TypeOK, Owned, settings
<1>4. ASSUME NEW c \in Call, OperatorIdentity(c) PROVE IInv'
    <2>1. ref[c] = c /\ heap[c] = configured /\ pc[c] = "identity"
        BY <1>0, <1>4 DEF Owned, InProgress, OperatorIdentity, Goto
    <2>2. pc'[c] = "forward" /\ left'[c] = forwardNames
        BY <1>0, <1>4 DEF TypeOK, OperatorIdentity, Goto
    <2>3. CASE forwardIdentity
        <3>1. Forward(c, Identity) /\ Identity \in Header
            BY <1>4, <2>3, HeaderAssumption DEF OperatorIdentity
        <3>2. /\ heap' \in [Call \cup {Flags} -> Map]
              /\ \A r \in Call \cup {Flags} : r # c => heap'[r] = heap[r]
              /\ \A x \in Header : x # Identity => heap'[c][x] = heap[c][x]
              /\ heap'[c][Identity] = IF Get(inbound[c], Identity) # Empty
                    THEN <<Get(inbound[c], Identity)>> ELSE heap[c][Identity]
            BY <2>1, <3>1, ForwardStep
        <3>3. TypeOK'
            BY <1>0, <1>4, <3>2 DEF TypeOK, OperatorIdentity, Goto, settings
        <3>4. inbound' = inbound /\ UNCHANGED settings
            BY <1>4 DEF OperatorIdentity
        <3>5. ASSUME NEW n \in Header
              PROVE  heap'[c][n] = IF Copied(c, n)' THEN Due(c, n)' ELSE configured[n]
            BY <2>1, <2>2, <2>3, <3>2, <3>4, <3>5 DEF Copied, Due, settings
        <3> QED
            BY <1>0, <1>4, <2>1, <2>2, <3>2, <3>3, <3>5, OthersStep
            DEF OperatorIdentity, Goto, TypeOK, Owned, settings
    <2>4. CASE ~forwardIdentity
        <3>1. TypeOK'
            BY <1>0, <1>4, <2>4 DEF TypeOK, OperatorIdentity, Goto, settings
        <3>2. UNCHANGED <<heap, settings>>
            BY <1>4, <2>4 DEF OperatorIdentity
        <3>3. ASSUME NEW n \in Header
              PROVE  heap'[c][n] = IF Copied(c, n)' THEN Due(c, n)' ELSE configured[n]
            BY <2>1, <2>2, <2>4, <3>2, <3>3 DEF Copied, Due, settings
        <3> QED
            BY <1>0, <1>4, <2>1, <2>2, <3>1, <3>2, <3>3, OthersStep
            DEF OperatorIdentity, Goto, TypeOK, Owned, settings
    <2> QED
        BY <2>3, <2>4
<1>5. ASSUME NEW c \in Call, NEW n \in Header, ForwardHeader(c, n) PROVE IInv'
    <2>1. ref[c] = c /\ pc[c] = "forward" /\ n \in left[c] /\ n \in forwardNames
        BY <1>0, <1>5 DEF Owned, ForwardHeader
    <2>2. left'[c] = left[c] \ {n} /\ pc' = pc /\ inbound' = inbound /\ UNCHANGED settings
        BY <1>0, <1>5 DEF TypeOK, ForwardHeader
    <2>3. /\ heap' \in [Call \cup {Flags} -> Map]
          /\ \A r \in Call \cup {Flags} : r # c => heap'[r] = heap[r]
          /\ \A x \in Header : x # n => heap'[c][x] = heap[c][x]
          /\ heap'[c][n] = IF Get(inbound[c], n) # Empty
                            THEN <<Get(inbound[c], n)>> ELSE heap[c][n]
        BY <1>5, <2>1, ForwardStep DEF ForwardHeader
    <2>4. TypeOK'
        BY <1>0, <1>5, <2>3 DEF TypeOK, ForwardHeader, settings
    <2>5. \A x \in Header :
              heap[c][x] = IF Copied(c, x) THEN Due(c, x) ELSE configured[x]
        BY <1>0, <2>1 DEF InProgress
    <2>6. ASSUME NEW x \in Header
          PROVE  heap'[c][x] = IF Copied(c, x)' THEN Due(c, x)' ELSE configured[x]
        <3>1. Due(c, x)' = Due(c, x)
            BY <2>2 DEF Due, Get, settings
        <3>2. CASE x = n
            BY <2>1, <2>2, <2>3, <2>5, <3>1, <3>2 DEF Copied, Due, settings
        <3>3. CASE x # n
            BY <2>1, <2>2, <2>3, <2>5, <3>1, <3>3 DEF Copied, settings
        <3> QED
            BY <3>2, <3>3
    <2> QED
        BY <1>0, <1>5, <2>1, <2>2, <2>3, <2>4, <2>6, OthersStep
        DEF ForwardHeader, TypeOK, Owned
<1>6. ASSUME NEW c \in Call, Send(c) PROVE IInv'
    <2>1. ref[c] = c /\ pc[c] = "forward" /\ left[c] = {}
        BY <1>0, <1>6 DEF Owned, Send, Goto
    <2>2. heap[c] \in Map
        BY <1>0 DEF TypeOK
    <2>3. AddHeaders(Nothing, heap[c]) = heap[c]
        BY <2>2 DEF AddHeaders, Nothing, Map
    <2>4. sent' = [sent EXCEPT ![c] = heap[c]]
        BY <1>6, <2>1, <2>3 DEF Send
    <2>5. TypeOK'
        BY <1>0, <1>6, <2>2, <2>4 DEF TypeOK, Send, Goto, settings
    <2>6. ASSUME NEW n \in Header
          PROVE  sent'[c][n] = IF Forwarded(n) THEN Due(c, n)' ELSE configured[n]
        BY <1>0, <1>6, <2>1, <2>4, <2>6
        DEF TypeOK, InProgress, Send, Copied, Forwarded, Due, settings
    <2> QED
        BY <1>0, <1>6, <2>1, <2>4, <2>5, <2>6, OthersStep
        DEF Send, Goto, TypeOK, Owned, settings
<1>7. ASSUME NEW c \in Call, Answer(c) PROVE IInv'
    <2>1. TypeOK'
        BY <1>0, <1>n, <1>7 DEF TypeOK, Answer, Goto, settings
    <2> QED
        BY <1>0, <1>7, <2>1, OthersStep DEF Answer, Goto, TypeOK, Owned, settings
<1>8. CASE UNCHANGED vars
    BY <1>0, <1>8
    DEF vars, settings, IInv, TypeOK, Owned, FlagsKept, Accepted, InProgress, Attributed,
        Copied, Due, Forwarded, Get
<1> QED
    BY <1>1, <1>2, <1>3, <1>4, <1>5, <1>6, <1>7, <1>8 DEF Next

\* IInv holds in every reachable state.
LEMMA Invariance == Spec => []IInv
<1> QED
    BY InitIInv, StepIInv, PTL DEF Spec

-----------------------------------------------------------------------------
\* Every variable of a tool call keeps its type.
THEOREM TypeCorrect == Spec => []TypeOK
<1>1. IInv => TypeOK
    BY DEF IInv
<1> QED
    BY <1>1, Invariance, PTL

\* The request of a call bears the headers of its own caller and no other's.
THEOREM AttributedCorrect == Spec => []Attributed
<1>1. IInv => Attributed
    BY DEF IInv
<1> QED
    BY <1>1, Invariance, PTL

\* What the operator set is what the backend gets, whatever the callers send.
THEOREM OperatorWinsCorrect == Spec => []OperatorWins
<1>1. ASSUME IInv PROVE OperatorWins
    <2> SUFFICES ASSUME NEW c \in Call, pc[c] = "sent", NEW n \in Header,
                        Get(configured, n) # Empty
                 PROVE  sent[c][n] = configured[n]
        BY DEF OperatorWins
    <2>1. ~Forwarded(n)
        BY <1>1 DEF IInv, FlagsKept, Accepted, Forwarded
    <2> QED
        BY <1>1, <2>1 DEF IInv, Attributed
<1> QED
    BY <1>1, Invariance, PTL

\* No step of any call writes to the map of the flags.
THEOREM FlagsIntactCorrect == Spec => FlagsIntact
<1>1. ASSUME IInv, [Next]_vars PROVE heap'[Flags] = heap[Flags]
    <2>1. IInv'
        BY <1>1, StepIInv
    <2>2. configured' = configured
        BY <1>1
        DEF Next, vars, settings, Receive, RejectArguments, StaticHeaders,
            OperatorIdentity, ForwardHeader, Send, Answer
    <2> QED
        BY <1>1, <2>1, <2>2 DEF IInv, FlagsKept
<1> QED
    BY <1>1, Invariance, PTL DEF Spec, FlagsIntact
=============================================================================
