--------------------------- MODULE StartupProofs ---------------------------
(***************************************************************************)
(* What serves has in force what its command line asked for, for any set   *)
(* of command lines. The checks of main come one after the other, and each *)
(* leaves a fact behind that no later one touches. The invariant says, for *)
(* every place that main can be at, which facts are established there.     *)
(***************************************************************************)
EXTENDS Startup, TLAPS

\* The places behind each step.
BehindLoop        == {"listen", "serving"}
BehindTools       == {"loop"} \cup BehindLoop
BehindFile        == {"tools"} \cup BehindTools
BehindReflect     == {"file"} \cup BehindFile
BehindSource      == {"reflect"} \cup BehindReflect
BehindCollision   == {"source"} \cup BehindSource
BehindBearer      == {"collision"} \cup BehindCollision
BehindOption      == {"bearer"} \cup BehindBearer
BehindBackend     == {"option"} \cup BehindOption
BehindForwardHost == {"backend"} \cup BehindBackend
BehindTLSHost     == {"forwardHost"} \cup BehindForwardHost
BehindCAFile      == {"tlsHost"} \cup BehindTLSHost
BehindTLSPair     == {"caFile"} \cup BehindCAFile
BehindTransport   == {"tlsPair"} \cup BehindTLSPair
BehindInterval    == {"transport"} \cup BehindTransport
Place             == {"interval", "exited"} \cup BehindInterval

\* What is known of the command line, as far as it has been checked.
FlagsChecked ==
    /\ at \in Place
    /\ flags \in Command
    /\ at \in BehindTLSPair => ~(flags.tlsCrt # flags.tlsKey)
    /\ at \in BehindCAFile => ~(flags.caFile /\ ~flags.tlsCrt)
    /\ at \in BehindTLSHost => ~(flags.tlsCrt /\ ~ServeHTTP)
    /\ at \in BehindForwardHost => ~(ForwardsAny /\ ~ServeHTTP)
    /\ at \in BehindSource => ~(~flags.descriptors /\ ~flags.reflect)

\* What the steps that look outside the process have put in force.
BackendSet ==
    /\ at \in BehindBackend =>
          /\ flags.clientCrt = flags.clientKey
          /\ backend = IF flags.plainURL THEN {} ELSE BackendSettings
    /\ at \in BehindOption => filter = (flags.option = "field")

\* The headers are complete before they are compared, and change no more.
HeadersSet ==
    /\ at \in BehindBearer => (flags.bearer = "set" \/ flags.bearer = "none")
    /\ at \in BehindBearer => (flags.bearer = "set" => Auth \in headers)
    /\ at \in BehindCollision => Forwarded \cap headers = {}

ToolsSet ==
    /\ at = "file" => source = IF flags.reflect THEN "reflection" ELSE "none"
    /\ at \in BehindFile =>
          source = IF flags.descriptors THEN "file"
                   ELSE IF flags.reflect THEN "reflection" ELSE "none"
    /\ at \in BehindTools => listChanged = (~ServeHTTP \/ UseSSE)
    /\ at \in BehindLoop => refreshing = (flags.reflect /\ ~flags.descriptors)

ListenerSet ==
    at = "serving" =>
        /\ transport = IF UseSSE THEN "sse" ELSE IF ServeHTTP THEN "http" ELSE "stdio"
        /\ listener = IF ServeHTTP THEN ListenerSettings ELSE {}

IInv == FlagsChecked /\ BackendSet /\ HeadersSet /\ ToolsSet /\ ListenerSet

-----------------------------------------------------------------------------
\* Where each step of main leads.
LEMMA ProceedLeads ==
    ASSUME Proceed
    PROVE  /\ flags' = flags
           /\ at = "interval" => at' = "transport"
           /\ at = "transport" => at' = "tlsPair"
           /\ at = "tlsPair" => at' = "caFile"
           /\ at = "caFile" => at' = "tlsHost"
           /\ at = "tlsHost" => at' = "forwardHost"
           /\ at = "forwardHost" => at' = "backend"
           /\ at = "backend" => at' = "option"
           /\ at = "option" => at' = "bearer"
           /\ at = "bearer" => at' = "collision"
           /\ at = "collision" => at' = "source"
           /\ at = "source" => at' = "reflect"
           /\ at = "reflect" => at' = "file"
           /\ at = "file" => at' = "tools"
           /\ at = "tools" => at' = "loop"
           /\ at = "loop" => at' = "listen"
<1>1. Len(Order) = 16
  BY DEF Order
<1>2. PICK i \in 1..15 : at = Order[i] /\ at' = Order[i + 1]
  BY <1>1 DEF Proceed
<1>3. flags' = flags
  BY DEF Proceed
<1>4. i = 1 \/ i = 2 \/ i = 3 \/ i = 4 \/ i = 5 \/ i = 6 \/ i = 7 \/ i = 8 \/ i = 9
      \/ i = 10 \/ i = 11 \/ i = 12 \/ i = 13 \/ i = 14 \/ i = 15
  OBVIOUS
<1> QED
  BY <1>2, <1>3, <1>4 DEF Order

\* The command line stays what it is.
LEMMA FlagsStay ==
    ASSUME IInv, [Next]_vars
    PROVE  flags' = flags
  BY ProceedLeads DEF Next, vars, CheckFlags, BackendTLS, MethodOption, Bearer, Reflect,
     ReadFile, NewServer, StartLoop, Listen, Exit

\* What a check that passes has found out.
LEMMA CheckLeads ==
    ASSUME CheckFlags
    PROVE  /\ UNCHANGED <<flags, outcome>>
           /\ at' = "exited" \/ Proceed
           /\ at \in {"interval", "transport", "tlsPair", "caFile", "tlsHost",
                      "forwardHost", "collision", "source"}
           /\ at = "tlsPair" => at' = "exited" \/ ~(flags.tlsCrt # flags.tlsKey)
           /\ at = "caFile" => at' = "exited" \/ ~(flags.caFile /\ ~flags.tlsCrt)
           /\ at = "tlsHost" => at' = "exited" \/ ~(flags.tlsCrt /\ ~ServeHTTP)
           /\ at = "forwardHost" => at' = "exited" \/ ~(ForwardsAny /\ ~ServeHTTP)
           /\ at = "collision" => at' = "exited" \/ Forwarded \cap headers = {}
           /\ at = "source" => at' = "exited" \/ ~(~flags.descriptors /\ ~flags.reflect)
<1>1. at \in {"interval", "transport", "tlsPair", "caFile", "tlsHost", "forwardHost",
             "collision", "source"}
  BY DEF CheckFlags, Refuses
<1>2. /\ UNCHANGED <<flags, outcome>>
      /\ at' = "exited" \/ (Proceed /\ ~Refuses[at])
  BY DEF CheckFlags, Exit, Proceed
<1>3. /\ Refuses["tlsPair"] = (flags.tlsCrt # flags.tlsKey)
      /\ Refuses["caFile"] = (flags.caFile /\ ~flags.tlsCrt)
      /\ Refuses["tlsHost"] = (flags.tlsCrt /\ ~ServeHTTP)
      /\ Refuses["forwardHost"] = (ForwardsAny /\ ~ServeHTTP)
      /\ Refuses["collision"] = (Forwarded \cap headers # {})
      /\ Refuses["source"] = (~flags.descriptors /\ ~flags.reflect)
  BY DEF Refuses
<1> QED
  BY <1>1, <1>2, <1>3

\* The course of main: it stops where it serves, serves only from the last step, and
\* passes the token once.
LEMMA Course ==
    ASSUME Next
    PROVE  /\ flags' = flags
           /\ at \notin {"serving", "exited"}
           /\ at' = "serving" => at = "listen"
           /\ at' # "exited" => (at' \in BehindBearer <=> at \in BehindBearer \cup {"bearer"})
           /\ at = "bearer" /\ at' # "exited" => flags.bearer # "empty"
<1> USE DEF BehindLoop, BehindTools, BehindFile, BehindReflect, BehindSource,
             BehindCollision, BehindBearer
<1>1. CASE CheckFlags
  BY <1>1, CheckLeads, ProceedLeads
<1>2. CASE BackendTLS
  BY <1>2, ProceedLeads DEF BackendTLS, Exit
<1>3. CASE MethodOption
  BY <1>3, ProceedLeads DEF MethodOption, Exit
<1>4. CASE Bearer
  BY <1>4, ProceedLeads DEF Bearer, Exit
<1>5. CASE Reflect
  BY <1>5, ProceedLeads DEF Reflect, Exit
<1>6. CASE ReadFile
  BY <1>6, ProceedLeads DEF ReadFile, Exit
<1>7. CASE NewServer
  BY <1>7, ProceedLeads DEF NewServer, Exit
<1>8. CASE StartLoop
  BY <1>8, ProceedLeads DEF StartLoop
<1>9. CASE Listen
  BY <1>9, ProceedLeads DEF Listen, Exit
<1> QED
  BY <1>1, <1>2, <1>3, <1>4, <1>5, <1>6, <1>7, <1>8, <1>9 DEF Next

\* Every step keeps the invariant.
LEMMA Invariance ==
    ASSUME IInv, [Next]_vars
    PROVE  IInv'
<1> USE DEF BehindLoop, BehindTools, BehindFile, BehindReflect, BehindSource,
             BehindCollision, BehindBearer, BehindOption, BehindBackend,
             BehindForwardHost, BehindTLSHost, BehindCAFile, BehindTLSPair,
             BehindTransport, BehindInterval, Place
<1>1. CASE CheckFlags
  <2>1. FlagsChecked'
    BY <1>1, FlagsStay, ProceedLeads, CheckLeads DEF IInv, outcome, FlagsChecked,
       ServeHTTP, ForwardsAny
  <2>2. BackendSet'
    BY <1>1, FlagsStay, ProceedLeads, CheckLeads DEF IInv, outcome, BackendSet,
       BackendSettings, BackendOptions, FlagsChecked
  <2>3. HeadersSet'
    BY <1>1, FlagsStay, ProceedLeads, CheckLeads DEF IInv, outcome, HeadersSet,
       Forwarded, FlagsChecked
  <2>4. ToolsSet'
    BY <1>1, FlagsStay, ProceedLeads, CheckLeads DEF IInv, outcome, ToolsSet,
       ServeHTTP, UseSSE, FlagsChecked
  <2>5. ListenerSet'
    BY <1>1, FlagsStay, ProceedLeads, CheckLeads DEF IInv, outcome, ListenerSet,
       ServeHTTP, UseSSE, ListenerSettings, Guards, FlagsChecked
  <2> QED
    BY <2>1, <2>2, <2>3, <2>4, <2>5 DEF IInv
<1>2. CASE BackendTLS
  <2>1. FlagsChecked'
    BY <1>2, FlagsStay, ProceedLeads DEF IInv, BackendTLS, Exit, outcome,
       FlagsChecked, ServeHTTP, ForwardsAny
  <2>2. BackendSet'
    BY <1>2, FlagsStay, ProceedLeads DEF IInv, BackendTLS, Exit, outcome, BackendSet,
       BackendSettings, BackendOptions, FlagsChecked
  <2>3. HeadersSet'
    BY <1>2, FlagsStay, ProceedLeads DEF IInv, BackendTLS, Exit, outcome, HeadersSet,
       Forwarded, FlagsChecked
  <2>4. ToolsSet'
    BY <1>2, FlagsStay, ProceedLeads DEF IInv, BackendTLS, Exit, outcome, ToolsSet,
       ServeHTTP, UseSSE, FlagsChecked
  <2>5. ListenerSet'
    BY <1>2, FlagsStay, ProceedLeads DEF IInv, BackendTLS, Exit, outcome,
       ListenerSet, ServeHTTP, UseSSE, ListenerSettings, Guards, FlagsChecked
  <2> QED
    BY <2>1, <2>2, <2>3, <2>4, <2>5 DEF IInv
<1>3. CASE MethodOption
  <2>1. FlagsChecked'
    BY <1>3, FlagsStay, ProceedLeads DEF IInv, MethodOption, Exit, outcome,
       FlagsChecked, ServeHTTP, ForwardsAny
  <2>2. BackendSet'
    BY <1>3, FlagsStay, ProceedLeads DEF IInv, MethodOption, Exit, outcome,
       BackendSet, BackendSettings, BackendOptions, FlagsChecked
  <2>3. HeadersSet'
    BY <1>3, FlagsStay, ProceedLeads DEF IInv, MethodOption, Exit, outcome,
       HeadersSet, Forwarded, FlagsChecked
  <2>4. ToolsSet'
    BY <1>3, FlagsStay, ProceedLeads DEF IInv, MethodOption, Exit, outcome, ToolsSet,
       ServeHTTP, UseSSE, FlagsChecked
  <2>5. ListenerSet'
    BY <1>3, FlagsStay, ProceedLeads DEF IInv, MethodOption, Exit, outcome,
       ListenerSet, ServeHTTP, UseSSE, ListenerSettings, Guards, FlagsChecked
  <2> QED
    BY <2>1, <2>2, <2>3, <2>4, <2>5 DEF IInv
<1>4. CASE Bearer
  <2>1. FlagsChecked'
    BY <1>4, FlagsStay, ProceedLeads DEF IInv, Bearer, Exit, outcome, FlagsChecked,
       ServeHTTP, ForwardsAny
  <2>2. BackendSet'
    BY <1>4, FlagsStay, ProceedLeads DEF IInv, Bearer, Exit, outcome, BackendSet,
       BackendSettings, BackendOptions, FlagsChecked
  <2>3. HeadersSet'
    BY <1>4, FlagsStay, ProceedLeads, CommandAssumption DEF IInv, Bearer, Exit,
       outcome, HeadersSet, Forwarded, FlagsChecked
  <2>4. ToolsSet'
    BY <1>4, FlagsStay, ProceedLeads DEF IInv, Bearer, Exit, outcome, ToolsSet,
       ServeHTTP, UseSSE, FlagsChecked
  <2>5. ListenerSet'
    BY <1>4, FlagsStay, ProceedLeads DEF IInv, Bearer, Exit, outcome, ListenerSet,
       ServeHTTP, UseSSE, ListenerSettings, Guards, FlagsChecked
  <2> QED
    BY <2>1, <2>2, <2>3, <2>4, <2>5 DEF IInv
<1>5. CASE Reflect
  <2>1. FlagsChecked'
    BY <1>5, FlagsStay, ProceedLeads DEF IInv, Reflect, Exit, outcome, FlagsChecked,
       ServeHTTP, ForwardsAny
  <2>2. BackendSet'
    BY <1>5, FlagsStay, ProceedLeads DEF IInv, Reflect, Exit, outcome, BackendSet,
       BackendSettings, BackendOptions, FlagsChecked
  <2>3. HeadersSet'
    BY <1>5, FlagsStay, ProceedLeads DEF IInv, Reflect, Exit, outcome, HeadersSet,
       Forwarded, FlagsChecked
  <2>4. ToolsSet'
    BY <1>5, FlagsStay, ProceedLeads DEF IInv, Reflect, Exit, outcome, ToolsSet,
       ServeHTTP, UseSSE, FlagsChecked
  <2>5. ListenerSet'
    BY <1>5, FlagsStay, ProceedLeads DEF IInv, Reflect, Exit, outcome, ListenerSet,
       ServeHTTP, UseSSE, ListenerSettings, Guards, FlagsChecked
  <2> QED
    BY <2>1, <2>2, <2>3, <2>4, <2>5 DEF IInv
<1>6. CASE ReadFile
  <2>1. FlagsChecked'
    BY <1>6, FlagsStay, ProceedLeads DEF IInv, ReadFile, Exit, outcome, FlagsChecked,
       ServeHTTP, ForwardsAny
  <2>2. BackendSet'
    BY <1>6, FlagsStay, ProceedLeads DEF IInv, ReadFile, Exit, outcome, BackendSet,
       BackendSettings, BackendOptions, FlagsChecked
  <2>3. HeadersSet'
    BY <1>6, FlagsStay, ProceedLeads DEF IInv, ReadFile, Exit, outcome, HeadersSet,
       Forwarded, FlagsChecked
  <2>4. ToolsSet'
    BY <1>6, FlagsStay, ProceedLeads DEF IInv, ReadFile, Exit, outcome, ToolsSet,
       ServeHTTP, UseSSE, FlagsChecked
  <2>5. ListenerSet'
    BY <1>6, FlagsStay, ProceedLeads DEF IInv, ReadFile, Exit, outcome, ListenerSet,
       ServeHTTP, UseSSE, ListenerSettings, Guards, FlagsChecked
  <2> QED
    BY <2>1, <2>2, <2>3, <2>4, <2>5 DEF IInv
<1>7. CASE NewServer
  <2>1. FlagsChecked'
    BY <1>7, FlagsStay, ProceedLeads DEF IInv, NewServer, Exit, outcome,
       FlagsChecked, ServeHTTP, ForwardsAny
  <2>2. BackendSet'
    BY <1>7, FlagsStay, ProceedLeads DEF IInv, NewServer, Exit, outcome, BackendSet,
       BackendSettings, BackendOptions, FlagsChecked
  <2>3. HeadersSet'
    BY <1>7, FlagsStay, ProceedLeads DEF IInv, NewServer, Exit, outcome, HeadersSet,
       Forwarded, FlagsChecked
  <2>4. ToolsSet'
    BY <1>7, FlagsStay, ProceedLeads DEF IInv, NewServer, Exit, outcome, ToolsSet,
       ServeHTTP, UseSSE, FlagsChecked
  <2>5. ListenerSet'
    BY <1>7, FlagsStay, ProceedLeads DEF IInv, NewServer, Exit, outcome, ListenerSet,
       ServeHTTP, UseSSE, ListenerSettings, Guards, FlagsChecked
  <2> QED
    BY <2>1, <2>2, <2>3, <2>4, <2>5 DEF IInv
<1>8. CASE StartLoop
  <2>1. FlagsChecked'
    BY <1>8, FlagsStay, ProceedLeads DEF IInv, StartLoop, FlagsChecked, ServeHTTP,
       ForwardsAny
  <2>2. BackendSet'
    BY <1>8, FlagsStay, ProceedLeads DEF IInv, StartLoop, BackendSet,
       BackendSettings, BackendOptions, FlagsChecked
  <2>3. HeadersSet'
    BY <1>8, FlagsStay, ProceedLeads DEF IInv, StartLoop, HeadersSet, Forwarded,
       FlagsChecked
  <2>4. ToolsSet'
    BY <1>8, FlagsStay, ProceedLeads DEF IInv, StartLoop, ToolsSet, ServeHTTP,
       UseSSE, FlagsChecked
  <2>5. ListenerSet'
    BY <1>8, FlagsStay, ProceedLeads DEF IInv, StartLoop, ListenerSet, ServeHTTP,
       UseSSE, ListenerSettings, Guards, FlagsChecked
  <2> QED
    BY <2>1, <2>2, <2>3, <2>4, <2>5 DEF IInv
<1>9. CASE Listen
  <2>1. FlagsChecked'
    BY <1>9, FlagsStay, ProceedLeads DEF IInv, Listen, Exit, outcome, FlagsChecked,
       ServeHTTP, ForwardsAny
  <2>2. BackendSet'
    BY <1>9, FlagsStay, ProceedLeads DEF IInv, Listen, Exit, outcome, BackendSet,
       BackendSettings, BackendOptions, FlagsChecked
  <2>3. HeadersSet'
    BY <1>9, FlagsStay, ProceedLeads DEF IInv, Listen, Exit, outcome, HeadersSet,
       Forwarded, FlagsChecked
  <2>4. ToolsSet'
    BY <1>9, FlagsStay, ProceedLeads DEF IInv, Listen, Exit, outcome, ToolsSet,
       ServeHTTP, UseSSE, FlagsChecked
  <2>5. ListenerSet'
    BY <1>9, FlagsStay, ProceedLeads DEF IInv, Listen, Exit, outcome, ListenerSet,
       ServeHTTP, UseSSE, ListenerSettings, Guards, FlagsChecked
  <2> QED
    BY <2>1, <2>2, <2>3, <2>4, <2>5 DEF IInv
<1>10. CASE UNCHANGED vars
  <2>1. FlagsChecked'
    BY <1>10 DEF IInv, vars, outcome, FlagsChecked, ServeHTTP, ForwardsAny
  <2>2. BackendSet'
    BY <1>10 DEF IInv, vars, outcome, BackendSet, BackendSettings, BackendOptions
  <2>3. HeadersSet'
    BY <1>10 DEF IInv, vars, outcome, HeadersSet, Forwarded
  <2>4. ToolsSet'
    BY <1>10 DEF IInv, vars, outcome, ToolsSet, ServeHTTP, UseSSE
  <2>5. ListenerSet'
    BY <1>10 DEF IInv, vars, outcome, ListenerSet, ServeHTTP, UseSSE,
       ListenerSettings, Guards
  <2> QED
    BY <2>1, <2>2, <2>3, <2>4, <2>5 DEF IInv
<1> QED
  BY <1>1, <1>2, <1>3, <1>4, <1>5, <1>6, <1>7, <1>8, <1>9, <1>10 DEF Next

LEMMA Initial ==
    ASSUME Init
    PROVE  IInv
  BY DEF Init, IInv, FlagsChecked, BackendSet, HeadersSet, ToolsSet, ListenerSet,
     BehindLoop, BehindTools, BehindFile, BehindReflect, BehindSource, BehindCollision,
     BehindBearer, BehindOption, BehindBackend, BehindForwardHost, BehindTLSHost,
     BehindCAFile, BehindTLSPair, BehindTransport, BehindInterval, Place

LEMMA Inductive == Spec => []IInv
  BY Initial, Invariance, PTL DEF Spec

-----------------------------------------------------------------------------
\* No security setting of a command line is dropped on the way to serving: each check
\* that could is behind the place where main serves.
THEOREM SettingsInForceCorrect == Spec => []SettingsInForce
<1>1. ASSUME IInv
      PROVE  SettingsInForce
  BY <1>1 DEF IInv, SettingsInForce, FlagsChecked, BackendSet, HeadersSet, ListenerSet,
     ServeHTTP, UseSSE, BackendSettings, ListenerSettings, Guards, BehindLoop,
     BehindTools, BehindFile, BehindReflect, BehindSource, BehindCollision, BehindBearer,
     BehindOption, BehindBackend, BehindForwardHost, BehindTLSHost, BehindCAFile,
     BehindTLSPair
<1> QED
  BY <1>1, Inductive, PTL

\* No caller's header takes the place of one of the operator's: when the two are
\* compared, the operator's are complete.
THEOREM NoCollisionCorrect == Spec => []NoCollision
<1>1. ASSUME IInv
      PROVE  NoCollision
  BY <1>1 DEF IInv, NoCollision, HeadersSet, BehindLoop, BehindTools, BehindFile,
     BehindReflect, BehindSource, BehindCollision, BehindBearer
<1> QED
  BY <1>1, Inductive, PTL

\* Tools come again from where they came from at first, and a promise to tell of
\* changes is made over a transport that can.
THEOREM RefreshFitsSourceCorrect == Spec => []RefreshFitsSource
<1>1. ASSUME IInv
      PROVE  RefreshFitsSource
  BY <1>1 DEF IInv, RefreshFitsSource, FlagsChecked, ToolsSet, ListenerSet, ServeHTTP,
     UseSSE, BehindLoop, BehindTools, BehindFile, BehindReflect, BehindSource
<1> QED
  BY <1>1, Inductive, PTL
=============================================================================
