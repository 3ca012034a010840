--------------------------- MODULE ServingProofs ---------------------------
(***************************************************************************)
(* What main serves is ToolCalls: the checks of Startup are what its calls *)
(* take for granted, and the guards keep out what they refuse.             *)
(***************************************************************************)
EXTENDS Serving, TLAPS

Boot == INSTANCE StartupProofs WITH headers <- SetHeaders

\* The theorems about Startup are about the main of Serving.
LEMMA MainIsBoot == Main!Next = Boot!Next
<1>1. Main!Proceed = Boot!Proceed
  BY DEF Main!Proceed, Main!Order, Boot!Proceed, Boot!Order
<1>2. Main!Exit = Boot!Exit
  BY DEF Main!Exit, Main!outcome, Boot!Exit, Boot!outcome
<1>3. Main!CheckFlags = Boot!CheckFlags
  BY <1>1, <1>2 DEF Main!CheckFlags, Main!Refuses, Main!ForwardsAny, Main!Forwarded,
     Main!ServeHTTP, Main!outcome, Boot!CheckFlags, Boot!Refuses, Boot!ForwardsAny,
     Boot!Forwarded, Boot!ServeHTTP, Boot!outcome
<1>4. Main!BackendTLS = Boot!BackendTLS
  BY <1>1, <1>2 DEF Main!BackendTLS, Main!BackendOptions, Main!BackendSettings,
     Boot!BackendTLS, Boot!BackendOptions, Boot!BackendSettings
<1>5. Main!MethodOption = Boot!MethodOption
  BY <1>1, <1>2 DEF Main!MethodOption, Boot!MethodOption
<1>6. Main!Bearer = Boot!Bearer
  BY <1>1, <1>2 DEF Main!Bearer, Boot!Bearer
<1>7. Main!Reflect = Boot!Reflect
  BY <1>1, <1>2 DEF Main!Reflect, Boot!Reflect
<1>8. Main!ReadFile = Boot!ReadFile
  BY <1>1, <1>2 DEF Main!ReadFile, Boot!ReadFile
<1>9. Main!NewServer = Boot!NewServer
  BY <1>1, <1>2 DEF Main!NewServer, Main!UseSSE, Main!ServeHTTP, Boot!NewServer,
     Boot!UseSSE, Boot!ServeHTTP
<1>10. Main!StartLoop = Boot!StartLoop
  BY <1>1, <1>2 DEF Main!StartLoop, Boot!StartLoop
<1>11. Main!Listen = Boot!Listen
  BY <1>1, <1>2 DEF Main!Listen, Main!UseSSE, Main!ServeHTTP, Main!ListenerSettings,
     Main!Guards, Boot!Listen, Boot!UseSSE, Boot!ServeHTTP, Boot!ListenerSettings,
     Boot!Guards
<1> QED
  BY <1>3, <1>4, <1>5, <1>6, <1>7, <1>8, <1>9, <1>10, <1>11 DEF Main!Next, Boot!Next

LEMMA BootStep ==
    ASSUME Boot!IInv, Main!Next
    PROVE  Boot!IInv'
<1>1. Boot!CommandAssumption
  BY CommandLineAssumption DEF Boot!CommandAssumption
<1>2. [Boot!Next]_(Boot!vars)
  BY MainIsBoot
<1> QED
  BY <1>1, <1>2, Boot!Invariance

-----------------------------------------------------------------------------
\* The settings of the calls are those of the command line.
Fixed ==
    /\ flags \in Command
    /\ forwardIdentity = flags.identity
    /\ forwardNames = flags.forward
    /\ configured = AskedFor(flags)

\* Until main serves no call runs, and the map is what has been made of it so far.
Preparing ==
    at # "serving" =>
        /\ Boot!IInv
        /\ heap \in [Call \cup {Flags} -> Map]
        /\ at # "exited" =>
              heap[Flags] = IF at \in Boot!BehindBearer THEN configured ELSE flags.map

\* When it serves, the checks have been passed and the guards stand.
Checked ==
    at = "serving" =>
        /\ Accepted(configured, forwardNames, forwardIdentity)
        /\ transport = "stdio" \/ Main!Guards \subseteq listener

SInv == Fixed /\ Preparing /\ Checked

LEMMA SettingsOfCommand ==
    ASSUME Fixed
    PROVE  /\ forwardIdentity \in BOOLEAN
           /\ forwardNames \subseteq Header
           /\ configured \in Offered
           /\ configured \in Map
           /\ flags.map \in Map
           /\ flags.bearer \in {"none", "empty", "set"}
  BY CommandLineAssumption, HeaderAssumption DEF Fixed

LEMMA TokenIsSet ==
    ASSUME NEW h \in Map
    PROVE  Put(h, Auth, Token) \in Map
<1>1. <<Token>> \in Seq(Value)
  BY ServingAssumption
<1> QED
  BY <1>1 DEF Put, Map

LEMMA SInvLaunch ==
    ASSUME Launch
    PROVE  SInv
<1>1. Boot!Init
  BY DEF Launch, Main!Init, Boot!Init
<1>2. Boot!IInv
  <2>1. Boot!CommandAssumption
    BY CommandLineAssumption DEF Boot!CommandAssumption
  <2> QED
    BY <1>1, <2>1, Boot!Initial
<1>3. Fixed
  BY DEF Launch, Main!Init, Fixed
<1>4. at = "interval"
  BY DEF Launch, Main!Init
<1>5. /\ heap \in [Call \cup {Flags} -> Map]
      /\ heap[Flags] = flags.map
  <2>1. Nothing \in Map
    BY DEF Nothing, Map
  <2> QED
    BY <1>3, <2>1, SettingsOfCommand DEF Launch
<1>6. at \notin Boot!BehindBearer
  BY <1>4 DEF Boot!BehindBearer, Boot!BehindCollision, Boot!BehindSource,
     Boot!BehindReflect, Boot!BehindFile, Boot!BehindTools, Boot!BehindLoop
<1> QED
  BY <1>2, <1>3, <1>4, <1>5, <1>6 DEF SInv, Preparing, Checked

\* A step of main: what it does to the map, and what has been checked when it serves.
LEMMA StartKeepsMap ==
    ASSUME SInv, Start
    PROVE  /\ Fixed'
           /\ flags' = flags
           /\ at # "serving"
           /\ Boot!IInv'
           /\ heap' \in [Call \cup {Flags} -> Map]
           /\ at' # "exited" =>
                 heap'[Flags] = IF at' \in Boot!BehindBearer THEN configured ELSE flags.map
           /\ at' = "serving" => heap' = heap /\ at' \in Boot!BehindBearer
<1>1. Boot!CommandAssumption
  BY CommandLineAssumption DEF Boot!CommandAssumption
<1>2. Boot!Next
  BY MainIsBoot DEF Start
<1>3. /\ flags' = flags
      /\ at \notin {"serving", "exited"}
      /\ at' = "serving" => at = "listen"
      /\ at' # "exited" => (at' \in Boot!BehindBearer <=> at \in Boot!BehindBearer \cup {"bearer"})
      /\ at = "bearer" /\ at' # "exited" => flags.bearer # "empty"
  BY <1>1, <1>2, Boot!Course
<1>4. Fixed'
  BY <1>3 DEF SInv, Fixed, Start, calls, settings
<1>5. Boot!IInv'
  BY <1>3, BootStep DEF SInv, Preparing, Start
<1>6. /\ heap \in [Call \cup {Flags} -> Map]
      /\ heap[Flags] = IF at \in Boot!BehindBearer THEN configured ELSE flags.map
  BY <1>3 DEF SInv, Preparing
<1>7. heap' \in [Call \cup {Flags} -> Map]
  BY <1>6, TokenIsSet DEF Start
<1>8. "bearer" \notin Boot!BehindBearer /\ "serving" \in Boot!BehindBearer
  BY DEF Boot!BehindBearer, Boot!BehindCollision, Boot!BehindSource,
     Boot!BehindReflect, Boot!BehindFile, Boot!BehindTools, Boot!BehindLoop
<1>9. ASSUME at' # "exited"
      PROVE  heap'[Flags] = IF at' \in Boot!BehindBearer THEN configured ELSE flags.map
  <2>1. CASE at = "bearer"
    <3>1. heap[Flags] = flags.map
      BY <1>6, <1>8, <2>1
    <3>2. flags.bearer \in {"none", "set"}
      BY <1>3, <1>9, <2>1, SettingsOfCommand DEF SInv
    <3>3. heap'[Flags] = AskedFor(flags)
      BY <1>6, <2>1, <3>1, <3>2 DEF Start, AskedFor
    <3> QED
      BY <1>3, <1>9, <2>1, <3>3 DEF SInv, Fixed
  <2>2. CASE at # "bearer"
    BY <1>3, <1>6, <1>9, <2>2 DEF Start
  <2> QED
    BY <2>1, <2>2
<1>10. at' = "serving" => heap' = heap /\ at' \in Boot!BehindBearer
  BY <1>3, <1>8 DEF Start
<1> QED
  BY <1>3, <1>4, <1>5, <1>7, <1>9, <1>10

LEMMA SInvStart ==
    ASSUME SInv, Start
    PROVE  SInv'
<1>1. /\ Fixed'
      /\ flags' = flags
      /\ Boot!IInv'
      /\ heap' \in [Call \cup {Flags} -> Map]
      /\ at' # "exited" =>
            heap'[Flags] = IF at' \in Boot!BehindBearer THEN configured ELSE flags.map
      /\ at' = "serving" => at' \in Boot!BehindBearer
  BY StartKeepsMap
<1>2. configured' = configured /\ flags' = flags
  BY <1>1 DEF Start, calls, settings
<1>3. Preparing'
  BY <1>1, <1>2 DEF Preparing
<1>4. ASSUME at' = "serving"
      PROVE  Accepted(configured, forwardNames, forwardIdentity)'
  <2>1. heap'[Flags] = configured'
    BY <1>1, <1>2, <1>4
  <2>2. Boot!Forwarded' \cap SetHeaders' = {}
    BY <1>1, <1>4 DEF Boot!IInv, Boot!HeadersSet, Boot!BehindCollision,
       Boot!BehindSource, Boot!BehindReflect, Boot!BehindFile, Boot!BehindTools,
       Boot!BehindLoop
  <2>3. \A n \in Header : n \in Boot!Forwarded' => Get(configured', n) = Empty
    BY <2>1, <2>2 DEF SetHeaders
  <2>4. /\ forwardNames' \subseteq Boot!Forwarded'
        /\ forwardIdentity' => Identity \in Boot!Forwarded'
    BY <1>1 DEF Fixed, Boot!Forwarded
  <2>5. forwardNames' \subseteq Header /\ Identity \in Header
    BY <1>1, CommandLineAssumption, HeaderAssumption DEF Fixed
  <2> QED
    BY <2>3, <2>4, <2>5 DEF Accepted
<1>5. ASSUME at' = "serving"
      PROVE  (transport = "stdio" \/ Main!Guards \subseteq listener)'
  <2>1. /\ transport' = IF Boot!UseSSE' THEN "sse" ELSE IF Boot!ServeHTTP' THEN "http" ELSE "stdio"
        /\ listener' = IF Boot!ServeHTTP' THEN Boot!ListenerSettings' ELSE {}
    BY <1>1, <1>5 DEF Boot!IInv, Boot!ListenerSet
  <2>2. Main!Guards \subseteq Boot!ListenerSettings'
    BY DEF Main!Guards, Boot!Guards, Boot!ListenerSettings
  <2> QED
    BY <2>1, <2>2 DEF Boot!UseSSE
<1> QED
  BY <1>1, <1>3, <1>4, <1>5 DEF SInv, Checked

LEMMA SettingsStay ==
    ASSUME Next
    PROVE  UNCHANGED settings
  BY DEF Next, Receive, RejectArguments, StaticHeaders, OperatorIdentity, ForwardHeader,
     Send, Answer

LEMMA SInvServe ==
    ASSUME SInv, Serve
    PROVE  SInv'
<1>1. UNCHANGED settings /\ UNCHANGED main /\ at = "serving"
  BY SettingsStay DEF Serve
<1> QED
  BY <1>1 DEF settings, main, SInv, Fixed, Preparing, Checked, Accepted

LEMMA SInvStutter ==
    ASSUME SInv, UNCHANGED all
    PROVE  SInv'
<1>1. UNCHANGED <<flags, at, backend, filter, source, refreshing, listChanged, transport,
                  listener, forwardIdentity, forwardNames, configured, heap>>
  BY DEF all, main, calls, settings
<1>2. Fixed' /\ Checked'
  BY <1>1 DEF SInv, Fixed, Checked, Accepted
<1>3. Boot!IInv => Boot!IInv'
  <2>1. [Boot!Next]_(Boot!vars)
    BY <1>1 DEF Boot!vars, Boot!outcome, SetHeaders
  <2>2. Boot!CommandAssumption
    BY CommandLineAssumption DEF Boot!CommandAssumption
  <2> QED
    BY <2>1, <2>2, Boot!Invariance
<1> QED
  BY <1>1, <1>2, <1>3 DEF SInv, Preparing

LEMMA SInvHolds == System => []SInv
<1>1. SInv /\ [Step]_all => SInv'
  BY SInvStart, SInvServe, SInvStutter DEF Step
<1> QED
  BY <1>1, SInvLaunch, PTL DEF System

-----------------------------------------------------------------------------
\* What a request bears that a guard lets pass.
Clean(h) ==
    /\ h[Origin] = <<>>
    /\ Get(h, ProtocolVersion) \in Supported \cup {Empty}

CleanInbound == \A c \in Call : Clean(inbound[c])

LEMMA NothingIsClean == Clean(Nothing)
  BY ServingAssumption DEF Clean, Nothing, Get

LEMMA AdmittedIsClean ==
    ASSUME SInv, at = "serving", NEW h, Admitted(h)
    PROVE  Clean(h)
<1>1. CASE transport = "stdio"
  BY <1>1, NothingIsClean DEF Admitted
<1>2. CASE transport # "stdio"
  <2>1. "browsers refused" \in listener /\ "versions checked" \in listener
    BY <1>2 DEF SInv, Checked, Main!Guards
  <2> QED
    BY <1>2, <2>1 DEF Admitted, rejectBrowserOrigin, rejectUnsupportedProtocolVersion,
       Clean
<1> QED
  BY <1>1, <1>2

\* No request becomes a call that a guard refuses: the guards stand before either of the
\* transports that bear headers, and over stdio there are none.
THEOREM KeptOutCorrect == System => []KeptOut
<1>1. Launch => CleanInbound
  BY NothingIsClean DEF Launch, CleanInbound
<1>2. ASSUME SInv, CleanInbound, [Step]_all
      PROVE  CleanInbound'
  <2>1. CASE Start
    BY <1>2, <2>1 DEF Start, calls, CleanInbound
  <2>2. CASE Serve
    <3> SUFFICES ASSUME NEW c \in Call
                 PROVE  Clean(inbound'[c])
      BY DEF CleanInbound, Clean
    <3>1. CASE inbound'[c] = inbound[c]
      BY <1>2, <3>1 DEF CleanInbound
    <3>2. CASE inbound'[c] # inbound[c]
      BY <1>2, <2>2, <3>2, AdmittedIsClean DEF Serve
    <3> QED
      BY <3>1, <3>2
  <2>3. CASE UNCHANGED all
    BY <1>2, <2>3 DEF all, calls, CleanInbound
  <2> QED
    BY <1>2, <2>1, <2>2, <2>3 DEF Step
<1>3. CleanInbound => KeptOut
  BY DEF CleanInbound, Clean, KeptOut
<1> QED
  BY <1>1, <1>2, <1>3, SInvHolds, PTL DEF System

-----------------------------------------------------------------------------
\* The map as ToolCalls is to see it.
Mapped == IF at = "serving" THEN heap ELSE [heap EXCEPT ![Flags] = configured]

LEMMA LaunchMaps ==
    ASSUME Launch
    PROVE  Calls!Init
<1>1. Fixed
  BY SInvLaunch DEF SInv
<1>2. /\ forwardIdentity \in BOOLEAN
      /\ forwardNames \subseteq Header
      /\ configured \in Offered
      /\ flags.map \in Map
      /\ configured \in Map
  BY <1>1, SettingsOfCommand
<1>3. at # "serving"
  BY DEF Launch, Main!Init
<1>4. Mapped = [r \in Call \cup {Flags} |-> IF r = Flags THEN configured ELSE Nothing]
  BY <1>3 DEF Launch, Mapped
<1>5. configured \in
        {h \in Offered :
           Calls!Accepted(h,
             IF Accepted(configured, forwardNames, forwardIdentity) THEN forwardNames ELSE {},
             forwardIdentity /\ Accepted(configured, forwardNames, forwardIdentity))}
  BY <1>2 DEF Accepted, Calls!Accepted, Get, Calls!Get
<1>6. /\ pc = [c \in Call |-> "idle"]
      /\ inbound = [c \in Call |-> Calls!Nothing]
      /\ ref = [c \in Call |-> NoMap]
      /\ left = [c \in Call |-> {}]
      /\ sent = [c \in Call |-> Calls!Nothing]
  BY DEF Launch, Nothing, Calls!Nothing
<1> QED
  BY <1>2, <1>3, <1>4, <1>5, <1>6 DEF Calls!Init, Mapped, Nothing, Calls!Nothing

LEMMA StartMaps ==
    ASSUME SInv, Start
    PROVE  UNCHANGED Calls!vars
<1>1. /\ at # "serving"
      /\ heap' \in [Call \cup {Flags} -> Map]
      /\ at' # "exited" =>
            heap'[Flags] = IF at' \in Boot!BehindBearer THEN configured ELSE flags.map
      /\ at' = "serving" => heap' = heap /\ at' \in Boot!BehindBearer
  BY StartKeepsMap
<1>2. UNCHANGED <<forwardIdentity, forwardNames, configured, pc, inbound, ref, left, sent>>
  BY DEF Start, calls, settings
<1>3. heap \in [Call \cup {Flags} -> Map]
  BY <1>1 DEF SInv, Preparing
<1>4. [heap' EXCEPT ![Flags] = configured] = [heap EXCEPT ![Flags] = configured]
  BY <1>1, <1>3 DEF Start
<1>5. at' = "serving" => heap' = [heap' EXCEPT ![Flags] = configured]
  BY <1>1
<1>6. Mapped' = Mapped
  BY <1>1, <1>2, <1>4, <1>5 DEF Mapped
<1>7. UNCHANGED Accepted(configured, forwardNames, forwardIdentity)
  BY <1>2 DEF Accepted
<1> QED
  BY <1>2, <1>6, <1>7 DEF Calls!vars, Calls!settings, Mapped

LEMMA ServeMaps ==
    ASSUME SInv, Serve
    PROVE  Calls!Next
<1>1. /\ at = "serving" /\ at' = "serving"
      /\ UNCHANGED <<forwardIdentity, forwardNames, configured>>
  BY SettingsStay DEF Serve, main, settings
<1>2. Accepted(configured, forwardNames, forwardIdentity)
  BY <1>1 DEF SInv, Checked
<1>3. UNCHANGED Calls!settings
  BY <1>1 DEF Calls!settings, Accepted
<1>4. /\ (IF Accepted(configured, forwardNames, forwardIdentity) THEN forwardNames ELSE {})
            = forwardNames
      /\ (forwardIdentity /\ Accepted(configured, forwardNames, forwardIdentity))
            <=> forwardIdentity
  BY <1>2
<1>5. Mapped = heap /\ Mapped' = heap'
  BY <1>1 DEF Mapped
<1>6. PICK c \in Call :
        \/ \E h \in Inbound : Receive(c, h)
        \/ RejectArguments(c)
        \/ StaticHeaders(c)
        \/ OperatorIdentity(c)
        \/ \E n \in Header : ForwardHeader(c, n)
        \/ Send(c)
        \/ Answer(c)
  BY DEF Serve, Next
<1>7. ASSUME NEW h \in Inbound, Receive(c, h)
      PROVE  Calls!Receive(c, h)
  BY <1>3, <1>5, <1>7 DEF Mapped, Receive, Calls!Receive, Goto, Calls!Goto
<1>8. ASSUME RejectArguments(c)
      PROVE  Calls!RejectArguments(c)
  BY <1>3, <1>5, <1>8 DEF Mapped, RejectArguments, Calls!RejectArguments, Goto, Calls!Goto,
     Nothing, Calls!Nothing
<1>9. ASSUME StaticHeaders(c)
      PROVE  Calls!StaticHeaders(c)
  BY <1>3, <1>5, <1>9 DEF Mapped, StaticHeaders, Calls!StaticHeaders, Goto, Calls!Goto
<1>10. ASSUME NEW n \in Header
       PROVE  Forward(c, n) => Calls!Forward(c, n)
  BY <1>5 DEF Mapped, Forward, Calls!Forward, Get, Calls!Get, Put, Calls!Put
<1>11. ASSUME OperatorIdentity(c)
       PROVE  Calls!OperatorIdentity(c)
  <2>1. IF forwardIdentity THEN Calls!Forward(c, Identity) ELSE Mapped' = Mapped
    BY <1>5, <1>10, <1>11, HeaderAssumption DEF OperatorIdentity
  <2> QED
    BY <1>3, <1>4, <1>11, <2>1 DEF Mapped, OperatorIdentity, Calls!OperatorIdentity, Goto,
       Calls!Goto
<1>12. ASSUME NEW n \in Header, ForwardHeader(c, n)
       PROVE  Calls!ForwardHeader(c, n)
  BY <1>3, <1>10, <1>12 DEF ForwardHeader, Calls!ForwardHeader
<1>13. ASSUME Send(c)
       PROVE  Calls!Send(c)
  BY <1>3, <1>5, <1>13 DEF Mapped, Send, Calls!Send, Goto, Calls!Goto, AddHeaders,
     Calls!AddHeaders, Nothing, Calls!Nothing
<1>14. ASSUME Answer(c)
       PROVE  Calls!Answer(c)
  BY <1>3, <1>5, <1>14 DEF Mapped, Answer, Calls!Answer, Goto, Calls!Goto, Nothing,
     Calls!Nothing
<1> QED
  BY <1>6, <1>7, <1>8, <1>9, <1>11, <1>12, <1>13, <1>14 DEF Calls!Next

\* The calls that main serves are the calls of ToolCalls: what those take for granted, a
\* map that stays as the operator asked for it and no forwarded header that is set in it,
\* is what startup has seen to.
THEOREM Refinement == System => ImplementsToolCalls
<1>1. ASSUME SInv, [Step]_all
      PROVE  [Calls!Next]_(Calls!vars)
  <2>1. CASE Start
    BY <1>1, <2>1, StartMaps
  <2>2. CASE Serve
    BY <1>1, <2>2, ServeMaps
  <2>3. CASE UNCHANGED all
    BY <2>3 DEF all, main, calls, settings, Calls!vars, Calls!settings, Accepted
  <2> QED
    BY <1>1, <2>1, <2>2, <2>3 DEF Step
<1> QED
  BY <1>1, LaunchMaps, SInvHolds, PTL DEF System, ImplementsToolCalls, Calls!Spec

-----------------------------------------------------------------------------
\* With the refinement, what is proved of ToolCalls is proved of what main serves.
Proved ==
    INSTANCE ToolCallsProofs WITH
        forwardIdentity <- forwardIdentity /\ Accepted(configured, forwardNames, forwardIdentity),
        forwardNames <- IF Accepted(configured, forwardNames, forwardIdentity)
                          THEN forwardNames ELSE {},
        heap <- Mapped

LEMMA CallsAreProved == Calls!Spec => Proved!Spec
<1>1. Calls!Init => Proved!Init
  BY DEF Mapped, Calls!Init, Proved!Init, Calls!Nothing, Proved!Nothing, Calls!Accepted,
     Proved!Accepted, Calls!Get, Proved!Get
<1>2. ASSUME NEW c, NEW h
      PROVE  Calls!Receive(c, h) => Proved!Receive(c, h)
  BY DEF Mapped, Calls!Receive, Calls!Goto, Calls!settings, Proved!Receive, Proved!Goto,
     Proved!settings
<1>3. ASSUME NEW c
      PROVE  Calls!RejectArguments(c) => Proved!RejectArguments(c)
  BY DEF Mapped, Calls!RejectArguments, Calls!Goto, Calls!settings, Calls!Nothing,
     Proved!RejectArguments, Proved!Goto, Proved!settings, Proved!Nothing
<1>4. ASSUME NEW c
      PROVE  Calls!StaticHeaders(c) => Proved!StaticHeaders(c)
  BY DEF Mapped, Calls!StaticHeaders, Calls!Goto, Calls!settings, Proved!StaticHeaders,
     Proved!Goto, Proved!settings
<1>5. ASSUME NEW c
      PROVE  Calls!OperatorIdentity(c) => Proved!OperatorIdentity(c)
  BY DEF Mapped, Calls!OperatorIdentity, Calls!Goto, Calls!settings, Calls!Forward,
     Calls!Get, Calls!Put, Proved!OperatorIdentity, Proved!Goto, Proved!settings,
     Proved!Forward, Proved!Get, Proved!Put
<1>6. ASSUME NEW c, NEW n
      PROVE  Calls!ForwardHeader(c, n) => Proved!ForwardHeader(c, n)
  BY DEF Mapped, Calls!ForwardHeader, Calls!settings, Calls!Forward, Calls!Get, Calls!Put,
     Proved!ForwardHeader, Proved!settings, Proved!Forward, Proved!Get, Proved!Put
<1>7. ASSUME NEW c
      PROVE  Calls!Send(c) => Proved!Send(c)
  BY DEF Mapped, Calls!Send, Calls!Goto, Calls!settings, Calls!AddHeaders, Calls!Nothing,
     Proved!Send, Proved!Goto, Proved!settings, Proved!AddHeaders, Proved!Nothing
<1>8. ASSUME NEW c
      PROVE  Calls!Answer(c) => Proved!Answer(c)
  BY DEF Mapped, Calls!Answer, Calls!Goto, Calls!settings, Calls!Nothing, Proved!Answer,
     Proved!Goto, Proved!settings, Proved!Nothing
<1>9. Calls!Next => Proved!Next
  BY <1>2, <1>3, <1>4, <1>5, <1>6, <1>7, <1>8 DEF Calls!Next, Proved!Next
<1>10. UNCHANGED Calls!vars => UNCHANGED Proved!vars
  BY DEF Mapped, Calls!vars, Calls!settings, Proved!vars, Proved!settings
<1> QED
  BY <1>1, <1>9, <1>10, PTL DEF Calls!Spec, Proved!Spec

\* No call runs before main serves.
Quiet == at # "serving" => \A c \in Call : pc[c] = "idle"

LEMMA QuietHolds == System => []Quiet
<1>1. Launch => Quiet
  BY DEF Launch, Quiet
<1>2. ASSUME SInv, Quiet, [Step]_all
      PROVE  Quiet'
  <2>1. CASE Start
    BY <1>2, <2>1, StartKeepsMap DEF Quiet, Start, calls
  <2>2. CASE Serve
    BY <2>2 DEF Quiet, Serve, main
  <2>3. CASE UNCHANGED all
    BY <1>2, <2>3 DEF Quiet, all, main, calls
  <2> QED
    BY <1>2, <2>1, <2>2, <2>3 DEF Step
<1> QED
  BY <1>1, <1>2, SInvHolds, PTL DEF System

LEMMA WhileServing ==
    ASSUME SInv, Quiet, NEW c \in Call, pc[c] = "sent"
    PROVE  /\ (IF Accepted(configured, forwardNames, forwardIdentity) THEN forwardNames ELSE {})
                 = forwardNames
           /\ (forwardIdentity /\ Accepted(configured, forwardNames, forwardIdentity))
                 <=> forwardIdentity
<1>1. Accepted(configured, forwardNames, forwardIdentity)
  BY DEF SInv, Quiet, Checked
<1> QED
  BY <1>1

LEMMA AssumptionsMet == Proved!HeaderAssumption /\ Proved!ReferenceAssumption
  BY HeaderAssumption, ReferenceAssumption
  DEF Proved!HeaderAssumption, Proved!ReferenceAssumption, Map, Proved!Map

\* Each request that main sends bears its own caller's headers.
THEOREM AttributedWhenServed == System => []Attributed
<1>1. ASSUME SInv, Quiet, Proved!Attributed
      PROVE  Attributed
  <2> SUFFICES ASSUME NEW c \in Call, pc[c] = "sent", NEW n \in Header
               PROVE  sent[c][n] = IF Forwarded(n) /\ Get(inbound[c], n) # Empty
                                   THEN <<Get(inbound[c], n)>>
                                   ELSE configured[n]
    BY DEF Attributed
  <2>1. Proved!Forwarded(n) <=> Forwarded(n)
    BY <1>1, WhileServing DEF Proved!Forwarded, Forwarded
  <2> QED
    BY <1>1, <2>1 DEF Proved!Attributed, Get, Proved!Get
<1>2. Proved!Spec => []Proved!Attributed
  BY AssumptionsMet, Proved!AttributedCorrect
<1> QED
  BY <1>1, <1>2, SInvHolds, QuietHolds, Refinement, CallsAreProved, PTL
     DEF ImplementsToolCalls

\* And no request bears a caller's header in place of one that the operator set.
THEOREM OperatorWinsWhenServed == System => []OperatorWins
<1>1. Proved!OperatorWins => OperatorWins
  BY DEF Proved!OperatorWins, OperatorWins, Get, Proved!Get
<1>2. Proved!Spec => []Proved!OperatorWins
  BY AssumptionsMet, Proved!OperatorWinsCorrect
<1> QED
  BY <1>1, <1>2, Refinement, CallsAreProved, PTL DEF ImplementsToolCalls
=============================================================================
