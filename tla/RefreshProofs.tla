--------------------------- MODULE RefreshProofs ---------------------------
(***************************************************************************)
(* What holds of Refresh for every backend, every schema and every build.  *)
(*                                                                         *)
(* CountAgrees and OneVersion are not inductive alone. Placed adds where   *)
(* the attempt's variables stand in each phase, and that every version a   *)
(* replica serves counts as recent, which is what lets a reflection that   *)
(* began before a redeployment be published after it.                      *)
(***************************************************************************)
EXTENDS Refresh, FiniteSetTheorems, TLAPS

\* Where the locals of an attempt stand.
Placed ==
    /\ \A r \in Replica : version[r] \in recent
    /\ phase = "wait" => ~booting
    /\ booting => tools = {}
    /\ stream \in Replica => phase \in {"list", "files"}
    /\ phase \in {"wait", "connect", "list", "exited"} => names = {} /\ all = {}
    /\ phase = "build" => names = {}
    /\ phase = "files" /\ stream \in Replica =>
          /\ names \subseteq Serves[version[stream]]
          /\ \A s \in Serves[version[stream]] \ names :
                Files[version[stream]][s] # {}

IInv == TypeOK /\ CountAgrees /\ OneVersion /\ Placed

-----------------------------------------------------------------------------
(* What is built.                                                          *)

\* A table of a set of tools is part of it, and empty only if the set is:
\* dropping the tools whose name is taken never drops the last one.
LEMMA TableOf ==
    ASSUME NEW ts \in SUBSET Tool, IsFiniteSet(ts), NEW t \in Tables(ts)
    PROVE  /\ t \in SUBSET Tool
           /\ IsFiniteSet(t)
           /\ t = {} <=> ts = {}
<1>1. t \in SUBSET ts
  BY DEF Tables
<1>2. IsFiniteSet(t)
  BY <1>1, FS_Subset
<1>3. t = {} => ts = {}
  BY DEF Tables
<1> QED
  BY <1>1, <1>2, <1>3

\* The tools of a build, their table and their number have their types, and
\* the number is zero only of no tools.
LEMMA BuildOf ==
    ASSUME NEW fs \in SUBSET File
    PROVE  /\ Build[fs].tools \in SUBSET Tool
           /\ IsFiniteSet(Build[fs].tools)
           /\ Cardinality(Build[fs].tools) \in Nat
           /\ Cardinality(Build[fs].tools) = 0 <=> Build[fs].tools = {}
<1>1. Build[fs].tools \in SUBSET Tool /\ IsFiniteSet(Build[fs].tools)
  BY BuildAssumption
<1> QED
  BY <1>1, FS_CardinalityType, FS_EmptySet

-----------------------------------------------------------------------------
(* Types.                                                                  *)

LEMMA TypeStep == TypeOK /\ [Next]_vars => TypeOK'
<1> SUFFICES ASSUME TypeOK, [Next]_vars
             PROVE  TypeOK'
  OBVIOUS
<1> USE SchemaAssumption, SettingAssumption DEF TypeOK
<1>abandon. ASSUME Abandon PROVE TypeOK'
  BY <1>abandon DEF Abandon, backend, server
<1>1. ASSUME NEW r \in Replica, NEW v \in Version, Deploy(r, v)
      PROVE  TypeOK'
  BY <1>1 DEF Deploy, server
<1>2. ASSUME NEW r \in Replica, Stall(r)
      PROVE  TypeOK'
  BY <1>2 DEF Stall, server, attempt
<1>3. ASSUME NEW r \in Replica, Recover(r)
      PROVE  TypeOK'
  BY <1>3 DEF Recover, server, attempt
<1>4. CASE Drop
  BY <1>4 DEF Drop, server
<1>5. CASE TimeoutSlow
  BY <1>5 DEF TimeoutSlow, server
<1>6. CASE Tick
  BY <1>6 DEF Tick, backend, server, attempt
<1>7. CASE TimeoutStalled
  BY <1>7, <1>abandon DEF TimeoutStalled
<1>8. CASE StartAttempt
  BY <1>8 DEF StartAttempt, backend, server
<1>9. ASSUME NEW r \in Replica, Connect(r)
      PROVE  TypeOK'
  BY <1>9 DEF Connect, backend, server
<1>10. CASE ListServices
  BY <1>10 DEF ListServices, Answering, backend, server
<1>11. ASSUME NEW s \in Service, FetchFiles(s)
       PROVE  TypeOK'
  BY <1>11 DEF FetchFiles, Answering, backend, server
<1>12. CASE CloseStream
  BY <1>12 DEF CloseStream, backend, server
<1>13. CASE StreamError
  BY <1>13, <1>abandon DEF StreamError
<1>14. CASE RejectBuild
  BY <1>14, <1>abandon DEF RejectBuild
<1>15. CASE KeepTools
  BY <1>15, <1>abandon DEF KeepTools
<1>16. CASE Install
  <2>1. tools' \in SUBSET Tool /\ toolCount' \in Nat
    BY <1>16, BuildOf, TableOf DEF Install
  <2> QED
    BY <1>16, <2>1 DEF Install, Finish, backend
<1>17. CASE OpenServer
  <2>1. tools' \in SUBSET Tool /\ toolCount' \in Nat
    BY <1>17, BuildOf, TableOf, FS_CardinalityType DEF OpenServer
  <2> QED
    BY <1>17, <2>1 DEF OpenServer, Finish, backend
<1>18. CASE UNCHANGED vars
  BY <1>18 DEF vars, backend, server, attempt
<1> QED
  BY <1>1, <1>2, <1>3, <1>4, <1>5, <1>6, <1>7, <1>8, <1>9, <1>10, <1>11,
     <1>12, <1>13, <1>14, <1>15, <1>16, <1>17, <1>18
     DEF Next, Environment, Worker

-----------------------------------------------------------------------------
(* The inductive invariant.                                                *)

LEMMA InitIInv == Init => IInv
<1> SUFFICES ASSUME Init PROVE IInv
  OBVIOUS
<1> USE DEF Init
<1>1. TypeOK
  <2>1. version \in [Replica -> Version] /\ recent \subseteq Version
    OBVIOUS
  <2>2. deploys \in 0..MaxDeploys /\ faults \in 0..MaxFaults
    BY SettingAssumption
  <2> QED
    BY <2>1, <2>2 DEF TypeOK
<1>2. CountAgrees /\ OneVersion /\ Placed
  BY SentinelAssumption DEF CountAgrees, OneVersion, Placed
<1> QED
  BY <1>1, <1>2 DEF IInv

\* Only two steps touch the tools or the count.
LEMMA OnlyPublishing ==
    ASSUME [Next]_vars
    PROVE  UNCHANGED server \/ Install \/ OpenServer
BY DEF Next, Environment, Worker, Deploy, Stall, Recover, Drop, TimeoutSlow,
       Tick, TimeoutStalled, StartAttempt, Connect, ListServices, FetchFiles,
       CloseStream, StreamError, RejectBuild, KeepTools, Abandon, vars

LEMMA CountStep == IInv /\ [Next]_vars => CountAgrees'
<1> SUFFICES ASSUME IInv, [Next]_vars
             PROVE  CountAgrees'
  OBVIOUS
<1> USE DEF IInv, TypeOK, CountAgrees
<1>1. CASE UNCHANGED server
  BY <1>1 DEF server
<1>2. CASE Install
  BY <1>2, BuildOf, TableOf DEF Install
<1>3. CASE OpenServer
  BY <1>3, BuildOf, TableOf, FS_EmptySet DEF OpenServer
<1>4. UNCHANGED server \/ Install \/ OpenServer
  BY OnlyPublishing
<1> QED
  BY <1>1, <1>2, <1>3, <1>4

\* An attempt that is abandoned, or has published its tools, holds nothing.
LEMMA Cleared ==
    ASSUME IInv, TypeOK', stream' \notin Replica, phase' \in {"wait", "exited"},
           names' = {}, all' = {}, UNCHANGED <<version, recent>>,
           phase' = "wait" => ~booting', booting' => tools' = {}
    PROVE  OneVersion' /\ Placed'
BY SentinelAssumption DEF IInv, OneVersion, Placed

LEMMA AbandonStep ==
    ASSUME IInv, TypeOK', Abandon
    PROVE  OneVersion' /\ Placed'
<1>1. /\ stream' \notin Replica /\ names' = {} /\ all' = {}
      /\ UNCHANGED <<version, recent>>
      /\ phase' \in {"wait", "exited"}
      /\ phase' = "wait" => ~booting'
      /\ booting' => tools' = {}
  BY SentinelAssumption DEF Abandon, backend, server, IInv, TypeOK, Placed
<1> QED
  BY <1>1, Cleared

LEMMA AttemptStep == IInv /\ [Next]_vars => OneVersion' /\ Placed'
<1> SUFFICES ASSUME IInv, [Next]_vars
             PROVE  OneVersion' /\ Placed'
  OBVIOUS
<1>typed. TypeOK'
  BY TypeStep DEF IInv
<1> USE SentinelAssumption, SchemaAssumption, <1>typed
        DEF IInv, TypeOK, OneVersion, Placed
<1>1. ASSUME NEW r \in Replica, NEW v \in Version, Deploy(r, v)
      PROVE  OneVersion' /\ Placed'
  <2>1. stream' \in Replica => stream' = stream /\ version'[stream] = version[stream]
    BY <1>1 DEF Deploy
  <2> QED
    BY <1>1, <2>1 DEF Deploy, server
<1>2. ASSUME NEW r \in Replica, Stall(r) \/ Recover(r)
      PROVE  OneVersion' /\ Placed'
  BY <1>2 DEF Stall, Recover, server, attempt
<1>3. CASE Drop
  BY <1>3 DEF Drop, server
<1>4. CASE TimeoutSlow
  BY <1>4, Cleared DEF TimeoutSlow, server
<1>5. CASE Tick
  BY <1>5 DEF Tick, backend, server, attempt
<1>6. CASE TimeoutStalled \/ StreamError \/ RejectBuild \/ KeepTools
  BY <1>6, AbandonStep DEF TimeoutStalled, StreamError, RejectBuild, KeepTools
<1>7. CASE StartAttempt
  BY <1>7 DEF StartAttempt, backend, server
<1>8. ASSUME NEW r \in Replica, Connect(r)
      PROVE  OneVersion' /\ Placed'
  BY <1>8 DEF Connect, backend, server
<1>9. CASE ListServices
  BY <1>9 DEF ListServices, Answering, Gathered, backend, server
<1>10. ASSUME NEW s \in Service, FetchFiles(s)
       PROVE  OneVersion' /\ Placed'
  <2> DEFINE v == version[stream]
  <2>1. stream \in Replica /\ v \in Version /\ s \in Serves[v]
    BY <1>10 DEF FetchFiles, Answering
  <2>2. Serves[v] \ names' = (Serves[v] \ names) \cup {s}
    BY <1>10, <2>1 DEF FetchFiles
  <2>3. all' = Gathered(v, names')
    BY <1>10, <2>1, <2>2 DEF FetchFiles, Gathered
  <2>4. \A x \in Serves[v] \ names' : Files[v][x] # {}
    BY <1>10, <2>1, <2>2 DEF FetchFiles
  <2> QED
    BY <1>10, <2>1, <2>3, <2>4 DEF FetchFiles, backend, server
<1>11. CASE CloseStream
  <2>1. stream \in Replica /\ names = {} /\ version[stream] \in recent
    BY <1>11 DEF CloseStream, Answering
  <2>2. Readable(version[stream]) /\ all = Reflected(version[stream])
    BY <1>11, <2>1 DEF CloseStream, Readable, Reflected
  <2> QED
    BY <1>11, <2>1, <2>2 DEF CloseStream, backend, server
<1>12. CASE Install \/ OpenServer
  <2>1. names = {} /\ stream \notin Replica
    BY <1>12 DEF Install, OpenServer
  <2> QED
    BY <1>12, <2>1, Cleared DEF Install, OpenServer, Finish, backend
<1>13. CASE UNCHANGED vars
  BY <1>13 DEF vars, backend, server, attempt
<1> HIDE DEF IInv, TypeOK, OneVersion, Placed
<1> QED
  BY <1>1, <1>2, <1>3, <1>4, <1>5, <1>6, <1>7, <1>8, <1>9, <1>10, <1>11,
     <1>12, <1>13 DEF Next, Environment, Worker

LEMMA StepIInv == IInv /\ [Next]_vars => IInv'
BY TypeStep, CountStep, AttemptStep DEF IInv

LEMMA Invariance == Spec => []IInv
BY InitIInv, StepIInv, PTL DEF Spec

-----------------------------------------------------------------------------
(* The theorems.                                                           *)

\* Every variable of the refresh loop keeps its type, whatever the backend does.
THEOREM TypeCorrect == Spec => []TypeOK
BY Invariance, PTL DEF IInv

\* The loop's count (main.go:475) is zero exactly when the server holds no
\* tools, for every schema and every run of failures.
THEOREM CountCorrect == Spec => []CountAgrees
BY Invariance, PTL DEF IInv

\* What a reflection gathers is one version's, for any number of replicas that
\* are redeployed at any time.
THEOREM OneVersionCorrect == Spec => []OneVersion
BY Invariance, PTL DEF IInv

\* A refresh that would drop a non-empty set to zero is skipped (refresh.go:24).
\* What makes it true is that the count the guard reads agrees with the tools.
THEOREM NoRefreshEmptiesTheServer == Spec => ToolsNeverVanish
<1>1. IInv /\ [Next]_vars => [tools # {} => tools' # {}]_vars
  <2> SUFFICES ASSUME IInv, [Next]_vars, tools # {}
               PROVE  tools' # {} \/ UNCHANGED vars
    OBVIOUS
  <2>1. CASE UNCHANGED server
    BY <2>1 DEF server
  <2>2. CASE Install
    <3>1. ~booting /\ toolCount # 0
      BY <2>2 DEF Install, IInv, CountAgrees
    <3>2. Build[all].tools # {}
      BY <2>2, <3>1 DEF Install
    <3> QED
      BY <2>2, <3>2, BuildOf, TableOf DEF Install, IInv, TypeOK
  <2>3. CASE OpenServer
    BY <2>3 DEF OpenServer, IInv, Placed
  <2>4. UNCHANGED server \/ Install \/ OpenServer
    BY OnlyPublishing
  <2> QED
    BY <2>1, <2>2, <2>3, <2>4
<1> QED
  BY <1>1, Invariance, PTL DEF Spec, ToolsNeverVanish

\* The step that publishes tools publishes what one recent version offers.
LEMMA Published ==
    ASSUME IInv, Install \/ OpenServer
    PROVE  /\ \E v \in recent : tools' \in Offer[v]
           /\ UNCHANGED <<version, recent>>
<1>1. PICK v \in recent : Readable(v) /\ all = Reflected(v)
  BY DEF Install, OpenServer, IInv, OneVersion
<1>2. v \in Version
  BY DEF IInv, TypeOK
<1>3. tools' \in Tables(Build[Reflected(v)].tools)
  BY <1>1 DEF Install, OpenServer
<1>4. Resolved(Reflected(v)) /\ Build[Reflected(v)].ok
  BY <1>1 DEF Install, OpenServer, Buildable
<1>5. tools' \in Offer[v]
  BY <1>1, <1>2, <1>3, <1>4 DEF Offer
<1> QED
  BY <1>5 DEF Install, OpenServer, Finish, backend

\* The refresh loop implements the catalog: clients see only whole tool sets of
\* versions that were live since the poll began, replaced in one step.
THEOREM Refinement == Spec => ImplementsCatalog
<1>1. Init => Catalog!Init
  BY DEF Init, Catalog!Init
<1>2. IInv /\ [Next]_vars => [Catalog!Next]_(Catalog!vars)
  <2> SUFFICES ASSUME IInv, [Next]_vars
               PROVE  Catalog!Next \/ UNCHANGED Catalog!vars
    OBVIOUS
  <2>1. ASSUME NEW r \in Replica, NEW v \in Version, Deploy(r, v)
        PROVE  Catalog!Deploy
    BY <2>1 DEF Deploy, Catalog!Deploy, server
  <2>2. CASE StartAttempt
    <3>1. ~booting
      BY <2>2 DEF StartAttempt, IInv, Placed
    <3>2. /\ recent' = {version[r] : r \in Replica}
          /\ UNCHANGED <<version, booting, tools>>
      BY <2>2 DEF StartAttempt, server, backend
    <3>3. Catalog!Poll
      BY <3>1, <3>2, Zenon DEF Catalog!Poll
    <3> QED
      BY <3>3 DEF Catalog!Next
  <2>3. CASE OpenServer
    <3>1. booting = TRUE /\ booting' = FALSE
      BY <2>3 DEF OpenServer, IInv, TypeOK
    <3>2. (\E v \in recent : tools' \in Offer[v]) /\ UNCHANGED <<version, recent>>
      BY <2>3, Published
    <3>3. Catalog!Open
      BY <3>1, <3>2, Zenon DEF Catalog!Open
    <3> QED
      BY <3>3 DEF Catalog!Next
  <2>4. CASE Install
    <3>1. ASSUME tools' = {} PROVE tools = {}
      <4>1. Build[all].tools = {}
        BY <2>4, <3>1, BuildOf, TableOf DEF Install, IInv, TypeOK
      <4> QED
        BY <2>4, <4>1 DEF Install, IInv, CountAgrees
    <3>2. (\E v \in recent : tools' \in Offer[v]) /\ UNCHANGED <<version, recent>>
      BY <2>4, Published
    <3>3. ~booting /\ UNCHANGED booting
      BY <2>4 DEF Install
    <3>4. Catalog!Republish
      BY <3>1, <3>2, <3>3, Zenon DEF Catalog!Republish
    <3> QED
      BY <3>4 DEF Catalog!Next
  <2>5. CASE UNCHANGED <<version, recent, booting, tools>>
    BY <2>5 DEF Catalog!vars
  <2>6. \/ UNCHANGED <<version, recent, booting, tools>>
        \/ \E r \in Replica, v \in Version : Deploy(r, v)
        \/ StartAttempt \/ OpenServer \/ Install
    BY DEF Next, Environment, Worker, Stall, Recover, Drop, TimeoutSlow, Tick,
           TimeoutStalled, Connect, ListServices, FetchFiles, CloseStream,
           StreamError, RejectBuild, KeepTools, Abandon, vars, server, backend
  <2> QED
    BY <2>1, <2>2, <2>3, <2>4, <2>5, <2>6 DEF Catalog!Next
<1> QED
  BY <1>1, <1>2, Invariance, PTL DEF Spec, ImplementsCatalog, Catalog!Spec
=============================================================================
