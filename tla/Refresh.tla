------------------------------ MODULE Refresh ------------------------------
(***************************************************************************)
(* How the tool set of a grpcmcp process follows the schema of its backend *)
(* when it runs with -reflect: the load at startup (main.go), the refresh  *)
(* loop (main.go, the goroutine that ticks) and one attempt of it          *)
(* (refresh.go, refreshTools), with every round trip of the reflection     *)
(* stream (grpcmcp/server.go, LoadDescriptorsFromReflection) a step of its *)
(* own, so that replicas may be redeployed, stall or fail between any two. *)
(*                                                                         *)
(* What the tool build computes from a set of files is the constant Build; *)
(* MCRefresh computes it with the definitions of ToolNaming.               *)
(***************************************************************************)
EXTENDS Naturals, FiniteSets

CONSTANTS
    Replica,     \* the backend's replicas, behind one address
    Version,     \* the schema versions a replica may serve
    Service,     \* the service names reflection may list
    File,        \* the proto files reflection may return
    Name,        \* tool names
    Method,      \* the backend methods behind the tools
    Serves,      \* [Version -> the services it lists]
    Files,       \* [Version -> [Service -> the files it answers with]]
    Deps,        \* [File -> the files it imports]
    Build,       \* [sets of files -> [ok, tools]]: the namer and Tools()
    Bounded,     \* -refresh-timeout is positive
    NoStream,    \* no reflection stream is open
    Broken,      \* the stream failed and the next call on it returns an error
    MaxDeploys,  \* bound: redeployments in a behaviour
    MaxFaults    \* bound: stalls, dropped streams and slow answers

Tool == [name : Name, method : Method]

ASSUME SchemaAssumption ==
    /\ Serves \in [Version -> SUBSET Service]
    /\ Files \in [Version -> [Service -> SUBSET File]]
    /\ Deps \in [File -> SUBSET File]

ASSUME BuildAssumption ==
    /\ Build \in [SUBSET File -> [ok : BOOLEAN, tools : SUBSET Tool]]
    /\ \A fs \in SUBSET File : IsFiniteSet(Build[fs].tools)

ASSUME SentinelAssumption ==
    /\ NoStream \notin Replica
    /\ Broken \notin Replica
    /\ NoStream # Broken

ASSUME SettingAssumption ==
    /\ Bounded \in BOOLEAN
    /\ MaxDeploys \in Nat
    /\ MaxFaults \in Nat

VARIABLES
    version,    \* [Replica -> Version]: what each replica serves
    stalled,    \* replicas that accept connections and then do not answer
    deploys,    \* redeployments so far (bounded)
    faults,     \* faults so far (bounded)
    tools,      \* the tool set of the MCP server, one entry per name
    toolCount,  \* the loop's local of that name, passed as previousToolLen
    booting,    \* the process is still loading its first tool set
    phase,      \* where the one thread that reflects stands
    stream,     \* the replica the stream is pinned to, NoStream or Broken
    names,      \* listed services whose files are still to be fetched
    all,        \* the files gathered so far
    tick,       \* the ticker's channel holds a tick
    recent      \* history: versions some replica served since the attempt began

backend == <<version, stalled, deploys, faults>>
server  == <<tools, toolCount, booting>>
attempt == <<phase, stream, names, all>>
vars    == <<backend, server, attempt, tick, recent>>

-----------------------------------------------------------------------------
(* What a schema amounts to.                                               *)

\* The files of version v, but for those of the services in left.
Gathered(v, left) == UNION {Files[v][s] : s \in Serves[v] \ left}

\* Every file a complete reflection of version v gathers.
Reflected(v) == Gathered(v, {})

\* The backend has files for every service that version v lists.
Readable(v) == \A s \in Serves[v] : Files[v][s] # {}

\* topSort finds every import among the gathered files.
Resolved(fs) == \A f \in fs : Deps[f] \subseteq fs

\* AddTools and SetTools keep one tool per name. The files come out of a map,
\* in no fixed order, so any of the tools that share a name may be the one.
Tables(ts) ==
    {t \in SUBSET ts :
        /\ \A x \in ts : \E y \in t : y.name = x.name
        /\ \A x, y \in t : x.name = y.name => x = y}

\* The tool sets a process may serve when it has version v, whole.
Offer ==
    [v \in Version |->
        {t \in Tables(Build[Reflected(v)].tools) :
            /\ Readable(v)
            /\ Resolved(Reflected(v))
            /\ Build[Reflected(v)].ok}]

Catalog == INSTANCE ToolCatalog WITH
    live <- version, up <- ~booting, catalog <- tools

-----------------------------------------------------------------------------
Init ==
    /\ version \in [Replica -> Version]
    /\ stalled = {}
    /\ deploys = 0
    /\ faults = 0
    /\ tools = {}
    /\ toolCount = 0
    /\ booting = TRUE
    /\ phase = "connect"
    /\ stream = NoStream
    /\ names = {}
    /\ all = {}
    /\ tick = FALSE
    /\ recent = {version[r] : r \in Replica}

-----------------------------------------------------------------------------
(* The backend.                                                            *)

\* A replica restarts, with the same version or another. A stream that was
\* pinned to it breaks.
Deploy(r, v) ==
    /\ deploys < MaxDeploys
    /\ deploys' = deploys + 1
    /\ version' = [version EXCEPT ![r] = v]
    /\ recent' = recent \cup {v}
    /\ stalled' = stalled \ {r}
    /\ stream' = IF stream = r THEN Broken ELSE stream
    /\ UNCHANGED <<faults, server, phase, names, all, tick>>

Stall(r) ==
    /\ faults < MaxFaults
    /\ r \notin stalled
    /\ stalled' = stalled \cup {r}
    /\ faults' = faults + 1
    /\ UNCHANGED <<version, deploys, server, attempt, tick, recent>>

Recover(r) ==
    /\ r \in stalled
    /\ stalled' = stalled \ {r}
    /\ UNCHANGED <<version, deploys, faults, server, attempt, tick, recent>>

\* The connection is lost, and with it the stream.
Drop ==
    /\ faults < MaxFaults
    /\ stream \in Replica
    /\ stream' = Broken
    /\ faults' = faults + 1
    /\ UNCHANGED <<version, stalled, deploys, server, phase, names, all, tick,
                   recent>>

-----------------------------------------------------------------------------
(* The ticker and the loop.                                                *)

\* The channel of a time.Ticker holds one tick; later ones are dropped.
Tick ==
    /\ ~booting
    /\ ~tick
    /\ tick' = TRUE
    /\ UNCHANGED <<backend, server, attempt, recent>>

StartAttempt ==
    /\ phase = "wait"
    /\ tick
    /\ tick' = FALSE
    /\ phase' = "connect"
    /\ recent' = {version[r] : r \in Replica}
    /\ UNCHANGED <<backend, server, stream, names, all>>

-----------------------------------------------------------------------------
(* One attempt. A refresh that fails leaves the server's tools and the      *)
(* loop's count alone; the load at startup ends the process.               *)

Reflecting == phase \in {"connect", "list", "files"}

Answering == stream \in Replica \ stalled

\* A plausible slip: the count that refreshTools returns with an error is kept.
Bug_Abandon ==
    /\ phase' = IF booting THEN "exited" ELSE "wait"
    /\ stream' = NoStream
    /\ names' = {}
    /\ all' = {}
    /\ toolCount' = 0
    /\ UNCHANGED <<backend, tools, booting, tick, recent>>

Abandon ==
    /\ phase' = IF booting THEN "exited" ELSE "wait"
    /\ stream' = NoStream
    /\ names' = {}
    /\ all' = {}
    /\ UNCHANGED <<backend, server, tick, recent>>

\* The stream opens on whichever replica the address resolves to.
Connect(r) ==
    /\ phase = "connect"
    /\ phase' = "list"
    /\ stream' = r
    /\ UNCHANGED <<backend, server, names, all, tick, recent>>

ListServices ==
    /\ phase = "list"
    /\ Answering
    /\ names' = Serves[version[stream]]
    /\ phase' = "files"
    /\ UNCHANGED <<backend, server, stream, all, tick, recent>>

\* A plausible slip: every request opens a stream of its own.
Bug_FetchFiles(s) ==
    /\ phase = "files"
    /\ s \in names
    /\ \E r \in Replica \ stalled :
          /\ Files[version[r]][s] # {}
          /\ all' = all \cup Files[version[r]][s]
    /\ names' = names \ {s}
    /\ UNCHANGED <<backend, server, phase, stream, tick, recent>>

FetchFiles(s) ==
    /\ phase = "files"
    /\ s \in names
    /\ Answering
    /\ Files[version[stream]][s] # {}
    /\ all' = all \cup Files[version[stream]][s]
    /\ names' = names \ {s}
    /\ UNCHANGED <<backend, server, phase, stream, tick, recent>>

\* A plausible slip: the end of a broken stream is taken for the end of the
\* answers.
Bug_CloseStream ==
    /\ phase = "files"
    /\ \/ names = {} /\ Answering
       \/ stream = Broken
    /\ phase' = "build"
    /\ stream' = NoStream
    /\ names' = {}
    /\ UNCHANGED <<backend, server, all, tick, recent>>

CloseStream ==
    /\ phase = "files"
    /\ names = {}
    /\ Answering
    /\ phase' = "build"
    /\ stream' = NoStream
    /\ UNCHANGED <<backend, server, names, all, tick, recent>>

\* The stream broke, or the backend has no file for a service it listed.
StreamError ==
    /\ Reflecting
    /\ \/ stream = Broken
       \/ /\ phase = "files"
          /\ Answering
          /\ \E s \in names : Files[version[stream]][s] = {}
    /\ Abandon

\* A plausible slip: the deadline bounds the first round trip only.
Bug_TimeoutStalled ==
    /\ Bounded
    /\ ~booting
    /\ phase \in {"connect", "list"}
    /\ stream \in stalled
    /\ Abandon

\* The deadline covers every round trip. The load at startup has none.
TimeoutStalled ==
    /\ Bounded
    /\ ~booting
    /\ Reflecting
    /\ stream \in stalled
    /\ Abandon

\* The same deadline, passed because the answers were slow.
TimeoutSlow ==
    /\ Bounded
    /\ ~booting
    /\ Reflecting
    /\ faults < MaxFaults
    /\ faults' = faults + 1
    /\ phase' = "wait"
    /\ stream' = NoStream
    /\ names' = {}
    /\ all' = {}
    /\ UNCHANGED <<version, stalled, deploys, server, tick, recent>>

Buildable == Resolved(all) /\ Build[all].ok

\* An import is missing, or the tool build fails.
RejectBuild ==
    /\ phase = "build"
    /\ ~Buildable
    /\ Abandon

\* No tool is left of a set that had some.
KeepTools ==
    /\ phase = "build"
    /\ ~booting
    /\ Buildable
    /\ Build[all].tools = {}
    /\ toolCount > 0
    /\ Abandon

Finish ==
    /\ phase' = "wait"
    /\ all' = {}
    /\ UNCHANGED <<backend, stream, names, tick, recent>>

\* A plausible slip: a set of the same size is taken for an unchanged one.
Bug_InstallChanged ==
    /\ phase = "build"
    /\ ~booting
    /\ Buildable
    /\ Cardinality(Build[all].tools) # toolCount
    /\ tools' \in Tables(Build[all].tools)
    /\ toolCount' = Cardinality(Build[all].tools)
    /\ UNCHANGED booting
    /\ Finish

\* A plausible slip: the index of the last tool is taken for their number.
Bug_InstallLastIndex ==
    /\ phase = "build"
    /\ ~booting
    /\ Buildable
    /\ Build[all].tools = {} => toolCount = 0
    /\ tools' \in Tables(Build[all].tools)
    /\ toolCount' = Cardinality(Build[all].tools) - 1
    /\ UNCHANGED booting
    /\ Finish

\* SetTools replaces the whole set. The count is that of the tools built, and
\* it may exceed the number of names.
Install ==
    /\ phase = "build"
    /\ ~booting
    /\ Buildable
    /\ Build[all].tools = {} => toolCount = 0
    /\ tools' \in Tables(Build[all].tools)
    /\ toolCount' = Cardinality(Build[all].tools)
    /\ UNCHANGED booting
    /\ Finish

\* A plausible slip: the loop starts from no tools.
Bug_OpenServer ==
    /\ phase = "build"
    /\ booting
    /\ Buildable
    /\ tools' \in Tables(Build[all].tools)
    /\ booting' = FALSE
    /\ UNCHANGED toolCount
    /\ Finish

\* The first tool set is served as it is, empty or not, and the loop starts
\* from the number of tools the server lists.
OpenServer ==
    /\ phase = "build"
    /\ booting
    /\ Buildable
    /\ tools' \in Tables(Build[all].tools)
    /\ toolCount' = Cardinality(tools')
    /\ booting' = FALSE
    /\ Finish

-----------------------------------------------------------------------------
Environment ==
    \/ \E r \in Replica, v \in Version : Deploy(r, v)
    \/ \E r \in Replica : Stall(r)
    \/ \E r \in Replica : Recover(r)
    \/ Drop
    \/ TimeoutSlow

Worker ==
    \/ StartAttempt
    \/ \E r \in Replica : Connect(r)
    \/ ListServices
    \/ \E s \in Service : FetchFiles(s)
    \/ CloseStream
    \/ StreamError
    \/ RejectBuild
    \/ KeepTools
    \/ Install
    \/ OpenServer

Next == Environment \/ Tick \/ TimeoutStalled \/ Worker

Spec == Init /\ [][Next]_vars

\* The thread that reflects runs whenever it can, the ticker ticks and a
\* deadline that is due passes. Nothing is assumed of the backend.
Fairness == WF_vars(Worker) /\ WF_vars(Tick) /\ WF_vars(TimeoutStalled)

FairSpec == Spec /\ Fairness

-----------------------------------------------------------------------------
(* Properties.                                                             *)

\* Every variable has its type.
TypeOK ==
    /\ version \in [Replica -> Version]
    /\ stalled \subseteq Replica
    /\ deploys \in 0..MaxDeploys
    /\ faults \in 0..MaxFaults
    /\ tools \subseteq Tool
    /\ toolCount \in Nat
    /\ booting \in BOOLEAN
    /\ phase \in {"wait", "connect", "list", "files", "build", "exited"}
    /\ stream \in Replica \cup {NoStream, Broken}
    /\ names \subseteq Service
    /\ all \subseteq File
    /\ tick \in BOOLEAN
    /\ recent \subseteq Version

\* The count the loop hands to refreshTools says truly whether the server
\* holds any tool, however many attempts failed since it was last set.
CountAgrees == ~booting => (toolCount = 0 <=> tools = {})

\* The files of an attempt all come from one version that was being served
\* while the attempt ran: a rollout in the middle of a reflection never mixes
\* two schemas. When the build starts, the files are all those of the version.
OneVersion ==
    /\ phase = "files" /\ stream \in Replica =>
          all = Gathered(version[stream], names)
    /\ phase = "build" => \E v \in recent : Readable(v) /\ all = Reflected(v)

\* Once the server has tools, no refresh takes the last of them away.
ToolsNeverVanish == [][tools # {} => tools' # {}]_vars

\* Clients only ever see the whole tool set of one version that was live since
\* the current poll began, replaced in one step (ToolCatalog).
ImplementsCatalog == Catalog!Spec

\* With a refresh timeout, an attempt ends even when the replica it talks to
\* has stalled for good, so the loop comes back to wait for its next tick.
AttemptEnds == (~booting /\ phase # "wait") ~> (phase = "wait")

\* Every replica answers and serves version v.
Settled(v) == stalled = {} /\ \A r \in Replica : version[r] = v

\* Once the backend has settled on a version that yields tools, the process
\* comes to serve that version's tools, and keeps to them.
Converges ==
    \A v \in Version :
        Offer[v] \notin {{}, {{}}} =>
            (<>[]Settled(v) => <>[](phase = "exited" \/ tools \in Offer[v]))
=============================================================================
