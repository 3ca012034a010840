# Verification of grpcmcp

TLA+ models of grpcmcp, the process that puts a gRPC backend behind an MCP
server, with the TLC runs that check them and the theorems TLAPS proves of them.
`PROJECT.json` lists the components, runs, mutants, hazards, findings and
theorems, and gives for every definition the source lines it stands for.

    tlc -workers 2 -config MCRefresh_safety.cfg MCRefresh     # one run
    tlapm RefreshProofs.tla                                   # one proof

## 1. The system

grpcmcp asks a backend for its schema by gRPC reflection (or reads a descriptor
file), turns every unary method into an MCP tool, and serves the tools over
stdio, streamable HTTP or SSE. A call of a tool becomes a request to the backend
that bears headers of the operator's, some of them forwarded from the caller.

| Component | Keeps | Does | Hard about it |
| --- | --- | --- | --- |
| Startup (`main.go`) | the flags, the configured headers | checks the flags in an order, loads files, reflects, starts the listener | which combination serves with a setting dropped; the order of the checks |
| Refresh loop (`refresh.go`, `main.go`) | the server's tools, `toolCount` | on every tick: reflect, name, build, replace all tools | a backend that rolls, stalls or breaks in the middle; a count that must agree with the tools |
| Reflection client (`grpcmcp/server.go`) | a stream, names and files gathered, the sort | list services, fetch their files, sort by imports | several round trips that must come from one schema; random map order; cycles |
| Tool namer (`main.go`) and builder (`grpcmcp/server.go`) | nothing | choose the methods, give each the shortest unique name | two scans of the files that must agree; uniqueness; clients that hold old names |
| Method options (`main.go`) | nothing | look for an option in the encoded options of a method | other types of value and other values under the same number |
| JSON schema (`buf/jsonschema.go`) | nothing across calls | a schema for each tool's input | recursion over types; limits of numbers; rules that overwrite one another |
| Tool calls (`grpcmcp/server.go`, `main.go`) | one shared map of headers | a chain of header providers for each call, then the request | maps are references and calls run at once |
| Certificate reloader (`tls.go`) | a cached pair, two recorded times, the last failure, a mutex | on every handshake: stat, read, load, or answer from the cache | files that change between any two system calls; concurrent handshakes; a log that blocks |
| HTTP gateway (`origin.go`) | nothing | refuses browsers and unknown protocol versions | it must stand before both HTTP transports, which are built on different paths |

They meet in three places. *Startup* fills the map of headers that every *tool call*
starts from, its collision check is what keeps a caller from replacing one, and it puts
the *gateway* before the transport. The *refresh loop* drives the *reflection client*, which hands its
files to the *namer* and the *builder*, which ask the *schema generator* for each
tool. The *reloader* is called by the listener that startup sets up, once for
every handshake, from as many goroutines as there are handshakes.

What makes each component correct:

* Refresh: clients see the whole tool set of one version of the schema, replaced
  in one step; a backend between two releases never empties it; whatever
  happens, the tools come to be those of the version the backend settles on.
* Sort: imports come first, each file once, failure only for a missing import.
* Naming: one name for one method, as short as documented; a client of a backend that
  grows never reaches a method by the name of another. Only marked methods have a tool.
* Schema: the generator ends; a schema takes what the rules of the backend allow, and
  nothing else but for named cases.
* Calls: a request bears its own caller's headers, and no caller's where the
  operator has set one.
* Reloader: no rotation is hidden by the cache, and none makes the certificate
  go back or costs the last good one; a rotation takes effect; a handshake is answered.
* Startup and gateway: what serves has the settings of its command line in force, and what
  the gateway refuses becomes no call.

## 2. The modules

    ToolCatalog      what the tool set promises           (abstract)
      ^ implemented by
    Refresh          the loop and one attempt of it
      Build <- ToolNaming   names and tools of a set of files
    ToolNames        a growing backend, a server that refreshes, a client that lists
      EXTENDS ToolNaming EXTENDS MethodOptions
    TopSort          the sort that ends a reflection
    MessageSchema    the recursion over message types
    FieldSchema      the schema of one field, of any scalar type
      EXTENDS IntegerSchema, FloatSchema, ListSchema, TextSchema, over JSONSchema
    ToolCalls        header maps of calls that run at once
      ^ implemented by
    Serving          Startup, the gateway and ToolCalls over one map of headers
      Main <- Startup       main, up to the listener
    CertReloader     the certificate cache

`MC<M>` puts module `<M>` on a small instance, and `<M>Proofs` holds its
theorems; `ServingProofs` uses those of `StartupProofs` and `ToolCallsProofs`. Two have
shorter names: `ToolProofs` is about `ToolNames`, and `SchemaProofs` about `MessageSchema` and
`FieldSchema`. Operators named `Bug_...` are slips that a change of the code could
make; they take no part in any specification and are there to show that the
properties would notice.

**Refresh.** `tools`, `toolCount` and `booting` are the MCP server's tool set, the
local of the goroutine in `main` and whether `main` has come to serve. `phase`,
`stream`, `names` and `all` are where the one thread stands that reflects, and its
locals in `LoadDescriptorsFromReflection`. Each round trip is an action
(`Connect`, `ListServices`, `FetchFiles`, `CloseStream`), between which a replica
may be redeployed (`Deploy`), stall, recover, or the connection may go (`Drop`). A
stream belongs to one replica, as gRPC streams do, and breaks with it.
`RejectBuild`, `KeepTools`, `Install` and `OpenServer` are the ends of an attempt.
Timeouts are `TimeoutStalled` (the replica does not answer) and `TimeoutSlow` (it
does, too late). What the build makes of a set of files is the constant `Build`; the
MC module computes it with `ToolNaming`.

**ToolNaming, MethodOptions, ToolNames.** `buildRegistry`, `buildToolNamer`,
`generateToolName`, `methodOptionFields`, `hasMethodOption` and the loop of `Tools` as
operators on sets of files. An identifier is the sequence of its words, dots and
underscores, so that flattening dots to underscores is what it is in the code. Options are
read as they are encoded, as a sequence of fields with a number, a wire type and what a
reader of a varint finds there. In `ToolNames` the backend grows by a file, a service or a
method (`Grow`), the server builds its tools again (`Refresh`) and a client fetches the list
(`List`), each when it likes: `listed` may lag behind `served`, and that behind `fds`. What the
files of a backend are known to be is `UniverseAssumption`: names are sequences of words (`Word`)
and separators, those of services and methods without a dot, a service has one method of a
name, and options were parsed. That names survive the flattening is no assumption but a
predicate, `Distinguishable`, which some universes do not meet.

**TopSort.** The recursion as a stack of frames. The loop over the map takes its
files in any order. Imports are taken in any order too, which is more than the code
does; it takes them as they are listed.

**MessageSchema.** `Generate` and `generateMessage` as a stack of frames, with the
path of the field each call is at. `accepts` collects `properties` and
`patternProperties` of the schemas at all depths. `StackLimit` stands for the
stack Go gives a goroutine; a frame more ends the process (`Descend`). Options the
program never sets (JSON names, strict, bundles) are left out.

**FieldSchema and the schemas it is made of.** `JSONSchema` says what a schema takes. One
module for each family of generators computes a schema from the rules of a field:
`IntegerSchema` (`generateIntValidation`, `generateUintValidation` and their callers),
`FloatSchema`, `ListSchema` (Booleans and enums) and `TextSchema` (strings, bytes and the
length of base64). `FieldSchema` dispatches on the type and adds the default. Beside each
generator stands what the rules allow, written without a look at the code, and the
properties compare the two, value by value. What a field of each kind is, `FieldAssumption`
says; of texts it is assumed that a character takes a byte at least. The widths are parameters, so that every rule
over every number can be looked at. In integer bounds the reference is in terms of real
numbers: bounds between which there is one must both be met, of other bounds one. What
protovalidate itself makes of `gt` and `lt` with the same number is not in this repository.
Where the code is narrower or wider than the rules, the case has a name (`Loosened`,
`FloatLoosened`, `BoolDiffers`, `Narrowed`) and is listed in section 3.

**ToolCalls.** A heap of header maps. `StaticHeaders`, `OperatorIdentity` and
`ForwardHeader` are the links of the provider chain, each of which gets the
reference the one before it returns; `Send` is `addHeaders` and the request. Forwarded
names are copied in any order.

**Serving.** `ToolCalls` with a `main` before it. The operator's headers are one map in the
code, and one here: `heap[Flags]`, which the flags fill, the step at `"bearer"` of `Startup`
writes the token to (`Start`), and `StaticHeaders` copies. `Startup` looks at first values
only, hence `headers <- SetHeaders`. The two handlers of `origin.go` are conditions on what
`Receive` may take in (`Admitted`), for the transports that `Listen` put behind them.
`Calls` is `ToolCalls` again, under a refinement mapping, to show that what `ToolCalls`
takes for granted (settings without collisions, a map that stays as it is) is what `main`
makes: until `main` serves, the map is taken to be complete, and of a command line that is
refused nothing is forwarded.

**CertReloader.** Every `os.Stat`, `os.ReadFile` and `tls.X509KeyPair` of `certificate()`
is a step inside the mutex, and the log line is one outside it. `disk` is the two files;
whoever rotates them may replace one, both at once, write garbage, or move a file away
and back. A pair is the number under which it was issued. Of a line to log only
whether there is one is kept; of a failure, what `newFailure` compares.

**Startup.** `at` runs through the checks of `main` in their order (`Order`). What
depends on the world (a file, a backend, a port) may go either way. The result is
what is in force: headers, backend settings, the filter, the tools' source, the
transport and the listener's settings, the guards of `origin.go` among them.

## 3. What the runs show

Twelve runs, ten of which pass.

| Run | Bounds | States | Shows |
| --- | --- | --- | --- |
| refresh_safety | 2 replicas, 8 versions, 2 deploys, 1 fault | 664 k | TypeOK, CountAgrees, OneVersion, ToolsNeverVanish, ImplementsCatalog while a backend rolls and through each kind of failure |
| refresh_liveness | 2 replicas, 3 versions, 2 deploys, 1 fault, fair | 42 k | AttemptEnds, Converges |
| names | 10 files, three of them later versions of others, 7 services named, option required | 29 k | NamesUnique, UnexposedHasNoSay, QualifiedForAReason, MarkedAlone, CallsReachWhatTheyMeant |
| cert_safety | 2 handshakes, 2 pairs, 3 writes, 1 expiry | 2.9 M | KeepsServing, CacheCoherent, Current, NeverRegress |
| cert_liveness | 2 handshakes, 2 pairs, 2 writes, fair | 260 k | Answered, RotationTakesEffect |
| tool_calls | 384 command lines, 2 calls, 5 headers, 5 requests | 26 k | Attributed, OperatorWins, KeptOut, ImplementsToolCalls |
| topsort | all import graphs over 3 files, each there or not, fair | 71 k | ImportsFirst, EachFileOnce, FailsForMissing, Ends |
| startup | 2 families of command lines, all combinations in each | 52 k | SettingsInForce, NoCollision, RefreshFitsSource |
| schema_messages | 3 message types, up to 2 fields of 10 kinds each, fair | 366 k | ListsEveryName, DemandsCanBeMet, DepthBounded, GenerateEnds |
| field_values | every rule of 6 kinds of types, see below | 194 k | IntegersExact, ListedExact, FloatsExact, TextsFit, DefaultFits |
| schema_recursive | as schema_messages | stops | NeverCrashes is violated |
| names_underscored | as names, with 2 files more and no option | stops | NamesUnique is violated |

*Why the bounds are enough.* A mixture of schemas needs one deploy during an attempt
and one version on another replica; the second deploy undoes it. The hazards of the
reloader need a change between two system calls of one reload and a second reload that
runs at the same time, or comes after one that failed; three writes, one of which made the files as they are found, let a
rotation in place (certificate, then key, or garbage, then a pair) overlap a reload. In
`cert_liveness` one write is left for the rotation: it replaces both files, or completes a
pair of which one half was garbage, and moving files away and back adds failures without
end. Naming conflicts are between two methods, and the third file of each kind shows a
conflict that comes or goes. The option comes first, after another field, with another value
before it, as another type under the same number, and not at all. Three files hold every shape that tells sorts apart (chain,
shared import, cycle of one, two and three). Three types nest three deep, which fits the
stack of four that the run gives, so that only recursion fills it. In `field_values` integers have 2 and 5 bits, of which JSON
holds those below 8 exactly (32 and 64 bits, and 2^53, in the code), with each bound on both sides of
each limit; floats and doubles reach 2 and 3, with the infinities beyond; enums have 4 bits,
gaps, two names for one number and both ends of the type; lengths of bytes run to 8 in
arithmetic modulo 32, so that it wraps for the last of them; texts have up to 3 characters of
up to 2 bytes. The contexts (presence, item, key, value, required, ignore-if-zero) are combined
with all rules of Booleans and enums and with single bounds of the others, as the code looks
at them in places that are apart. `tool_calls` has the transports, the token, three names to
forward, and headers that are not set, set, empty before a value, and of two values; two calls
show whatever one call can do to another. The two families of command lines are those of the
listener and headers, and those of the backend and tools; no check of `main` reads flags of
both, apart from `-hostport` and `-transport`, which are in both. The bounds of environment
actions (`MaxDeploys`, `MaxFaults`, `MaxIssue`, `MaxStamp`, `MaxExpired`) are guards of those
actions only; the program is not bounded, but for `Bounded`, which is whether
`-refresh-timeout` is set.

*Symmetry* is used for replicas, handshakes and calls in runs without liveness, where
the constants are interchangeable.

*Deadlock* is not checked where the system may stop: the process exits at startup, the
schema of a field is made, the sort or the generator has ended, a replica stays
stalled, the log blocks.

### Findings

Two runs expect a violation. Each checks one sentence of the repository that the code does
not keep.

| Run | The sentence | What the code does |
| --- | --- | --- |
| names_underscored | "the shortest name that stays unique" (`main.go:88`) | packages `a.b_c` and `a_b.c` flatten to one name |
| schema_recursive | "generates a JSON schema for the given message descriptor" (`buf/jsonschema.go:124`) | for a type that contains itself it recurses until Go ends the process |

### Further places where code and documents differ

The models do what the code does here too; no run is spent on them.

* `refresh.go:24` says that `previousToolLen` is how many tools the server holds. It is how
  many were built; of two with one name the server holds one. Only zero matters to the guard,
  and CountAgrees shows that zero is right.
* `tls_test.go` wants a line for each outage. A file that comes back with its old time
  recovers through the cache (`tls.go:131`), which does not clear `lastFailure`: the next outage
  for the same cause is not logged (`CacheHit`).
* `main.go:250` says of `-require-method-option` "Only expose methods with this option". Field
  number 0 is taken and filters nothing (`main.go:408`; the value `"zero"` of `Startup`).
* `README.md:59` offers `-descriptors` instead of reflection. With `-reflect` as well, a
  reflection that fails ends the process (`main.go:564`).
* A field of a well-known type is described field by field (`buf/jsonschema.go:1457`), a
  Timestamp as seconds and nanos, though the type has a "Custom generator." (`:288`), which is
  asked at the root only (`Generate`, `Descend`). No input that fills such a field as its
  schema says can be decoded. `ListsEveryName` makes an exception of the names inside
  well-known types: there the schema lists names and protojson takes none.
* One rule that cannot be read, however deep, makes the schema of the whole input an empty
  one (`buf/jsonschema.go:309`, `Unreadable`), with which the tool is published. What is
  checked of schemas is checked of those that were made.
* A comment that leaves a field out hides from the schema a name that protojson takes all the
  same, and the schema forbids it. That is what the comment asks for; `ListsEveryName` says
  which fields it speaks of (`LeftOut`).
* A service in no package has its simple name for a full one. When a backend grows by such a
  service, its tools take over the names that a namesake's had until then, and a client that
  holds one reaches the other method. `README.md:92` has the package path as the way out of a
  collision, which here is none. CallsReachWhatTheyMeant makes an exception of this case, and of
  no other; the file `"none"` of the run exercises it.
* "Clamp to JSON-safe integer range for 64-bit types." (`buf/jsonschema.go:727`): the clamped
  limits are computed, and used for narrower types only (`:768`).
* "reject JSON Schema with integer bounds exceeding this value" (`buf/jsonschema.go:54`): an
  upper bound beyond it is left out, a lower one is written as it is (`:898`).
* `-services` with separators and nothing between them exposes every service: `parseServices`
  (`main.go:577`) returns an empty list, which chooses all (`Chosen = {}`).
* An option that is given several times: the first varint decides (`HasMethodOption`), where
  protobuf takes the last of a field that is not repeated.
* One field whose rule names an infinity or NaN makes `json.Marshal` fail, and with it the whole
  tool set (`grpcmcp/server.go:219`; `Writable`, and `Consistent` in `ToolNaming`).
* The default of a bytes field is null, Go's nil, which the schema of a text does not take
  (`Default`).

Where a field's schema takes other values than the rules allow:

* A choice of two ranges loses `const` and `in` in its second branch, an unsigned one loses a
  lower bound above 2^53-1, and one of floats loses the range of the type.
* `not_in` is not looked at for integers, floats and strings, which the reference leaves out
  too; on enums it is lost for numbers when the enum is open.
* `const` and `in` of an open enum drop the numbers that have no name.
* `required` on a Boolean that cannot tell false from unset demands true, also of items, keys
  and values of collections and under ignore-if-zero, and `const` is not looked at then.
* `required` on a string or bytes sets a minimal length of 1, also where an empty value that
  is present would do.
* `len_bytes` sets the maximal length from `max_bytes`, which is 0 when that is not set.
* Of several constraints on the form of a string the last one that the code looks at stays
  (well-known forms, then prefix, suffix and contains, then a pattern).
* The length of base64 is computed with four times the length, which wraps in 64 bits
  above 2^62.

## 4. Fairness

*Refresh.* Weak fairness of `Worker` (a goroutine that can run does), of the ticker
and of a deadline that is due. Nothing is assumed of the backend: `Converges` asks that
it settle, and `AttemptEnds` holds with a replica stalled for good, because
`-refresh-timeout` is set in the run.

*CertReloader.* `FairSpec` has weak fairness inside the mutex and strong fairness of
`Lock`: Go's mutex goes into starvation mode after a millisecond and hands itself to the
longest waiter. Logging has none, as the writer of the log may block, and neither have
handshakes. `RotationTakesEffect` has both as a premise (`Busy`): a rotation is noticed by a
handshake or not at all. Whoever rotates the files owes nothing.

*TopSort, MessageSchema.* One goroutine runs on: weak fairness of `Next`.

## 5. What is proved

For every value of the constants that the named assumptions allow; these say only
which sets are finite, that sentinels are no members, how the limits of numbers are ordered,
and what type a parameter or a field has.

| Module | Theorems | Inductive invariant |
| --- | --- | --- |
| RefreshProofs | TypeCorrect, CountCorrect, OneVersionCorrect, NoRefreshEmptiesTheServer, Refinement | `Placed`: the phase determines which of stream, names and files are in use, and the version a stream is on is a recent one |
| CertReloaderProofs | TypeCorrect, CacheCorrect, NeverRegresses, CurrentCorrect, KeepsServingCorrect | `ReadsHold`: what was read of a file is still there while the file has the time recorded or seen before the read; with `Exclusive`, `Ordered`, `Forward` and `Knows`; `Served`: once the first call has succeeded there is a certificate, and no handshake begins before |
| ToolCallsProofs | TypeCorrect, AttributedCorrect, OperatorWinsCorrect, FlagsIntactCorrect (no step of a call writes to the map of the flags) | `Owned`: a call that writes has a map of its own; `InProgress`: what that map holds when some of the names are copied |
| StartupProofs | SettingsInForceCorrect, NoCollisionCorrect, RefreshFitsSourceCorrect | `IInv`: for each place of `main` the facts that the checks and steps before it have established |
| ServingProofs | KeptOutCorrect, Refinement, AttributedWhenServed, OperatorWinsWhenServed | `SInv`: until `main` serves, the invariant of Startup holds and the map is the flags' or, behind the token, the one asked for; then, the settings are accepted ones and the guards stand |
| TopSortProofs | TypeCorrect, ImportsFirstCorrect, EachFileOnceCorrect, FailsForMissingCorrect, EveryStepCounts | `Sound`, `Accounted`, `Complete`: the calls in progress descend in every ranking of the files, and each file seen is in progress or listed. `StepsLeft` counts the files not come to, the imports not looked at and the files not listed |
| ToolProofs | NamesUniqueCorrect, CallsReachWhatTheyMeantCorrect, QualifiedForAReasonCorrect, MarkedAloneCorrect, UnexposedHasNoSayCorrect | `IInv`: the server's tools were built from files of the backend's past, the client's from older ones yet, and what is older is within what is newer (`Within`) |
| SchemaProofs, of MessageSchema | TypeCorrect, DepthBoundedCorrect, DemandsCanBeMetCorrect, ListsEveryNameCorrect, ListsAtEveryDepth | `Descending`: a call is as far down in every ranking of the types as it is deep in the stack; `DemandsPending`: a field demanded and not listed is one some call waits at; `ListInv`: the calls are nested along one path (`Nested`), and what they have left behind is listed, and nothing else (`ListsPassed`) |
| SchemaProofs, of FieldSchema | IntegersExactCorrect, ListedExactCorrect, FloatsExactCorrect, TextsFitCorrect, DefaultFitsCorrect | `FieldInv`: the field is one of the given fields, and the schema is the one of that field with its default, or none yet |

None of the properties is inductive by itself. `CacheCoherent`, for instance, only
speaks of the cache, and a reload that is about to fill it can break it unless what it
has read is known to be current, which is `ReadsHold`. `Refinement` shows that each step
of `Refresh` is one of `ToolCatalog` or a stutter, under the mapping of the replicas'
versions to `live`, `~booting` to `up` and `tools` to `catalog`. The one of `Serving` composes
the proofs: it takes the invariant of `Startup` from an instance of `StartupProofs`, shows
that what `main` makes is what `ToolCalls` assumes, and takes the theorems of `ToolCalls` back
through an instance of `ToolCallsProofs`, so that they hold of the server from its command
line on. Of a command line the proofs assume that its forwarded names are header names, that
`-bearer-env` is absent, empty or a token, and that the map it asks for is one of `Offered`
(`CommandAssumption`, `CommandLineAssumption`).

*Names.* `NamesUniqueCorrect` and `CallsReachWhatTheyMeantCorrect` have `Distinguishable` as a
hypothesis: identifiers neither begin nor end with an underscore nor hold two in a row, and no
two services differ only in what is a dot and what an underscore. Without it `NamesUnique` is
false, as the run `names_underscored` shows, and as the finding says. `MCToolNames` has TLC
evaluate that the universe of the run `names` meets it and that of `names_underscored` does not.
Both theorems rest on `OneNameOneMethod`, which compares a name made over some files with one made
over more: `Split` finds the double underscore again that `Joined` put between service and
method, and the counts of a smaller set of files are no larger. `NamesUnique` is the case of equal
sets, in which the exception of services in no package is symmetric and so impossible. The other three
need no hypothesis. `QualifiedForAReasonCorrect` turns the two counts of the code into
statements about other tools (`RivalsAre`, `NamesakesAre`); `UnexposedHasNoSayCorrect` shows that
the counts stay when what has no tool is left out of the files.

*Names in schemas.* `ListsEveryName` compares the names that a finished schema lists with those
that protojson takes: `Reads` follows the fields of the input, through hidden and left-out
ones, and stops at well-known types, whose JSON form has no field names. Two differences are in the
code, and both have a name in the property: `LeftOut`, fields that a comment leaves out, and `InWellKnown`,
what the schema lists inside well-known types. The recursion gives each path a place in the order in which fields are visited: `Passed` is that order, as a
comparison of a path with the positions of the calls, and each step moves one call past one
field. At the end the stack is empty and everything was passed: the names of every path that no
comment leaves out are listed, and no others. `ListsAtEveryDepth` says that of paths of any length. `ListsEveryName`
has a bound, so that TLC can enumerate paths: longer ones go round (`GoesRound`), which no
schema that was made has without a field left out on the way.

*Values of fields.* A field is generated in one step, so the invariant is small, and the work
is in the lemmas: that the code's test for a choice of two ranges is the one of the rules
(`BetweenUnlessOr`), what the three shapes of integer schema take (`GenerateIntTakes`,
`GenerateUintTakes`, `UnruledTakes`), what that of a float takes and when it can be written
(`FloatNumbersTake`, `WritableUnlessExtreme`), and that the length of base64 loses nothing while
four times the length fits (`EncodedLength`). They hold for any widths with
`2 * NarrowHalf < SafeLimit < WideHalf`, so for 32 and 64 bits and 2^53, and for any `Modulus`,
where the run has 2 and 5 bits and a modulus of 32.

*Enums.* The code sorts an enum's numbers and folds them into runs, and `Ranges` is that fold. What
it computes for every set of numbers is an induction over data, for which the library's
theorems cannot be used. `RangesTake` goes around them: `RunsDefined` shows that the recursive
function of the fold exists, taking the greatest number last; `Covers` is what holds of a run that
is open after some of the numbers; `ExtendCovers` keeps it for one number more; and
`RunsCover` takes the least size of a set for which it fails (`LeastNatural`), which can be none.
From there `ListedExactCorrect` only needs what `Selected` leaves of the declared values, and that
the limits of 32 bits are the ends of `Int32` (`Int32Assumption`). `DefaultFitsCorrect` goes by kinds, with the
lemmas on what each schema takes: zero is taken where it is allowed, and is spelled out in an
enum's schema even where it is not suggested.

The type invariant of `Refresh` is also checked by TLC, in one run; those of `CertReloader`,
`ToolCalls`, `TopSort` and `MessageSchema` are left to the proof.

*Model-checked only.* Liveness (`AttemptEnds`, `Converges`, `Answered`,
`RotationTakesEffect`, `Ends`, `GenerateEnds`) rests on fairness and ENABLED, which the prover does not
handle. Of `Ends`, the one of `TopSort`, the part that is safety is
proved: `EveryStepCounts`, in any order of the map and for imports with cycles. Every safety
invariant and action property of a passing run has a theorem.

## 6. What is assumed, and not modelled

* mcp-go is not in the repository. `SetTools` replaces all tools at once (a comment of
  `refresh_test.go`) and there is one tool for a name. Which of two with one name is kept
  depends on the random order of a map: `Tables` allows either.
* A reflection stream stays on one replica, and a broken one returns an error; the client
  does not open another within an attempt.
* No two contents of a certificate file have one modification time. Where a file system's
  clock is too coarse for that, the reloader cannot see the change, and claims nothing.
* The reflection at startup has no deadline; a backend that stalls keeps the process from
  serving. The model has this behaviour, and no property excludes it.
* `-tls-...` files of the backend are loaded, and errors reported, also for an `http://` URL,
  which then ignores them (`BackendTLS`).
* Left out: the wording of descriptions, annotations and logs; protojson and connect, the
  messages themselves; signals and shutdown; errors in `-header`, which `flag` reports before
  anything else happens; what the fields of `crypto/tls` mean.
* The bodies of refusals (`origin.go`) are wording. Which origins and versions mcp-go itself
  would refuse is its own affair; the model has only what this repository adds.
* `getMethodOptionString` reads options as `methodOptionFields` does and only words a
  description. The example backend and the scripts are no part of the program.
* Of the schema generator: the counts of a list's items and a map's pairs, the combination of
  item, key and value schemas into one, the constants that describe well-known types, and
  the modes the program never asks for (strict, bundles, JSON names, additional properties).
  A pattern is a name for the texts that match it; that prefix, suffix and contains are put
  into a regular expression without quotes is not modelled.
* In `Serving` no refresh runs beside the calls. A call holds the method it was made for, and
  the tools are replaced as a whole, so that neither reads what the other writes but for the
  map of headers, which `FlagsIntactCorrect` shows to be read only.

## 7. Plan

Done, in this order: ToolCatalog and Refresh, with ToolNaming; CertReloader; ToolCalls;
TopSort; Startup; MessageSchema; IntegerSchema; the proofs of five of them; FieldSchema over
every kind of scalar; MethodOptions; clients with old names in ToolNames; Serving;
StartupProofs and ServingProofs; ToolProofs; `ListsEveryName`, the values of fields and
the runs of enum numbers in SchemaProofs; `EveryStepCounts` in TopSortProofs; `ListsAtEveryDepth`,
and `KeepsServing` with its theorem.

What is left is to prove more of what liveness rests on, and to ask less of the inputs:

1. A count like `StepsLeft` for MessageSchema, when no type contains itself, and for an attempt of
   Refresh and a reload of CertReloader: the part of `AttemptEnds` and `Answered` that is safety.
2. `NamesUnique` from a hypothesis weaker than `Distinguishable`, as close to what names really
   collide as can be said of identifiers one by one.
3. Lemmas that ToolProofs and SchemaProofs both need, stated once.
