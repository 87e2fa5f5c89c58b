# A TLA+ model of ai-tool-registry

`ai-tool-registry` is a Go service in which tenants register tool definitions
and through which agents resolve and invoke them. This directory holds TLA+
modules translated from its source, TLC configurations that check them on small
instances, and TLAPS proofs of what matters most for every value of the
constants. `PROJECT.json` lists components, runs, mutants, hazards, findings,
theorems, and for each definition the source lines it stands for.

## 1. Inventory

| Part | State | Operations | Correct when |
| --- | --- | --- | --- |
| Metering recorder (`application/metering`) | buffered channel, closed flag, four aggregate maps, one worker | Record, drain, Snapshot, Close | accepted events reach the sink once and in order, snapshots are consistent, Close flushes and returns |
| In-memory store (`infrastructure/store/store.go`) | maps of tools, skills, rules, specs under one RWMutex | Save*, Get*, GetLatestTool, DeleteTool, List* | registrations of different tenants, names, versions stay apart; latest is a maximum; limits hide only later names |
| PostgreSQL store (`postgres.go`) | four tables keyed by a text id | the same port | as above, also when statements fail |
| Redis cache (`redis_cache.go`) | keys with a TTL | SetTool, GetTool, DeleteTool | a hit is the tool asked for, a deletion leaves nothing behind (built but never used by the bootstrap) |
| Registry service (`application/registry`) | none of its own | Register, Deregister, Resolve, List, Validate, Invoke, packages | answers are explained by one instant of the registry; only permitted, valid calls reach a tool |
| HTTP handlers (`interfaces/http`) | none | routing, auth, decoding, answers | every request is answered |
| Auth stub, RBAC | none | Resolve, Allow | a listed role passes, another does not |
| Discovery (`infrastructure/discovery`), selection (`application/discovery`) | instances per ToolID under an RWMutex | RegisterInstance, DeregisterInstance, Instances, Healthy, Pick | one instance per endpoint, only healthy ones chosen, in proportion to their weights |
| MCP transports | none | Invoke | only http calls out; a call ends |
| Schema validator | none | Validate | refuses nothing that conforms, accepts nothing that does not, whatever the map order |
| Bootstrap (`cmd`), config | the object graph | Bootstrap, main, Load | processes that share a database answer alike, across crashes and restarts; an exit loses a bounded number of events |

The handlers run one goroutine per request. Requests share the store, discovery
and the recorder; each store or discovery method is one critical section of a
mutex, so an Invoke is several separate critical sections with the tool's
network call between them. The recorder's worker is the only other goroutine.
Several processes may share one PostgreSQL database; a process that cannot reach
it when it starts uses an in-memory store instead.
What is hard here is therefore: requests that interleave between lookup,
discovery and call; the race of Record and Close with the two nested selects of
`drain`; map iteration order and unstable sorts; identifiers joined with
unescaped slashes; calls that never end; process exit with events buffered;
statements that fail or take effect without an answer; weights that overflow;
the validator's recursion; and the ways in which the two stores differ. `PROJECT.json` lists each at its line.

## 2. Modules

| Module | Models | Extends / instantiates |
| --- | --- | --- |
| `Recorder` | metering recorder, one action per channel operation, critical section or sink call | |
| `Identifiers` | ToolKey, splitKey | |
| `Versions` | compareVersion, atoiSafe | |
| `LatestScan` | the loop of GetLatestTool | `Versions` |
| `Catalog` | abstract: what the tool store promises | |
| `ToolStore` | the tools map, SPI Register and Deregister | `Identifiers`, `Versions`; implements `Catalog` |
| `Listing` | ListTools with filters and limit | `ToolStore` |
| `Access` | auth stub, RBAC | |
| `Selection` | Healthy, and Pick as the set of instances it may return | |
| `Discovery` | the instances reported for each tool | `Selection` |
| `Balancer` | the loop of Pick with weights in machine integers | `Selection` |
| `Schema` | the schema validator, and what its keywords mean | |
| `PgStore` | the tools table of the PostgreSQL store | `Listing` |
| `Deployment` | choice of the store, crash and restart, processes that share the table | `PgStore`, `Access`; instantiates `Listing` |
| `RedisCache` | the cache, stand-alone | |
| `Config` | defaults and file overlay | |
| `Service` | request path of the tool endpoints | `Listing`, `Access`, `Discovery` |
| `System` | the process: requests, recorder, exit | `Service`, `Config`; instantiates `Recorder` |
| `Library` | abstract: what package storage promises | |
| `Packages` | skills, rules and specs over either store | `Identifiers`; implements `Library` |
| `Foundations` | lemmas on the shared operators: induction and recursion over naturals, `Kept`, the version order, enumerations of sets, joined strings | `Selection`, `Versions` |
| `RecorderProof` | theorems about `Recorder` | `Recorder`, `Foundations` |
| `AlgorithmsProof` | theorems about `LatestScan` and `Schema` | both, `Foundations` |
| `ToolStoreProof` | theorems about `ToolStore` and `Listing` | `Listing`, `Foundations` |
| `DiscoveryProof` | theorems about `Discovery` and `Balancer` | both, `Foundations` |
| `ServiceProof` | theorems about `Service` and `System` | `System`, `ToolStoreProof`, `DiscoveryProof`; instantiates `RecorderProof` |
| `DeploymentProof` | theorems about `PgStore` and `Deployment` | `Deployment`, `ToolStoreProof` |
| `PackagesProof` | theorems about `Packages` and `RedisCache` | both, `Foundations` |
| `MC*` | instances for TLC; `MCParts` runs six sequential parts one at a time, so that their state spaces add up instead of multiplying | |

Definitions whose comment begins with "Mutant:" are wrong variants of the
definition that follows them. They are used by no specification; replacing the
definition by its mutant must make TLC report the property named in
`PROJECT.json`, which shows that the property depends on the code.

### How the models correspond to the code

*Data.* A string that the code joins with "/" is the sequence of its
slash-separated segments, so that joining is concatenation and exactly what
joining loses is lost; the same goes for the tenant, name and version that the
cache joins with ":". In the stores a version is the sequence of its
dot-separated parts, each the number `atoiSafe` reads (wrapped around where it
overflows) and the rest it ignores. A role or tag is a base and a form, because
`normalize`, `EqualFold` and the array literals act on the form: `normalize`
turns only a capital and blanks around a word into the word, and leaves blanks
or quotes inside alone. The input schema of a definition is the
set `accepts` of inputs the validator passes for it.

*Recorder.* `ch`, `closed`, `calls`, `success`, `fail`, `latSum` are the fields
of the struct (a map key that is missing reads 0). `pc`, `loop` and `hand` are
the worker's position in `drain`: the outer or the inner loop, and the event
received but not yet sunk. When both branches of the outer select are ready
`Receive` and `SeeClosed` are both enabled, as Go's choice is random.
`accepted`, `dropped`, `delivered`, `mark` are history. Close is called at most
once: a second call would panic, and the bootstrap makes none.

*Service.* A goroutine's `pc` names its next critical section. `Arrive` does
everything up to it (routing, auth, decoding, the checks of Register), then
`Save`, `List`, `Delete`, `Lookup` or `Validate` is one store access,
`Discover` one discovery access with the rest of Resolve and of Invoke up to the
transport call, `Return` the end of that call and `Reply` the answer. Validate
has no route and is reached through the SPI; without a caller it looks for the
empty tenant. `seen` and `heard` are history: what
the registry would have answered since the request arrived, and what discovery
has listed since the request read its definition.
`InstancesChange` is the environment of `domain.Discovery`, external to the
repository.

*Balancer.* One step is one iteration of Pick's loop. `MaxInt` is the largest
integer, and sums wrap around beyond it; the random number is one of `Dial` equidistant ones, and the
floating-point comparison is multiplied out. `Selection!Pick`, which `Service`
uses, is the set of results; `PickedIsHealthy` justifies it.

*Schema.* Schemas and inputs are JSON values of the same type, because
validateValue hands a `properties` map to validateNode as a schema. The two
call each other: `stack` holds, for each validateNode that is under way, the
calls of validateValue its range has yet to make, of which `validateValue(c)`
takes any one, as Go ranges over a map in any order; `Return` is the end of a
validateNode. A panicking comparison ends the call; net/http recovers it and drops
the connection, and `Service` assumes schemas for which none occurs. Two
references are kept apart from this. `Outcomes` collects the checks level by
level, whatever the order (`Levels`); `Conforms` says what type, enum, required
and properties mean at every level (`Meant`), from definitions of its own of the
types (`kindsMeant`) and of the required names (`RequiredNames`). `MaxDepth` bounds the nesting.

*PgStore and Deployment.* `rows` is the table. A list entry carries a form that
says what becomes of it on the way through an array literal and back: blanks
around a word are dropped, words with a blank between them return in quotes,
which the code keeps, and an entry sent in quotes loses and regains them. One
process is followed through `Boot` and `Crash`; the others are connected all the
time, so that `PgRegister` and `PgDeregister` are always enabled. A statement is
done, fails, or is executed although its answer is lost; a lost statement is
assumed to be executed before the client is told of the error. `written` (the
definitions as sent) and `ledger` (for each id what the answers allow it to
hold) are history. Names are ordered alike by both stores: `PgListTools` assumes
that the database's collation orders them as Go does. A list with two empty
entries, a malformed literal, is not told from one with a single one, which is
well formed; the failure it causes is one that every statement may have.

*RedisCache.* A key is the tenant, name and version joined with ":", and each
of the three may hold colons itself. SCAN promises to return the keys that are there all the time; `due`
holds them. Errors of SCAN and DEL are ignored, as in the code.

*System* joins `Return` with `Recorder!Record`, as `Invoke` calls `record`
right after the call, and lets the process `Exit` at any other moment; an exit
between the end of a call and its record, which loses the metric of each call
that is just there, is not modelled. `ended` and
`lost` are history: how many calls of each tool have ended, and how many of
these the recorder dropped. Its assumption
`ShippedConfig` says that main loads no file, so that `Config!Default` is in
force. (The feature flags are then all off: `packages` is about a configuration
with two of them on, which only a caller of Bootstrap other than main can set.)

*Packages.* A request touches shared state only in its one store call, so it is
one step. The three kinds differ in nothing but their fields; CreatedAt is left
out. `created` is history: what was answered as created and not registered
again. `backend` is the
store Bootstrap has chosen; with PostgreSQL a row is keyed by the package's id
and any statement may fail.

## 3. Runs

| Run | Specification | Shows |
| --- | --- | --- |
| `recorder` | `Recorder!FairSpec` | exactly-once in order, aggregates and snapshots consistent, the Close protocol, Close returns, events are delivered |
| `parts` | `PartsSpec` | the scan keeps a maximum in every iteration order; with slash-free identifiers the store implements `Catalog` and ids lead back; limits hide only later names, listing agrees with resolving; one instance per endpoint, reports replace only their own; Pick returns a healthy instance even if the sum wraps, by weight if it does not; the validator lets pass what conforms, except for numbers beyond int64, nested properties that it misreads and arrays or objects that an enum is compared with, accepts nothing else for flat schemas, whatever the map order; a cache hit for a tenant, name and version without colons is the tool asked for and a fault-free deletion leaves nothing |
| `service` | `Service!Spec` | answers explained by one instant, only legitimate calls, `Catalog` implemented under concurrency |
| `service_live` | `Service!FairSpec` | every request is answered |
| `system` | `SysSpec` | every ended call metered once or dropped; an exit loses at most the buffer and one event more; the embedded recorder refines `Recorder` |
| `deployment` | `DepSpec` | the table holds what clients were told through failures, lost answers, crashes and restarts; storing an allow list locks nobody out and admits nobody else, except for the forms of entries that `PermissionsKept` names; both stores answer alike wherever filter and version order mean the same to them |
| `packages` | `Packages!Spec` | in both stores no package displaces or changes another (`Library`), and what was answered as created is found by its tenant until it is registered again, if ids are left to the registry |

Five further runs expect a violation, each of a sentence of the repository's
documentation or comments (quoted under "findings" in `PROJECT.json`):

| Run | Sentence | What happens |
| --- | --- | --- |
| `tool_store_slashes` | a ToolID is unique per registration | tenant `acme`, tool `eu/sql` and tenant `acme/eu`, tool `sql` share a key |
| `service_timeout` | slow tools time out | there is no deadline |
| `deployment_stateless` | no local state | a process that cannot reach its database serves an in-memory store of its own |
| `schema_nested` | properties are checked recursively | the members of a nested object are not checked |
| `packages_own_ids` | the key of skills is tenant, name, version | the upsert goes by a client-chosen id and keeps the old row's tenant |

### Bounds

* `recorder`: three events through one slot. The buffer is full with one event
  in it and one in the worker's hand; the third is dropped, or accepted during
  the flush. Two tools and the latencies 0 and 3 tell rows and averages apart.
  No symmetry, because of the liveness properties. `MaxEvents` bounds the calls
  of Record; `CloseReturns` depends on it, as the flush loop runs on for as long
  as callers refill the buffer.
* `parts`: each part ends or repeats on its own, hence no deadlock check.
  *Scan*: eight versions with several digits, different lengths, trailing zeros,
  suffixes and a wrapped number, every subset in every order. *Store*: two
  tenants, three names, two versions, some in two bodies, tags in two spellings
  and limits from -1 to 2; every store over these is reached, and in each every
  filter is tried. *Discovery*: two tools, two endpoints, one of them reported
  with two healths and weights. *Balancer*: up to three instances in four-bit
  integers, where sums wrap to a negative number, to zero and to a positive
  one, five positions of the dial. *Schema*: two properties, every type keyword,
  scalar and container enums, required lists, one level of nesting, properties
  named like keywords, one nested property that is misread as a keyword, a
  required empty name, inputs of every kind of value; `MaxDepth` is 2, and TLC evaluates `SchemaConstants`,
  which says that nothing is nested deeper. *Cache*: five definitions
  of which three share the key acme:sql:x:1, each with the colon elsewhere.
  `schema_nested` has only schemas that constrain a member of a nested object.
* `service`: two goroutines, since every race here is between one request and
  one other change; one tool in two versions that differ in role, schema,
  endpoint and transport, the older one with an instance in discovery that comes,
  goes and changes its health, and registered again at that instance's endpoint;
  all answers occur except
  "no transport", which `TransportAlwaysFound` says is impossible. `DevTenant`
  is empty so that the unauthorized answer occurs (the bootstrap sets `local`).
  `service_live` has fewer requests.
* `system`: two goroutines, one metering slot, three ended calls, so that an
  event is dropped while another is in the worker's hand. The process may stop,
  hence no deadlock check.
* `deployment`: two tenants, five ids, two of them with two definitions; versions
  1.9, 1.10 and 1.11, of which text order misplaces the first; entries of every
  form, one definition whose literal is malformed. `LocalDefs` bounds what is
  sent to the process while it has no database to one definition.
* `packages`: a skill in two versions, two rules and a disabled kind, two tenants
  and an unauthenticated caller, two contents each, either store.

### Fairness

`Recorder!FairSpec`: weak fairness of the worker and of the goroutine inside
Close, which the Go scheduler gives to runnable goroutines. Callers owe
nothing. `Service!ServerFairness`: weak fairness of every goroutine that is not
waiting for a tool, and of the delegated transports, which fail at once.
`CallsEnd` (tools answer, connections fail or clients give up) is an assumption
on the environment: `Answered` is checked with it, `SlowToolTimesOut` without
it, since a timeout would have to work without it.

## 4. Proofs

Every invariant, action property and refinement of the passing runs is also a
theorem, for every value of the constants; only liveness is not.

### Assumptions

Each is a named ASSUME of the module that declares the constants, and TLC
evaluates it in the runs. They type the constants (`RecorderConstants`,
`BalancerConstants`, `FilterLimits`, `VersionsAreVersions`, `VersionedDefs`,
`CacheFields`), say that a placeholder is not one of the values it stands
against (`NoVersionIsNone`, and a part of `ServiceConstants` and of
`DeploymentConstants`), or that the sets of data are closed under what the
code does with them: a request's body, acceptable or not and once
defaulted, is one of `ToolDefs` (`ServiceConstants`), its tenant and tool are
among the fields of a metric (`MetricFields`), the fields of a row and of a
package are those the code copies (`DefFields`, `PackageFields`). `SchemaConstants` says that schemas and inputs
are objects and that `MaxDepth` is as deep as they go: any finite set of JSON
values has such a depth. `Dial` and
`MaxInt` are arbitrary: the theorems on Pick hold for 64 bits and every
granularity of the random number.

Two hypotheses are not about types and are part of the theorems that need them.
`SlashFreeDefs` (no tenant or name holds a slash) stands before everything that
needs registrations to have keys of their own; the run `tool_store_slashes`
shows what happens without it. `PlainPackages` (the same for packages, and ids
are left to the registry) is refuted in the same way by `packages_own_ids`. The
runs `parts`, `service`, `deployment` and `packages` are instances that satisfy
them.

### What is proved, and how

*Foundations.* The provers cannot instantiate a library theorem that takes an
operator. Induction is therefore stated about a set of numbers (`InductiveSet`,
`InductionUpTo`), from the least element of its complement, and a recursive
function is obtained as the union of its finite beginnings (`RecursionExists`,
`RecursionUnique`). With these, `Kept`, the loop that collects matching
instances, keeps exactly the matching ones and their order (`KeptProperties`);
`compareVersion` is a total preorder (`CompareTransitive`, `CompareTotal`), so
that a finite set of versions has a latest (`LatestExists`); and strings joined
with slashes can be taken apart if their segments are single (`JoinThree`).

*RecorderProof.* `RecorderTyped` is inductive together with the bound on the
channel; `RecorderExactlyOnce` follows from associativity of concatenation for
each step that moves an event. `CloseFlushes` is not inductive: nothing in it
says why an exited worker has seen everything accepted before Close.
`DrainProtocol` adds that: the flush loop is entered only after Close, the
worker leaves only from it and only when the buffer is empty, at which moment
exactly-once gives delivered = accepted. `RecorderQuietAfterClose` is an action
property from the same invariant. `RecorderAggregatesMatch` needs that counts
and latency sums over a sequence grow by one summand when an event is appended
(`CountsOfAppend`, `LatencyOfAppend`); `RecorderSnapshotIsConsistentCut` names
the prefix of the deliveries the snapshot was taken at. `RecorderSnapshotMonotone`
rests on `ShownIsBehind`: what was shown is never ahead of the counters.

*AlgorithmsProof*, `LatestScan`. `ScanFindsLatest`: the scan keeps the best so
far above all those visited, in every iteration order.

*AlgorithmsProof*, `Schema`. `VerdictDetermined` speaks of the end only. Its
invariant `SchemaInv` says what holds on the way: while the validator is
checking, nothing has failed, and there is a set of calls that have passed such
that whatever is to be made for the root or below one of them is in the set or
on the stack (`Passed`). When the last validateNode returns the stack is empty, so
the set contains the calls for the root and is closed under `Below`; it then
contains all calls at all levels (`CallsLeast`, by induction on the depth), and
everything has passed. In the other direction every call on the stack is one of those levels
(`CallsClosed`), so that a failure is one of `Outcomes`. What the recursive
functions `Levels` and `Meant` are at each depth is `LevelsStep` and
`MeantStep`. From `SchemaVerdictDetermined` the two theorems about the meaning
follow without a further induction over steps: where nothing is misread there is
nothing below the calls for the root, and these check members that are meant to
meet the same schemas (`RootCalls`), by types that differ only in numbers beyond
int64 (`KindsAgree`) and by required lists that differ only in the empty name
(`RequiredAgree`); no comparison panics, as nothing uncomparable is compared.
This gives `SchemaConformingNeverRefused`. For
`SchemaFlatAcceptedConforms` the root and its members are all that is meant
(`MeantLeast`).

*ToolStoreProof.* `StoreTyped` holds for all identifiers;
`StoreImplementsCatalog` and `StoreIdsLeadBack` assume `SlashFreeDefs`, which
makes the key injective (`KeyInjective`). `ListingCutHidesOnlyLater` and
`ListingListedIffResolvable` hold for every store and order of names: a listing
is an initial segment of a sorted enumeration of one latest version for each
name, and the latest exists because the store is finite.

*DiscoveryProof.* `DiscoveryOneInstancePerEndpoint` and `DiscoveryReportsStick`
come from what RegisterInstance, which replaces or appends, and the filter of
DeregisterInstance do to a list without repeated endpoints. For Pick, `Choosing` bounds the loop's position:
`BalancerPickedIsHealthy` follows even where sums wrap around, because the last
iteration returns whatever it has. `BalancerWeightsDecide` needs `Weighing`: as
long as the total fits, every partial sum is exact (`SumsGrow`, `TotalFits`)
and the dial lies beyond the stretches already passed.

*ServiceProof*, `Service`. The invariant `Inv` is the type invariant, the
finiteness of the store and `Progress`: what a goroutine has established by the
time it is at a step, in particular that a call has passed the role and the
schema check. It gives `ServiceTyped` and `ServiceCallLegitimate`, and with
`Accepted` (what is registered or has been looked up has passed the checks of
Register) `ServiceTransportAlwaysFound`. That the definition in a goroutine's hand may be
out of date when it is used is what `AnswerExplained` and `InstancesExplained`
are about; their invariant is `UpToDate`: whoever is about to read has observed
what it will read. `ServiceImplementsCatalog`: the interleaved requests change
the registry only by steps of `Catalog` (under `SlashFreeDefs`).

*ServiceProof*, `System`. `SystemServes` (`SysSpec => Spec`): recorder and exit
do not disturb the request path, so that every theorem about `Service` is one
about the process; `SystemRequestsServed` states them. `SystemRecorderRefined`: the recorder inside it is
`Recorder!Spec`; this needs `Admitted` (only an admitted request for invocation
gets as far as a call), for the metric to be a well-formed one. The theorems of
`RecorderProof` then hold of the process: `SystemMetricsExact` says that
`/metrics` shows an exact and monotone account of its calls, and
`SystemLossBounded` follows from exactly-once and the bound on the channel. `SystemMeteringConserved` follows
an ended call from the buffer through the worker's hand to the aggregates,
tool by tool (`CallsOfFront`, `CallsOfBack`).

*DeploymentProof*, under `SlashFreeDefs`. `DepInv` says that the table holds the
row of the definition last sent under each id (`TableFollows`), and that this
definition is among those the answers allow (`LedgerAllows`); both survive
failed and lost statements, crashes and restarts, none of which touch the
table otherwise. `DeploymentAnswersReliable` is then immediate up to what an array literal
does to a list, which `DeploymentPermissionsKept` is about. What comes back is
worked out entry by entry (`ListReturns`). A role that is allowed is the
trimmed lower-case text of some entry (`RoleForms`); `NobodyLockedOut` and
`NobodyAdmitted` follow it through the list in one direction each, and the forms
that the property excludes are those where it gets lost or comes in: an entry
with a blank returns in quotes, so that its role no longer matches, and a role
sent in quotes does. `DeploymentBackendInvisible`
compares `GetLatestTool` and `ListTools` over the table with those of a memory store that
holds what was written.

*PackagesProof.* Under `PlainPackages`, `Shelved` (every package is plain and
under its own key) makes keys tell packages apart in either store
(`KeyTellsApart`) and an upsert replace the package as a whole (`StoredIsNew`);
`PackagesImplementLibrary` follows, and `PackagesCreatedIsListed` by induction:
what is in `created` stays on its shelf until it is registered again. For the
cache, `CacheServesOwnDefinitions` uses that a key of three segments can be taken
apart into a tenant, a name and a version in only one way (`SplitThree`), and
`CacheDeleteForgets` the invariant `StillDue`: what DeleteTool has still to
delete is what SCAN has still to return, until a command fails.

### Only model-checked

Liveness: `CloseReturns`, `EventuallyDelivered`, `Answered`. Fairness is outside
the prover's reach.

## 5. Not modelled

* JSON encoding, error texts, the text of `/metrics`, `healthz`, the
  configuration keys that nothing reads: no state that a property depends on.
* In `PgStore`: braces, quotes, backslashes, the word NULL and blanks at the ends
  of list entries, statements that are executed long after their client has given up, collations
  that order names unlike Go. GetSkill, GetRule and GetSpec have no caller.
* Glob characters in the pattern that the Redis cache scans for, and two
  deletions at once.
* Divergences from the documents that no run shows. The abstract modules and the
  properties leave the contradicted cases open, so that a passing run says
  nothing for or against them:
  - Registering a tool version again replaces its definition in both stores,
    although `docs/ARCH.md` §6.4 speaks of "`name+version` immutable storage".
    `Catalog` lets either definition be kept.
  - Registering a skill version again replaces it, although `docs/SKILLS.md` and
    `docs/DESIGN.md` §5.4 call skill versions immutable. `Library` lets either
    content be kept.
  - With no healthy instance resolve falls back on the definition's endpoint
    even if discovery lists just that endpoint as unhealthy, although
    `docs/SKILLS.md` says that unhealthy instances are excluded.
    `InstancesExplained` leaves this case out (`FallsBackOnUnhealthy`).
  - A role in the allow list with a capital letter refuses its own callers
    (`rbac/checker.go`), in `Access` as in the code.
  - main's deferred Close never runs (`LossBounded` says what is lost).
  - The PostgreSQL store orders versions as text, as the statement in
    `docs/SKILLS.md` does, while the in-memory store compares them as versions
    (`BackendInvisible` holds where the two orders agree).
* Instances that discovery still lists after their tool was deregistered count
  for the version if it is registered again; no document says what deregistering
  means for them.
* The same pass-on that makes `schema_nested` fail can refuse an input that
  conforms: a nested property that is itself named like a keyword is read as the
  keyword. `ConformingNeverRefused` excludes these schemas (`Misread`), and
  those where an array or object is to be compared with the entries of an enum,
  which panics if one of these is of the same kind (`Uncomparable`): the request
  is dropped. A top-level enum is not checked; validator.go says so in one
  comment and lists it as supported in another.
* A failed query is answered as an empty list or as not found; nothing in the
  repository says otherwise.
* int64 overflow of call and latency counters: it needs 2^63 calls.

## 6. Plan

Every component is modelled and every safety property of the passing runs is
proved. What could be added is listed in section 5: in the first place runs
that hold the code against the documents on the immutability of versions, the
exclusion of unhealthy endpoints and the spelling of the allow list, and a step
of its own for the record of an ended call.
