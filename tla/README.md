# Verification of the gateway module

TLA+ models, model-checking runs and machine-checked proofs for the OPeNDAP
gateway module: the BES module through which a server answers a request with
data that it first fetches from another web server.

## The system

A BES daemon runs several `beslistener` processes. Each has one thread, serves
one client, and has loaded the gateway module. The processes share nothing but
a directory of cached responses and the locks of the operating system on it.

| Part | State | Operations | Talks to |
|---|---|---|---|
| `RemoteHttpResource` | URL, cache file name, type, headers, `_initialized`, a curl handle | constructor, `retrieveResource`, `getCacheFileName`, `getType`, destructor | cache, transfer, type detection |
| `BESFileLockingCache` / `GatewayCache` (the base class is BES code) | files, their sizes and locks, the recorded total, a cache-wide lock | `get_read_lock`, `create_and_lock`, `exclusive_to_shared_lock`, `update_cache_info`, `update_and_purge`, `unlock_and_close`, `unlock_cache` | file system |
| `GatewayContainer`, `GatewayContainerStorage` | real name, container type, pointer to a remote resource; containers by symbolic name | `add_container`, `look_for`, `ptr_duplicate`, copy, `access`, `release`, destructor | remote resource |
| transfer (`curl_utils`, `writeResourceToFile`) | curl handle, response headers, file position | `init`, `configureProxy`, `read_url`, two callbacks | libcurl |
| type detection (`setType`, `GatewayUtils::Get_type_from_*`) | the configured TypeMatch and MIME lists | three look-ups | configuration |
| configuration (`GatewayUtils::Initialize`) | white list, MIME map, proxy settings | read once at start | `TheBESKeys` |
| `GatewayCache` singleton | the instance of a process | `get_instance`, `delete_instance` | configuration |
| `GatewayModule` | the BES's lists of handlers and storages | `initialize`, `terminate` | all of the above |
| `GatewayRequestHandler`, `GatewayError`, names | none | version, help, error text | |
| `GatewayRequest` | none | `make_request`, which nothing calls any more | libdap |

How they interact: a client defines a container (`add_container`, checked
against the white list). A request looks it up, which gives the request a
duplicate, and calls `access()`. That makes a `RemoteHttpResource` and has it
retrieved: from the cache, or with one HTTP GET into a new cache file. The data
handler reads the file. `release()` or the container's destructor deletes the
resource, which drops the file's lock.

What is hard here:

- several processes find, make, purge and read the same file; each call of the
  cache is atomic, the sequence in `retrieveResource()` is not;
- file locks belong to a process, the objects that rely on them do not;
- every call may throw, and a process may end between any two calls;
- headers come through a callback, for every response of a redirected transfer;
- a pointer is handed from container to container.

What makes each part correct: a file that is in use is finished, read-locked and
does not change; one process at a time writes a file; locks are released on
every path; the size limit notices growth; a retrieval ends. One container owns
a resource. A transfer that succeeds has stored all of a good response, and the
type is told in the documented order.

## Modules

| Module | Models |
|---|---|
| `FileLockingCache` | the shared cache, one action operator per call (external: from how the gateway calls it) |
| `RemoteHttpResource` | resources of all processes, `retrieveResource()` step by step, extends the cache |
| `SharedResponses` | abstract specification: a store of responses, filled once, not removed in use |
| `RetrievalService` | the refinement to that store |
| `DocumentedClaims` | what comments say of a retrieval and the code does not do |
| `GatewayContainer` | containers, the storage, and the resources they own |
| `ConcurrentRequests` | requests of several processes: containers whose accesses are retrievals, composes `RemoteHttpResource` with containers; fairness; the refinement to `GatewayContainer` |
| `TypeDetection` | `setType` and the look-ups it uses, as operators |
| `HttpTransfer` | one GET: callbacks, redirects, short writes, broken connections |
| `FetchService` | the refinement of `HttpTransfer` to the step `fetch` of `RemoteHttpResource` |
| `GatewayModule` | one process from start to stop: registration, configuration, proxy options of the curl handles, the `GatewayCache` instance |
| `*_proofs` | theorems about the module of that name |
| `MCResource`, `MCRequests`, `MCContainer`, `MCTransfer`, `MCModule` | small instances for TLC |

### RemoteHttpResource and FileLockingCache

`pc[r]` says which call of `retrieveResource()` resource `r` makes next:
`readLock`, `create`, `fetch`, `toShared`, `updateInfo`, `purge`, `readLock2`
in the order of the source; `unwind` is the `catch (...)`, `ready` is
`_initialized`, `failed` an object that an exception left. A process has one
thread, so at most one of its resources is between `constructed` and the return
(`Idle`). `url`, `cacheName` and `dtype` are the fields of the object. Every
call of the cache may throw instead (`CacheCallThrows`), perhaps with the
cache-wide lock left held; the calls before the `try` block may throw
(`StartThrows`); a process may end at any point (`Crash`). `MaxFaults` bounds
those. A failed GET (`FetchError`) is ordinary and has no bound.

A file is `absent`, `writing`, `complete` (a whole response) or `aborted` (what
a failed download left: nothing, a part, or an error page). `lock[f][p]` is the
lock of process `p`; a process does not see its own, and closing a file drops
it, whichever object of the process relied on it. A purge skips the files
others have locked and the file it is told to keep, not those locked by its own
process. Calls are atomic because the BES class takes a cache-wide lock for
each of them; the wait of `get_read_lock` for a writer is a guard.

### GatewayContainer

`remote[c]` is the pointer `_remoteResource`, `object[o]` the memory it points
to. Containers and resources are heap addresses that are used again after a
destruction. `Request` is what the framework does: it accesses and releases
only the copies it looked up. `AnyRequest` adds `ptr_duplicate` on any
container, which the public interface allows. A retrieval is one step here.

### ConcurrentRequests

The requests of several processes at once. `LookFor(c)` gives a request a copy
of a defined container; `Access(c, r)` is the part of `access()` up to the
constructor of the resource, `Proceed(c)` a step of the retrieval inside it
(any step of `RemoteHttpResource!Retrieve`), and `AccessReturns` tells what
`access()` does when that step ends it: it takes the type over and gives the
file, or the exception passes through it. `Release` and `Destroy` delete the
resource. `ListenerCrash` is the end of a process, and a new one in its place.

Deletion of resources, which `RemoteHttpResource` allows at any time, is here
what containers do. Two things are taken from the BES, not from this code: an
access that throws ends its request, and the containers of a request are
destroyed before the process accesses any other (`Failing`). The slip
`MayAccess_AfterError` shows what depends on that: without it, two processes
that each hold the file of a failed download can wait for each other.

`Container(p)` is the view of process `p` as an instance of `GatewayContainer`,
in which a resource appears when `access()` is over: `ImplementsContainers`
says that the stepwise, concurrent accesses look like accesses in one step.

### TypeDetection and HttpTransfer

A transfer gets responses with any status and any header lines; a redirect
response may or may not name a location; body data come in chunks, of which
`write()` takes any part. `save_raw_http_headers` drops lines with `HTTP` in
them and never clears the vector. `Finish` is the rest of
`writeResourceToFile`: status, `lseek`, `setType`. `headers` is the vector the
code keeps and `heard` what the response that ends in the file really said.
Texts are members of a small set. Constant functions say what becomes of them:
`Lower` in lower case, `WithTail` with what follows a file name in the header,
`Cut` from a `#` to the next blank, which happens to quoted names as well. An
empty content type is none, even if a module is configured for it.

When a disposition leaves nothing of the file name, `Get_type_from_disposition`
reads the character before the string (`NoLastCharacter`). The model allows what
a build may do: the name stays empty and matches what an empty name matches, or
the process ends (`Crashes`).

`HttpTransfer` is the inside of the step `fetch` of `RemoteHttpResource`.
`FetchService` says so: with one resource that stands at `fetch` for as long as
the transfer lasts, and a file whose size is `written`, every step of the
transfer is a step of `Fetch` or changes nothing the retrieval sees
(`ImplementsFetch`). The outcomes `done`, `failed` and `thrown` are `FetchOK`,
`FetchError` and `FetchThrows`; the type comes from `setType` as
`RemoteHttpResource!SetType` says, with some type the headers told or none. The
outcome `crashed` is `Crash`, for which the retrieval allows anyway: the locks of
the process go, and the file counts as cut short.

### GatewayModule

`phase` is where `GatewayModule::initialize` and the `GatewayUtils::Initialize`
it calls stand; each key that may throw has its own step, the lines of
`Gateway.MimeTypes` one step each. `keys` is what the configuration says,
`WhiteList`, `MimeList` and `Proxy` the static members it is copied to, and
`handle[r]` the options that `configureProxy` sets for a resource from them,
host, port, credentials and authentication scheme. `instance` is `d_instance`;
`GetInstance(got)` tells whether a caller of `get_instance()` gets a cache:
never while a `Gateway.Cache` key is missing, perhaps not if the cache cannot be
set up, always once it has been. `GetInstanceThrows` is an exception that
`get_instance()` does not catch, any but a `BESInternalError`: nothing is kept,
and the access has failed. A null cache that is used ends the process
(`crashed`): the call is virtual. An exception of the constructor of a resource
(no curl handle, a malformed `NoProxy`) leaves no object behind and is a
stuttering step. That the BES gives up a process whose start failed is taken
from the BES, not from this code.

`GatewayModule` is the process around the other modules, which assume what it
shows: a white list, a MIME map, and a cache that is there.

## Runs

All runs are exhaustive for their instance.

| Run | Instance | Shows |
|---|---|---|
| `Resource` | 2 processes, 3 resources (two of them in one process), 2 files, bodies of up to 2 units, limit 2, purge target 1, 2 faults | `FetchIsExclusive`, `NoLeakedLock`, `CacheLockFreed`, `InUseProtected`, `UseIsStable`, `DisturbedAtHome`, `SizeCoversCache`, `LimitYieldsToUse`, `AccessAdvances` |
| `Requests` | 2 processes, one with two containers and one with one, 3 resources, 2 URLs with a file each, bodies of 1 unit, limit 1, 1 fault | `CopiesOK`, `WaitersHoldNothing` and `WaitersWaitForWorkers` (no circular wait, no deadlock), `OnlyLocksBlock`, `IdleHoldsNothing`, `ContainersSound`, `ImplementsContainers` and `ImplementsStore` (refinements), `AccessEnds` (liveness) |
| `Container` | 4 containers, 3 resources, 2 names, 2 URLs of which one is allowed | `SoleOwner`, `FileMeansRetrieved` |
| `Transfer` | 8 header lines, at most 2 in a response, 1 redirect, bodies of 2 units, statuses 200, 302 and 400 | `SuccessIsWhole`, `TypeByPriority`, `LastResponseDecides`, `ImplementsFetch` (refinement), `StepsRunOut`, `TransferEnds` (liveness) |
| `Module` | all combinations of 2 to 4 values for each of ten keys, 2 resources, 2 URLs of which one may bypass the proxy | `RunsConfigured`, `ProxyAsConfigured`, `CrashOnlyUncached` |

Why the bounds are enough for the cases to happen: two processes are the least
that race for a file, and the second resource of one process is the least that
shares a lock table; two files and a limit of one or two units make a download
of one purge the other; two faults allow a crash in a download and an exception
in the recovery of another. A purge needs only the total and the order of
removal, both of which two files show. The process with two containers is the
one that could hold the file of a failed download and ask for another; a circle
would need a second such process, which the run has no room for: there the
theorems `NoCircularWait` and `NoDeadlock` say what the run can not.
Four containers are two stored ones and
two copies, so that all names are taken while requests run. Two header lines
are a pair that compete; one redirect under a limit of one is both a redirect
that is followed and one that is refused (the code's limit is 5). The MIME
lines are none, three of which two name one module, and one that is followed by
a malformed one. The symmetry of `Resource` permutes the two resources of `p1`,
of `Container` the containers, resources and names, of `Module` the resources;
runs with liveness have none.
`CHECK_DEADLOCK FALSE` is set for `Transfer`, where a transfer ends, for
`Module`, where a process does, and for the runs that look for a counterexample
in them.

### Where the code and its documents disagree

Each of these runs has one property, a sentence of a comment, and TLC finds it
violated.

| Run | Said | Done |
|---|---|---|
| `ServedIsWhole` | `GatewayContainer.h:50`: the response is saved to file if successful | the file of a failed GET stays in the cache and is served on the next request |
| `KeepsReadLock` | `RemoteHttpResource.h:150`: the cache file is read-locked until the instance is deleted | with two resources of one process on one file, deleting one (or a purge) drops the lock |
| `TypeFromResponse` | `GatewayContainerStorage.cc:55`: the type is determined by the response | on a cache hit it is guessed from the URL |
| `FailsOnlyAfterGet` | `RemoteHttpResource.cc:133`: what is not in the cache is retrieved with HTTP GET | a file made by another process and purged at once makes the retrieval fail without a GET |
| `CopiesAreUnaccessed` | `GatewayContainer.cc:88`: no copy once the request has been made | `_duplicate` checks the new object instead of the original, and shares the pointer |
| `AccessAnswers` | `GatewayContainer.cc:123`: `access()` throws a `BESError` if there is a problem | without a `Gateway.Cache` key the first `access()` uses a null cache and the process ends |
| `HeadersComeFirst` | `RemoteHttpResource.h:108`: HTTP headers first, failing that the URL | `X-Content-Type-Options` replaces the content type |

`InUseProtected` and `UseIsStable` are stated for resources that are alone in
their process (`Sole`), and only those are readers of the store that
`ImplementsStore` speaks of; `KeepsReadLock` shows why. The other resources
take part in all runs, as those that fill, purge and fail. What may happen to
those others is `DisturbedAtHome`: as long as the lock of their process is on
the file, only a purge of that process or the destructor of another of its
resources on that file changes the lock or the file. `SizeCoversCache` is
stated for successful downloads while there were no faults: the files of failed
ones are never counted. `LimitYieldsToUse` says, under the same condition, what
the limit is worth: the data exceed it only while a purge is due, or after a
purge to which other processes left nothing but the file just stored.
`TypeByPriority` leaves out redirected transfers, which `LastResponseDecides` is
about (the header vector is never cleared between responses, so a header of a
redirect may tell the type, but not against one that the last response has),
repeated headers, lines with `HTTP` in them and `X-Content-Type-Options`, which
`HeadersComeFirst` is about. To `LastResponseDecides` a line with `HTTP` in it
says nothing: dropping it costs the type what the line says and no more.
`RunsConfigured` also says that nothing is in force that was not configured.
`CrashOnlyUncached` is what remains of
`AccessAnswers`: once a process has had a cache, it keeps it.

`WaitsFor(p, q)` is the waits-for relation of the processes, for the locks on
files and for the cache-wide lock. `WaitersWaitForWorkers` says that its chains
have one link; `OnlyLocksBlock` says, with `ENABLED`, that the relation has
every reason why an access may stand still. Both take the waits from how the BES
class is used: it is assumed not to keep the cache-wide lock while it waits for
a file. `AccessAdvances` says that an access that does not wait gets nearer to
its end with each step, and that nobody sets it back. The three are the safety
half of `AccessEnds`, as `StepsRunOut` is of `TransferEnds`.

## Fairness

`ConcurrentRequests!FairRequests`: a process keeps running inside an access, and
a request that has met an error is cleaned up (weak fairness of the local steps
and of that `Destroy`); a reader waiting for a file lock gets it if it becomes
free again and again (strong fairness: `fcntl` queues the waiters). No client
has to make or finish a request. There is no fairness for `fetch`:
`libcurl::init` sets no timeout. That transfers end is the hypothesis of
`AccessEnds`, which thereby tells what the code leaves to its environment.
`HttpTransfer!FairSpec` assumes that something always comes from the server or
that the connection breaks; it does not assume that redirects stop. Neither
property can tell, therefore, that the missing timeout lets a silent server hold
up a process and all who wait for its file; `PROJECT.json` lists that as a
hazard without a property.

## Proofs

`tlapm` checks these for every value of the constants, from the named
assumptions of the modules.

| Theorem | States |
|---|---|
| `RemoteHttpResource_proofs!TypeCorrect` | `[]TypeOK` |
| `DownloadsAlone` | `[]FetchIsExclusive` |
| `FileStaysProtected` | `[]InUseProtected` |
| `LocksAreReleased` | `[]NoLeakedLock` |
| `CacheLockIsReleased` | `[]CacheLockFreed` |
| `FilesStayStable` | `UseIsStable`, an action property |
| `DisturbedOnlyAtHome` | `DisturbedAtHome`, an action property |
| `SizeIsCovered` | `[]SizeCoversCache` |
| `LimitIsKept` | `LimitYieldsToUse`, an action property |
| `AccessesAdvance` | `AccessAdvances`, an action property |
| `PurgeEnds` | in any state a purge has a set of files with which it may stop |
| `DocumentedClaims_proofs!WholeUnlessFailed`, `LockKeptUnlessShared`, `TypesAgree`, `GetUnlessPurged` | the claims of `DocumentedClaims`, each under the condition whose absence its run shows |
| `SharedResponses_proofs!ReadersAreServed`, `NothingChangesInUse`, `ResponsesSettleOnce` | of the abstract store: a reader's file is settled; nothing happens to it until the reader leaves; a file is filled, settled once, removed, in this order |
| `RetrievalService_proofs!Implementation` | `ImplementsStore` |
| `ServesItsReaders` | the three promises of the store, of the resources of all processes |
| `ConcurrentRequests_proofs!RequestsRetrieve` | `RequestSpec` implies `RemoteHttpResource!Spec` |
| `CopiesCorrect`, `NoCircularWait`, `NothingHeldWhenIdle` | `[]CopiesOK`, `[]WaitersHoldNothing`, `[]IdleHoldsNothing` |
| `NoDeadlock` | `[]WaitersWaitForWorkers` |
| `NothingElseBlocks` | an access that waits for nobody finds the guards of its next call true |
| `RequestsShareStore`, `RequestsServeReaders` | `RequestSpec` implies `ImplementsStore` and the three promises |
| `ContainersImplemented` | `ImplementsContainers` |
| `ContainersStaySound` | `[]ContainersSound`: the invariants of `GatewayContainer`, for each of any number of processes |
| `GatewayContainer_proofs!ContainerTypeCorrect`, `ResourcesHaveOneOwner`, `FilesComeFromRetrievals` | `[]TypeOK`, `[]SoleOwner`, `[]FileMeansRetrieved` |
| `GatewayModule_proofs!ModuleTypeCorrect`, `ServesConfigured`, `HandlesAsConfigured`, `CachedProcessesSurvive` | `[]TypeOK`, `[]RunsConfigured`, `[]ProxyAsConfigured`, `[]CrashOnlyUncached` |
| `LooksUpAsConfigured` | the map that `Initialize` has filled gives every module the media type that `TypeDetection!MimeOf` looks up in the list itself |
| `HttpTransfer_proofs!OnlyWholeBodies`, `TransferTypeCorrect` | `[]SuccessIsWhole`, `[]TypeOK` |
| `TransferIsFetch` | `ImplementsFetch` |
| `TypeFollowsPriority` | `[]TypeByPriority` |
| `LastResponseCounts` | `[]LastResponseDecides` |
| `TransferIsBounded` | `StepsRunOut`, an action property |

The argument for the cache: none of the properties is inductive. `FileInv` says
which content and lock go with each value of `pc`, that every lock has a
resource to account for it, and that a process has at most one running
resource. A step of a process leaves the files alone on which another process
has a lock, and a process that runs alone knows what its own locks are. A lemma
per action shows that `FileInv` is kept; the properties follow, the last one
(`UseIsStable`) from the invariant and one look at each action that writes a
file. `Implementation` maps `ready` to reading and each action to a step of the
store or to none: `Create` fills, the end of a fetch or a crash settles, the
steps to `ready` serve, with the purged files as the room that is made; what a
resource does that shares its process makes room for nobody (`MakeRoom`).
`SharedResponses_proofs` shows that this abstract specification says what a
reader needs; `ServesItsReaders` has it for the processes by the refinement
alone, without another look at the code's actions.

`DisturbedOnlyAtHome` needs no resource to be alone: a lock that a process has
on a file keeps the files away from every action of another process (`HomeStep`),
so what is left are the actions of its own process, of which only closing the
file and a purge pass over its own locks.

`SizeIsCovered` compares the recorded size with the files that were stored whole
and are not just being added (`Covered`). A sum of sizes is the cardinality of a
set of units (`Units`), so the lemmas say which units a step adds or removes; an
update adds those of one file, and a purge records what it leaves.
`LimitIsKept` rests on the same lemmas. What counts grows only by
`update_cache_info` (`CountedStep`), and by `SizeCoversCache` that call sees a
total that is too large and goes on to a purge (`UpdateInfoKeepsLimit`). A purge
stops when the total is small enough or no candidate is left, so one that leaves
too much has removed all that nobody else has locked (`PurgeLeaves`).

For requests, every step is one of `RemoteHttpResource` or leaves it alone
(`RequestsRetrieve`), so `FileInv` and the theorems above hold of requests.
`CopiesOK` is inductive together with `HeldByOne` (every resource has exactly
one copy that holds it) and `ErrorIsIdle` (a process whose request failed
retrieves nothing). `NoCircularWait` needs `ExclusiveHasReason`, too: an
exclusive lock belongs to a resource that downloads, unwinds or failed, and a
process that asks for a lock has none. The same lemmas (`HolderWorks`,
`HolderWaitsForNone`) give `NoDeadlock`. `ContainersImplemented` maps an access
to the step that ends it. `ContainersStaySound` does not go through that
refinement, which says nothing of restarts: it reads the invariants of
`GatewayContainer` off `CopiesOK` and `HeldByOne`, and needs in addition that a
copy that gave a file has the type of a response (`FilesAreTyped`).

`AccessesAdvance` counts what is left of an access: the calls that may follow
(`CallsLeft`, at most eight) and the units of data its file has room for. A step
of its own makes a call or writes data (`OwnStep`). No other step changes the
size of a file that is being written, because `FileInv` has it locked for
writing (`OthersKeepSize`). `PurgeEnds` takes, of the sets of files with which a
purge has done enough, one of least size: without any of its files it would not
be enough, so it is what a purge that stops as soon as it may removes.

The claims of `DocumentedClaims` fail for one reason each. Without failed
downloads and ends of processes no file is ever `aborted`, so what `FileInv`
calls finished is whole (`WholeUnlessFailed`). A retrieval returns with its file
locked (`BecomesReady`), and `HomeStep` says who may take the lock away: if no
process has two objects on one file at a time and purges spare the files in use
in their own process, nobody does (`LockKeptUnlessShared`). Where each URL tells a
type and headers tell no other, the type of a resource is that of its URL from
the first step on (`TypesAgree`). Without purges no file goes, so what refused
`create_and_lock` is there at the second try (`GetUnlessPurged`).

For containers, `StoredUnaccessed` strengthens `SoleOwner`: what the storage
duplicates was never accessed, so the wrong check in `_duplicate` shares a null
pointer only. `ReadyIsTyped` carries `FileMeansRetrieved` over a second
`access()`. For transfers, the file is level with what the server sent until
the transfer fails. `SetTypeCases` says where a type that `setType` finds comes
from; it rests on what a search in a sequence finds, for which the least index
is taken from the well-foundedness of the order of the naturals. With the two
invariants, each step of a transfer is mapped to a step of `Fetch`. For
`TypeFollowsPriority`, `VectorInv` says that without redirects and status-like
lines the collected headers are the beginning of the response's.
For `LastResponseCounts`, `OriginInv` says where in the vector the lines of the
present response are, behind all those of earlier ones: if it has kept a line of
a kind, the newest of that kind in the vector is its own, and that is the one
`setType` uses. `TransferIsBounded` has a measure (`StepsLeft`) of the redirects
still allowed, each worth all the steps that a response can take, and of the
lines and data of the present one; it counts with the bounds on both, so it says
that a transfer with finite responses is finite, whatever the server answers.

For a process, `LoadInv` says what of the configuration has been read in each
phase, with the loop invariant of the MIME lines in it: a module has the
content type of its last line so far (`LastEntry`), or none. `MimeStep` is one
turn. After the loop that line is the one that `TypeDetection` selects in the
whole list, hence `LooksUpAsConfigured`. `ProxyInv` says that the settings
`configureProxy` reads are those of the keys; `ConfigureProxyOK` compares the
options it sets with the keys directly. A file name means that the cache is kept
(`NamedByCache`), so destructors find it.

Only model-checked is what is beyond the prover: `AccessEnds` and `TransferEnds`,
liveness under fairness, and `OnlyLocksBlock`, which uses `ENABLED`.
`NothingElseBlocks` proves the part of it that is not obvious, with the guards
written out (`CanGoOn`).

## Not modelled

- The text of URLs, headers and messages; `dump()`; debug output.
- `UseInternalCache` and `ProxyProtocol`, which no retrieval reads;
  `get_instance` with parameters, which nothing calls; `delete_instance`, which
  is only registered if `HAVE_ATEXIT` is defined, and nothing in the build
  defines it.
- `GatewayRequest` and `GatewayError`, which nothing calls; the version and
  help handlers, which have no state.
- Memory of an object whose constructor throws.
- A header line without `: `, of which `setType` takes the whole for the name and
  all but the first character for the value.
