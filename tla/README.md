# A TLA+ model of karpenter-oci

karpenter-oci is the OCI cloud provider of Karpenter: a Kubernetes operator in
which Karpenter core (a library, outside this repository) decides which nodes a
cluster needs and calls this repository's `CloudProvider` to launch, list, inspect
and delete OCI compute instances. Beside the adapter the repository has
controllers of its own, providers that wrap OCI's APIs behind caches, and the
`OciNodeClass` resource that describes how instances are made.

These modules model the parts with state and concurrency, check them with TLC on
small instances, and prove the safety properties with TLAPS for all
instances. `PROJECT.json` maps every definition to the lines it models.

## Inventory

| Part | State | Operations | Hard about it |
|---|---|---|---|
| CloudProvider adapter (`pkg/cloudprovider/cloudprovider.go`) | none; reads NodeClass, NodePool and NodeClaims from the informer cache | `Create`, `Delete`, `Get`, `List`, `GetInstanceTypes`, `IsDrifted` | the answer of `LaunchInstance` may be lost; a stale NodeClass; one bad instance fails the whole `List` |
| Instance provider (`pkg/providers/instance`) | none | choose type, zone, capacity type and subnet; `LaunchInstance`, `TerminateInstance`, `GetInstance`, `ListInstances` | no idempotency token; ownership by a tag alone; 204 and 404 |
| Garbage collection (`pkg/controllers/nodeclaim/garbagecollection`) | the three lists of a pass | list instances, NodeClaims and Nodes; a worker for each instance | lists taken at different times, used later; crash between terminate and Node deletion |
| NodeClass status controller (`pkg/controllers/nodeclass/status`) | finalizer, `Status.{Images,Subnets,SecurityGroups}`, conditions | resolve each selector, patch under an optimistic lock | stale informer reads, concurrent edits, partial failure, requeue policy |
| NodeClass hash controller (`.../nodeclass/hash`) | hash annotations of NodeClass and NodeClaims | migrate an old hash version, patch without a lock | races with launches; one of several patches fails |
| NodeClass termination controller (`.../nodeclass/termination`) | finalizer | wait for the NodeClaims, remove it | NodeClaims created meanwhile |
| Drift detection (`pkg/cloudprovider/drift.go`) | none | compare an instance with the status | empty lists |
| Refused offerings (`pkg/cache/unavailableofferings.go`) | keys with a time to live | `MarkUnavailable`, `IsUnavailable` | keys of marking and asking must agree |
| Instance types (`pkg/providers/instancetype`) | catalogue cache behind a mutex | list shapes per domain, split flexible shapes, merge, create offerings | failure half way; unit conversions at limits |
| Images (`pkg/providers/imagefamily`) | image cache shared by NodeClasses | resolve a selector, requirements from names, choose an image | what a cache entry depends on |
| Pricing (`pkg/providers/pricing`, `pkg/controllers/providers/pricing`) | catalogue behind an RWMutex | refresh, calculate | lock held over an HTTP call; responses that are neither error nor list |
| Subnets, security groups (`pkg/providers/{subnet,securitygroup}`) | caches | list by selector, count free addresses | concurrent launches into one subnet |
| Tagging (`pkg/controllers/nodeclaim/tagging`) | an annotation | add the NodeClass's free-form tags an instance lacks | partial failure, repeated calls, tags edited meanwhile |
| Bootstrap scripts (`pkg/providers/imagefamily/bootstrap`) | package variables of the Ubuntu script | make user data | variables shared by launches; nil pointers |
| Start-up (`pkg/operator`, `cmd/controller`) | options, configuration, provider of credentials | parse, complete from metadata, validate, make clients | metadata that fails silently; every error ends the process |
| Retry policy (`pkg/operator/oci/sdk/retrypolicy`) | none | repeat a call up to eight times | an attempt that had its effect |

They interact through three kinds of shared state: Kubernetes objects (written
with optimistic locks, with plain merge patches, or by the user, and read from
informer caches that lag behind), OCI resources (read and written by calls that
may fail after having had their effect), and in-process caches. Nothing locks
across two API calls. The correctness properties asked for each part are in the
tables below.

## Modules

| Module | Models | Composition |
|---|---|---|
| `NodeClaimLifecycle` | launch, record, delete and garbage collection of instances | adapter, instance provider and garbage collector together with core, OCI, kubelets and crashes |
| `InstanceOwnership` | nothing: the abstract specification of an instance's life | implemented by `NodeClaimLifecycle` |
| `NodeClaimLifecycleProofs` | | theorems about `NodeClaimLifecycle` |
| `NodeClassControllers` | one `OciNodeClass` with its three controllers, launches from it and drift | the three controllers with the API server, informers, user and core |
| `NodeClassControllersProofs` | | theorems about it |
| `LaunchOfferings` | from a NodeClaim's request to `LaunchInstance`, and the cache of refusals | `CreateOfferings`, `resolveInstanceTypes`, `pickBestInstanceType`, `MarkUnavailable` |
| `LaunchOfferingsProofs` | | theorems about it |
| `ImageResolution` | image selectors, the shared image cache, `Status.Images`, the choice of an image | image provider, the image part of the status controller, resolver |
| `ImageResolutionProofs` | | theorems about it |
| `NodeSizing` | capacity and overhead of a size, the kubelet's arguments, and what the kubelet makes of them | pure operators |
| `NodeSizingProofs` | | lemmas about its operators, that a node keeps what its size promised, and which sizes decide that all leave room |
| `InstanceTypeCatalog` | `ListInstanceType`: splitting, merging and caching shapes, and the OCPUs `Create` asks for | extends `NodeSizing`; provider and instance provider |
| `InstanceTypeCatalogProofs` | | theorems about it; extends `NodeSizingProofs` |
| `PriceList` | the embedded price list | pure data |
| `PriceCalculation` | the search of price items by name and the sum | extends `PriceList` |
| `PricingRefresh` | the price catalogue and its lock | extends `PriceCalculation`; controller, provider, listers, endpoint |
| `PricingRefreshProofs` | | theorems about it |
| `Startup` | from the start of the process to its controllers | |
| `InstanceLaunch` | `Create` from the choice of a subnet to `LaunchInstance`, user data included | extends `Startup` |
| `InstanceTagging` | the tagging controller and the retry policy | extends `InstanceLaunch` |
| `Provider` | one process: start, launches, tagging, crashes | composes the three with core, OCI and the user |
| `ProviderProofs` | | theorems about the composition |

`MC*` modules give the constants their values.

### NodeClaimLifecycle

`claim`, `pid` are the NodeClaim object and its `Status.ProviderID`; `created` is
core's memory of an answer of `Create` not recorded yet; `state`, `age`, `owner`,
`managed`, `node` are what OCI and the cluster hold for an instance; `seen` is the
informer cache. The garbage collector has one variable per local of `Reconcile`
and one action per API call, in the code's order: `GCListInstances`,
`GCListClaims`, `GCListNodes`, then a worker per instance (`GCSkip`, `GCTerminate`,
`GCDeleteNode`), then a worker per terminated instance (`GCNode`). Ages are three
classes, split at the code's 30 seconds and five minutes. Constants say which
assumptions on time are made:

- `RecordInWindow`: a launch is recorded and visible in the informer before the
  instance is 30 seconds old. The 30 seconds in the code exist for this.
- `PassInWindow`: an instance does not turn 30 seconds old between a pass's
  instance list and its worker.
- `AcceptedStatuses`: the HTTP statuses an accepted TerminateInstance may have. OCI
  answers 204; the code handles 200 separately. `lifecycle_safety` has both,
  `lifecycle_live` 204.

### NodeClassControllers

`obj` is the stored object, `cache` the informer's copy, `st`, `ha`, `te` the
controllers with the copies they work on. `stale` has the copies older than the
object, which is all that a resourceVersion is used for: a write under the
optimistic lock is refused exactly for these. A list is represented by the spec it
was resolved from, so that "resolved from the wrong spec" is visible. `Kinds` are
the kinds of resources resolved; `world` says which exist in OCI. `LaunchBegin`
takes image and security groups from the status, the subnet from what the spec
selects, as `Create` does. `CheckDrift` looks at the network interfaces of an
instance in any order, a secondary one with a subnet of its own perhaps among them.
`LaunchedResolved`, that no instance is launched with an empty list, is in no run
and is proved; with subnets alone it would be the guard of the launch.

### LaunchOfferings

`unavailable` is the cache, keyed by capacity type, shape and zone, so that all
sizes of a flexible shape share a key. `free` is OCI's capacity. A launch is three
steps (`ListTypes`, `SendLaunch`, the answer), between which others run. The
zone is drawn at random among those with an offering of the type (`mutable.Shuffle`),
which is a choice of `SendLaunch`. `short` and `knew` are history: what
was refused, and what was refused when a NodeClaim listed its types.

### ImageResolution, InstanceTypeCatalog, PricingRefresh

In `ImageResolution` an image is a number, its position in the order of the OCIDs
by which `Image.Reconcile` sorts. In `InstanceTypeCatalog` sizes keep their
arithmetic: OCPUs, vCPUs and gigabytes with the factors of `splitFlexCpuMem` and
`Create`. In `PricingRefresh` catalogues are versions, 0 the embedded one; a
display name is the sequence of its words, so that the search of `FindPriceItems`
(a regular expression with word boundaries, then a plain text search) is a search
for a subsequence. Prices are integers, in 10^-5 dollars.

`NodeSizing` has both sides of a promise: `Allocatable` is what `NewInstanceType`
and core compute for the scheduler, `NodeAllocatable` what a kubelet (external)
makes of the arguments the bootstrap script passes it. The kubelet has no default
reservations of its own; OKE nodes may have some, which are not in this repository.
CPU tax is computed in integers; the binary fractions of the code may come out one
millicore lower.

### Startup, InstanceLaunch, InstanceTagging, Provider

`phase` and `boot` are the process being started: the options, then the
configuration file, in whose place the provider made from it comes. Every error is
`Exit`. `RegionKey`, which nothing reads, is left out.

`launch` has one record for each `Create` in progress, one step for each remote
call and for each field of the Ubuntu script's shared variables, `static`, since
two goroutines may be anywhere between them. A script is the sequence of what the
new machine executes. `instance[n].met` is history: which NodeClaims wrote the
shared variables while this script was made. Lost answers of `LaunchInstance` are a
matter of `NodeClaimLifecycle`, where they are modelled.

`tagger` is the one reconciliation of the tagging controller in progress, `queue`
its work queue, filled by events the filter admits and by errors. Tags are keys:
the code compares keys only, and never updates a value. `UpdateInstance` is external:
OCI puts the free-form tags of a call in the place of those the instance has
(`Updated`), while the controller sends only the missing ones. The tags that say whose
an instance is are defined tags, sent with `LaunchInstance` and not with this call.
`given` is history: what the passes that gave an instance tags had read.

The count of a subnet's free addresses is the code's (`GetSubnetAvailableIPv4Count`):
`Blocks` is the sequence in which a subnet's blocks are reported; if its own is among
them, the utilisation of the first is subtracted, and otherwise nothing.

All failures and disturbances of the composition draw on one budget, `MaxEvents`,
so that every pair of them occurs in every order, which a separate bound for each
would make too large to check.

### InstanceOwnership

The abstract specification has two variables: the life of an instance (none, up,
down) and its holder. `Launch`, `Release` and `Terminate` are its actions: an
instance is launched for at most one NodeClaim, which holds it from then on unless
the answer is lost; a holder lets go once; only what nobody holds is terminated,
and all of that is (`Collected`). Under `NodeClaimLifecycle`'s refinement mapping
the holder of an instance is the live NodeClaim that recorded it or whose `Create`
has returned it (`Holder`), and terminating counts as down (`Life`): informers,
passes, Nodes and ages are invisible.

## Runs

Passing runs, with what they show:

| Run | Instance | Properties |
|---|---|---|
| `lifecycle_safety` | 2 NodeClaims, one of which overrides the managed-by tag, 2 instances, 1 foreign; no assumption on time; NodeClass may go; status 200 or 204 | `TypeOK`; `ForeignUntouched`; `ReleasedWhenDown`: a NodeClaim that is gone leaves no running instance, and a TERMINATED one if `Delete` reported success; `VisibleSurvives`: an owned instance the informer showed at the instance list survives the pass |
| `lifecycle_live` | 2 NodeClaims, 1 instance, 2 crashes, both windows, status 204 | `ImplementsOwnership`: the refinement of `InstanceOwnership`, its liveness included; `OwnedInstanceUp`: an owned instance and its Node are never taken; `NoInstanceLeaks`; `NodesCollected` |
| `nodeclass` | subnets, 1 NodeClaim, 1 edit, 1 change in OCI | `TypeOK`; `OutlivesInstances`; `StatusOfCurrentSpec`; `Converges`; `DeletionCompletes`; `DriftDetected`; `DriftOfLaunched`: secondary interfaces, in whatever order they are listed, make no drift |
| `offerings` | an on-demand NodeClaim for any type and one of either capacity type for the flexible shape in one zone; 3 types of 2 shapes, the flexible one with preemptible offerings; 2 zones; 1 expiry, 1 capacity change, 1 error | `TypeOK`; `RequestHonoured`; `RefusedNotRepeated`: an on-demand NodeClaim does not ask for a shape that was refused in all its zones, nor in a refused zone of a shape with on-demand offerings only; `OnDemandLaunched`: it is launched in the end if there is an offering with capacity |
| `image` | 3 NodeClasses, an OKE and a Custom one with the same selector and an OKE one with another; 3 images, 1 failure | `UndisturbedMatch`: an OKE launch gets an image for its machine unless another family has the very same selector; `NewImageSeen` |
| `pricing` | 2 listers, the 12 shapes of `calculator_test.go`, 3 price lists, 2 failures | `TypeOK`; `PricesReal`; `PricedAsTested`: by the embedded list the search finds the shapes `price_test.go` says it finds and the prices are those `calculator_test.go` expects of the list on Oracle's server; `PricesGoForward`; `ListsComplete`; `CatalogueFresh` |
| `catalog_safety` | 2 callers, 2 domains, 2 flexible shapes and a fixed one, 6 kubelet configurations, 1 change, 1 failure | `TypeOK`; `NoZoneLost`; `LaunchesWithinLimits`; `PromiseKept`: a node has at least what its size promised the scheduler; `SizesUsable`: and more than nothing of every resource |
| `provider` | 9 deployments, 2 NodeClaims (two Ubuntu NodeClasses, or a Custom and an OKE one), 2 subnets, 2 tags, 2 disturbances | `TypeOK`; `ScriptOfOverlap`; `TaggedComplete`: an annotated instance has the tags its pass read, unless a pass that read others gave it some; `EventuallyUp`; `EventuallyPlaced`; `EventuallyTagged` |

Runs in which the code violates what the repository says of it:

| Run | Shows |
|---|---|
| `lifecycle_nodeclass_gone` | with the NodeClass deleting and the NodePool there, `CloudProvider.List` fails on a leaked instance and nothing is collected any more |
| `nodeclass_no_sg` | a NodeClass without security groups never reports drift: an empty list is an error |
| `offerings_livelock` | the refusal of a preemptible launch is entered as on-demand, so the same offering is tried for ever |
| `provider_passphrase` | a passphrase in `auth.passphrase`, where the warning about the deprecated field asks for it, is not given to the SDK (`config.go:105`), and the process never comes up |

Met while modelling and not kept as runs, each reproducible by changing constants
or stating the property:

- `PassInWindow = FALSE` violates `OwnedInstanceUp`: the age is compared with the
  clock when the worker runs, the ids were listed before
  (`garbagecollection/controller.go:84`). The theorem names the assumption.
- With 204 a NodeClaim goes before its instance is TERMINATED: `Delete` reports 204 as
  "instance already terminated" (`instance.go:288`). `ReleasedWhenDown` is what
  holds: the instance is going down, and is TERMINATED if `Delete` reported success.
- `Overriding` NodeClaims violate `NoInstanceLeaks`: `getTags` lets the NodeClass
  replace the managed-by tag by which `List` finds instances (`instance.go:229`).
- For a shape with preemptible offerings, as VM shapes have by default
  (`options.go:35`), the zone filter does not look at the capacity type
  (`instance.go:257`), so an on-demand NodeClaim may draw a refused zone again while
  another is open. The run has such a shape; `RefusedNotRepeated` says what holds of
  it, and `OnDemandLaunched` that the draw finds the open zone in the end.
- A NodeClaim that admits both capacity types asks for an offering it was not shown
  (`instance.go:116`) when some of its shapes have no preemptible offerings.
  `CapacityDecided` names the NodeClaims to which this does not happen.
- NodeClasses of two families with one selector share a cache entry whose content
  depends on the family (`imagefamily.go:58`), and the OKE one may get an image for
  another machine. The run has such a pair; `UndisturbedMatch` says that the
  disagreement reaches only the NodeClasses that share that very selector.
- An instance may lose tags: when a NodeClass's tags are edited between a pass that
  gave an instance tags and a later one, the second sends only what is missing
  (`tagging/controller.go:108`) and OCI takes the others away. It happens in the run,
  and `TaggedComplete` excepts it by `given`.
- An instance may run the user data or the script of another Ubuntu NodeClass
  (`ubuntu_bootstrap.go:83`). `ScriptOfOverlap` is what remains: only of launches
  that overlapped. A NodeClass with a script may meet a nil pointer set by another
  (`ubuntu_bootstrap.go:141`), a panic that controller-runtime recovers; an Ubuntu
  NodeClass without user data panics always (`ubuntu_bootstrap.go:149`), and the run
  has none.
- The free addresses of a subnet are computed with the utilisation of the first
  block of the answer (`subnet.go:70`). A subnet that looks free because of another
  block can be chosen for ever while it has no room: `EventuallyPlaced` excepts a
  NodeClaim for which this happens (`Misled`). In the run another block is first in
  one subnet's answer, and no NodeClaim is misled by it, which TLC has checked. The
  addresses asked for are those of the pods, without the node's own
  (`instance.go:68`).
- The cluster endpoint is never discovered, as `options.go:71` says it would be.
- Prices are what the tests expect, which is not always what a shape is sold at: the
  search (`pricing.go:161`) gives VM.Standard3.Flex and VM.DenseIO2 the hourly
  commitment of the VMware solution's items, and the tests expect these sums. Not
  among the tested prices, and mispriced: GPU2 and GPU3 (two items, each by OCPU),
  VM.Optimized3.Flex, A100-v2, GPU4 and BM.HPC.E5 (no item, so `MaxFloat32`), those
  with one NVMe item alone (not divided by 1024), and VM.Standard.E2.1.Micro, which
  is not free. `PricedAsTested` says nothing of them.
- The fixed BM.Standard.A1.160 counts two vCPUs for an OCPU, since the test is for
  the name of the flexible shape (`utils.go:97`).
- The Custom family passes no kubelet arguments, so `PromiseKept` is about the other
  families.
- The hash controller may overwrite the hash of a NodeClaim that came to carry the
  current version after the controller's LIST (`hash/controller.go:103`).
- `MapToInstanceTypes` says it takes the most recent image; it takes the one with
  the smallest OCID (`resolver.go:94`).
- A price endpoint that answers with a status above 299 ends the process
  (`pricing.go:361`): the action `RefreshBadStatus`. The listers and the
  catalogue recover through the restart, which is what the run shows.

### Bounds

Each bound is a constant. Crashes, failures, edits, changes and expiries are
counted because each starts a new episode of the same kind: one is needed for the
hazard to happen, a second for it to happen during the recovery from the first.
Two NodeClaims, callers or listers are needed for interference; nothing in the
code treats three otherwise. Two instances let a NodeClaim be launched twice after
a lost answer, in `lifecycle_safety`; with two, the liveness of `lifecycle_live`
takes longer than is practical, and its two NodeClaims compete for one. The subnets
of `provider` are one with room for one instance and one of which another block is
reported first, and which looks no freer than the other; the user data are a text, a
MIME document of two parts, and none. The shapes of `pricing` are those of the
repository's tests; the six kubelet configurations of `catalog_safety` set each field
once, by quantity and by percentage. `nodeclass` resolves one kind of resource:
with two, liveness takes longer than is practical. The kinds are resolved one after
the other in one pass and differ in what an empty list means, which
`nodeclass_no_sg`, with images and security groups, and the proofs, for all kinds,
cover. The third NodeClass of `image` has another selector, so that shared
and separate cache entries occur together, and so do a disturbed and an
undisturbed NodeClass. The shapes of `catalog_safety` are
chosen so that every limit excludes some size and so that both factors (one and
two vCPUs for an OCPU) occur. Claims are not symmetric in `lifecycle_safety`,
because one overrides the tag; instances Karpenter launches are. No run with a
liveness property uses symmetry.

Deadlock is checked except where the system may stop: NodeClaims that are all gone
or launched, an OciNodeClass that was deleted.

### Fairness

Work queues retry what failed, informers deliver, OCI finishes what it accepted,
and the clock runs: weak fairness of those actions. Strong fairness is used for a
call that may fail but is repeated without end (the successful variant then
happens some time), and for steps that another step may disable for a while: the
garbage collector's lists, which an error ends, `GrowOld`, which waits for a pass,
the readers of the price lock, which Go's RWMutex lets in before the next writer.
A launch is strongly fair for each zone, since the zone is drawn at random.
Nothing is assumed of users, new NodeClaims, crashes or capacity. In `Provider`,
Kubernetes starts the container again and goroutines are scheduled (weak fairness of
`Boot`, of each NodeClaim's `LaunchStep`, which core repeats after an error, and of
`TaggerStep`); `Register`, by which an instance joins the cluster, need not happen.

`NoInstanceLeaks` and `NodesCollected` assume that the NodeClass stays;
`lifecycle_nodeclass_gone` shows that this is needed. `Converges` excepts an object
none of whose selectors matched anything, since no reconciler asks for a requeue
then. `OnDemandLaunched` and `EventuallyLaunched` assume that from some time on some
offering the NodeClaim admits has capacity and no refusal in the cache.

## Proofs

Every safety invariant and action property of the passing runs is a theorem, except
`PricedAsTested`, and so is the safety part of the refinement. The theorems hold for
every set of NodeClaims, instances, NodeClasses, shapes, subnets and so on and for
every value of the bounds, from the `ASSUME`s of the modules, which TLC evaluates in
each run, and from the hypotheses named below. Few of the properties are inductive;
each proof goes through an invariant that is, defined beside the property, checked
by TLC on the instance of the run, and shown to be preserved action by action.

`NodeClaimLifecycleProofs`:

- `Typing`: `TypeOK`.
- `OwnedInstancesSurvive`: `OwnedInstanceUp`, assuming `RecordInWindow` and
  `PassInWindow`. That the collector spares an owned instance depends on what the
  pass has listed. `LifecycleInv` adds: an unlaunched instance has no age and no
  Node (`Unlaunched`); an instance has at most one holder (`SingleHolder`); one
  whose launch is not visible yet is younger than 30 seconds and untouched
  (`HeldInstanceFresh`); what the pass still has to look at is young, or in its
  list of ids, whenever it is owned (`PassSparesOwned`); and what it has swept is
  terminating (`PassSweepsDead`).
- `OwnershipRefined`: `ImplementsOwnershipSafety`, the initial condition and the
  steps of `InstanceOwnership` under the refinement mapping, with the same two
  assumptions. `LifecycleInv` gives what each step needs: a launch answered makes
  the one holder, a NodeClaim that goes lets go of what it held, and what a
  finalizer or a worker terminates nobody holds. Everything else is a stutter
  (`CoreRefines`, `WorkerRefines`, `OthersRefine`).
- `VisibleInstancesSurvive`: the action property `VisibleSurvives`, without any
  assumption on time. It holds because the ids are listed after the instances.
- `ForeignInstancesSurvive`: `ForeignUntouched`, from the fact that a foreign
  instance never carries the managed-by tag and so is in no list of a pass.
- `ReleasedInstancesDown`: `ReleasedWhenDown`, for every set of statuses OCI may
  accept a termination with. It needs `SingleHolder` and that a terminating instance
  never comes up again (`DownStaysDown`).

`LaunchOfferingsProofs`:

- `Typing`: `TypeOK`.
- `RequestsHonoured`: `RequestHonoured`.
- `DecidedClaimsServed`, claim by claim and without a hypothesis: a NodeClaim whose
  capacity type is decided (`CapacityDecided`) asks for an offering it was shown
  (`Offered`). Decided are on-demand claims on shapes without preemptible offerings,
  preemptible claims, and claims that admit both on shapes that all have both; TLC
  finds counterexamples for an on-demand claim that names preemptible shapes and for
  a claim that admits both when the cheapest shape it names has no preemptible ones.
- `RefusalsRespected`: `RefusedNotRepeated`, for every set of preemptible shapes and
  every mix of NodeClaims.

  The invariant `OfferedInv` behind the two holds for all claims: an on-demand
  refusal that has not expired is in the cache, which has no preemptible ones
  (`CacheInv`); no claim was shown a preemptible offering of a shape without, an
  offering of a preemptible shape without its preemptible twin, or an on-demand
  offering refused before (`ShownInv`).

`NodeClassControllersProofs`, from `NodeClassInv` (the one assumption the proofs
added is that some kind of resource is resolved at all, `Kinds # {}`; with none,
every copy would be ready without a finalizer):

- `Typing`: `TypeOK`.
- `ObjectOutlivesInstances`: `OutlivesInstances`. Finalizer and deletion mark are
  never taken back (`MarksKept`), readiness comes after the finalizer
  (`ReadyHasFinalizer`), so a launch from a ready copy is one of an object that has
  it, and finalize, which acts on the deletion mark in the cache that launches read
  too, finds every NodeClaim with an instance (`FinalizeSeesAll`).
- `InstancesResolved`: `LaunchedResolved`, since a condition is True only beside a
  list that is not empty, in each copy (`CondMatchesList`).
- `StatusIsOfCurrentSpec`: the action property `StatusOfCurrentSpec`. A copy that is
  not stale is the object up to what was resolved on it (`CurrentCopies`), and the
  optimistic lock refuses the others.
- `DriftIsOfLaunched`: the action property `DriftOfLaunched`, from what
  `GetSubnets` and `GetSecurityGroups` return when up to two secondary interfaces
  are listed before or after the primary one (`PrimaryIsOwn`, `VnicsOfInstance`).

`ImageResolutionProofs`:

- `Typing`: `TypeOK`, which no run lists.
- `UndisturbedClassesMatch`: `UndisturbedMatch`, for every mix of families. Every
  image in the cache entry or the status of an `Undisturbed` NodeClass, one whose
  selector no NodeClass of another family has, has the requirements the NodeClass
  would have given it (`RequirementsOwn`). That a first image in the order of OCIDs
  exists (`LeastId`) is well-foundedness of the numbers.
- `LaunchesSelected`: `ImagesSelected`. Whatever a cache entry, a status or a launch
  has was published and is found by the NodeClass's own selector.

`NodeSizingProofs` and `InstanceTypeCatalogProofs`:

- `NodeKeepsPromise`: the allocatable resources the scheduler was promised are at
  most those of the node, for every size, every kubelet configuration the API
  admits, every memory overhead and boot volume. Its lemmas bound each part: the
  rounding of memory (`Rounding`, `Scaling`, `MemoryBound`), the tax of the brackets
  (`ReachedBrackets`, `TaxType`), reservations, eviction thresholds, by quantity and
  by percentage, and pods (`ReservedEnough`, `EvictionEnough`, `PodsEnough`).
- `RoomEverywhere`: `Usable`, that something is left of every resource, holds for
  every machine with no less CPU, VNICs and memory than a least one, if it holds for
  that one and for it with the memory at which a bracket of the reservations begins
  (`RoomFrom`). This is not monotony: at 2, 16 and 128 gigabytes the tax of the
  kubelet jumps, by up to seven gigabytes, so a larger machine may have less left. Below
  every amount there is a step of the same bracket (`StepBelow`), from which on the
  tax grows by a fiftieth of the memory (`MemoryTax`, `TaxWithinRate`), and what the
  overhead and a percentage of eviction take, each rounded up, leaves more than that
  (`SharesLeave`, `MoreMemoryLeft`); CPUs and pods do grow (`CPUGrows`, `PodsGrow`).
- `Typing`: `TypeOK`; `PromisesKept`: `PromiseKept`, from it and `NodeKeepsPromise`.
- `SizesAreUsable`: `SizesUsable`, assuming `RoomInShapes`: each shape has a VNIC for
  pods in all its sizes and each kubelet configuration leaves room in its least size
  and at the steps above it. Something of the kind is needed, since a reservation
  larger than the machine leaves nothing; the hypothesis is about shapes and
  configurations only, holds for those of the run, where TLC evaluates it, and covers
  every CPU list and all ratios. Every size is between the least one and the shape's
  limit (`SplitFromLeast`), and `calMaxVnic` gives it two VNICs (`VnicsForPods`).
- `NoZoneIsLost`: `NoZoneLost`. A listing under way has what stayed in the domains
  it has listed, and what is cached was merged from such (`ListingComplete`);
  merging keeps every domain of a size (`CombineKeeps`).
- `NoZoneIsInvented`: `NoZoneInvented`, the converse. A domain gets into a size only
  with a size of that domain (`CombineInvents`).
- `RequestsWithinLimits`: `LaunchesWithinLimits`. Every size of a flexible shape was
  made by `splitFlexCpuMem` (`SizesSplit`), and `Create` divides exactly what it
  multiplied (`ConfigOfSplit`).

`PricingRefreshProofs`, from `PricingInv`: the catalogue of a running process is one
that was served, and only a process that does not use the local list fetches one.

- `Typing`: `TypeOK`, by which every price in use is the one of its shape in one
  catalogue; `PricesAreReal`: `PricesReal`.
- `ListsGoForward`: the action property `PricesGoForward`, that in a list which
  refreshes cut no price is of an older catalogue than the one before. A running
  process has the newest catalogue any lister has read (`ReadBehindCatalogue`).

`ProviderProofs`, for every set of deployments, NodeClasses and user data:

- `TagsAreComplete`: `TaggedComplete`, with OCI replacing tags. As long as all passes
  that gave an instance tags read the same ones (`OnlyGiven`), the first of them gave
  it all, an attempt that had its effect and is repeated sends the same again, and
  the later passes have nothing to send (`TaggingInv`, `TagsReplaced`).
- `ScriptsOfOverlap`: `ScriptOfOverlap`. From a launch's own write on, the shared
  variables are its own or those of a launch it has met, and so is what it has read
  of them (`OverlapInv`).
- `Typing`: `TypeOK`, of which the addresses of a subnet are the substance: `Used`
  never exceeds `Capacity`, by counting in finite sets (`AddressStep`). The
  hypothesis `NothingIsNoRecord` says that the value standing for "none" is not a
  record; for the model value TLC uses it holds.

What the proofs changed in the modules: `SplitFlexCpuMem` ranges over pairs instead
of a tuple pattern, `KubeletConfiguration` is membership in a set of records, the
local definitions of `NodeAllocatable` the lemmas speak of are operators of their
own, and the type invariants of `InstanceTypeCatalog` and `PricingRefresh` say more.
`SizesUsable` is made of a formula for one size, which a theorem without hypotheses
is about. The behaviour of no action changed.

Only model-checked:

- Liveness: `NoInstanceLeaks`, `NodesCollected`, the liveness of
  `InstanceOwnership` (`Collected`) in `ImplementsOwnership`, `Converges`,
  `DeletionCompletes`, `DriftDetected`, `OnDemandLaunched`, `NewImageSeen`,
  `ListsComplete`, `CatalogueFresh`, `EventuallyUp`, `EventuallyPlaced`,
  `EventuallyTagged`. They need fairness and `ENABLED`, which the prover does not do.
- `PricedAsTested`: it is about one list of prices, and the sum over the items found is
  a fold, whose value for every list would need induction over data.

## Not modelled

- The items of the price list that no search for a shape reaches, and currencies
  other than the dollar.
- Volumes, metadata, agent configuration, labels and taints, bandwidth, GPU counts,
  events, metrics, logging: data that is passed on.
- The texts of the bootstrap scripts; the certificate bundle, endpoint and token in
  them are the same in every script of a process.
- The wiring of clients, caches and controllers at start-up, which decides nothing.
- The security group provider's cache (its key covers what the entry depends on).
- Retries inside calls other than `UpdateInstance`: they are inside one call, which
  the models let fail, succeed, or succeed with a lost answer.
- Karpenter core, the API server, the kubelets and OCI appear as external actions,
  as this code uses them.
- Fakes, tests, charts, generated deep copies.

## Plan

Modelled, checked and proved is what the tables above list. Left:

1. What `PriceCalculation` finds and adds up for every price list. Its search is
   `SelectSeq` and its sum a fold; facts about either for all sequences need induction
   over data, so they stay with TLC and the embedded list.
2. Liveness, should a prover with `ENABLED` and fairness be at hand: the ranking for
   `NoInstanceLeaks` is the order list, look, terminate of a pass.
