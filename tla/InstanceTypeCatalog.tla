------------------------- MODULE InstanceTypeCatalog -------------------------
(***************************************************************************)
(* instancetype.Provider.ListInstanceType and the sizes it makes: callers  *)
(* meet at the provider's mutex; the one that misses the cache lists the   *)
(* shapes of one availability domain after the other, splits the flexible  *)
(* ones into CPU and memory sizes, merges what the domains have in common  *)
(* and caches the catalogue for five minutes. A launch later turns a size  *)
(* back into the OCPUs and gigabytes of the LaunchInstance request, and    *)
(* its kubelet configuration into the arguments of the node (NodeSizing).  *)
(***************************************************************************)
EXTENDS NodeSizing

CONSTANTS
  Callers,
  ADs,          \* availability domains
  Shapes,       \* shapes, as ListShapes describes them
  CpuList,      \* FLEX_CPU_CONSTRAIN_LIST, in OCPUs
  Ratios,       \* FLEX_CPU_MEM_RATIOS
  Kubelets,     \* the kubelet configurations of the NodeClasses
  NoCaller,
  MaxChanges,   \* bound on the shapes OCI adds to or takes from a domain
  MaxFailures   \* bound on failing ListShapes calls

\* min and max hold the limits of a flexible shape, in OCPUs and gigabytes; for a
\* fixed one both hold what it has. vcpus is the vCPUs of one of its OCPUs, vnics
\* its MaxVnicAttachments, perOcpu the set of its VNICs per OCPU, or empty.
ASSUME CatalogAssumption ==
  /\ \A s \in Shapes :
       /\ s.flexible \in BOOLEAN /\ s.vcpus \in {1, 2}
       /\ s.vnics \in Nat /\ s.perOcpu \subseteq Nat
       /\ s.minCpu \in Nat /\ s.maxCpu \in Nat /\ s.minMem \in Nat /\ s.maxMem \in Nat
  /\ CpuList \subseteq Nat /\ Ratios \subseteq Nat
  /\ \A kc \in Kubelets : KubeletConfiguration(kc)
  /\ NoCaller \notin Callers
  /\ MaxChanges \in Nat /\ MaxFailures \in Nat

VARIABLES
  offered,   \* [ADs -> the shapes OCI has there]
  mu,        \* the caller that holds the mutex, or NoCaller
  listed,    \* the domains that caller has listed
  heard,     \* [ADs -> what the last ListShapes of the domain returned]
  steady,    \* [ADs -> the shapes it had all through the last listing] (history)
  cache,     \* the set of the one cached catalogue, or empty
  got,       \* [Callers -> the set of the catalogue it was given]
  request,   \* the set of the LaunchInstance request the last step made, or empty
  changes, failures

vars == <<offered, mu, listed, heard, steady, cache, got, request, changes, failures>>

-----------------------------------------------------------------------------
(* Sizes.                                                                  *)

Size(s, cpu, mem, vnics, ad) ==
  [shape |-> s, cpu |-> cpu, mem |-> mem, vnics |-> vnics, ads |-> {ad}]

\* Variant: the upper limit of the memory is not tested.
WithinLimitsNoMax(s, c, mem) == c >= s.minCpu /\ mem >= s.minMem /\ c <= s.maxCpu

WithinLimits(s, c, mem) ==
  c >= s.minCpu /\ mem >= s.minMem /\ c <= s.maxCpu /\ mem <= s.maxMem

\* Variant: one OCPU is not told apart.
CalMaxVnicPlain(s, c) == IF s.perOcpu = {} THEN s.vnics ELSE AtMost(24, Only(s.perOcpu) * c)

\* The VNICs of a size of c OCPUs: two for a single one, 24 at most.
CalMaxVnic(s, c) ==
  IF s.perOcpu = {} THEN s.vnics ELSE AtMost(24, IF c = 1 THEN 2 ELSE Only(s.perOcpu) * c)

\* splitFlexCpuMem: c OCPUs with r gigabytes for each vCPU.
SplitFlexCpuMem(s, ad) ==
  {Size(s, q[1] * s.vcpus, q[1] * s.vcpus * q[2], CalMaxVnic(s, q[1]), ad) :
     q \in {q \in CpuList \X Ratios : WithinLimits(s, q[1], q[1] * s.vcpus * q[2])}}

\* toWrapShape: a fixed shape has one size, two vCPUs for every OCPU.
ToWrapShape(s, ad) ==
  IF s.flexible THEN SplitFlexCpuMem(s, ad) ELSE {Size(s, s.maxCpu * 2, s.maxMem, s.vnics, ad)}

\* Two sizes with one key in wrapShapes.
SameKey(w, v) == w.shape.name = v.shape.name /\ w.cpu = v.cpu /\ w.mem = v.mem

\* The sizes of all domains; equal ones become one that is available in each.
Gathered(lists) == UNION {UNION {ToWrapShape(s, a) : s \in lists[a]} : a \in ADs}

\* Variant: the domain that comes last replaces the others.
CombineLast(lists) ==
  {w \in Gathered(lists) : w = CHOOSE v \in Gathered(lists) : SameKey(v, w)}

Combine(lists) ==
  {[w EXCEPT !.ads = UNION {v.ads : v \in {u \in Gathered(lists) : SameKey(u, w)}}] :
     w \in Gathered(lists)}

\* computeRequirements: the labels a size has, the memory in mebibytes.
ComputeRequirements(w) == [cpu |-> w.cpu, memory |-> w.mem * 1024, flexible |-> w.shape.flexible]

\* What Create asks for, from the labels: the vCPUs, halved but for A1, and the
\* memory in gigabytes; a fixed shape is asked for by its name alone.
ShapeConfig(w) ==
  LET r == ComputeRequirements(w) IN
  IF r.flexible THEN [ocpus |-> IF w.shape.vcpus = 1 THEN r.cpu ELSE r.cpu \div 2, mem |-> r.memory \div 1024]
  ELSE [ocpus |-> w.shape.maxCpu, mem |-> w.shape.maxMem]

-----------------------------------------------------------------------------
Sizes == [shape : Shapes, cpu : Nat, mem : Nat, vnics : Nat, ads : SUBSET ADs]
AtMostOne(S) == \A x, y \in S : x = y

TypeOK ==
  /\ offered \in [ADs -> SUBSET Shapes] /\ heard \in [ADs -> SUBSET Shapes]
  /\ steady \in [ADs -> SUBSET Shapes]
  /\ mu \in Callers \union {NoCaller}
  /\ listed \subseteq ADs /\ (mu = NoCaller => listed = {})
  /\ cache \subseteq SUBSET Sizes /\ AtMostOne(cache)
  /\ got \in [Callers -> SUBSET SUBSET Sizes] /\ \A c \in Callers : AtMostOne(got[c])
  /\ request \subseteq [size : Sizes, config : [ocpus : Nat, mem : Nat]]
  /\ changes \in 0 .. MaxChanges /\ failures \in 0 .. MaxFailures

Init ==
  /\ offered \in [ADs -> SUBSET Shapes]
  /\ mu = NoCaller /\ listed = {}
  /\ heard = [a \in ADs |-> {}] /\ steady = heard
  /\ cache = {}
  /\ got = [c \in Callers |-> {}]
  /\ request = {}
  /\ changes = 0 /\ failures = 0

\* The mutex is free: a hit returns at once, a miss starts listing.
Acquire(c) ==
  /\ mu = NoCaller /\ got[c] = {}
  /\ IF cache # {}
       THEN got' = [got EXCEPT ![c] = cache] /\ UNCHANGED <<mu, steady>>
       ELSE mu' = c /\ steady' = offered /\ UNCHANGED got
  /\ request' = {}
  /\ UNCHANGED <<offered, listed, heard, cache, changes, failures>>

\* All pages of one domain's ListShapes.
ListShapes(a) ==
  /\ mu # NoCaller /\ a \notin listed
  /\ listed' = listed \union {a}
  /\ heard' = [heard EXCEPT ![a] = offered[a]]
  /\ request' = {}
  /\ UNCHANGED <<offered, mu, steady, cache, got, changes, failures>>

\* What a failed listing leaves to the next. (Variant: the domains it got.)
AfterFailureKept == listed
AfterFailure     == {}

\* A domain's ListShapes fails: the error is returned and the mutex released.
ListShapesFails ==
  /\ mu # NoCaller /\ listed # ADs /\ failures < MaxFailures
  /\ failures' = failures + 1
  /\ mu' = NoCaller /\ listed' = AfterFailure
  /\ request' = {}
  /\ UNCHANGED <<offered, heard, steady, cache, got, changes>>

\* Every domain is listed: the catalogue is merged, cached and returned.
Store ==
  /\ mu # NoCaller /\ listed = ADs
  /\ cache' = {Combine(heard)}
  /\ got' = [got EXCEPT ![mu] = cache']
  /\ mu' = NoCaller /\ listed' = {}
  /\ request' = {}
  /\ UNCHANGED <<offered, heard, steady, changes, failures>>

\* The catalogue's five minutes are over.
Expire ==
  /\ cache # {} /\ mu = NoCaller
  /\ cache' = {}
  /\ request' = {}
  /\ UNCHANGED <<offered, mu, listed, heard, steady, got, changes, failures>>

\* A size is picked and its LaunchInstance request made.
Launch(c, w) ==
  /\ request' = {[size |-> w, config |-> ShapeConfig(w)]}
  /\ got' = [got EXCEPT ![c] = {}]
  /\ UNCHANGED <<offered, mu, listed, heard, steady, cache, changes, failures>>

\* The caller launches nothing: GetInstanceTypes for core's scheduler, or a
\* NodeClaim no size fits.
Leave(c) ==
  /\ got[c] # {}
  /\ got' = [got EXCEPT ![c] = {}]
  /\ request' = {}
  /\ UNCHANGED <<offered, mu, listed, heard, steady, cache, changes, failures>>

\* OCI adds a shape to a domain or takes it away.
ChangeShapes(a, s) ==
  /\ changes < MaxChanges
  /\ changes' = changes + 1
  /\ offered' = [offered EXCEPT ![a] = IF s \in @ THEN @ \ {s} ELSE @ \union {s}]
  /\ steady' = IF mu = NoCaller THEN steady ELSE [steady EXCEPT ![a] = @ \ {s}]
  /\ request' = {}
  /\ UNCHANGED <<mu, listed, heard, cache, got, failures>>

Next ==
  \/ \E c \in Callers : Acquire(c) \/ Leave(c) \/ \E x \in got[c] : \E w \in x : Launch(c, w)
  \/ \E a \in ADs : ListShapes(a) \/ \E s \in Shapes : ChangeShapes(a, s)
  \/ ListShapesFails \/ Store \/ Expire

Spec == Init /\ [][Next]_vars

-----------------------------------------------------------------------------
(* Properties.                                                             *)

\* A cached catalogue has every size of every shape a domain had all through the
\* listing, and has it available in that domain: neither a listing that failed
\* half way, a shape that several domains share, nor one that comes or goes
\* meanwhile loses a zone (ListInstanceType).
NoZoneLost ==
  \A x \in cache, a \in ADs : \A s \in steady[a] : \A w \in ToWrapShape(s, a) :
    \E v \in x : SameKey(v, w) /\ a \in v.ads

\* Nor does merging invent one: a size is offered in a domain only if the listing
\* that made the catalogue had a shape of that size from that very domain
\* (ListInstanceType, wrapShapes).
NoZoneInvented ==
  \A x \in cache : \A v \in x : \A a \in v.ads :
    \E s \in heard[a] : \E w \in ToWrapShape(s, a) : SameKey(w, v)

\* The OCPUs and gigabytes asked for are within the shape's limits, and the
\* memory is one of the configured ratios to the vCPUs they bring: what
\* splitFlexCpuMem multiplied Create divides again.
LaunchesWithinLimits ==
  \A l \in request : LET s == l.size.shape IN s.flexible =>
    /\ l.config.ocpus \in s.minCpu .. s.maxCpu
    /\ l.config.mem \in s.minMem .. s.maxMem
    /\ \E r \in Ratios : l.config.mem = l.config.ocpus * s.vcpus * r

\* The node launched has at least what its size promised, of every resource and
\* whatever its NodeClass configures: what the instance type subtracts the kubelet
\* keeps back, or less, and the pods it may run are no fewer. Otherwise pods that
\* were scheduled onto the NodeClaim do not fit the node (NewInstanceType,
\* kubeletExtraArgs).
PromiseKept ==
  \A l \in request, kc \in Kubelets : \A r \in Resources :
    Allocatable(kc, l.size)[r] <= NodeAllocatable(KubeletExtraArgs(kc, l.size), l.size)[r]

\* Every size that is launched leaves something of every resource, the smallest
\* with its one OCPU and two VNICs too.
SizesUsable == \A l \in request, kc \in Kubelets : Usable(kc, l.size)

-----------------------------------------------------------------------------
(* The inductive invariants behind them.                                   *)

\* A listing under way has, of the domains it has listed, at least what stayed
\* there; nothing is cached meanwhile. What is cached was merged from such.
ListingComplete ==
  /\ mu # NoCaller =>
       /\ cache = {}
       /\ \A a \in ADs : steady[a] \subseteq offered[a]
       /\ \A a \in listed : steady[a] \subseteq heard[a]
  /\ cache # {} => cache = {Combine(heard)} /\ \A a \in ADs : steady[a] \subseteq heard[a]

\* A size of a flexible shape is one that splitFlexCpuMem made, a size of a fixed
\* one is the shape's own.
Split(w) ==
  LET s == w.shape IN
  IF s.flexible
    THEN \E c \in CpuList, r \in Ratios :
           /\ w.cpu = c * s.vcpus /\ w.mem = c * s.vcpus * r /\ w.vnics = CalMaxVnic(s, c)
           /\ WithinLimits(s, c, w.mem)
    ELSE w.cpu = s.maxCpu * 2 /\ w.mem = s.maxMem /\ w.vnics = s.vnics

\* Merging and caching make no other sizes, and what is asked for is one of them.
SizesSplit ==
  /\ \A x \in cache : \A w \in x : Split(w)
  /\ \A c \in Callers : \A x \in got[c] : \A w \in x : Split(w)
  /\ \A l \in request : Split(l.size) /\ l.config = ShapeConfig(l.size)

\* No state has a listing that lost a shape, or a size nobody split.
CatalogInv == ListingComplete /\ SizesSplit

-----------------------------------------------------------------------------
(* When every size is of use.                                              *)

\* The least a size of the shape has, and the most memory.
LeastSize(s) ==
  IF s.flexible THEN [cpu |-> s.minCpu * s.vcpus, mem |-> s.minMem, vnics |-> 2]
  ELSE [cpu |-> s.maxCpu * 2, mem |-> s.maxMem, vnics |-> 2]

\* A VNIC for pods beside the first, in every size: shapes that are sized by the
\* OCPU have one or more for each, the others two or more.
VnicForPods(s) ==
  IF s.flexible /\ s.perOcpu # {} THEN s.minCpu > 0 /\ 0 \notin s.perOcpu ELSE s.vnics >= 2

\* A fact about the shapes and the configurations alone.
RoomInShapes ==
  \A s \in Shapes : VnicForPods(s) /\ \A kc \in Kubelets : RoomFrom(kc, LeastSize(s), s.maxMem)
=============================================================================
