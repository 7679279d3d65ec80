--------------------- MODULE InstanceTypeCatalogProofs ---------------------
(* Proofs about InstanceTypeCatalog, for every set of callers, domains and    *)
(* shapes, and every list of CPUs, ratios and kubelet configurations.         *)
EXTENDS InstanceTypeCatalog, NodeSizingProofs

(* Sizes.                                                                     *)

\* A product of natural numbers is one.
LEMMA Product == \A x, y \in Nat : x * y \in Nat
OBVIOUS

\* The VNICs of a size are a natural number.
LEMMA VnicType ==
  ASSUME NEW s \in Shapes, NEW c \in Nat
  PROVE  CalMaxVnic(s, c) \in Nat
<1>1. s.vnics \in Nat /\ s.perOcpu \subseteq Nat
  BY CatalogAssumption
<1>2. s.perOcpu # {} => Only(s.perOcpu) \in Nat
  BY <1>1 DEF Only
<1>3. s.perOcpu # {} => Only(s.perOcpu) * c \in Nat
  BY <1>2, Product
<1> QED BY <1>1, <1>3 DEF CalMaxVnic, AtMost

\* toWrapShape makes well-typed sizes of the shape, in the one domain; those of a
\* flexible shape come from splitFlexCpuMem.
LEMMA WrapType ==
  ASSUME NEW s \in Shapes, NEW a \in ADs, NEW w \in ToWrapShape(s, a)
  PROVE  w \in Sizes /\ w.shape = s /\ w.ads = {a} /\ Split(w)
<1>1. /\ s.flexible \in BOOLEAN /\ s.vcpus \in {1, 2} /\ s.vnics \in Nat
      /\ s.maxCpu \in Nat /\ s.maxMem \in Nat
  BY CatalogAssumption
<1>2. CASE s.flexible
  <2>1. PICK q \in CpuList \X Ratios :
          /\ w = Size(s, q[1] * s.vcpus, q[1] * s.vcpus * q[2], CalMaxVnic(s, q[1]), a)
          /\ WithinLimits(s, q[1], q[1] * s.vcpus * q[2])
    BY <1>2 DEF ToWrapShape, SplitFlexCpuMem
  <2>2. q[1] \in CpuList /\ q[2] \in Ratios /\ q[1] \in Nat /\ q[2] \in Nat
    BY CatalogAssumption
  <2>3. q[1] * s.vcpus \in Nat /\ q[1] * s.vcpus * q[2] \in Nat /\ CalMaxVnic(s, q[1]) \in Nat
    BY <1>1, <2>2, Product, VnicType
  <2>4. /\ w.shape = s /\ w.cpu = q[1] * s.vcpus /\ w.mem = q[1] * s.vcpus * q[2]
        /\ w.vnics = CalMaxVnic(s, q[1]) /\ w.ads = {a}
    BY <2>1 DEF Size
  <2>5. w \in Sizes
    BY <2>1, <2>3 DEF Size, Sizes
  <2>6. Split(w)
    BY <1>2, <2>1, <2>2, <2>4 DEF Split
  <2> QED BY <2>4, <2>5, <2>6
<1>3. CASE ~s.flexible
  <2>1. w = Size(s, s.maxCpu * 2, s.maxMem, s.vnics, a)
    BY <1>3 DEF ToWrapShape
  <2>2. s.maxCpu * 2 \in Nat
    BY <1>1
  <2>3. /\ w.shape = s /\ w.cpu = s.maxCpu * 2 /\ w.mem = s.maxMem /\ w.vnics = s.vnics
        /\ w.ads = {a}
    BY <2>1 DEF Size
  <2>4. w \in Sizes
    BY <1>1, <2>1, <2>2 DEF Size, Sizes
  <2> QED BY <1>3, <2>3, <2>4 DEF Split
<1> QED BY <1>1, <1>2, <1>3

\* Merging keeps shape, CPUs, memory and VNICs of a size, and only adds domains.
LEMMA CombineType ==
  ASSUME NEW lists \in [ADs -> SUBSET Shapes], NEW v \in Combine(lists)
  PROVE  v \in Sizes /\ Split(v)
<1>1. PICK w \in Gathered(lists) :
        v = [w EXCEPT !.ads = UNION {x.ads : x \in {u \in Gathered(lists) : SameKey(u, w)}}]
  BY DEF Combine
<1>2. \A u \in Gathered(lists) : u \in Sizes /\ Split(u)
  <2> TAKE u \in Gathered(lists)
  <2>1. PICK a \in ADs : \E s \in lists[a] : u \in ToWrapShape(s, a)
    BY DEF Gathered
  <2>2. PICK s \in Shapes : u \in ToWrapShape(s, a)
    BY <2>1
  <2> QED BY <2>2, WrapType
<1> DEFINE ads == UNION {x.ads : x \in {u \in Gathered(lists) : SameKey(u, w)}}
<1>3. ads \in SUBSET ADs
  BY <1>2 DEF Sizes
<1>4. v = [w EXCEPT !.ads = ads]
  BY <1>1
<1> HIDE DEF ads
<1>5. v \in Sizes /\ v.shape = w.shape /\ v.cpu = w.cpu /\ v.mem = w.mem /\ v.vnics = w.vnics
  BY <1>2, <1>3, <1>4 DEF Sizes
<1> QED BY <1>2, <1>5 DEF Split

\* Merging loses neither a size nor a domain it is available in.
LEMMA CombineKeeps ==
  ASSUME NEW lists \in [ADs -> SUBSET Shapes], NEW a \in ADs, NEW s \in lists[a],
         NEW w \in ToWrapShape(s, a)
  PROVE  \E v \in Combine(lists) : SameKey(v, w) /\ a \in v.ads
<1> DEFINE ads == UNION {x.ads : x \in {u \in Gathered(lists) : SameKey(u, w)}}
           v == [w EXCEPT !.ads = ads]
<1>1. w \in Sizes /\ w.ads = {a}
  BY WrapType
<1>2. w \in Gathered(lists) /\ SameKey(w, w)
  BY DEF Gathered, SameKey
<1>3. a \in ads
  BY <1>1, <1>2
<1>4. v \in Combine(lists)
  BY <1>2 DEF Combine
<1> HIDE DEF ads
<1>5. v.shape = w.shape /\ v.cpu = w.cpu /\ v.mem = w.mem /\ v.ads = ads
  BY <1>1 DEF Sizes
<1> QED BY <1>3, <1>4, <1>5 DEF SameKey

\* What Create asks for is in natural numbers.
LEMMA ConfigType ==
  ASSUME NEW w \in Sizes
  PROVE  ShapeConfig(w) \in [ocpus : Nat, mem : Nat]
<1>1. /\ w.cpu \in Nat /\ w.mem \in Nat /\ w.shape.maxCpu \in Nat /\ w.shape.maxMem \in Nat
  BY CatalogAssumption DEF Sizes
<1>2. w.cpu \div 2 \in Nat /\ (w.mem * 1024) \div 1024 \in Nat
  BY <1>1
<1> QED BY <1>1, <1>2 DEF ShapeConfig, ComputeRequirements

\* What splitFlexCpuMem multiplied Create divides again: the request is for the
\* CPUs of the list, within the limits and at the ratio they were chosen by.
LEMMA ConfigOfSplit ==
  ASSUME NEW w \in Sizes, Split(w), w.shape.flexible
  PROVE  LET s == w.shape IN
         /\ ShapeConfig(w).ocpus \in s.minCpu .. s.maxCpu
         /\ ShapeConfig(w).mem \in s.minMem .. s.maxMem
         /\ \E r \in Ratios : ShapeConfig(w).mem = ShapeConfig(w).ocpus * s.vcpus * r
<1>1. /\ w.cpu \in Nat /\ w.mem \in Nat /\ w.shape.vcpus \in {1, 2}
      /\ w.shape.minCpu \in Nat /\ w.shape.maxCpu \in Nat
      /\ w.shape.minMem \in Nat /\ w.shape.maxMem \in Nat
  BY CatalogAssumption DEF Sizes
<1>2. PICK c \in CpuList, r \in Ratios :
        /\ w.cpu = c * w.shape.vcpus /\ w.mem = c * w.shape.vcpus * r
        /\ WithinLimits(w.shape, c, w.mem)
  BY DEF Split
<1>3. c \in Nat
  BY CatalogAssumption
<1>4. ShapeConfig(w).ocpus = c
  BY <1>1, <1>2, <1>3 DEF ShapeConfig, ComputeRequirements
<1>5. ShapeConfig(w).mem = w.mem
  <2>1. ShapeConfig(w).mem = (w.mem * 1024) \div 1024
    BY DEF ShapeConfig, ComputeRequirements
  <2> QED BY <1>1, <2>1
<1> QED BY <1>1, <1>2, <1>3, <1>4, <1>5 DEF WithinLimits

-----------------------------------------------------------------------------
(* The steps.                                                                 *)

\* Every step keeps the types of the variables.
LEMMA TypeStep == TypeOK /\ [Next]_vars => TypeOK'
<1> SUFFICES ASSUME TypeOK, [Next]_vars PROVE TypeOK'
  OBVIOUS
<1> USE CatalogAssumption DEF TypeOK, AtMostOne
<1>1. ASSUME NEW c \in Callers, Acquire(c) PROVE TypeOK'
  BY <1>1 DEF Acquire
<1>2. ASSUME NEW c \in Callers, Leave(c) PROVE TypeOK'
  BY <1>2 DEF Leave
<1>3. ASSUME NEW c \in Callers, NEW x \in got[c], NEW w \in x, Launch(c, w) PROVE TypeOK'
  <2>1. w \in Sizes
    OBVIOUS
  <2>2. request' \subseteq [size : Sizes, config : [ocpus : Nat, mem : Nat]]
    BY <1>3, <2>1, ConfigType DEF Launch
  <2>3. got' \in [Callers -> SUBSET SUBSET Sizes] /\ \A d \in Callers : AtMostOne(got'[d])
    BY <1>3 DEF Launch
  <2> QED BY <1>3, <2>2, <2>3 DEF Launch
<1>4. ASSUME NEW a \in ADs, ListShapes(a) PROVE TypeOK'
  BY <1>4 DEF ListShapes
<1>5. ASSUME NEW a \in ADs, NEW s \in Shapes, ChangeShapes(a, s) PROVE TypeOK'
  BY <1>5 DEF ChangeShapes
<1>6. CASE ListShapesFails
  BY <1>6 DEF ListShapesFails, AfterFailure
<1>7. CASE Store
  <2>1. Combine(heard) \in SUBSET Sizes
    BY CombineType
  <2>2. cache' \subseteq SUBSET Sizes /\ AtMostOne(cache')
    BY <1>7, <2>1 DEF Store
  <2>3. got' \in [Callers -> SUBSET SUBSET Sizes] /\ \A d \in Callers : AtMostOne(got'[d])
    BY <1>7, <2>2 DEF Store
  <2> QED BY <1>7, <2>2, <2>3 DEF Store
<1>8. CASE Expire
  BY <1>8 DEF Expire
<1>9. CASE UNCHANGED vars
  BY <1>9 DEF vars
<1> QED BY <1>1, <1>2, <1>3, <1>4, <1>5, <1>6, <1>7, <1>8, <1>9 DEF Next

\* The variables keep their types in every reachable state: the mutex has one
\* holder at most, a failed listing leaves nothing behind, there is one catalogue
\* at most, and its sizes are of shapes that exist.
THEOREM Typing == Spec => []TypeOK
<1>1. Init => TypeOK
  BY CatalogAssumption DEF Init, TypeOK, AtMostOne
<1> QED BY <1>1, TypeStep, PTL DEF Spec

\* Listing, failing, changing shapes and expiring keep what a catalogue is merged
\* from complete.
LEMMA ListingStep ==
  ASSUME TypeOK, ListingComplete, [Next]_vars
  PROVE  ListingComplete'
<1> USE CatalogAssumption DEF TypeOK, ListingComplete
<1>1. ASSUME NEW c \in Callers, Acquire(c) PROVE ListingComplete'
  BY <1>1 DEF Acquire
<1>2. ASSUME NEW a \in ADs, ListShapes(a) PROVE ListingComplete'
  BY <1>2 DEF ListShapes
<1>3. ASSUME NEW a \in ADs, NEW s \in Shapes, ChangeShapes(a, s) PROVE ListingComplete'
  BY <1>3 DEF ChangeShapes
<1>4. CASE ListShapesFails
  BY <1>4 DEF ListShapesFails
<1>5. CASE Store
  BY <1>5 DEF Store
<1>6. CASE Expire
  BY <1>6 DEF Expire
<1>7. CASE \/ UNCHANGED vars
           \/ \E c \in Callers : Leave(c) \/ \E x \in got[c] : \E w \in x : Launch(c, w)
  BY <1>7 DEF vars, Leave, Launch
<1> QED BY <1>1, <1>2, <1>3, <1>4, <1>5, <1>6, <1>7 DEF Next

\* A cached catalogue has every size of every shape that stayed, in its domain.
LEMMA ListingSuffices == TypeOK /\ ListingComplete => NoZoneLost
<1> SUFFICES ASSUME TypeOK, ListingComplete, NEW x \in cache, NEW a \in ADs,
                    NEW s \in steady[a], NEW w \in ToWrapShape(s, a)
             PROVE  \E v \in x : SameKey(v, w) /\ a \in v.ads
  BY DEF NoZoneLost
<1>1. x = Combine(heard) /\ s \in heard[a]
  BY DEF ListingComplete
<1>2. heard \in [ADs -> SUBSET Shapes]
  BY DEF TypeOK
<1> QED BY <1>1, <1>2, CombineKeeps

\* No catalogue that is cached or returned lacks a shape, or a domain of a shape,
\* that OCI had all through the listing, whatever fails, changes or is shared.
THEOREM NoZoneIsLost == Spec => []NoZoneLost
<1>1. Init => ListingComplete
  BY DEF Init, ListingComplete
<1> QED BY <1>1, ListingStep, ListingSuffices, Typing, PTL DEF Spec

\* Merging adds a domain to a size only for a size of that domain.
LEMMA CombineInvents ==
  ASSUME NEW lists \in [ADs -> SUBSET Shapes], NEW v \in Combine(lists), NEW a \in v.ads
  PROVE  a \in ADs /\ \E s \in lists[a] : \E w \in ToWrapShape(s, a) : SameKey(w, v)
<1>1. PICK g \in Gathered(lists) :
        v = [g EXCEPT !.ads = UNION {x.ads : x \in {u \in Gathered(lists) : SameKey(u, g)}}]
  BY DEF Combine
<1>2. \A u \in Gathered(lists) : \E b \in ADs : \E s \in lists[b] :
        u \in ToWrapShape(s, b) /\ u \in Sizes /\ u.ads = {b}
  <2> TAKE u \in Gathered(lists)
  <2>1. PICK b \in ADs : \E s \in lists[b] : u \in ToWrapShape(s, b)
    BY DEF Gathered
  <2>2. PICK s \in lists[b] : u \in ToWrapShape(s, b)
    BY <2>1
  <2>3. s \in Shapes
    OBVIOUS
  <2> QED BY <2>2, <2>3, WrapType
<1> DEFINE ads == UNION {x.ads : x \in {u \in Gathered(lists) : SameKey(u, g)}}
<1>3. v = [g EXCEPT !.ads = ads] /\ g \in Sizes
  BY <1>1, <1>2
<1> HIDE DEF ads
<1>4. v.shape = g.shape /\ v.cpu = g.cpu /\ v.mem = g.mem /\ v.ads = ads
  BY <1>3 DEF Sizes
<1>5. PICK w \in Gathered(lists) : SameKey(w, g) /\ a \in w.ads
  BY <1>4 DEF ads
<1>6. PICK b \in ADs : \E s \in lists[b] : w \in ToWrapShape(s, b) /\ w.ads = {b}
  BY <1>2
<1>7. b = a
  BY <1>5, <1>6
<1>8. SameKey(w, v)
  BY <1>4, <1>5 DEF SameKey
<1> QED BY <1>6, <1>7, <1>8

\* Every zone a cached catalogue offers a size in was heard of from that domain:
\* no launch is steered to a zone that did not list the shape.
THEOREM NoZoneIsInvented == Spec => []NoZoneInvented
<1>1. Init => ListingComplete
  BY DEF Init, ListingComplete
<1>2. TypeOK /\ ListingComplete => NoZoneInvented
  <2> SUFFICES ASSUME TypeOK, ListingComplete, NEW x \in cache, NEW v \in x, NEW a \in v.ads
               PROVE  \E s \in heard[a] : \E w \in ToWrapShape(s, a) : SameKey(w, v)
    BY DEF NoZoneInvented
  <2>1. x = Combine(heard) /\ heard \in [ADs -> SUBSET Shapes]
    BY DEF TypeOK, ListingComplete
  <2> QED BY <2>1, CombineInvents
<1> QED BY <1>1, <1>2, ListingStep, Typing, PTL DEF Spec

\* Every size that is cached, held or asked for is one that was split.
LEMMA SplitStep ==
  ASSUME TypeOK, SizesSplit, [Next]_vars
  PROVE  SizesSplit'
<1> USE DEF TypeOK, SizesSplit
<1>0. \A w : Split(w)' <=> Split(w)
  BY DEF Split, WithinLimits
<1>1. ASSUME NEW c \in Callers, Acquire(c) PROVE SizesSplit'
  BY <1>0, <1>1 DEF Acquire
<1>2. ASSUME NEW c \in Callers, NEW x \in got[c], NEW w \in x, Launch(c, w) PROVE SizesSplit'
  BY <1>0, <1>2 DEF Launch, ShapeConfig, ComputeRequirements
<1>3. CASE Store
  <2>1. \A w \in Combine(heard) : Split(w)
    BY CombineType
  <2>2. \A x \in cache' : \A w \in x : Split(w)
    BY <1>3, <2>1 DEF Store
  <2> QED BY <1>0, <1>3, <2>2 DEF Store
<1>4. ASSUME NEW c \in Callers, Leave(c) PROVE SizesSplit'
  BY <1>0, <1>4 DEF Leave
<1>5. CASE \/ \E a \in ADs : ListShapes(a) \/ \E s \in Shapes : ChangeShapes(a, s)
           \/ ListShapesFails \/ Expire
  <2>1. request' = {} /\ UNCHANGED got /\ (UNCHANGED cache \/ cache' = {})
    BY <1>5 DEF ListShapes, ChangeShapes, ListShapesFails, Expire
  <2> QED BY <1>0, <2>1
<1>6. CASE UNCHANGED vars
  BY <1>0, <1>6 DEF vars, ShapeConfig, ComputeRequirements
<1> QED BY <1>1, <1>2, <1>3, <1>4, <1>5, <1>6 DEF Next

\* Every request was made from a size that was split.
LEMMA SplitInvariant == Spec => []SizesSplit
<1>1. Init => SizesSplit
  BY DEF Init, SizesSplit
<1> QED BY <1>1, SplitStep, Typing, PTL DEF Spec

\* Every LaunchInstance request for a flexible shape asks for CPUs and memory
\* within the shape's limits and at a configured ratio, for any shapes, lists and
\* ratios (splitFlexCpuMem, then Create's division).
THEOREM RequestsWithinLimits == Spec => []LaunchesWithinLimits
<1>1. TypeOK /\ SizesSplit => LaunchesWithinLimits
  <2> SUFFICES ASSUME TypeOK, SizesSplit, NEW l \in request, l.size.shape.flexible
               PROVE  LET s == l.size.shape IN
                      /\ l.config.ocpus \in s.minCpu .. s.maxCpu
                      /\ l.config.mem \in s.minMem .. s.maxMem
                      /\ \E r \in Ratios : l.config.mem = l.config.ocpus * s.vcpus * r
    BY DEF LaunchesWithinLimits
  <2>1. l.size \in Sizes /\ Split(l.size) /\ l.config = ShapeConfig(l.size)
    BY DEF TypeOK, SizesSplit
  <2> QED BY <2>1, ConfigOfSplit
<1> QED BY <1>1, SplitInvariant, Typing, PTL

\* The node of every request has what its size promised the scheduler, for every
\* kubelet configuration the API server admits.
THEOREM PromisesKept == Spec => []PromiseKept
<1>1. TypeOK => PromiseKept
  <2> SUFFICES ASSUME TypeOK, NEW l \in request, NEW kc \in Kubelets, NEW r \in Resources
               PROVE  Allocatable(kc, l.size)[r] <=
                        NodeAllocatable(KubeletExtraArgs(kc, l.size), l.size)[r]
    BY DEF PromiseKept
  <2>1. Dimensions(l.size)
    BY DEF TypeOK, Sizes, Dimensions
  <2>2. KubeletConfiguration(kc)
    BY CatalogAssumption
  <2> QED BY <2>1, <2>2, NodeKeepsPromise DEF Resources
<1> QED BY <1>1, Typing, PTL

-----------------------------------------------------------------------------
(* Room for pods.                                                             *)

\* Where a shape has a VNIC for pods, a size of c OCPUs has one: calMaxVnic gives a
\* single OCPU two, more of them one or more each, and does not cut below 24.
LEMMA VnicsForPods ==
  ASSUME NEW s \in Shapes, s.flexible, VnicForPods(s), NEW c \in Nat, s.minCpu <= c
  PROVE  CalMaxVnic(s, c) >= 2
<1>1. s.vnics \in Nat /\ s.perOcpu \subseteq Nat /\ s.minCpu \in Nat
  BY CatalogAssumption
<1>2. CASE s.perOcpu = {}
  BY <1>1, <1>2 DEF CalMaxVnic, VnicForPods
<1>3. CASE s.perOcpu # {}
  <2> DEFINE per == Only(s.perOcpu)
  <2>1. s.minCpu > 0 /\ per \in Nat /\ per # 0
    BY <1>1, <1>3 DEF VnicForPods, Only
  <2>2. CalMaxVnic(s, c) = AtMost(24, IF c = 1 THEN 2 ELSE per * c)
    BY <1>3 DEF CalMaxVnic
  <2>3. c > 0
    BY <1>1, <2>1
  <2> HIDE DEF per
  <2>4. per * c \in Nat /\ 1 * c <= per * c
    BY <2>1, Scaling
  <2> QED BY <2>2, <2>3, <2>4 DEF AtMost
<1> QED BY <1>2, <1>3

\* A size has no less than the least size of its shape, and no more memory than
\* the shape's limit.
LEMMA SplitFromLeast ==
  ASSUME NEW w \in Sizes, Split(w), VnicForPods(w.shape)
  PROVE  LET l == LeastSize(w.shape) IN
         /\ l \in [cpu : Nat, mem : Nat, vnics : Nat]
         /\ l.cpu <= w.cpu /\ l.vnics <= w.vnics /\ w.mem \in l.mem .. w.shape.maxMem
<1> DEFINE s == w.shape
<1>1. /\ s \in Shapes /\ s.flexible \in BOOLEAN /\ s.vcpus \in {1, 2} /\ s.vcpus \in Nat
      /\ s.minCpu \in Nat /\ s.maxCpu \in Nat /\ s.minMem \in Nat /\ s.maxMem \in Nat
      /\ w.cpu \in Nat /\ w.mem \in Nat /\ w.vnics \in Nat
  BY CatalogAssumption DEF Sizes
<1>2. CASE s.flexible
  <2>1. PICK c \in CpuList, r \in Ratios :
          /\ w.cpu = c * s.vcpus /\ w.vnics = CalMaxVnic(s, c)
          /\ WithinLimits(s, c, w.mem)
    BY <1>2 DEF Split
  <2>2. c \in Nat /\ s.minCpu <= c /\ s.minMem <= w.mem /\ w.mem <= s.maxMem
    BY <1>1, <2>1, CatalogAssumption DEF WithinLimits
  <2>3. s.minCpu * s.vcpus \in Nat /\ s.minCpu * s.vcpus <= c * s.vcpus
    BY <1>1, <2>2, Scaling
  <2>4. w.vnics >= 2
    BY <1>1, <1>2, <2>1, <2>2, VnicsForPods
  <2>5. LeastSize(s) = [cpu |-> s.minCpu * s.vcpus, mem |-> s.minMem, vnics |-> 2]
    BY <1>2 DEF LeastSize
  <2> QED BY <1>1, <2>1, <2>2, <2>3, <2>4, <2>5
<1>3. CASE ~s.flexible
  <2>1. w.cpu = s.maxCpu * 2 /\ w.mem = s.maxMem /\ w.vnics = s.vnics /\ s.vnics >= 2
    BY <1>3 DEF Split, VnicForPods
  <2>2. LeastSize(s) = [cpu |-> s.maxCpu * 2, mem |-> s.maxMem, vnics |-> 2]
    BY <1>3 DEF LeastSize
  <2> QED BY <1>1, <2>1, <2>2
<1> QED BY <1>1, <1>2, <1>3

\* If the shapes OCI has and the kubelet configurations leave room in the least
\* size and where a bracket begins, every size that is launched leaves something of
\* every resource, whatever CPU list and ratios the options hold.
THEOREM SizesAreUsable ==
  ASSUME RoomInShapes
  PROVE  Spec => []SizesUsable
<1>1. TypeOK /\ SizesSplit => SizesUsable
  <2> SUFFICES ASSUME TypeOK, SizesSplit, NEW l \in request, NEW kc \in Kubelets
               PROVE  Usable(kc, l.size)
    BY DEF SizesUsable
  <2> DEFINE w == l.size
             s == w.shape
  <2>1. w \in Sizes /\ Split(w) /\ s \in Shapes
    BY DEF TypeOK, SizesSplit, Sizes
  <2>2. VnicForPods(s) /\ RoomFrom(kc, LeastSize(s), s.maxMem)
    BY <2>1 DEF RoomInShapes
  <2>3. Dimensions(w) /\ KubeletConfiguration(kc) /\ s.maxMem \in Nat
    BY <2>1, CatalogAssumption DEF Sizes, Dimensions
  <2> HIDE DEF w
  <2>4. /\ LeastSize(s) \in [cpu : Nat, mem : Nat, vnics : Nat]
        /\ LeastSize(s).cpu <= w.cpu /\ LeastSize(s).vnics <= w.vnics
        /\ w.mem \in LeastSize(s).mem .. s.maxMem
    BY <2>1, <2>2, SplitFromLeast
  <2>5. Usable(kc, w)
    BY <2>2, <2>3, <2>4, RoomEverywhere
  <2> QED BY <2>5 DEF w
<1> QED BY <1>1, SplitInvariant, Typing, PTL
=============================================================================
