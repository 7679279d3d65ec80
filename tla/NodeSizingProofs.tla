-------------------------- MODULE NodeSizingProofs --------------------------
(* Proofs about NodeSizing, for every size, every kubelet configuration and *)
(* every setting of the two options.                                        *)
EXTENDS NodeSizing, FiniteSetTheorems, TLAPS

\* What a field of a configuration holds, if it holds anything, is of its type.
LEMMA OnlyIn ==
  ASSUME NEW T, NEW S \in SUBSET T, NEW d
  PROVE  S # {} => Only(S) \in T /\ Default(S, d) = Only(S)
BY DEF Only, Default

\* Rounding up is not less than rounding down, of no less.
LEMMA Rounding ==
  ASSUME NEW a \in Nat, NEW b \in Nat, b <= a, NEW d \in Nat, d > 0
  PROVE  /\ b \div d <= CeilDiv(a, d)
         /\ CeilDiv(a, d) \in Nat
BY DEF CeilDiv

\* A part of something is not more than the whole.
LEMMA Scaling ==
  ASSUME NEW a \in Nat, NEW b \in Nat, b <= a, NEW v \in Nat
  PROVE  b * v \in Nat /\ a * v \in Nat /\ b * v <= a * v
<1>1. a * v = b * v + (a - b) * v
  OBVIOUS
<1>2. a - b \in Nat
  OBVIOUS
<1>3. \A x, y \in Nat : x * y \in Nat
  OBVIOUS
<1>4. b * v \in Nat /\ a * v \in Nat /\ (a - b) * v \in Nat
  BY <1>2, <1>3
<1> QED BY <1>1, <1>4

\* The memory of a node is a part of the memory of its size.
LEMMA MemoryBound ==
  ASSUME NEW w, w.mem \in Nat
  PROVE  Memory(w) \in Nat /\ Memory(w) <= w.mem * Gi
<1> DEFINE m == w.mem * Gi
<1>1. m \in Nat
  BY DEF Gi
<1>2. m * VMMemoryOverhead \in Nat /\ m * VMMemoryOverhead <= m * 1000
  <2> HIDE DEF m
  <2>1. VMMemoryOverhead \in Nat /\ VMMemoryOverhead <= 1000
    BY SizingAssumption
  <2>2. VMMemoryOverhead * m \in Nat /\ VMMemoryOverhead * m <= 1000 * m
    BY <1>1, <2>1, Scaling
  <2> QED BY <1>1, <2>1, <2>2
<1>3. CeilDiv(m * VMMemoryOverhead, 1000) \in 0 .. m
  <2> DEFINE p == m * VMMemoryOverhead
  <2> HIDE DEF p, m
  <2> QED BY <1>1, <1>2 DEF CeilDiv, p
<1> QED BY <1>1, <1>3 DEF Memory

\* The brackets that are reached number one to five, and five only if the last
\* one is: the rate beyond it never applies below it.
LEMMA ReachedBrackets ==
  ASSUME NEW S \in SUBSET (1 .. 5), S # {}
  PROVE  Cardinality(S) \in 1 .. 5 /\ (Cardinality(S) = 5 => 5 \in S)
<1>1. \A k \in {4, 5} : IsFiniteSet(1 .. k) /\ Cardinality(1 .. k) = k
  <2> TAKE k \in {4, 5}
  <2>1. IsFiniteSet(1 .. k) /\ Cardinality(1 .. k) = IF 1 > k THEN 0 ELSE k - 1 + 1
    BY FS_Interval
  <2> QED BY <2>1
<1>2. IsFiniteSet(S) /\ Cardinality(S) \in Nat /\ Cardinality(S) <= 5
  <2>1. IsFiniteSet(1 .. 5) /\ Cardinality(1 .. 5) = 5
    BY <1>1
  <2>2. IsFiniteSet(S) /\ Cardinality(S) <= Cardinality(1 .. 5)
    BY <2>1, FS_Subset
  <2> QED BY <2>1, <2>2, FS_CardinalityType
<1>3. Cardinality(S) # 0
  BY <1>2, FS_EmptySet
<1>4. ASSUME 5 \notin S PROVE Cardinality(S) <= 4
  <2>1. S \subseteq 1 .. 4
    BY <1>4
  <2>2. IsFiniteSet(1 .. 4) /\ Cardinality(1 .. 4) = 4
    BY <1>1
  <2>3. Cardinality(S) <= Cardinality(1 .. 4)
    BY <2>1, <2>2, FS_Subset
  <2> QED BY <2>2, <2>3
<1> QED BY <1>2, <1>3, <1>4

\* The taxes are never negative.
LEMMA TaxType ==
  ASSUME NEW amount \in Nat
  PROVE  /\ Tax(ReservedMemoryTaxGi, amount) \in Nat
         /\ Tax(ReservedCPUTaxVCPU, amount) \in Nat
<1>1. ASSUME NEW brackets, DOMAIN brackets = 1 .. 5,
             \A i \in 1 .. 5 : brackets[i].recommended \in Nat /\ brackets[i].lower \in Nat,
             \A i \in 1 .. 4 : brackets[i].rate = 0, brackets[5].rate \in Nat
      PROVE  Tax(brackets, amount) \in Nat
  <2> DEFINE reached == {i \in DOMAIN brackets : brackets[i].lower <= amount}
             n == Cardinality(reached)
             b == brackets[n]
  <2>1. CASE reached = {}
    BY <2>1 DEF Tax
  <2>2. CASE reached # {}
    <3>1. n \in 1 .. 5 /\ (n = 5 => 5 \in reached)
      BY <1>1, <2>2, ReachedBrackets
    <3>2. Tax(brackets, amount) = b.recommended + (b.rate * (amount - b.lower)) \div 100
      BY <2>2 DEF Tax
    <3>3. n # 5 => b.rate = 0
      BY <1>1, <3>1
    <3>4. n = 5 => b.lower <= amount
      BY <3>1
    <3>5. b.recommended \in Nat /\ b.lower \in Nat /\ b.rate \in Nat
      BY <1>1, <3>1
    <3> HIDE DEF b, n
    <3>6. b.rate * (amount - b.lower) \in Nat
      <4>1. CASE n = 5
        <5>1. amount - b.lower \in Nat
          BY <3>4, <3>5, <4>1
        <5>2. \A x, y \in Nat : x * y \in Nat
          OBVIOUS
        <5> QED BY <3>5, <5>1, <5>2
      <4>2. CASE n # 5
        BY <3>3, <3>5, <4>2
      <4> QED BY <4>1, <4>2
    <3>7. \A x \in Nat : x \div 100 \in Nat
      OBVIOUS
    <3> QED BY <3>2, <3>5, <3>6, <3>7
  <2> QED BY <2>1, <2>2
<1>2. Tax(ReservedMemoryTaxGi, amount) \in Nat
  <2>1. /\ DOMAIN ReservedMemoryTaxGi = 1 .. 5
        /\ \A i \in 1 .. 5 : /\ ReservedMemoryTaxGi[i].recommended \in Nat
                             /\ ReservedMemoryTaxGi[i].lower \in Nat
        /\ \A i \in 1 .. 4 : ReservedMemoryTaxGi[i].rate = 0
        /\ ReservedMemoryTaxGi[5].rate \in Nat
    BY DEF ReservedMemoryTaxGi, Bracket
  <2> QED BY <1>1, <2>1
<1>3. Tax(ReservedCPUTaxVCPU, amount) \in Nat
  <2>1. /\ DOMAIN ReservedCPUTaxVCPU = 1 .. 5
        /\ \A i \in 1 .. 5 : /\ ReservedCPUTaxVCPU[i].recommended \in Nat
                             /\ ReservedCPUTaxVCPU[i].lower \in Nat
        /\ \A i \in 1 .. 4 : ReservedCPUTaxVCPU[i].rate = 0
        /\ ReservedCPUTaxVCPU[5].rate \in Nat
    BY DEF ReservedCPUTaxVCPU, Bracket
  <2> QED BY <1>1, <2>1
<1> QED BY <1>2, <1>3

-----------------------------------------------------------------------------
(* The kubelet keeps back no more than the instance type subtracts.          *)

Dimensions(w) == w.cpu \in Nat /\ w.mem \in Nat /\ w.vnics \in Nat

\* What the kubelet is told to reserve is what the size subtracts, or nothing.
LEMMA ReservedEnough ==
  ASSUME NEW kc, KubeletConfiguration(kc), NEW w, Dimensions(w)
  PROVE  LET k == KubeReservedResources(kc, w)
             s == SystemReservedResources(kc)
             nk == Default(kc.kubeReserved, [cpu |-> 0, memory |-> 0, storage |-> 0])
             ns == Default(kc.systemReserved, [cpu |-> 0, memory |-> 0, storage |-> 0])
         IN  /\ k \in Reservations /\ s \in Reservations
             /\ nk \in Reservations /\ ns \in Reservations
             /\ nk.cpu <= k.cpu /\ nk.memory <= k.memory /\ nk.storage <= k.storage
             /\ ns.cpu <= s.cpu /\ ns.memory <= s.memory /\ ns.storage <= s.storage
<1> DEFINE none == [cpu |-> 0, memory |-> 0, storage |-> 0]
           tax == [cpu |-> Tax(ReservedCPUTaxVCPU, w.cpu),
                   memory |-> Tax(ReservedMemoryTaxGi, w.mem), storage |-> Gi]
           fixed == [cpu |-> 100, memory |-> 100, storage |-> 0]
<1>1. kc.kubeReserved \in SUBSET Reservations /\ kc.systemReserved \in SUBSET Reservations
  BY DEF KubeletConfiguration
<1>2. none \in Reservations /\ tax \in Reservations /\ fixed \in Reservations
  BY TaxType DEF Dimensions, Reservations, Gi
<1>3. \A r \in Reservations : /\ r.cpu \in Nat /\ r.memory \in Nat /\ r.storage \in Nat
  BY DEF Reservations
<1>4. none.cpu = 0 /\ none.memory = 0 /\ none.storage = 0
  OBVIOUS
<1>5. KubeReservedResources(kc, w) = Default(kc.kubeReserved, tax)
  BY DEF KubeReservedResources
<1>6. SystemReservedResources(kc) = Default(kc.systemReserved, fixed)
  BY DEF SystemReservedResources
<1> HIDE DEF none, tax, fixed
<1>7. ASSUME NEW S \in SUBSET Reservations, NEW d \in Reservations
      PROVE  /\ Default(S, d) \in Reservations /\ Default(S, none) \in Reservations
             /\ Default(S, none).cpu <= Default(S, d).cpu
             /\ Default(S, none).memory <= Default(S, d).memory
             /\ Default(S, none).storage <= Default(S, d).storage
  <2>1. CASE S = {}
    BY <1>2, <1>3, <1>4, <2>1 DEF Default
  <2>2. CASE S # {}
    <3>1. Only(S) \in Reservations /\ Default(S, d) = Only(S) /\ Default(S, none) = Only(S)
      BY <2>2, OnlyIn
    <3> QED BY <1>3, <3>1
  <2> QED BY <2>1, <2>2
<1> QED BY <1>1, <1>2, <1>5, <1>6, <1>7 DEF none

\* A threshold in percent is rounded up by the size and down by the kubelet, and
\* is of no less memory.
LEMMA SignalEnough ==
  ASSUME NEW g \in [percent : BOOLEAN, value : Nat], NEW a \in Nat, NEW b \in Nat, b <= a
  PROVE  /\ Kept(b, g) \in Nat /\ ComputeEvictionSignal(a, g) \in Nat
         /\ Kept(b, g) <= ComputeEvictionSignal(a, g)
<1> DEFINE v == IF g.value = 100 THEN 0 ELSE g.value
<1>1. v \in Nat /\ g.value \in Nat
  OBVIOUS
<1>2. b * v \in Nat /\ a * v \in Nat /\ b * v <= a * v
  <2> HIDE DEF v
  <2> QED BY <1>1, Scaling
<1>3. (b * v) \div 100 <= CeilDiv(a * v, 100) /\ CeilDiv(a * v, 100) \in Nat
  <2> HIDE DEF v
  <2> QED BY <1>2, Rounding
<1>4. (b * v) \div 100 \in Nat
  <2> HIDE DEF v
  <2> QED BY <1>2
<1>5. CASE g.percent
  <2>1. Kept(b, g) = (b * v) \div 100 /\ ComputeEvictionSignal(a, g) = CeilDiv(a * v, 100)
    BY <1>5 DEF Kept, ComputeEvictionSignal
  <2> HIDE DEF v
  <2> QED BY <1>3, <1>4, <2>1
<1>6. CASE ~g.percent
  <2>1. Kept(b, g) = g.value /\ ComputeEvictionSignal(a, g) = g.value
    BY <1>6 DEF Kept, ComputeEvictionSignal
  <2> QED BY <1>1, <2>1
<1> QED BY <1>5, <1>6

\* The kubelet evicts no earlier than the size allows for, whether the NodeClass
\* sets both thresholds, one of them or none.
LEMMA EvictionEnough ==
  ASSUME NEW kc, KubeletConfiguration(kc), NEW w, Dimensions(w)
  PROVE  LET e == EvictionThreshold(kc, w)
             hard == Default(kc.evictionHard, DefaultSignals)
             em == Evict(Memory(w), hard.memory)
             es == Evict(EphemeralStorage, hard.nodefs)
         IN  /\ e.memory \in Nat /\ e.storage \in Nat /\ em \in Nat /\ es \in Nat
             /\ em <= e.memory /\ es <= e.storage
<1> DEFINE Signal == [percent : BOOLEAN, value : Nat]
           sizeMemory == w.mem * Gi
           hard == Default(kc.evictionHard, DefaultSignals)
           em == Evict(Memory(w), hard.memory)
           es == Evict(EphemeralStorage, hard.nodefs)
           tenth == CeilDiv(BootVolume * Gi, 10)
<1>1. sizeMemory \in Nat /\ Memory(w) \in Nat /\ Memory(w) <= sizeMemory
  BY MemoryBound DEF Dimensions, Gi
<1>2. EphemeralStorage \in Nat /\ EphemeralStorage = BootVolume * Gi
  BY SizingAssumption DEF EphemeralStorage, Gi
<1>3. tenth \in Nat
  BY <1>2 DEF CeilDiv, EphemeralStorage, Gi
<1>4. CASE kc.evictionHard = {}
  <2>1. hard = DefaultSignals /\ Signals(kc) = [memory |-> {}, nodefs |-> {}]
    BY <1>4 DEF Default, Signals
  <2>2. EvictionThreshold(kc, w).memory = 100 /\ EvictionThreshold(kc, w).storage = tenth
    BY <2>1 DEF EvictionThreshold
  <2> DEFINE hundred == [percent |-> FALSE, value |-> 100]
             ten == [percent |-> TRUE, value |-> 10]
  <2>3. hard.memory = {hundred} /\ hard.nodefs = {ten}
    BY <2>1 DEF DefaultSignals
  <2>4. \A x : Only({x}) = x
    BY DEF Only
  <2>5. em = Kept(Memory(w), hundred) /\ es = Kept(EphemeralStorage, ten)
    BY <2>3, <2>4 DEF Evict
  <2>6. em = 100
    BY <2>5 DEF Kept
  <2>7. es = (EphemeralStorage * 10) \div 100
    BY <2>5 DEF Kept
  <2>8. es \in Nat /\ es <= tenth
    <3> HIDE DEF es
    <3> QED BY <1>2, <2>7 DEF CeilDiv, Gi
  <2> QED BY <1>3, <2>2, <2>6, <2>8
<1>5. CASE kc.evictionHard # {}
  <2> DEFINE own == Only(kc.evictionHard)
  <2>1. /\ own \in [memory : Thresholds, nodefs : Thresholds]
        /\ hard = own /\ Signals(kc) = own
    BY <1>5, OnlyIn DEF KubeletConfiguration, Signals
  <2>2. own.memory \in SUBSET Signal /\ own.nodefs \in SUBSET Signal
    BY <2>1 DEF Thresholds
  <2>3. /\ EvictionThreshold(kc, w).memory =
             IF own.memory = {} THEN 100 ELSE ComputeEvictionSignal(sizeMemory, Only(own.memory))
        /\ EvictionThreshold(kc, w).storage =
             IF own.nodefs = {} THEN tenth ELSE ComputeEvictionSignal(BootVolume * Gi, Only(own.nodefs))
    BY <2>1 DEF EvictionThreshold
  <2>4. /\ em = IF own.memory = {} THEN 0 ELSE Kept(Memory(w), Only(own.memory))
        /\ es = IF own.nodefs = {} THEN 0 ELSE Kept(EphemeralStorage, Only(own.nodefs))
    BY <2>1 DEF Evict
  <2>5. /\ own.memory # {} => Only(own.memory) \in Signal
        /\ own.nodefs # {} => Only(own.nodefs) \in Signal
    BY <2>2 DEF Only
  <2> HIDE DEF own, em, es, sizeMemory, Signal, tenth
  <2>6. /\ EvictionThreshold(kc, w).memory \in Nat /\ em \in Nat
        /\ em <= EvictionThreshold(kc, w).memory
    <3>1. CASE own.memory = {}
      BY <2>3, <2>4, <3>1
    <3>2. CASE own.memory # {}
      <4>1. /\ Kept(Memory(w), Only(own.memory)) \in Nat
            /\ ComputeEvictionSignal(sizeMemory, Only(own.memory)) \in Nat
            /\ Kept(Memory(w), Only(own.memory)) <=
                 ComputeEvictionSignal(sizeMemory, Only(own.memory))
        BY <1>1, <2>5, <3>2, SignalEnough DEF Signal
      <4> QED BY <2>3, <2>4, <3>2, <4>1
    <3> QED BY <3>1, <3>2
  <2>7. /\ EvictionThreshold(kc, w).storage \in Nat /\ es \in Nat
        /\ es <= EvictionThreshold(kc, w).storage
    <3>1. CASE own.nodefs = {}
      BY <1>3, <2>3, <2>4, <3>1
    <3>2. CASE own.nodefs # {}
      <4>1. /\ Kept(EphemeralStorage, Only(own.nodefs)) \in Nat
            /\ ComputeEvictionSignal(EphemeralStorage, Only(own.nodefs)) \in Nat
            /\ Kept(EphemeralStorage, Only(own.nodefs)) <=
                 ComputeEvictionSignal(EphemeralStorage, Only(own.nodefs))
        BY <1>2, <2>5, <3>2, SignalEnough DEF Signal
      <4> QED BY <1>2, <2>3, <2>4, <3>2, <4>1
    <3> QED BY <3>1, <3>2
  <2> QED BY <2>6, <2>7 DEF em, es
<1> QED BY <1>4, <1>5

\* The kubelet runs no fewer pods than the size promises: max-pods is the pods of
\* the size, or the NodeClass's own, and pods-per-core is passed on.
LEMMA PodsEnough ==
  ASSUME NEW kc, KubeletConfiguration(kc), NEW w, Dimensions(w)
  PROVE  LET args == KubeletExtraArgs(kc, w)
             perCore == Default(args.podsPerCore, 0)
             max == Only(args.maxPods)
         IN  Pods(kc, w) <= AtMost(IF perCore = 0 THEN max ELSE AtMost(perCore * w.cpu, max),
                                   PodAddresses(w))
<1> DEFINE args == KubeletExtraArgs(kc, w)
           perCore == Default(args.podsPerCore, 0)
           max == Only(args.maxPods)
           count == Default(kc.maxPods, 110)
           room == PodAddresses(w)
<1>1. /\ args.podsPerCore = kc.podsPerCore
      /\ args.maxPods = {Default(kc.maxPods, Pods(kc, w))}
  BY DEF KubeletExtraArgs, KubeletConfiguration
<1>2. max = Default(kc.maxPods, Pods(kc, w))
  BY <1>1 DEF Only
<1>3. kc.maxPods \in SUBSET Nat /\ kc.podsPerCore \in SUBSET Nat
  BY DEF KubeletConfiguration
<1>4. count \in Nat /\ (kc.maxPods # {} => max = count)
  BY <1>2, <1>3 DEF Default, Only
<1>5. room \in Int /\ w.cpu \in Nat
  BY DEF PodAddresses, Dimensions
<1>6. perCore \in Nat /\ perCore * w.cpu \in Nat
  <2>1. perCore \in Nat
    BY <1>1, <1>3 DEF Default, Only
  <2>2. \A x, y \in Nat : x * y \in Nat
    OBVIOUS
  <2> HIDE DEF perCore
  <2> QED BY <1>5, <2>1, <2>2
<1>7. kc.podsPerCore # {} => perCore = Only(kc.podsPerCore)
  BY <1>1 DEF Default
<1>8. Pods(kc, w) = AtMost(IF kc.podsPerCore = {} THEN count
                           ELSE AtMost(Only(kc.podsPerCore) * w.cpu, count), room)
  BY DEF Pods
<1>9. kc.podsPerCore = {} => perCore = 0
  BY <1>1 DEF Default
<1>10. kc.maxPods = {} => max = Pods(kc, w)
  BY <1>2 DEF Default
<1> HIDE DEF args, perCore, max, count, room
<1> DEFINE limit == perCore * w.cpu
<1>11. Pods(kc, w) = AtMost(IF kc.podsPerCore = {} THEN count ELSE AtMost(limit, count), room)
  BY <1>7, <1>8
<1>12. limit \in Nat /\ (perCore = 0 => limit = 0)
  BY <1>5, <1>6
<1> HIDE DEF limit
<1>13. Pods(kc, w) <= AtMost(IF perCore = 0 THEN max ELSE AtMost(limit, max), room)
  BY <1>4, <1>5, <1>6, <1>9, <1>10, <1>11, <1>12 DEF AtMost
<1> QED BY <1>13 DEF limit, args, perCore, max, room

\* The node launched for any size has at least what the size promised, of every
\* resource, whatever the NodeClass's kubelet configuration and the options: what
\* the kubelet is told is never more than what NewInstanceType subtracted.
THEOREM NodeKeepsPromise ==
  ASSUME NEW kc, KubeletConfiguration(kc), NEW w, Dimensions(w),
         NEW r \in {"cpu", "memory", "storage", "pods"}
  PROVE  Allocatable(kc, w)[r] <= NodeAllocatable(KubeletExtraArgs(kc, w), w)[r]
<1> DEFINE args == KubeletExtraArgs(kc, w)
           none == [cpu |-> 0, memory |-> 0, storage |-> 0]
           c == ComputeCapacity(kc, w)
           k == KubeReservedResources(kc, w)
           s == SystemReservedResources(kc)
           e == EvictionThreshold(kc, w)
           nk == Default(kc.kubeReserved, none)
           ns == Default(kc.systemReserved, none)
           hard == Default(kc.evictionHard, DefaultSignals)
           em == Evict(Memory(w), hard.memory)
           es == Evict(EphemeralStorage, hard.nodefs)
           perCore == Default(args.podsPerCore, 0)
           max == Only(args.maxPods)
           pods == AtMost(IF perCore = 0 THEN max ELSE AtMost(perCore * w.cpu, max),
                          PodAddresses(w))
           A == Allocatable(kc, w)
           N == NodeAllocatable(args, w)
<1>1. /\ args.kubeReserved = kc.kubeReserved /\ args.systemReserved = kc.systemReserved
      /\ args.evictionHard = kc.evictionHard
  BY DEF KubeletExtraArgs, KubeletConfiguration
<1>2. /\ c.cpu = w.cpu * 1000 /\ c.memory = Memory(w) /\ c.storage = EphemeralStorage
      /\ c.pods = Pods(kc, w)
  BY DEF ComputeCapacity
<1>3. /\ A.cpu = w.cpu * 1000 - k.cpu - s.cpu
      /\ A.memory = Memory(w) - k.memory - s.memory - e.memory
      /\ A.storage = EphemeralStorage - k.storage - s.storage - e.storage
      /\ A.pods = Pods(kc, w)
  BY <1>2 DEF Allocatable
<1>4. /\ N.cpu = w.cpu * 1000 - nk.cpu - ns.cpu
      /\ N.memory = Memory(w) - nk.memory - ns.memory - em
      /\ N.storage = EphemeralStorage - nk.storage - ns.storage - es
      /\ N.pods = pods
  BY <1>1 DEF NodeAllocatable
<1>5. w.cpu * 1000 \in Nat /\ Memory(w) \in Nat /\ EphemeralStorage \in Nat
  BY MemoryBound, SizingAssumption DEF Dimensions, EphemeralStorage, Gi
<1>6. /\ k \in Reservations /\ s \in Reservations /\ nk \in Reservations /\ ns \in Reservations
      /\ nk.cpu <= k.cpu /\ nk.memory <= k.memory /\ nk.storage <= k.storage
      /\ ns.cpu <= s.cpu /\ ns.memory <= s.memory /\ ns.storage <= s.storage
  BY ReservedEnough
<1>7. \A x \in Reservations : x.cpu \in Nat /\ x.memory \in Nat /\ x.storage \in Nat
  BY DEF Reservations
<1>8. /\ e.memory \in Nat /\ e.storage \in Nat /\ em \in Nat /\ es \in Nat
      /\ em <= e.memory /\ es <= e.storage
  BY EvictionEnough
<1>9. Pods(kc, w) <= pods
  BY PodsEnough
<1> HIDE DEF args, none, c, k, s, e, nk, ns, hard, em, es, perCore, max, pods, A, N
<1>10. A.cpu <= N.cpu
  BY <1>3, <1>4, <1>5, <1>6, <1>7
<1>11. A.memory <= N.memory
  BY <1>3, <1>4, <1>5, <1>6, <1>7, <1>8
<1>12. A.storage <= N.storage
  BY <1>3, <1>4, <1>5, <1>6, <1>7, <1>8
<1>13. A.pods <= N.pods
  BY <1>3, <1>4, <1>9
<1> QED BY <1>10, <1>11, <1>12, <1>13 DEF A, N, args

-----------------------------------------------------------------------------
(* What is left for pods.                                                    *)

\* The last bracket that begins at or below the amount decides.
LEMMA TaxOf ==
  ASSUME NEW brackets, DOMAIN brackets = 1 .. 5, NEW amount \in Nat, NEW k \in 1 .. 5,
         {i \in 1 .. 5 : brackets[i].lower <= amount} = 1 .. k
  PROVE  Tax(brackets, amount) =
           brackets[k].recommended + (brackets[k].rate * (amount - brackets[k].lower)) \div 100
<1>1. Cardinality(1 .. k) = IF 1 > k THEN 0 ELSE k - 1 + 1
  BY FS_Interval
<1>2. Cardinality(1 .. k) = k /\ 1 .. k # {}
  BY <1>1
<1> QED BY <1>2 DEF Tax

\* What is reserved of the memory: nothing, one gigabyte, two, or nine and a rate.
LEMMA MemoryTax ==
  ASSUME NEW m \in Nat
  PROVE  Tax(ReservedMemoryTaxGi, m) =
           IF m < 2 THEN 0 ELSE IF m < 16 THEN 1024 ELSE IF m < 128 THEN 2048
           ELSE 9216 + (2048 * (m - 128)) \div 100
<1> DEFINE T == ReservedMemoryTaxGi
           reached == {i \in 1 .. 5 : T[i].lower <= m}
<1>1. /\ DOMAIN T = 1 .. 5
      /\ T[1] = Bracket(2, 1024, 0) /\ T[2] = Bracket(4, 1024, 0) /\ T[3] = Bracket(8, 1024, 0)
      /\ T[4] = Bracket(16, 2048, 0) /\ T[5] = Bracket(128, 9216, 2048)
  BY DEF ReservedMemoryTaxGi
<1>2. /\ T[1].lower = 2 /\ T[2].lower = 4 /\ T[3].lower = 8 /\ T[4].lower = 16 /\ T[5].lower = 128
      /\ T[1].recommended = 1024 /\ T[2].recommended = 1024 /\ T[3].recommended = 1024
      /\ T[4].recommended = 2048 /\ T[5].recommended = 9216
      /\ T[1].rate = 0 /\ T[2].rate = 0 /\ T[3].rate = 0 /\ T[4].rate = 0 /\ T[5].rate = 2048
  BY <1>1 DEF Bracket
<1> HIDE DEF T
<1>3. \A d \in Int : (0 * d) \div 100 = 0
  OBVIOUS
<1>4. CASE m < 2
  <2>1. reached = {}
    BY <1>2, <1>4
  <2> QED BY <1>1, <1>4, <2>1 DEF Tax, T
<1>5. ASSUME NEW k \in 1 .. 5, reached = 1 .. k
      PROVE  Tax(T, m) = T[k].recommended + (T[k].rate * (m - T[k].lower)) \div 100
  BY <1>1, <1>5, TaxOf
<1>6. CASE m >= 2 /\ m < 4
  <2>1. reached = 1 .. 1
    BY <1>2, <1>6
  <2> QED BY <1>2, <1>3, <1>5, <1>6, <2>1 DEF T
<1>7. CASE m >= 4 /\ m < 8
  <2>1. reached = 1 .. 2
    BY <1>2, <1>7
  <2> QED BY <1>2, <1>3, <1>5, <1>7, <2>1 DEF T
<1>8. CASE m >= 8 /\ m < 16
  <2>1. reached = 1 .. 3
    BY <1>2, <1>8
  <2> QED BY <1>2, <1>3, <1>5, <1>8, <2>1 DEF T
<1>9. CASE m >= 16 /\ m < 128
  <2>1. reached = 1 .. 4
    BY <1>2, <1>9
  <2> QED BY <1>2, <1>3, <1>5, <1>9, <2>1 DEF T
<1>10. CASE m >= 128
  <2>1. reached = 1 .. 5
    BY <1>2, <1>10
  <2> QED BY <1>2, <1>5, <1>10, <2>1 DEF T
<1> QED BY <1>4, <1>6, <1>7, <1>8, <1>9, <1>10

\* What is reserved of the CPUs grows by less than a CPU with each CPU.
LEMMA CPUTax ==
  ASSUME NEW c \in Nat, NEW d \in Nat, c <= d
  PROVE  Tax(ReservedCPUTaxVCPU, d) - Tax(ReservedCPUTaxVCPU, c) <= 1000 * (d - c)
<1> DEFINE T == ReservedCPUTaxVCPU
<1>1. /\ DOMAIN T = 1 .. 5
      /\ T[1] = Bracket(1, 60, 0) /\ T[2] = Bracket(2, 70, 0) /\ T[3] = Bracket(3, 80, 0)
      /\ T[4] = Bracket(4, 85, 0) /\ T[5] = Bracket(5, 90, 250)
  BY DEF ReservedCPUTaxVCPU
<1>2. /\ T[1].lower = 1 /\ T[2].lower = 2 /\ T[3].lower = 3 /\ T[4].lower = 4 /\ T[5].lower = 5
      /\ T[1].recommended = 60 /\ T[2].recommended = 70 /\ T[3].recommended = 80
      /\ T[4].recommended = 85 /\ T[5].recommended = 90
      /\ T[1].rate = 0 /\ T[2].rate = 0 /\ T[3].rate = 0 /\ T[4].rate = 0 /\ T[5].rate = 250
  BY <1>1 DEF Bracket
<1> HIDE DEF T
<1>3. \A x \in Int : (0 * x) \div 100 = 0
  OBVIOUS
<1>4. ASSUME NEW n \in Nat
      PROVE  Tax(T, n) = IF n = 0 THEN 0 ELSE IF n = 1 THEN 60 ELSE IF n = 2 THEN 70
                         ELSE IF n = 3 THEN 80 ELSE IF n = 4 THEN 85
                         ELSE 90 + (250 * (n - 5)) \div 100
  <2> DEFINE reached == {i \in 1 .. 5 : T[i].lower <= n}
  <2>1. ASSUME NEW k \in 1 .. 5, reached = 1 .. k
        PROVE  Tax(T, n) = T[k].recommended + (T[k].rate * (n - T[k].lower)) \div 100
    BY <1>1, <2>1, TaxOf
  <2>2. CASE n = 0
    <3>1. reached = {}
      BY <1>2, <2>2
    <3> QED BY <1>1, <2>2, <3>1 DEF Tax
  <2>3. ASSUME NEW k \in 1 .. 4, n = k PROVE reached = 1 .. k
    BY <1>2, <2>3
  <2>4. CASE n \in 1 .. 4
    <3>1. Tax(T, n) = T[n].recommended + (T[n].rate * (n - T[n].lower)) \div 100
      BY <2>1, <2>3, <2>4
    <3>2. T[n].rate = 0 /\ T[n].lower \in Int
      BY <1>2, <2>4
    <3>3. Tax(T, n) = T[n].recommended + 0
      BY <1>3, <3>1, <3>2
    <3>4. CASE n = 1
      BY <1>2, <3>3, <3>4
    <3>5. CASE n = 2
      BY <1>2, <3>3, <3>5
    <3>6. CASE n = 3
      BY <1>2, <3>3, <3>6
    <3>7. CASE n = 4
      BY <1>2, <3>3, <3>7
    <3> QED BY <2>4, <3>4, <3>5, <3>6, <3>7
  <2>5. CASE n >= 5
    <3>1. reached = 1 .. 5
      BY <1>2, <2>5
    <3>2. Tax(T, n) = T[5].recommended + (T[5].rate * (n - T[5].lower)) \div 100
      BY <2>1, <3>1
    <3>3. Tax(T, n) = 90 + (250 * (n - 5)) \div 100
      BY <1>2, <3>2
    <3> QED BY <2>5, <3>3
  <2> QED BY <2>2, <2>4, <2>5
<1>5. Tax(T, d) - Tax(T, c) <= 1000 * (d - c)
  BY <1>4
<1> QED BY <1>5 DEF T

\* From b to m gigabytes the tax grows by no more than the rate of the last bracket.
TaxWithinRate(b, m) ==
  100 * (Tax(ReservedMemoryTaxGi, m) - Tax(ReservedMemoryTaxGi, b)) <= 2048 * (m - b) + 100

\* Below every amount of memory there is a step of the same bracket.
LEMMA StepBelow ==
  ASSUME NEW from \in Nat, NEW to \in Nat, NEW m \in from .. to
  PROVE  \E b \in MemorySteps(from, to) :
           b \in Nat /\ b <= m /\ (b = m \/ TaxWithinRate(b, m))
<1> DEFINE T == ReservedMemoryTaxGi
           Within(b) == 100 * (Tax(T, m) - Tax(T, b)) <= 2048 * (m - b) + 100
           Below(b) == b \in Nat /\ b <= m /\ (b = m \/ TaxWithinRate(b, m))
<1>1. \A n \in Nat : Tax(T, n) = IF n < 2 THEN 0 ELSE IF n < 16 THEN 1024
                                 ELSE IF n < 128 THEN 2048 ELSE 9216 + (2048 * (n - 128)) \div 100
  BY MemoryTax
<1>2. from \in MemorySteps(from, to)
  BY DEF MemorySteps
<1>3. \A b \in {2, 16, 128} : b \in from .. to => b \in MemorySteps(from, to)
  <2>1. /\ 1 \in DOMAIN T /\ T[1].lower = 2
        /\ 4 \in DOMAIN T /\ T[4].lower = 16
        /\ 5 \in DOMAIN T /\ T[5].lower = 128
    BY DEF ReservedMemoryTaxGi, Bracket
  <2> QED BY <2>1 DEF MemorySteps
<1>0. \A b : Within(b) => TaxWithinRate(b, m)
  BY DEF TaxWithinRate
<1> HIDE DEF T
<1>4. CASE m < 2
  <2>1. Within(from)
    BY <1>1, <1>4
  <2> QED BY <1>0, <1>2, <2>1
<1>5. CASE m >= 2 /\ m < 16
  <2>1. from < 2 => Within(2) /\ 2 \in from .. to /\ 2 <= m
    BY <1>1, <1>5
  <2>2. from >= 2 => Within(from)
    BY <1>1, <1>5
  <2> HIDE DEF Within
  <2>3. from < 2 => Below(2) /\ 2 \in MemorySteps(from, to)
    BY <1>0, <1>3, <2>1
  <2>4. from >= 2 => Below(from)
    BY <1>0, <2>2
  <2> QED BY <1>2, <2>3, <2>4
<1>6. CASE m >= 16 /\ m < 128
  <2>1. from < 16 => Within(16) /\ 16 \in from .. to /\ 16 <= m
    BY <1>1, <1>6
  <2>2. from >= 16 => Within(from)
    BY <1>1, <1>6
  <2> HIDE DEF Within
  <2>3. from < 16 => Below(16) /\ 16 \in MemorySteps(from, to)
    BY <1>0, <1>3, <2>1
  <2>4. from >= 16 => Below(from)
    BY <1>0, <2>2
  <2> QED BY <1>2, <2>3, <2>4
<1>7. CASE m >= 128
  <2>1. from < 128 => Within(128) /\ 128 \in from .. to /\ 128 <= m
    BY <1>1, <1>7
  <2>2. from >= 128 => Within(from)
    BY <1>1, <1>7
  <2> HIDE DEF Within
  <2>3. from < 128 => Below(128) /\ 128 \in MemorySteps(from, to)
    BY <1>0, <1>3, <2>1
  <2>4. from >= 128 => Below(from)
    BY <1>0, <2>2
  <2> QED BY <1>2, <2>3, <2>4
<1> QED BY <1>4, <1>5, <1>6, <1>7

\* The arithmetic of growing by d gigabytes: two shares of them, each rounded up,
\* that leave three hundredths, leave more than the rate of the last bracket.
LEMMA SharesLeave ==
  ASSUME NEW d \in Nat, d > 0, NEW x \in Nat, NEW y \in Nat, x + 10 * y <= 970 * (1024 * d),
         NEW u \in Nat, NEW v \in Nat, NEW t \in Int, 100 * t <= 2048 * d + 100
  PROVE  CeilDiv(u + x, 1000) + CeilDiv(v + y, 100) + t
           <= CeilDiv(u, 1000) + CeilDiv(v, 100) + 1024 * d
BY DEF CeilDiv

\* What a size keeps back for eviction: a percentage of its memory, rounded up, and
\* a quantity that is the same for all sizes.
LEMMA EvictionForm ==
  ASSUME NEW kc, KubeletConfiguration(kc)
  PROVE  /\ EvictionPercent(kc) \in Nat
         /\ \E q \in Nat : \A w : w.mem \in Nat =>
              EvictionThreshold(kc, w).memory = CeilDiv(w.mem * Gi * EvictionPercent(kc), 100) + q
<1> DEFINE hard == Signals(kc).memory
           g == Only(hard)
           p == EvictionPercent(kc)
           Signal == [percent : BOOLEAN, value : Nat]
<1>1. hard \in SUBSET Signal
  <2>1. CASE kc.evictionHard = {}
    BY <2>1 DEF Signals, Default
  <2>2. CASE kc.evictionHard # {}
    <3>1. Only(kc.evictionHard) \in [memory : Thresholds, nodefs : Thresholds]
      BY <2>2 DEF KubeletConfiguration, Only
    <3> QED BY <2>2, <3>1 DEF Signals, Default, Thresholds
  <2> QED BY <2>1, <2>2
<1>2. hard # {} => g \in Signal
  BY <1>1 DEF Only
<1>3. \A w : EvictionThreshold(kc, w).memory =
               IF hard = {} THEN 100 ELSE ComputeEvictionSignal(w.mem * Gi, g)
  BY DEF EvictionThreshold
<1>4. p = IF hard = {} \/ ~g.percent \/ g.value = 100 THEN 0 ELSE g.value
  BY DEF EvictionPercent
<1> HIDE DEF hard, g
<1>5. p \in Nat
  BY <1>2, <1>4
<1>6. \A n \in Nat : CeilDiv(n * Gi * 0, 100) = 0
  BY DEF CeilDiv, Gi
<1>7. \A n \in Nat : CeilDiv(n * Gi * p, 100) \in Nat
  <2> HIDE DEF p
  <2> TAKE n \in Nat
  <2>1. \A i, j \in Nat : i * j \in Nat
    OBVIOUS
  <2>2. n * Gi * p \in Nat
    BY <1>5, <2>1 DEF Gi
  <2> QED BY <2>2, Rounding
<1>8. CASE hard = {}
  <2>1. p = 0
    BY <1>4, <1>8
  <2>2. \A w : w.mem \in Nat =>
          EvictionThreshold(kc, w).memory = CeilDiv(w.mem * Gi * p, 100) + 100
    BY <1>3, <1>6, <1>8, <2>1
  <2> QED BY <1>5, <2>2
<1>9. CASE hard # {} /\ ~g.percent
  <2>1. p = 0 /\ g.value \in Nat
    BY <1>2, <1>4, <1>9
  <2>2. \A w : EvictionThreshold(kc, w).memory = g.value
    BY <1>3, <1>9 DEF ComputeEvictionSignal
  <2>3. \A w : w.mem \in Nat =>
          EvictionThreshold(kc, w).memory = CeilDiv(w.mem * Gi * p, 100) + g.value
    BY <1>6, <2>1, <2>2
  <2> QED BY <1>5, <2>1, <2>3
<1>10. CASE hard # {} /\ g.percent
  <2>1. p = IF g.value = 100 THEN 0 ELSE g.value
    BY <1>4, <1>10
  <2>2. \A w : EvictionThreshold(kc, w).memory = CeilDiv(w.mem * Gi * p, 100)
    BY <1>3, <1>10, <2>1 DEF ComputeEvictionSignal
  <2>3. \A w : w.mem \in Nat =>
          EvictionThreshold(kc, w).memory = CeilDiv(w.mem * Gi * p, 100) + 0
    <3> HIDE DEF p
    <3> QED BY <1>7, <2>2
  <2> QED BY <1>5, <2>3
<1> QED BY <1>2, <1>8, <1>9, <1>10

\* What is left of each resource, part by part.
LEMMA AllocatableParts ==
  ASSUME NEW kc, KubeletConfiguration(kc), NEW w, Dimensions(w)
  PROVE  LET k == KubeReservedResources(kc, w)
             s == SystemReservedResources(kc)
             e == EvictionThreshold(kc, w)
         IN  /\ k.cpu \in Nat /\ k.memory \in Nat /\ k.storage \in Nat
             /\ s.cpu \in Nat /\ s.memory \in Nat /\ s.storage \in Nat
             /\ e.memory \in Nat /\ e.storage \in Nat
             /\ Memory(w) \in Nat /\ EphemeralStorage \in Nat
             /\ Allocatable(kc, w).cpu = w.cpu * 1000 - k.cpu - s.cpu
             /\ Allocatable(kc, w).memory = Memory(w) - k.memory - s.memory - e.memory
             /\ Allocatable(kc, w).storage = EphemeralStorage - k.storage - s.storage - e.storage
             /\ Allocatable(kc, w).pods = Pods(kc, w)
<1>1. KubeReservedResources(kc, w) \in Reservations /\ SystemReservedResources(kc) \in Reservations
  BY ReservedEnough
<1>2. \A x \in Reservations : x.cpu \in Nat /\ x.memory \in Nat /\ x.storage \in Nat
  BY DEF Reservations
<1>3. EvictionThreshold(kc, w).memory \in Nat /\ EvictionThreshold(kc, w).storage \in Nat
  BY EvictionEnough
<1>4. Memory(w) \in Nat /\ EphemeralStorage \in Nat
  BY MemoryBound, SizingAssumption DEF Dimensions, EphemeralStorage, Gi
<1>5. /\ Allocatable(kc, w).cpu =
           w.cpu * 1000 - KubeReservedResources(kc, w).cpu - SystemReservedResources(kc).cpu
      /\ Allocatable(kc, w).memory =
           Memory(w) - KubeReservedResources(kc, w).memory - SystemReservedResources(kc).memory
             - EvictionThreshold(kc, w).memory
      /\ Allocatable(kc, w).storage =
           EphemeralStorage - KubeReservedResources(kc, w).storage
             - SystemReservedResources(kc).storage - EvictionThreshold(kc, w).storage
      /\ Allocatable(kc, w).pods = Pods(kc, w)
  BY DEF Allocatable, ComputeCapacity
<1> QED BY <1>1, <1>2, <1>3, <1>4, <1>5

\* What the kubelet reserves: the tax of the size, or what the NodeClass sets.
LEMMA ReservedForm ==
  ASSUME NEW kc, NEW v, NEW w
  PROVE  LET kv == KubeReservedResources(kc, v)
             kw == KubeReservedResources(kc, w)
         IN  IF kc.kubeReserved = {}
               THEN /\ kv.cpu = Tax(ReservedCPUTaxVCPU, v.cpu) /\ kw.cpu = Tax(ReservedCPUTaxVCPU, w.cpu)
                    /\ kv.memory = Tax(ReservedMemoryTaxGi, v.mem)
                    /\ kw.memory = Tax(ReservedMemoryTaxGi, w.mem)
                    /\ kv.storage = kw.storage
               ELSE kv = kw
BY DEF KubeReservedResources, Default

\* What m gigabytes leave when V thousandths are overhead, P hundredths and the
\* quantity q are kept against eviction, and k and s are reserved.
Left(m, V, P, k, s, q) == m * Gi - CeilDiv(m * Gi * V, 1000) - k - s - (CeilDiv(m * Gi * P, 100) + q)

\* More gigabytes leave no less: the shares and the tax take less than comes with them.
LEMMA MoreMemoryLeft ==
  ASSUME NEW b \in Nat, NEW c \in Nat, b < c, NEW V \in Nat, NEW P \in Nat, V + 10 * P <= 970,
         NEW kv \in Nat, NEW kw \in Nat, 100 * (kw - kv) <= 2048 * (c - b) + 100,
         NEW s \in Nat, NEW q \in Nat
  PROVE  Left(b, V, P, kv, s, q) <= Left(c, V, P, kw, s, q)
<1> DEFINE d == c - b
<1>0. d \in Nat /\ d > 0 /\ c = b + d /\ 100 * (kw - kv) <= 2048 * d + 100
  OBVIOUS
<1> HIDE DEF d
<1> DEFINE x == d * Gi * V
           y == d * Gi * P
           u == b * Gi * V
           v == b * Gi * P
           t == kw - kv
<1>1. (b + d) * Gi * V = u + x /\ (b + d) * Gi * P = v + y
  BY <1>0 DEF Gi
<1>2. x \in Nat /\ y \in Nat /\ u \in Nat /\ v \in Nat
  <2>1. \A i, j \in Nat : i * j \in Nat
    OBVIOUS
  <2> QED BY <1>0, <2>1 DEF Gi
<1>3. x + 10 * y <= 970 * (1024 * d)
  <2>1. V + 10 * P \in Nat
    OBVIOUS
  <2>2. 1024 * d \in Nat /\ d * Gi = 1024 * d
    BY <1>0 DEF Gi
  <2>3. (V + 10 * P) * (1024 * d) <= 970 * (1024 * d)
    BY <2>1, <2>2, Scaling
  <2>4. x = V * (1024 * d) /\ y = P * (1024 * d)
    BY <1>0, <2>2
  <2>5. \A i, j, k \in Nat : (i + 10 * j) * k = i * k + 10 * (j * k)
    OBVIOUS
  <2> QED BY <2>2, <2>3, <2>4, <2>5
<1>4. t \in Int /\ 100 * t <= 2048 * d + 100 /\ kw = kv + t
  BY <1>0
<1> HIDE DEF x, y, u, v, t
<1>5. CeilDiv(u + x, 1000) + CeilDiv(v + y, 100) + t
        <= CeilDiv(u, 1000) + CeilDiv(v, 100) + 1024 * d
  BY <1>0, <1>2, <1>3, <1>4, SharesLeave
<1> DEFINE cu == CeilDiv(u, 1000)
           cv == CeilDiv(v, 100)
           cx == CeilDiv(u + x, 1000)
           cy == CeilDiv(v + y, 100)
<1>6. cu \in Nat /\ cv \in Nat /\ cx \in Nat /\ cy \in Nat
  BY <1>2 DEF CeilDiv
<1>7. cx + cy + t <= cu + cv + 1024 * d
  BY <1>5
<1> HIDE DEF cu, cv, cx, cy
<1>8. b * Gi - cu - kv - s - (cv + q) <= (b + d) * Gi - cx - kw - s - (cy + q)
  BY <1>0, <1>4, <1>6, <1>7 DEF Gi
<1> QED BY <1>0, <1>1, <1>8 DEF Left, cu, cv, cx, cy, u, v

\* From a step of its bracket on, a size with more memory leaves no less.
LEMMA MemoryGrows ==
  ASSUME NEW kc, KubeletConfiguration(kc), NEW v, Dimensions(v), NEW w, Dimensions(w),
         v.mem < w.mem,
         TaxWithinRate(v.mem, w.mem), VMMemoryOverhead + 10 * EvictionPercent(kc) <= 970
  PROVE  Allocatable(kc, v).memory <= Allocatable(kc, w).memory
<1> DEFINE V == VMMemoryOverhead
           P == EvictionPercent(kc)
           b == v.mem
           c == w.mem
           kv == KubeReservedResources(kc, v).memory
           kw == KubeReservedResources(kc, w).memory
           s == SystemReservedResources(kc).memory
           ev == EvictionThreshold(kc, v).memory
           ew == EvictionThreshold(kc, w).memory
<1>1. b \in Nat /\ c \in Nat /\ b < c
  BY DEF Dimensions
<1>2. V \in Nat /\ P \in Nat /\ V + 10 * P <= 970
  BY EvictionForm, SizingAssumption
<1>3. PICK q \in Nat : /\ ev = CeilDiv(b * Gi * P, 100) + q
                       /\ ew = CeilDiv(c * Gi * P, 100) + q
  <2>1. PICK q \in Nat : \A x : x.mem \in Nat =>
          EvictionThreshold(kc, x).memory = CeilDiv(x.mem * Gi * P, 100) + q
    BY EvictionForm
  <2> QED BY <1>1, <2>1
<1>4. kv \in Nat /\ kw \in Nat /\ 100 * (kw - kv) <= 2048 * (c - b) + 100
  <2>1. kv \in Nat /\ kw \in Nat
    BY AllocatableParts
  <2>2. CASE kc.kubeReserved = {}
    <3>1. kv = Tax(ReservedMemoryTaxGi, v.mem) /\ kw = Tax(ReservedMemoryTaxGi, w.mem)
      BY <2>2, ReservedForm
    <3> QED BY <2>1, <3>1 DEF TaxWithinRate
  <2>3. CASE kc.kubeReserved # {}
    <3>1. kv = kw
      BY <2>3, ReservedForm
    <3> HIDE DEF kv, kw, b, c
    <3> QED BY <1>1, <2>1, <3>1
  <2> QED BY <2>1, <2>2, <2>3
<1>5. /\ Memory(v) = b * Gi - CeilDiv(b * Gi * V, 1000)
      /\ Memory(w) = c * Gi - CeilDiv(c * Gi * V, 1000)
  BY DEF Memory
<1>6. /\ s \in Nat
      /\ Allocatable(kc, v).memory = Memory(v) - kv - s - ev
      /\ Allocatable(kc, w).memory = Memory(w) - kw - s - ew
  BY AllocatableParts
<1> HIDE DEF V, P, b, c, kv, kw, s, ev, ew
<1>7. Left(b, V, P, kv, s, q) <= Left(c, V, P, kw, s, q)
  BY <1>1, <1>2, <1>4, <1>6, MoreMemoryLeft
<1>8. Allocatable(kc, v).memory = Left(b, V, P, kv, s, q)
  BY <1>3, <1>5, <1>6 DEF Left
<1>9. Allocatable(kc, w).memory = Left(c, V, P, kw, s, q)
  BY <1>3, <1>5, <1>6 DEF Left
<1> QED BY <1>7, <1>8, <1>9

\* A size with no fewer CPUs leaves no less of them.
LEMMA CPUGrows ==
  ASSUME NEW kc, KubeletConfiguration(kc), NEW v, Dimensions(v), NEW w, Dimensions(w),
         v.cpu <= w.cpu
  PROVE  Allocatable(kc, v).cpu <= Allocatable(kc, w).cpu
<1> DEFINE kv == KubeReservedResources(kc, v).cpu
           kw == KubeReservedResources(kc, w).cpu
           s == SystemReservedResources(kc).cpu
<1>1. /\ kv \in Nat /\ kw \in Nat /\ s \in Nat /\ v.cpu \in Nat /\ w.cpu \in Nat
      /\ Allocatable(kc, v).cpu = v.cpu * 1000 - kv - s
      /\ Allocatable(kc, w).cpu = w.cpu * 1000 - kw - s
  BY AllocatableParts DEF Dimensions
<1>2. kw - kv <= 1000 * (w.cpu - v.cpu)
  <2>1. CASE kc.kubeReserved = {}
    <3>1. kv = Tax(ReservedCPUTaxVCPU, v.cpu) /\ kw = Tax(ReservedCPUTaxVCPU, w.cpu)
      BY <2>1, ReservedForm
    <3> DEFINE c == v.cpu
               d == w.cpu
    <3>2. c \in Nat /\ d \in Nat /\ c <= d
      BY <1>1
    <3> HIDE DEF c, d
    <3>3. Tax(ReservedCPUTaxVCPU, d) - Tax(ReservedCPUTaxVCPU, c) <= 1000 * (d - c)
      BY <3>2, CPUTax
    <3> QED BY <3>1, <3>3 DEF c, d
  <2>2. CASE kc.kubeReserved # {}
    <3>1. kv = kw
      BY <2>2, ReservedForm
    <3> HIDE DEF kv, kw
    <3> QED BY <1>1, <3>1
  <2> QED BY <2>1, <2>2
<1> HIDE DEF kv, kw, s
<1> QED BY <1>1, <1>2

\* A size with no fewer CPUs and VNICs runs no fewer pods.
LEMMA PodsGrow ==
  ASSUME NEW kc, KubeletConfiguration(kc), NEW v, Dimensions(v), NEW w, Dimensions(w),
         v.cpu <= w.cpu, v.vnics <= w.vnics
  PROVE  Pods(kc, v) <= Pods(kc, w) /\ Pods(kc, v) \in Int /\ Pods(kc, w) \in Int
<1> DEFINE count == Default(kc.maxPods, 110)
           per == Only(kc.podsPerCore)
           Limit(c) == IF kc.podsPerCore = {} THEN count ELSE AtMost(per * c, count)
<1>1. kc.maxPods \in SUBSET Nat /\ kc.podsPerCore \in SUBSET Nat
  BY DEF KubeletConfiguration
<1>2. count \in Nat /\ (kc.podsPerCore # {} => per \in Nat)
  BY <1>1 DEF Default, Only
<1>3. PodAddresses(v) \in Int /\ PodAddresses(w) \in Int /\ PodAddresses(v) <= PodAddresses(w)
  BY DEF PodAddresses, Dimensions
<1>4. /\ Pods(kc, v) = AtMost(Limit(v.cpu), PodAddresses(v))
      /\ Pods(kc, w) = AtMost(Limit(w.cpu), PodAddresses(w))
  BY DEF Pods
<1>5. kc.podsPerCore # {} =>
        per * v.cpu \in Nat /\ per * w.cpu \in Nat /\ per * v.cpu <= per * w.cpu
  <2> HIDE DEF per
  <2> SUFFICES ASSUME kc.podsPerCore # {}
               PROVE  per * v.cpu \in Nat /\ per * w.cpu \in Nat /\ per * v.cpu <= per * w.cpu
    OBVIOUS
  <2>1. v.cpu * per \in Nat /\ w.cpu * per \in Nat /\ v.cpu * per <= w.cpu * per
    BY <1>2, Scaling DEF Dimensions
  <2>2. per * v.cpu = v.cpu * per /\ per * w.cpu = w.cpu * per
    BY <1>2 DEF Dimensions
  <2> QED BY <2>1, <2>2
<1> HIDE DEF count, per
<1>6. Limit(v.cpu) \in Nat /\ Limit(w.cpu) \in Nat /\ Limit(v.cpu) <= Limit(w.cpu)
  BY <1>2, <1>5 DEF AtMost
<1> HIDE DEF Limit
<1> QED BY <1>3, <1>4, <1>6 DEF AtMost

\* If a kubelet configuration leaves room in the least machine, and in that machine
\* with the memory at which a bracket of the reservations begins, it leaves room in
\* every machine that has no less: looking at six sizes at most settles them all,
\* though more memory does not always leave more (KubeReservedResources).
THEOREM RoomEverywhere ==
  ASSUME NEW kc, KubeletConfiguration(kc), NEW most \in Nat,
         NEW least \in [cpu : Nat, mem : Nat, vnics : Nat], RoomFrom(kc, least, most),
         NEW w, Dimensions(w), least.cpu <= w.cpu, least.vnics <= w.vnics,
         w.mem \in least.mem .. most
  PROVE  Usable(kc, w)
<1>1. PICK b \in MemorySteps(least.mem, most) :
        b \in Nat /\ b <= w.mem /\ (b = w.mem \/ TaxWithinRate(b, w.mem))
  <2> DEFINE from == least.mem
             m == w.mem
  <2>1. from \in Nat /\ m \in from .. most
    OBVIOUS
  <2> HIDE DEF from, m
  <2>2. \E b \in MemorySteps(from, most) :
          b \in Nat /\ b <= m /\ (b = m \/ TaxWithinRate(b, m))
    BY <2>1, StepBelow
  <2> QED BY <2>2 DEF from, m
<1> DEFINE v == [least EXCEPT !.mem = b]
<1>2. /\ v \in [cpu : Nat, mem : Nat, vnics : Nat]
      /\ v.cpu = least.cpu /\ v.mem = b /\ v.vnics = least.vnics
  BY <1>1
<1>3. Usable(kc, v)
  BY <1>1 DEF RoomFrom
<1> HIDE DEF v
<1>4. Dimensions(v)
  BY <1>2 DEF Dimensions
<1>5. /\ Allocatable(kc, v).cpu > 0 /\ Allocatable(kc, v).memory > 0
      /\ Allocatable(kc, v).storage > 0 /\ Allocatable(kc, v).pods > 0
  BY <1>3 DEF Usable, Resources
<1>6. \A x : Dimensions(x) =>
        /\ Allocatable(kc, x).cpu \in Int /\ Allocatable(kc, x).memory \in Int
        /\ Allocatable(kc, x).storage \in Int
  <2> TAKE x
  <2> HAVE Dimensions(x)
  <2> DEFINE k == KubeReservedResources(kc, x)
             s == SystemReservedResources(kc)
             e == EvictionThreshold(kc, x)
  <2>1. /\ k.cpu \in Nat /\ k.memory \in Nat /\ k.storage \in Nat
        /\ s.cpu \in Nat /\ s.memory \in Nat /\ s.storage \in Nat
        /\ e.memory \in Nat /\ e.storage \in Nat
        /\ Memory(x) \in Nat /\ EphemeralStorage \in Nat /\ x.cpu \in Nat
        /\ Allocatable(kc, x).cpu = x.cpu * 1000 - k.cpu - s.cpu
        /\ Allocatable(kc, x).memory = Memory(x) - k.memory - s.memory - e.memory
        /\ Allocatable(kc, x).storage = EphemeralStorage - k.storage - s.storage - e.storage
    BY AllocatableParts DEF Dimensions
  <2> HIDE DEF k, s, e
  <2> QED BY <2>1
<1>7. Allocatable(kc, w).cpu > 0
  <2>1. Allocatable(kc, v).cpu <= Allocatable(kc, w).cpu
    BY <1>2, <1>4, CPUGrows
  <2> QED BY <1>4, <1>5, <1>6, <2>1
<1>8. Allocatable(kc, w).memory > 0
  <2>1. CASE b = w.mem
    <3>1. Allocatable(kc, v).memory = Allocatable(kc, w).memory
      <4>1. Memory(v) = Memory(w)
        BY <1>2, <2>1 DEF Memory
      <4>2. KubeReservedResources(kc, v).memory = KubeReservedResources(kc, w).memory
        BY <1>2, <2>1, ReservedForm
      <4>3. EvictionThreshold(kc, v).memory = EvictionThreshold(kc, w).memory
        BY <1>2, <2>1 DEF EvictionThreshold
      <4> QED BY <1>4, <4>1, <4>2, <4>3, AllocatableParts
    <3> QED BY <1>5, <3>1
  <2>2. CASE b # w.mem
    <3>1. b < w.mem /\ most # least.mem
      BY <1>1, <2>2 DEF Dimensions, MemorySteps
    <3>2. VMMemoryOverhead + 10 * EvictionPercent(kc) <= 970
      BY <3>1 DEF RoomFrom
    <3>3. Allocatable(kc, v).memory <= Allocatable(kc, w).memory
      BY <1>1, <1>2, <1>4, <3>1, <3>2, MemoryGrows
    <3> QED BY <1>4, <1>5, <1>6, <3>3
  <2> QED BY <2>1, <2>2
<1>9. Allocatable(kc, w).storage > 0
  <2>1. KubeReservedResources(kc, v).storage = KubeReservedResources(kc, w).storage
    BY ReservedForm
  <2>2. EvictionThreshold(kc, v).storage = EvictionThreshold(kc, w).storage
    BY DEF EvictionThreshold
  <2>3. Allocatable(kc, v).storage = Allocatable(kc, w).storage
    BY <2>1, <2>2 DEF Allocatable, ComputeCapacity
  <2> QED BY <1>5, <2>3
<1>10. Allocatable(kc, w).pods > 0
  <2>1. Pods(kc, v) <= Pods(kc, w) /\ Pods(kc, v) \in Int /\ Pods(kc, w) \in Int
    BY <1>2, <1>4, PodsGrow
  <2>2. Allocatable(kc, v).pods = Pods(kc, v) /\ Allocatable(kc, w).pods = Pods(kc, w)
    BY DEF Allocatable, ComputeCapacity
  <2> QED BY <1>5, <2>1, <2>2
<1> QED BY <1>7, <1>8, <1>9, <1>10 DEF Usable, Resources
=============================================================================
