------------------------------ MODULE NodeSizing ------------------------------
(***************************************************************************)
(* What a size promises to the scheduler and what the node then has: the   *)
(* capacity and overhead of an instance type, the kubelet arguments of the *)
(* bootstrap script, and the allocatable resources the kubelet makes of    *)
(* them. CPU is in millicores, memory and storage are in mebibytes.        *)
(*                                                                         *)
(* A kubelet configuration is a record; an optional field is a set with    *)
(* its value, or empty. A threshold is a percentage or a quantity.         *)
(***************************************************************************)
EXTENDS Naturals, Integers, Sequences, FiniteSets

CONSTANTS
  VMMemoryOverhead,   \* VM_MEMORY_OVERHEAD_PERCENT, in thousandths
  BootVolume          \* BootVolumeSizeInGBs of the NodeClass

ASSUME SizingAssumption ==
  VMMemoryOverhead \in 0 .. 1000 /\ BootVolume \in Nat

AtMost(a, b) == IF a < b THEN a ELSE b
CeilDiv(a, b) == (a + b - 1) \div b
Gi == 1024
Only(S) == CHOOSE x \in S : TRUE
Default(S, d) == IF S = {} THEN d ELSE Only(S)

\* What the API server admits as a kubelet configuration; a reservation that does
\* not name a resource reserves none of it. The API server checks the keys of
\* thresholds and not their values: those here are such as a kubelet accepts.
Reservations == [cpu : Nat, memory : Nat, storage : Nat]
Thresholds   == SUBSET [percent : BOOLEAN, value : Nat]

KubeletConfiguration(kc) ==
  /\ kc \in [maxPods : SUBSET Nat, podsPerCore : SUBSET Nat,
             systemReserved : SUBSET Reservations, kubeReserved : SUBSET Reservations,
             evictionHard : SUBSET [memory : Thresholds, nodefs : Thresholds]]
  /\ \A f \in DOMAIN kc : Cardinality(kc[f]) <= 1

-----------------------------------------------------------------------------
(* Overhead.                                                               *)

\* A bracket: where it begins, what it reserves there, and hundredths for every
\* unit beyond.
Bracket(lower, recommended, rate) == [lower |-> lower, recommended |-> recommended, rate |-> rate]

ReservedMemoryTaxGi ==
  <<Bracket(2, 1024, 0), Bracket(4, 1024, 0), Bracket(8, 1024, 0), Bracket(16, 2048, 0), Bracket(128, 9216, 2048)>>
ReservedCPUTaxVCPU ==
  <<Bracket(1, 60, 0), Bracket(2, 70, 0), Bracket(3, 80, 0), Bracket(4, 85, 0), Bracket(5, 90, 250)>>

\* The last bracket that begins at or below the amount decides. (For CPU the
\* binary fractions of the code may come out one millicore lower.)
Tax(brackets, amount) ==
  LET reached == {i \in DOMAIN brackets : brackets[i].lower <= amount}
      b       == brackets[Cardinality(reached)]
  IN  IF reached = {} THEN 0 ELSE b.recommended + (b.rate * (amount - b.lower)) \div 100

KubeReservedResources(kc, w) ==
  Default(kc.kubeReserved,
          [cpu |-> Tax(ReservedCPUTaxVCPU, w.cpu), memory |-> Tax(ReservedMemoryTaxGi, w.mem), storage |-> Gi])

SystemReservedResources(kc) ==
  Default(kc.systemReserved, [cpu |-> 100, memory |-> 100, storage |-> 0])

\* 100% switches a threshold off.
ComputeEvictionSignal(capacity, signal) ==
  IF signal.percent THEN CeilDiv(capacity * (IF signal.value = 100 THEN 0 ELSE signal.value), 100)
  ELSE signal.value

Signals(kc) == Default(kc.evictionHard, [memory |-> {}, nodefs |-> {}])

\* Variant: the NodeClass's own thresholds are not looked at.
EvictionThresholdFixed(kc, w) == [memory |-> 100, storage |-> CeilDiv(BootVolume * Gi, 10)]

EvictionThreshold(kc, w) ==
  LET hard == Signals(kc) IN
  [memory  |-> IF hard.memory = {} THEN 100 ELSE ComputeEvictionSignal(w.mem * Gi, Only(hard.memory)),
   storage |-> IF hard.nodefs = {} THEN CeilDiv(BootVolume * Gi, 10)
               ELSE ComputeEvictionSignal(BootVolume * Gi, Only(hard.nodefs))]

-----------------------------------------------------------------------------
(* Capacity.                                                               *)

Memory(w) == w.mem * Gi - CeilDiv(w.mem * Gi * VMMemoryOverhead, 1000)

EphemeralStorage == BootVolume * Gi

\* Addresses for pods: 31 on each VNIC but the first.
PodAddresses(w) == (w.vnics - 1) * 31

Pods(kc, w) ==
  LET count == Default(kc.maxPods, 110) IN
  AtMost(IF kc.podsPerCore = {} THEN count ELSE AtMost(Only(kc.podsPerCore) * w.cpu, count),
         PodAddresses(w))

ComputeCapacity(kc, w) ==
  [cpu |-> w.cpu * 1000, memory |-> Memory(w), storage |-> EphemeralStorage, pods |-> Pods(kc, w)]

\* NewInstanceType, and what core makes of it: capacity less overhead.
Allocatable(kc, w) ==
  LET c == ComputeCapacity(kc, w) k == KubeReservedResources(kc, w)
      s == SystemReservedResources(kc) e == EvictionThreshold(kc, w)
  IN  [cpu     |-> c.cpu - k.cpu - s.cpu,
       memory  |-> c.memory - k.memory - s.memory - e.memory,
       storage |-> c.storage - k.storage - s.storage - e.storage,
       pods    |-> c.pods]

-----------------------------------------------------------------------------
(* The node.                                                               *)

\* resolveLaunchTemplate: the kubelet is told the pods of the size unless the
\* NodeClass sets them; kubeletExtraArgs passes on what is set.
KubeletExtraArgs(kc, w) == [kc EXCEPT !.maxPods = {Default(kc.maxPods, Pods(kc, w))}]

\* A quantity the kubelet keeps back; percentages are of what it finds.
Kept(found, signal) ==
  IF signal.percent THEN (found * (IF signal.value = 100 THEN 0 ELSE signal.value)) \div 100 ELSE signal.value

Evict(found, signals) == IF signals = {} THEN 0 ELSE Kept(found, Only(signals))
DefaultSignals ==
  [memory |-> {[percent |-> FALSE, value |-> 100]}, nodefs |-> {[percent |-> TRUE, value |-> 10]}]

\* The kubelet without a default of its own for anything but the eviction
\* thresholds, which --eviction-hard replaces as a whole, on a machine that keeps
\* back as much memory as the option allows for.
NodeAllocatable(args, w) ==
  LET k == Default(args.kubeReserved, [cpu |-> 0, memory |-> 0, storage |-> 0])
      s == Default(args.systemReserved, [cpu |-> 0, memory |-> 0, storage |-> 0])
      hard == Default(args.evictionHard, DefaultSignals)
      perCore == Default(args.podsPerCore, 0)
      max == Only(args.maxPods)
  IN  [cpu     |-> w.cpu * 1000 - k.cpu - s.cpu,
       memory  |-> Memory(w) - k.memory - s.memory - Evict(Memory(w), hard.memory),
       storage |-> EphemeralStorage - k.storage - s.storage - Evict(EphemeralStorage, hard.nodefs),
       pods    |-> AtMost(IF perCore = 0 THEN max ELSE AtMost(perCore * w.cpu, max), PodAddresses(w))]

-----------------------------------------------------------------------------
(* Whether anything is left for pods.                                      *)

Resources == {"cpu", "memory", "storage", "pods"}

Usable(kc, w) == \A r \in Resources : Allocatable(kc, w)[r] > 0

\* The percentage of its memory below which a node evicts pods; 0 when that is a
\* quantity or switched off.
EvictionPercent(kc) ==
  LET hard == Signals(kc).memory IN
  IF hard = {} \/ ~Only(hard).percent \/ Only(hard).value = 100 THEN 0 ELSE Only(hard).value

\* More memory does not always leave more of it: where a bracket begins, a whole
\* gigabyte or seven are reserved at once. These are the sizes at which to look.
MemorySteps(from, to) ==
  {from} \union ({ReservedMemoryTaxGi[i].lower : i \in DOMAIN ReservedMemoryTaxGi} \intersect from .. to)

\* Something is left of the least machine, and of that machine with as much memory
\* as begins a bracket, up to the most there is; and where sizes differ, the shares
\* of the memory that overhead and eviction take leave three hundredths of it.
RoomFrom(kc, least, most) ==
  /\ \A m \in MemorySteps(least.mem, most) : Usable(kc, [least EXCEPT !.mem = m])
  /\ most = least.mem \/ VMMemoryOverhead + 10 * EvictionPercent(kc) <= 970
=============================================================================
