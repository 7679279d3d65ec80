------------------------ MODULE MCInstanceTypeCatalog ------------------------
(* A small instance of InstanceTypeCatalog for TLC.                        *)
EXTENDS InstanceTypeCatalog, TLC

Shape(n, flex, v, cpus, mems, vnics, perOcpu) ==
  [name |-> n, flexible |-> flex, vcpus |-> v, minCpu |-> cpus[1], maxCpu |-> cpus[2],
   minMem |-> mems[1], maxMem |-> mems[2], vnics |-> vnics, perOcpu |-> perOcpu]

\* A flexible x86 shape, a flexible A1 shape and a fixed one. With the lists
\* below each limit of the flexible shapes rules some size out, and the sizes
\* left reach the brackets of the reservations and both ends of the VNICs.
ThreeShapes == {Shape("E4.Flex", TRUE, 2, <<1, 8>>, <<3, 128>>, 2, {1}),
                Shape("A1.Flex", TRUE, 1, <<2, 8>>, <<5, 32>>, 2, {4}),
                Shape("Fixed", FALSE, 2, <<2, 2>>, <<8, 8>>, 2, {})}
Cpus == {1, 2, 8, 16}
OneFourEight == {1, 4, 8}

Unset == [maxPods |-> {}, podsPerCore |-> {}, systemReserved |-> {}, kubeReserved |-> {}, evictionHard |-> {}]
Amount(c, m, s) == {[cpu |-> c, memory |-> m, storage |-> s]}
Percent(p) == {[percent |-> TRUE, value |-> p]}
Quantity(q) == {[percent |-> FALSE, value |-> q]}

\* Callers and domains are interchangeable.
CatalogSymmetry == Permutations(Callers) \union Permutations(ADs)

SixKubelets ==
  {Unset,
   [Unset EXCEPT !.maxPods = {200}, !.podsPerCore = {10}],
   [Unset EXCEPT !.podsPerCore = {4}, !.systemReserved = Amount(0, 200, 0)],
   [Unset EXCEPT !.maxPods = {40}, !.kubeReserved = Amount(200, 300, 0)],
   [Unset EXCEPT !.evictionHard = {[memory |-> Percent(5), nodefs |-> Percent(15)]}],
   [Unset EXCEPT !.evictionHard = {[memory |-> Quantity(500), nodefs |-> Percent(100)]}]}

\* The shapes and the kubelet configurations leave room for pods.
ASSUME RoomAssumption == RoomInShapes
=============================================================================
