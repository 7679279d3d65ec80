-------------------------- MODULE MCLaunchOfferings --------------------------
(* Small instances of LaunchOfferings for TLC.                             *)
EXTENDS LaunchOfferings

\* A flexible shape in two sizes, and a fixed one that costs more.
Small == [shape |-> "flex", size |-> 1]
Large == [shape |-> "flex", size |-> 2]
Fixed == [shape |-> "fixed", size |-> 2]
AllTypes  == {Small, Large, Fixed}
TwoTypes  == {Small, Fixed}
TwoZones  == {"ad1", "ad2"}
OneZone   == {"ad1"}
PriceList == [t \in Types |-> CASE t.shape = "fixed" -> 5 [] OTHER -> 2 * t.size]
Everywhere == [t \in Types |-> Zones]
FixedInOne == [t \in Types |-> IF t.shape = "fixed" THEN {"ad1"} ELSE Zones]
FlexOnly == {"flex"}

Ask(types, capacities) ==
  [types |-> types, zones |-> Zones, capacities |-> capacities]

\* One claim takes on-demand instances of any type, in either zone; the other the
\* flexible shape in one zone and of either capacity type.
MixedRequests ==
  [c \in Claims |->
     IF c = "any" THEN Ask(Types, {OnDemand})
     ELSE [types |-> {t \in Types : t.shape = "flex"}, zones |-> {"ad1"},
           capacities |-> CapacityTypes]]
EitherRequests == [c \in Claims |-> Ask(Types, CapacityTypes)]
=============================================================================
