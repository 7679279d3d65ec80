------------------------ MODULE LaunchOfferingsProofs ------------------------
(* Proofs about LaunchOfferings, for every set of claims, types, zones,    *)
(* prices and requests.                                                    *)
EXTENDS LaunchOfferings, TLAPS

\* Every step keeps the variables in their types.
LEMMA TypeStep ==
  ASSUME TypeOK, [Next]_vars
  PROVE  TypeOK'
<1> USE OfferingsAssumption
<1>1. ASSUME NEW c \in Claims, LaunchStep(c)  PROVE TypeOK'
  <2>1. CASE ListTypes(c)
    <3>1. ResolvedOffers(c) \subseteq Offerings
      BY DEF ResolvedOffers
    <3> QED  BY <2>1, <3>1 DEF TypeOK, ListTypes, bounds
  <2>2. CASE NothingAvailable(c)
    BY <2>2 DEF TypeOK, NothingAvailable, bounds
  <2>3. ASSUME NEW t \in Types, NEW z \in Zones, SendLaunch(c, t, z)  PROVE TypeOK'
    <3>1. CapacityPicked(c) \in CapacityTypes
      BY DEF CapacityPicked, CapacityTypes
    <3>2. [type |-> t, zone |-> z, capacity |-> CapacityPicked(c)] \in Offerings
      BY <3>1 DEF Offerings
    <3> QED  BY <2>3, <3>2 DEF TypeOK, SendLaunch, bounds
  <2>4. ASSUME NEW o \in choice[c], LaunchAccepted(c, o)  PROVE TypeOK'
    BY <2>4 DEF TypeOK, LaunchAccepted, bounds
  <2>5. ASSUME NEW o \in choice[c], LaunchShort(c, o)  PROVE TypeOK'
    <3>1. o \in Offerings
      BY DEF TypeOK
    <3>2. Key(o) \in Keys /\ MarkedKey(o) \in Keys
      BY <3>1 DEF Key, MarkedKey, Keys, Offerings, Shapes, CapacityTypes
    <3> QED  BY <2>5, <3>2 DEF TypeOK, LaunchShort, bounds
  <2>6. CASE Reprovision(c)
    BY <2>6 DEF TypeOK, Reprovision, bounds
  <2> QED  BY <1>1, <2>1, <2>2, <2>3, <2>4, <2>5, <2>6 DEF LaunchStep
<1>2. ASSUME NEW c \in Claims, LaunchFailed(c)  PROVE TypeOK'
  BY <1>2 DEF TypeOK, LaunchFailed
<1>3. ASSUME NEW k \in Keys, Expire(k)  PROVE TypeOK'
  BY <1>3 DEF TypeOK, Expire
<1>4. ASSUME NEW k \in Keys, ChangeCapacity(k)  PROVE TypeOK'
  BY <1>4 DEF TypeOK, ChangeCapacity
<1>5. CASE UNCHANGED vars
  BY <1>5 DEF TypeOK, vars, bounds
<1> QED  BY <1>1, <1>2, <1>3, <1>4, <1>5 DEF Next

\* The type invariant of the launch, whatever the catalogue and the requests.
THEOREM Typing == Spec => []TypeOK
<1>1. Init => TypeOK
  BY OfferingsAssumption DEF Init, TypeOK, Pools
<1> QED  BY <1>1, TypeStep, PTL DEF Spec

\* The cheapest type a claim picks, with a requested zone and the capacity
\* type of CapacityPicked, is an offering its requirements admit.
LEMMA PickedCompatible ==
  ASSUME TypeOK, NEW c \in Claims, NEW t \in Types, NEW z \in Zones,
         Cheapest(c, t), ZonePicked(c, t, z)
  PROVE  Compatible(c, [type |-> t, zone |-> z, capacity |-> CapacityPicked(c)])
<1>1. PICK o \in offers[c] : o.type = t /\ Compatible(c, o)
  BY DEF Cheapest
<1>2. o.capacity \in CapacityTypes
  BY DEF TypeOK, Offerings
<1>3. t \in Request[c].types /\ z \in Request[c].zones
  BY <1>1 DEF Compatible, ZonePicked
<1>4. CapacityPicked(c) \in Request[c].capacities
  BY <1>1, <1>2 DEF Compatible, CapacityPicked, CapacityTypes, OnDemand, Preemptible
<1> QED  BY <1>3, <1>4 DEF Compatible

\* CloudProvider.Create never asks OCI for an instance outside the NodeClaim's
\* requirements, for every catalogue, price list, request and interleaving.
THEOREM RequestsHonoured == Spec => []RequestHonoured
<1>1. Init => RequestHonoured
  BY DEF Init, RequestHonoured
<1>2. ASSUME TypeOK, RequestHonoured, [Next]_vars  PROVE RequestHonoured'
  <2>1. ASSUME NEW c \in Claims, NEW t \in Types, NEW z \in Zones, SendLaunch(c, t, z)
        PROVE  RequestHonoured'
    <3>1. Compatible(c, [type |-> t, zone |-> z, capacity |-> CapacityPicked(c)])
      BY <1>2, <2>1, PickedCompatible DEF SendLaunch
    <3> QED  BY <1>2, <2>1, <3>1 DEF RequestHonoured, SendLaunch, TypeOK, Compatible
  <2>2. ASSUME NEW c \in Claims,
               LaunchFailed(c) \/ \E o \in choice[c] : LaunchShort(c, o)
        PROVE  RequestHonoured'
    BY <1>2, <2>2 DEF RequestHonoured, LaunchFailed, LaunchShort, TypeOK, Compatible
  <2>3. CASE UNCHANGED choice
    BY <1>2, <2>3 DEF RequestHonoured, Compatible
  <2> QED
    BY <1>2, <2>1, <2>2, <2>3 DEF Next, LaunchStep, ListTypes, NothingAvailable,
       LaunchAccepted, Reprovision, Expire, ChangeCapacity, vars
<1> QED  BY <1>1, <1>2, Typing, PTL DEF Spec

-----------------------------------------------------------------------------
(* What is asked for was offered.                                          *)

\* For a claim whose capacity type is decided, the type, the zone and the capacity
\* type picked one after the other are together an offering it was shown.
LEMMA PickedOffered ==
  ASSUME TypeOK, ShownInv, NEW c \in Claims, CapacityDecided(c),
         NEW t \in Types, NEW z \in Zones, Cheapest(c, t), ZonePicked(c, t, z)
  PROVE  [type |-> t, zone |-> z, capacity |-> CapacityPicked(c)] \in offers[c]
<1>1. PICK o \in offers[c] : o.type = t /\ Compatible(c, o)
  BY DEF Cheapest
<1>2. PICK p \in offers[c] : p.type = t /\ p.zone = z
  BY DEF ZonePicked
<1>3. /\ o \in Offerings /\ p \in Offerings
      /\ o.capacity \in CapacityTypes /\ p.capacity \in CapacityTypes
  BY DEF TypeOK, Offerings
<1>4. CASE OnDemandClaim(c)
  <2>1. CapacityPicked(c) = OnDemand
    BY <1>4 DEF OnDemandClaim, CapacityPicked
  <2>2. t.shape \notin PreemptibleShapes
    BY <1>1, <1>4 DEF OnDemandClaim, Compatible
  <2>3. p.capacity = OnDemand
    BY <1>2, <1>3, <2>2 DEF ShownInv, CapacityTypes
  <2>4. p = [type |-> t, zone |-> z, capacity |-> OnDemand]
    BY <1>2, <1>3, <2>3 DEF Offerings
  <2> QED  BY <2>1, <2>4
<1>5. CASE PreemptibleClaim(c)
  <2>1. CapacityPicked(c) = Preemptible
    BY <1>5 DEF PreemptibleClaim, CapacityPicked
  <2>2. t.shape \in PreemptibleShapes
    <3>1. CASE OnDemand \in Request[c].capacities
      BY <1>1, <1>5, <3>1 DEF PreemptibleClaim, Compatible
    <3>2. CASE OnDemand \notin Request[c].capacities
      <4>1. o.capacity = Preemptible
        BY <1>1, <1>3, <3>2 DEF Compatible, CapacityTypes
      <4> QED  BY <1>1, <4>1 DEF ShownInv
    <3> QED  BY <3>1, <3>2
  <2>3. [p EXCEPT !.capacity = Preemptible] \in offers[c]
    BY <1>2, <2>2 DEF ShownInv
  <2>4. [p EXCEPT !.capacity = Preemptible] = [type |-> t, zone |-> z, capacity |-> Preemptible]
    BY <1>2, <1>3 DEF Offerings
  <2> QED  BY <2>1, <2>3, <2>4
<1> QED  BY <1>4, <1>5 DEF CapacityDecided

\* What an on-demand claim picks: its type has an on-demand offering in a zone the
\* claim admits that was not refused, and so has its zone if the shape has no
\* preemptible offerings.
LEMMA PickedFresh ==
  ASSUME TypeOK, ShownInv, NEW c \in Claims, OnDemandOnly(c),
         NEW t \in Types, NEW z \in Zones, Cheapest(c, t), ZonePicked(c, t, z)
  PROVE  /\ \E y \in Request[c].zones :
              [capacity |-> OnDemand, shape |-> t.shape, zone |-> y] \notin knew[c]
         /\ t.shape \notin PreemptibleShapes =>
              [capacity |-> OnDemand, shape |-> t.shape, zone |-> z] \notin knew[c]
<1>1. PICK o \in offers[c] : o.type = t /\ Compatible(c, o)
  BY DEF Cheapest
<1>2. PICK p \in offers[c] : p.type = t /\ p.zone = z
  BY DEF ZonePicked
<1>3. o.capacity \in CapacityTypes /\ p.capacity \in CapacityTypes
  BY DEF TypeOK, Offerings
<1>4. o.capacity = OnDemand /\ o.zone \in Request[c].zones
  BY <1>1, <1>3 DEF Compatible, OnDemandOnly, CapacityTypes
<1>5. Key(o) \notin knew[c]
  BY <1>4 DEF ShownInv
<1>6. \E y \in Request[c].zones :
        [capacity |-> OnDemand, shape |-> t.shape, zone |-> y] \notin knew[c]
  BY <1>1, <1>4, <1>5 DEF Key
<1>7. ASSUME t.shape \notin PreemptibleShapes
      PROVE  [capacity |-> OnDemand, shape |-> t.shape, zone |-> z] \notin knew[c]
  <2>1. p.capacity = OnDemand
    BY <1>2, <1>3, <1>7 DEF ShownInv, CapacityTypes
  <2> QED  BY <1>2, <2>1 DEF ShownInv, Key
<1> QED  BY <1>6, <1>7

\* What a list shows: the preemptible offering beside every other, as no refusal
\* is entered for it, and no on-demand one that is known to be refused.
LEMMA ShownByList ==
  ASSUME TypeOK, CacheInv, NEW c \in Claims, NEW o \in ResolvedOffers(c)
  PROVE  /\ o.capacity = Preemptible => o.type.shape \in PreemptibleShapes
         /\ o.type.shape \in PreemptibleShapes =>
              [o EXCEPT !.capacity = Preemptible] \in ResolvedOffers(c)
         /\ o.capacity = OnDemand => Key(o) \notin short
<1>1. /\ o \in Offerings /\ Available(o)
      /\ \E p \in Offerings : p.type = o.type /\ Available(p) /\ Compatible(c, p)
  BY DEF ResolvedOffers
<1>2. o.capacity = Preemptible => o.type.shape \in PreemptibleShapes
  BY <1>1 DEF Available
<1>3. o.capacity = OnDemand => Key(o) \notin short
  BY <1>1 DEF Available, CacheInv, Key
<1>4. ASSUME o.type.shape \in PreemptibleShapes
      PROVE  [o EXCEPT !.capacity = Preemptible] \in ResolvedOffers(c)
  <2> DEFINE q == [o EXCEPT !.capacity = Preemptible]
  <2>1. q \in Offerings /\ q.type = o.type /\ q.zone = o.zone /\ q.capacity = Preemptible
    BY <1>1 DEF Offerings, CapacityTypes
  <2> HIDE DEF q
  <2>2. Key(q).capacity = Preemptible
    BY <2>1 DEF Key
  <2>3. Key(q) \notin unavailable
    BY <2>2 DEF CacheInv, OnDemand, Preemptible
  <2>4. Available(q)
    BY <1>1, <1>4, <2>1, <2>3 DEF Available
  <2>5. q \in ResolvedOffers(c)
    BY <1>1, <2>1, <2>4 DEF ResolvedOffers
  <2> QED  BY <2>5 DEF q
<1> QED  BY <1>2, <1>3, <1>4

\* A refusal enters an on-demand key: that of the offering itself, if it was one.
LEMMA CacheStep ==
  ASSUME TypeOK, CacheInv, [Next]_vars
  PROVE  CacheInv'
<1>1. ASSUME NEW c \in Claims, NEW o \in choice[c], LaunchShort(c, o)  PROVE CacheInv'
  <2>1. MarkedKey(o).capacity = OnDemand /\ (Key(o).capacity = OnDemand => MarkedKey(o) = Key(o))
    BY DEF MarkedKey, Key
  <2> QED  BY <1>1, <2>1 DEF LaunchShort, CacheInv
<1>2. ASSUME NEW k \in Keys, Expire(k)  PROVE CacheInv'
  BY <1>2 DEF Expire, CacheInv
<1>3. CASE UNCHANGED <<unavailable, short>>
  BY <1>3 DEF CacheInv
<1> QED
  BY <1>1, <1>2, <1>3 DEF Next, LaunchStep, ListTypes, NothingAvailable, SendLaunch,
     LaunchAccepted, Reprovision, LaunchFailed, ChangeCapacity, vars

\* A list is shown whole or dropped whole, with the refusals known to it.
LEMMA ShownStep ==
  ASSUME TypeOK, CacheInv, ShownInv, [Next]_vars
  PROVE  ShownInv'
<1>1. ASSUME NEW c \in Claims, ListTypes(c)  PROVE ShownInv'
  <2>1. /\ offers' = [offers EXCEPT ![c] = ResolvedOffers(c)]
        /\ knew' = [knew EXCEPT ![c] = short]
    BY <1>1 DEF ListTypes
  <2>2. ASSUME NEW d \in Claims, NEW o \in offers'[d]
        PROVE  /\ o.capacity = Preemptible => o.type.shape \in PreemptibleShapes
               /\ o.type.shape \in PreemptibleShapes =>
                    [o EXCEPT !.capacity = Preemptible] \in offers'[d]
               /\ o.capacity = OnDemand => Key(o) \notin knew'[d]
    <3>1. CASE d = c
      <4>1. offers'[d] = ResolvedOffers(c) /\ knew'[d] = short
        BY <2>1, <3>1 DEF TypeOK
      <4> QED  BY <2>2, <4>1, ShownByList
    <3>2. CASE d # c
      <4>1. offers'[d] = offers[d] /\ knew'[d] = knew[d]
        BY <2>1, <3>2 DEF TypeOK
      <4> QED  BY <2>2, <4>1 DEF ShownInv
    <3> QED  BY <3>1, <3>2
  <2> QED  BY <2>2 DEF ShownInv, Key
<1>2. ASSUME NEW c \in Claims,
             \/ LaunchFailed(c)
             \/ \E o \in choice[c] : LaunchAccepted(c, o) \/ LaunchShort(c, o)
      PROVE  ShownInv'
  BY <1>2 DEF LaunchFailed, LaunchAccepted, LaunchShort, ShownInv, TypeOK, Key
<1>3. CASE UNCHANGED <<offers, knew>>
  BY <1>3 DEF ShownInv, Key
<1> QED
  BY <1>1, <1>2, <1>3 DEF Next, LaunchStep, NothingAvailable, SendLaunch, Reprovision,
     Expire, ChangeCapacity, vars

\* A claim asks from the list it still has, and an on-demand claim for an offering
\* its refusals leave open.
LEMMA OfferedStep ==
  ASSUME TypeOK, OfferedInv, [Next]_vars
  PROVE  OfferedInv'
<1>1. CacheInv' /\ ShownInv'
  BY CacheStep, ShownStep DEF OfferedInv
<1> DEFINE Open(c, o) ==
             /\ \E z \in Request[c].zones :
                  [capacity |-> OnDemand, shape |-> o.type.shape, zone |-> z] \notin knew[c]
             /\ o.type.shape \notin PreemptibleShapes => Key(o) \notin knew[c]
           Kept(c) == /\ CapacityDecided(c) => Offered(c)
                      /\ OnDemandOnly(c) /\ pc[c] = "sent" => \A o \in choice[c] : Open(c, o)
<1>2. ASSUME NEW d \in Claims, UNCHANGED <<pc[d], choice[d], offers[d], knew[d]>>
      PROVE  Kept(d)'
  BY <1>2 DEF OfferedInv, Offered, RefusedNotRepeated, OnDemandOnly, Key, CapacityDecided,
     OnDemandClaim, PreemptibleClaim
<1>3. ASSUME NEW d \in Claims, pc'[d] # "sent"  PROVE Kept(d)'
  BY <1>3 DEF Offered
<1>4. ASSUME NEW c \in Claims, LaunchStep(c) \/ LaunchFailed(c), NEW d \in Claims, d # c
      PROVE  UNCHANGED <<pc[d], choice[d], offers[d], knew[d]>>
  BY <1>4 DEF LaunchStep, ListTypes, NothingAvailable, SendLaunch, LaunchAccepted, LaunchShort,
     Reprovision, LaunchFailed, TypeOK
<1>5. ASSUME NEW c \in Claims, LaunchStep(c) \/ LaunchFailed(c)  PROVE Kept(c)'
  <2>1. ASSUME NEW t \in Types, NEW z \in Zones, SendLaunch(c, t, z)  PROVE Kept(c)'
    <3> DEFINE asked == [type |-> t, zone |-> z, capacity |-> CapacityPicked(c)]
    <3>1. choice'[c] = {asked} /\ UNCHANGED <<offers, knew>>
      BY <2>1 DEF SendLaunch, TypeOK
    <3>2. CapacityDecided(c) => asked \in offers[c]
      BY <2>1, PickedOffered DEF SendLaunch, OfferedInv
    <3>3. CapacityDecided(c) => Offered(c)'
      BY <3>1, <3>2 DEF Offered
    <3>4. OnDemandOnly(c) => Open(c, asked)
      <4>1. asked.type = t /\ (OnDemandOnly(c) => Key(asked) =
              [capacity |-> OnDemand, shape |-> t.shape, zone |-> z])
        BY DEF Key, OnDemandOnly, CapacityPicked
      <4> HIDE DEF asked
      <4> QED  BY <2>1, <4>1, PickedFresh DEF SendLaunch, OfferedInv
    <3>5. OnDemandOnly(c) => \A o \in choice'[c] : Open(c, o)'
      BY <3>1, <3>4 DEF Key
    <3> QED  BY <3>3, <3>5 DEF CapacityDecided, OnDemandClaim, PreemptibleClaim, OnDemandOnly
  <2>2. CASE \/ ListTypes(c) \/ NothingAvailable(c) \/ Reprovision(c) \/ LaunchFailed(c)
             \/ \E o \in choice[c] : LaunchAccepted(c, o) \/ LaunchShort(c, o)
    <3>1. pc'[c] # "sent"
      BY <2>2 DEF ListTypes, NothingAvailable, Reprovision, LaunchFailed, LaunchAccepted,
         LaunchShort, TypeOK
    <3> QED  BY <1>3, <3>1
  <2> QED  BY <1>5, <2>1, <2>2 DEF LaunchStep
<1>6. ASSUME NEW c \in Claims, LaunchStep(c) \/ LaunchFailed(c), NEW d \in Claims
      PROVE  Kept(d)'
  <2>1. CASE d = c
    BY <1>5, <1>6, <2>1
  <2>2. CASE d # c
    BY <1>2, <1>4, <1>6, <2>2
  <2> QED  BY <2>1, <2>2
<1>7. ASSUME UNCHANGED <<pc, choice, offers, knew>>, NEW d \in Claims  PROVE Kept(d)'
  BY <1>2, <1>7
<1>8. \A d \in Claims : Kept(d)'
  <2>1. CASE \E c \in Claims : LaunchStep(c) \/ LaunchFailed(c)
    BY <1>6, <2>1
  <2>2. CASE UNCHANGED vars \/ \E k \in Keys : Expire(k) \/ ChangeCapacity(k)
    <3>1. UNCHANGED <<pc, choice, offers, knew>>
      BY <2>2 DEF vars, Expire, ChangeCapacity
    <3> QED  BY <1>7, <3>1
  <2> QED  BY <2>1, <2>2 DEF Next
<1> QED  BY <1>1, <1>8 DEF OfferedInv, RefusedNotRepeated

\* The cache, the lists and the claims made from them fit together at all times.
LEMMA OfferedInvariant == Spec => []OfferedInv
<1>1. Init => OfferedInv
  BY DEF Init, OfferedInv, CacheInv, ShownInv, Offered, RefusedNotRepeated
<1>2. TypeOK /\ OfferedInv /\ [Next]_vars => OfferedInv'
  BY OfferedStep
<1> QED  BY <1>1, <1>2, Typing, PTL DEF Spec

\* A claim whose capacity type is decided asks only for an offering of the list it
\* made, though type, zone and capacity type are picked one after the other,
\* whatever the other claims in flight ask for and however theirs are refused.
THEOREM DecidedClaimsServed ==
  Spec => []\A c \in Claims : CapacityDecided(c) => Offered(c)
<1>1. OfferedInv => \A c \in Claims : CapacityDecided(c) => Offered(c)
  BY DEF OfferedInv
<1> QED  BY <1>1, OfferedInvariant, PTL

\* For every catalogue, every set of preemptible shapes and every mix of claims, a
\* claim for on-demand instances asks for no shape that was refused in all its
\* zones, and in no refused zone of a shape that has no preemptible offerings,
\* while the refusals are in the cache of unavailable offerings.
THEOREM RefusalsRespected == Spec => []RefusedNotRepeated
<1>1. OfferedInv => RefusedNotRepeated
  BY DEF OfferedInv
<1> QED  BY <1>1, OfferedInvariant, PTL
=============================================================================
