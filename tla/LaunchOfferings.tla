--------------------------- MODULE LaunchOfferings ---------------------------
(***************************************************************************)
(* How a NodeClaim's request becomes a LaunchInstance call, and what a     *)
(* refusal for lack of capacity changes for the next one. Claims are       *)
(* launched concurrently. Each lists the instance types with their         *)
(* offerings, of which UnavailableOfferings hides the ones OCI refused in  *)
(* the last three minutes, keeps the types that can serve it, picks the    *)
(* cheapest, a zone and a capacity type, and sends the request. A refusal  *)
(* deletes the NodeClaim and the provisioner makes another for the pods.   *)
(*                                                                         *)
(* A type is a shape in one CPU and memory size: a flexible shape is split *)
(* into several types of one name, and the cache is keyed by that name.    *)
(* Sizes, labels and resource fit are abstracted into the set of types a   *)
(* request admits.                                                         *)
(***************************************************************************)
EXTENDS Naturals, FiniteSets

CONSTANTS
  Claims,             \* NodeClaims, one for each group of pods
  Types,              \* instance types: records of a shape and a size
  Zones,              \* availability domains
  OfferedIn,          \* [Types -> the zones whose ListShapes has the shape]
  Price,              \* [Types -> the hourly on-demand price]
  PreemptibleShapes,  \* shapes of PREEMPTIBLE_SHAPES and not of the exclude list
  Request,            \* [Claims -> what the NodeClaim's requirements admit]
  MaxExpiries,        \* bound on entries that run out of their time to live
  MaxChanges,         \* bound on the changes of OCI's free capacity
  MaxErrors           \* bound on failures of Create that are not a shortage

OnDemand    == "on-demand"
Preemptible == "preemptible"
CapacityTypes == {OnDemand, Preemptible}
Shapes == {t.shape : t \in Types}

\* What the cache is keyed by, and what OCI has or has not free capacity for.
Keys == [capacity : CapacityTypes, shape : Shapes, zone : Zones]
Offerings == [type : Types, zone : Zones, capacity : CapacityTypes]

\* The pools of hosts OCI has: in the zones whose ListShapes has the shape, and
\* none for preemptible instances of a shape that cannot be preempted.
Pools ==
  {k \in Keys : /\ \E t \in Types : t.shape = k.shape /\ k.zone \in OfferedIn[t]
                /\ k.capacity = Preemptible => k.shape \in PreemptibleShapes}

ASSUME OfferingsAssumption ==
  /\ \A t \in Types : t = [shape |-> t.shape, size |-> t.size]
  /\ OfferedIn \in [Types -> SUBSET Zones]
  /\ Price \in [Types -> Nat]
  /\ PreemptibleShapes \subseteq Shapes
  /\ Request \in [Claims -> [types : SUBSET Types, zones : SUBSET Zones,
                             capacities : SUBSET CapacityTypes]]
  /\ MaxExpiries \in Nat /\ MaxChanges \in Nat /\ MaxErrors \in Nat

VARIABLES
  unavailable,  \* the keys in UnavailableOfferings
  short,        \* the keys OCI refused whose refusal has not expired
  free,         \* the keys OCI has capacity for
  pc,           \* [Claims -> where the launch of the claim is]
  offers,       \* [Claims -> the offerings available of the types resolved]
  knew,         \* [Claims -> short, when the claim listed its types]
  choice,       \* [Claims -> the set of the one offering asked for]
  expiries, changes, errors

bounds == <<expiries, changes, errors>>
vars   == <<unavailable, short, free, pc, offers, knew, choice, bounds>>

TypeOK ==
  /\ unavailable \subseteq Keys /\ short \subseteq Keys /\ free \subseteq Keys
  /\ pc \in [Claims -> {"pending", "listed", "sent", "launched", "rejected"}]
  /\ offers \in [Claims -> SUBSET Offerings]
  /\ knew \in [Claims -> SUBSET Keys]
  /\ choice \in [Claims -> SUBSET Offerings]
  /\ expiries \in 0 .. MaxExpiries
  /\ changes \in 0 .. MaxChanges
  /\ errors \in 0 .. MaxErrors

Init ==
  /\ unavailable = {} /\ short = {}
  /\ free \in SUBSET Pools
  /\ pc = [c \in Claims |-> "pending"]
  /\ offers = [c \in Claims |-> {}]
  /\ knew = [c \in Claims |-> {}]
  /\ choice = [c \in Claims |-> {}]
  /\ expiries = 0 /\ changes = 0 /\ errors = 0

-----------------------------------------------------------------------------
(* The operators the launch is made of.                                    *)

Key(o) == [capacity |-> o.capacity, shape |-> o.type.shape, zone |-> o.zone]

\* Variant: the cache of refused offerings is not consulted.
AvailableRegardless(o) ==
  /\ o.zone \in OfferedIn[o.type]
  /\ o.capacity = Preemptible => o.type.shape \in PreemptibleShapes

\* An offering is available unless it was refused lately, or asks for a
\* preemptible instance of a shape that has none.
Available(o) ==
  /\ o.zone \in OfferedIn[o.type]
  /\ Key(o) \notin unavailable
  /\ o.capacity = Preemptible => o.type.shape \in PreemptibleShapes

\* Twice the price of an offering: a preemptible one costs half.
PriceOf(o) == IF o.capacity = Preemptible THEN Price[o.type] ELSE 2 * Price[o.type]

Compatible(c, o) ==
  /\ o.type \in Request[c].types
  /\ o.zone \in Request[c].zones
  /\ o.capacity \in Request[c].capacities

\* The types with an available offering the claim can use, and every
\* available offering of theirs, in whatever zone and of either capacity.
ResolvedOffers(c) ==
  {o \in Offerings :
     /\ Available(o)
     /\ \E p \in Offerings : p.type = o.type /\ Available(p) /\ Compatible(c, p)}

\* t has the cheapest of the compatible offerings a claim was shown.
Cheapest(c, t) ==
  \E o \in offers[c] :
    /\ o.type = t /\ Compatible(c, o)
    /\ \A p \in offers[c] : Compatible(c, p) => PriceOf(o) <= PriceOf(p)

\* Variant: any zone with an available offering, requested or not.
ZonePickedAnywhere(c, t, z) == \E o \in offers[c] : o.type = t /\ o.zone = z

\* The zone is one with an available offering of the type: its capacity type
\* is not looked at.
ZonePicked(c, t, z) ==
  /\ z \in Request[c].zones
  /\ \E o \in offers[c] : o.type = t /\ o.zone = z

\* Preemptible whenever the request admits it.
CapacityPicked(c) ==
  IF Preemptible \in Request[c].capacities THEN Preemptible ELSE OnDemand

\* Variant: the zone is left out of the key.
MarkedKeyNoZone(o) == [capacity |-> OnDemand, shape |-> o.type.shape]

\* Variant: the capacity types are mistaken for each other.
MarkedKeySwapped(o) ==
  [Key(o) EXCEPT !.capacity = CHOOSE x \in CapacityTypes : x # o.capacity]

\* The key a refusal of offering o enters: always the on-demand one.
MarkedKey(o) == [Key(o) EXCEPT !.capacity = OnDemand]

-----------------------------------------------------------------------------
(* The steps of a launch.                                                  *)

\* CloudProvider.Create lists the instance types and resolves the request.
ListTypes(c) ==
  /\ pc[c] = "pending"
  /\ ResolvedOffers(c) # {}
  /\ offers' = [offers EXCEPT ![c] = ResolvedOffers(c)]
  /\ knew' = [knew EXCEPT ![c] = short]
  /\ pc' = [pc EXCEPT ![c] = "listed"]
  /\ UNCHANGED <<unavailable, short, free, choice, bounds>>

\* Nothing is available for the request: an insufficient capacity error.
NothingAvailable(c) ==
  /\ pc[c] = "pending"
  /\ ResolvedOffers(c) = {}
  /\ pc' = [pc EXCEPT ![c] = "rejected"]
  /\ UNCHANGED <<unavailable, short, free, offers, knew, choice, bounds>>

\* Type, zone and capacity type are picked and LaunchInstance is called.
SendLaunch(c, t, z) ==
  /\ pc[c] = "listed"
  /\ Cheapest(c, t) /\ ZonePicked(c, t, z)
  /\ choice' = [choice EXCEPT ![c] =
                  {[type |-> t, zone |-> z, capacity |-> CapacityPicked(c)]}]
  /\ pc' = [pc EXCEPT ![c] = "sent"]
  /\ UNCHANGED <<unavailable, short, free, offers, knew, bounds>>

\* OCI launches the instance. What is free stays so: a key stands for a pool.
LaunchAccepted(c, o) ==
  /\ pc[c] = "sent" /\ o \in choice[c]
  /\ Key(o) \in free
  /\ pc' = [pc EXCEPT ![c] = "launched"]
  /\ offers' = [offers EXCEPT ![c] = {}]
  /\ knew' = [knew EXCEPT ![c] = {}]
  /\ UNCHANGED <<unavailable, short, free, choice, bounds>>

\* Out of host capacity, or over a service limit: the offering is marked and
\* core deletes the NodeClaim.
LaunchShort(c, o) ==
  /\ pc[c] = "sent" /\ o \in choice[c]
  /\ Key(o) \notin free
  /\ unavailable' = unavailable \union {MarkedKey(o)}
  /\ short' = short \union {Key(o)}
  /\ pc' = [pc EXCEPT ![c] = "rejected"]
  /\ offers' = [offers EXCEPT ![c] = {}]
  /\ knew' = [knew EXCEPT ![c] = {}]
  /\ choice' = [choice EXCEPT ![c] = {}]
  /\ UNCHANGED <<free, bounds>>

\* Any other error of Create, before or of the call: core retries the claim.
LaunchFailed(c) ==
  /\ pc[c] \in {"listed", "sent"} /\ errors < MaxErrors
  /\ errors' = errors + 1
  /\ pc' = [pc EXCEPT ![c] = "pending"]
  /\ offers' = [offers EXCEPT ![c] = {}]
  /\ knew' = [knew EXCEPT ![c] = {}]
  /\ choice' = [choice EXCEPT ![c] = {}]
  /\ UNCHANGED <<unavailable, short, free, expiries, changes>>

\* The provisioner makes another NodeClaim for the pods of a deleted one.
Reprovision(c) ==
  /\ pc[c] = "rejected"
  /\ pc' = [pc EXCEPT ![c] = "pending"]
  /\ UNCHANGED <<unavailable, short, free, offers, knew, choice, bounds>>

\* An entry reaches the end of its three minutes, and with it every refusal
\* of the same shape and zone.
Expire(k) ==
  /\ k \in unavailable /\ expiries < MaxExpiries
  /\ expiries' = expiries + 1
  /\ unavailable' = unavailable \ {k}
  /\ short' = {j \in short : j.shape # k.shape \/ j.zone # k.zone}
  /\ UNCHANGED <<free, pc, offers, knew, choice, changes, errors>>

\* Other tenants take or give back OCI's capacity.
ChangeCapacity(k) ==
  /\ k \in Pools /\ changes < MaxChanges
  /\ changes' = changes + 1
  /\ free' = IF k \in free THEN free \ {k} ELSE free \union {k}
  /\ UNCHANGED <<unavailable, short, pc, offers, knew, choice, expiries, errors>>

LaunchStep(c) ==
  \/ ListTypes(c) \/ NothingAvailable(c)
  \/ \E t \in Types, z \in Zones : SendLaunch(c, t, z)
  \/ \E o \in choice[c] : LaunchAccepted(c, o) \/ LaunchShort(c, o)
  \/ Reprovision(c)

Next ==
  \/ \E c \in Claims : LaunchStep(c) \/ LaunchFailed(c)
  \/ \E k \in Keys : Expire(k) \/ ChangeCapacity(k)

Spec == Init /\ [][Next]_vars

\* Core's launch workers and its provisioner requeue what they have not done. The
\* zone is drawn at random (mutable.Shuffle): one that could be drawn again and
\* again is drawn some time.
FairSpec ==
  /\ Spec
  /\ \A c \in Claims :
       /\ WF_vars(LaunchStep(c))
       /\ \A z \in Zones : SF_vars(\E t \in Types : SendLaunch(c, t, z))

-----------------------------------------------------------------------------
(* Properties.                                                             *)

\* An instance that is asked for is one the NodeClaim's requirements admit:
\* its type, its zone and its capacity type.
RequestHonoured ==
  \A c \in Claims : \A o \in choice[c] : Compatible(c, o)

\* The claim does not admit preemptible instances.
OnDemandOnly(c) == Preemptible \notin Request[c].capacities

\* A claim for on-demand instances learns from OCI's refusals, also where its
\* shapes have preemptible offerings, as VM shapes have by default, and whoever
\* was refused. It asks for no shape that was refused in all the zones it admits
\* before it listed the types, entries that expired aside; of a shape with
\* on-demand offerings only, it asks in no zone that was refused. (A preemptible
\* offering keeps its zone in the draw, instance.go:257, so a refused zone of
\* such a shape may be drawn again while another is open.)
RefusedNotRepeated ==
  \A c \in Claims :
    OnDemandOnly(c) /\ pc[c] = "sent" =>
      \A o \in choice[c] :
        /\ \E z \in Request[c].zones :
             [capacity |-> OnDemand, shape |-> o.type.shape, zone |-> z] \notin knew[c]
        /\ o.type.shape \notin PreemptibleShapes => Key(o) \notin knew[c]

\* A claim for which from some time on there is an offering OCI has capacity
\* for, and no refusal of it in the cache, is launched: refusals of the cheaper
\* ones move it on to that offering (LaunchInstance's MarkUnavailable and
\* CreateOfferings).
HasCapacity(c) ==
  \E o \in Offerings : Available(o) /\ Compatible(c, o) /\ Key(o) \in free
LaunchedIfPossible(c) == <>[]HasCapacity(c) => <>(pc[c] = "launched")
EventuallyLaunched ==
  \A c \in Claims : LaunchedIfPossible(c)

\* The same of the claims for on-demand instances: it is for them that refusals
\* are entered, and neither a zone drawn for its preemptible offering nor what
\* the other claims are refused keeps them from the offering there is.
OnDemandLaunched ==
  \A c \in Claims : OnDemandOnly(c) => LaunchedIfPossible(c)

-----------------------------------------------------------------------------
(* What the proofs need.                                                   *)

\* What is asked for is an offering that was listed as available.
Offered(c) == pc[c] = "sent" => choice[c] \subseteq offers[c]

\* The claim admits on-demand instances only, of shapes that have no others: a
\* zone with an offering of such a type has an on-demand one.
OnDemandClaim(c) ==
  /\ Preemptible \notin Request[c].capacities
  /\ \A t \in Request[c].types : t.shape \notin PreemptibleShapes

\* The claim admits preemptible instances and, if it admits on-demand ones as
\* well, names no shape that has only these.
PreemptibleClaim(c) ==
  /\ Preemptible \in Request[c].capacities
  /\ OnDemand \in Request[c].capacities => \A t \in Request[c].types : t.shape \in PreemptibleShapes

\* Type, zone and capacity type are picked one after the other; for these claims
\* the three are always an offering.
CapacityDecided(c) == OnDemandClaim(c) \/ PreemptibleClaim(c)

\* Only on-demand keys are entered, and each refusal of an on-demand instance is
\* there until it expires.
CacheInv ==
  /\ \A k \in unavailable : k.capacity = OnDemand
  /\ \A k \in short : k.capacity = OnDemand => k \in unavailable

\* What a claim was shown: no preemptible offering of a shape that has none, with
\* every offering the preemptible one if there is one, and no on-demand one that
\* was refused before.
ShownInv ==
  \A c \in Claims : \A o \in offers[c] :
    /\ o.capacity = Preemptible => o.type.shape \in PreemptibleShapes
    /\ o.type.shape \in PreemptibleShapes => [o EXCEPT !.capacity = Preemptible] \in offers[c]
    /\ o.capacity = OnDemand => Key(o) \notin knew[c]

\* Claims whose capacity type is decided ask for what they were shown, and
\* on-demand ones learn from refusals, whatever the other claims do.
OfferedInv ==
  /\ CacheInv /\ ShownInv
  /\ \A c \in Claims : CapacityDecided(c) => Offered(c)
  /\ RefusedNotRepeated
=============================================================================
