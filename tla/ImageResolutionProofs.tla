----------------------- MODULE ImageResolutionProofs -----------------------
(* Proofs about ImageResolution, for every set of NodeClasses, selectors and *)
(* images and any names.                                                     *)
EXTENDS ImageResolution, WellFoundedInduction, TLAPS

\* A non-empty set of ids has a first one, so MapToInstanceTypes stops at an
\* image whenever one is compatible.
LEMMA LeastId ==
  ASSUME NEW S, S \subseteq Nat, S # {}
  PROVE  \E i \in S : \A j \in S : i <= j
<1> DEFINE R == OpToRel(<, Nat)
<1>1. PICK i \in S : \A j \in S : ~(<<j, i>> \in R)
  <2>1. IsWellFoundedOn(R, Nat)
    BY NatLessThanWellFounded, Zenon
  <2> HIDE DEF R
  <2> QED BY <2>1, WFMin
<1>2. \A j \in S : ~(j < i)
  BY <1>1 DEF OpToRel
<1> QED BY <1>2

\* The image that is launched is one of the compatible ones of the status.
LEMMA FirstIsCompatible ==
  ASSUME TypeOK, NEW n \in NodeClasses, NEW m \in Machines, Compatible(n, m) # {}
  PROVE  /\ FirstImage(n, m) \in Images
         /\ \E w \in status[n] : w.id = FirstImage(n, m) /\ m \in w.machines
<1>1. Compatible(n, m) \subseteq Images
  BY DEF Compatible, TypeOK, Wrapped
<1>2. \E i \in Compatible(n, m) : \A j \in Compatible(n, m) : i <= j
  <2>1. Compatible(n, m) \subseteq Nat
    BY <1>1, ImageAssumption
  <2> QED BY <2>1, LeastId
<1>3. FirstImage(n, m) \in Compatible(n, m)
  BY <1>2 DEF FirstImage
<1> QED BY <1>1, <1>3 DEF Compatible

\* The requirements are sets of machines, and what a query returns is typed.
LEMMA QueryType ==
  ASSUME TypeOK, NEW n \in NodeClasses
  PROVE  Query(n) \in SUBSET Wrapped
<1>1. \A i \in Images : MachinesForImage(n, i) \in SUBSET Machines
  BY DEF MachinesForImage, Machines
<1> QED BY <1>1 DEF Query, Wrapped, TypeOK

\* Every step keeps the types of the variables.
LEMMA TypeStep == TypeOK /\ [Next]_vars => TypeOK'
<1> SUFFICES ASSUME TypeOK, [Next]_vars PROVE TypeOK'
  OBVIOUS
<1>1. ASSUME NEW i \in Images, Publish(i) PROVE TypeOK'
  BY <1>1 DEF Publish, TypeOK
<1>2. ASSUME NEW n \in NodeClasses, ReconcileCached(n) PROVE TypeOK'
  BY <1>2 DEF ReconcileCached, CacheKey, TypeOK, Selectors
<1>3. ASSUME NEW n \in NodeClasses, ReconcileFetched(n) PROVE TypeOK'
  BY <1>3, QueryType DEF ReconcileFetched, CacheKey, TypeOK, Selectors
<1>4. ASSUME NEW n \in NodeClasses, ReconcileFailed(n) PROVE TypeOK'
  BY <1>4, ImageAssumption DEF ReconcileFailed, TypeOK
<1>5. ASSUME NEW s \in Selectors, Expire(s) PROVE TypeOK'
  BY <1>5 DEF Expire, TypeOK
<1>6. ASSUME NEW n \in NodeClasses, NEW m \in Machines, Launch(n, m) PROVE TypeOK'
  <2>1. FirstImage(n, m) \in Images
    BY <1>6, FirstIsCompatible DEF Launch
  <2> QED BY <1>6, <2>1 DEF Launch, TypeOK
<1>7. CASE UNCHANGED vars
  BY <1>7 DEF vars, TypeOK
<1> QED BY <1>1, <1>2, <1>3, <1>4, <1>5, <1>6, <1>7 DEF Next

\* The variables keep their types in every reachable state: whatever is launched
\* has an image, and the cache and every status hold images with their machines.
THEOREM Typing == Spec => []TypeOK
<1>1. Init => TypeOK
  BY ImageAssumption DEF Init, TypeOK
<1> QED BY <1>1, TypeStep, PTL DEF Spec

-----------------------------------------------------------------------------
(* The requirements of the images.                                           *)

\* Whichever NodeClass with the selector asks, a query gives each image the
\* requirements that an undisturbed one would have given it.
LEMMA QueryShared ==
  ASSUME NEW n \in NodeClasses, NEW m \in NodeClasses, Undisturbed(m),
         Selector[n] = Selector[m], NEW w \in Query(n)
  PROVE  w.machines = MachinesForImage(m, w.id)
BY DEF Query, MachinesForImage, Undisturbed

\* Fetching, caching and storing images keep their requirements, and launching
\* takes one whose requirements admit the machine.
LEMMA ImageStep ==
  ASSUME TypeOK, ImageInv, [Next]_vars
  PROVE  ImageInv'
<1> USE DEF ImageInv, CacheKey
<1>1. ASSUME NEW n \in NodeClasses, ReconcileCached(n) PROVE ImageInv'
  <2> USE <1>1 DEF ReconcileCached
  <2>1. \A m \in NodeClasses : Undisturbed(m) =>
          \A w \in entry[Selector[m]] \union status'[m] : w.machines = MachinesForImage(m, w.id)
    BY DEF RequirementsOwn, TypeOK
  <2> QED BY <2>1 DEF RequirementsOwn, UndisturbedMatch, MadeFor, Undisturbed, MachinesForImage
<1>2. ASSUME NEW n \in NodeClasses, ReconcileFetched(n) PROVE ImageInv'
  <2> USE <1>2 DEF ReconcileFetched
  <2>1. \A m \in NodeClasses : Undisturbed(m) => \A w \in entry'[Selector[m]] :
          w.machines = MachinesForImage(m, w.id)
    BY QueryShared DEF RequirementsOwn, TypeOK, Selectors
  <2>2. \A m \in NodeClasses : Undisturbed(m) => \A w \in status'[m] :
          w.machines = MachinesForImage(m, w.id)
    BY QueryShared DEF RequirementsOwn, TypeOK
  <2>3. RequirementsOwn'
    BY <2>1, <2>2 DEF RequirementsOwn, Undisturbed, MachinesForImage
  <2> QED BY <2>3 DEF UndisturbedMatch, MadeFor, Undisturbed
<1>3. ASSUME NEW n \in NodeClasses, NEW m \in Machines, Launch(n, m) PROVE ImageInv'
  <2> USE <1>3 DEF Launch
  <2> DEFINE i == FirstImage(n, m)
             l == [class |-> n, machine |-> m, image |-> i]
  <2>1. PICK w \in status[n] : w.id = i /\ m \in w.machines
    BY FirstIsCompatible
  <2>2. Undisturbed(n) => m \in MachinesForImage(n, i)
    BY <2>1 DEF RequirementsOwn
  <2>3. i \in Images
    BY FirstIsCompatible
  <2>4. launched' = {l}
    OBVIOUS
  <2> HIDE DEF i
  <2>5. Undisturbed(n) => MadeFor(l)
    BY <2>2, <2>3, ImageAssumption DEF MachinesForImage, Machines, MadeFor
  <2>6. UndisturbedMatch'
    BY <2>4, <2>5 DEF UndisturbedMatch, MadeFor, Undisturbed
  <2>7. RequirementsOwn'
    BY DEF RequirementsOwn, Undisturbed, MachinesForImage
  <2> QED BY <2>6, <2>7
<1>4. CASE \/ UNCHANGED vars
           \/ \E i \in Images : Publish(i)
           \/ \E n \in NodeClasses : ReconcileFailed(n)
           \/ \E s \in Selectors : Expire(s)
  <2>1. UNCHANGED <<entry, status, launched>>
    BY <1>4 DEF vars, Publish, ReconcileFailed, Expire
  <2> QED BY <2>1 DEF RequirementsOwn, UndisturbedMatch, MadeFor, Undisturbed, MachinesForImage
<1> QED BY <1>1, <1>2, <1>3, <1>4 DEF Next

\* An instance of an OracleOKELinux NodeClass never gets an image of another
\* architecture, nor a GPU image without GPUs, unless a NodeClass of another family
\* has the very same selector: what other selectors' NodeClasses do, who filled the
\* entry and what is published meanwhile do not matter.
THEOREM UndisturbedClassesMatch == Spec => []UndisturbedMatch
<1>1. Init => ImageInv
  BY DEF Init, ImageInv, RequirementsOwn, UndisturbedMatch, Selectors
<1>2. TypeOK /\ ImageInv /\ [Next]_vars => ImageInv'
  BY ImageStep
<1>3. ImageInv => UndisturbedMatch
  BY DEF ImageInv
<1> QED BY <1>1, <1>2, <1>3, Typing, PTL DEF Spec

-----------------------------------------------------------------------------
(* Where the images come from.                                               *)

\* Publishing, fetching, reading the cache and launching keep every image within
\* what its NodeClass selects.
LEMMA SelectedStep ==
  ASSUME TypeOK, ImagesSelected, [Next]_vars
  PROVE  ImagesSelected'
<1> USE DEF ImagesSelected, SelectedBy, CacheKey
<1>1. ASSUME NEW i \in Images, Publish(i) PROVE ImagesSelected'
  BY <1>1 DEF Publish
<1>2. ASSUME NEW n \in NodeClasses, ReconcileCached(n) PROVE ImagesSelected'
  BY <1>2 DEF ReconcileCached, TypeOK
<1>3. ASSUME NEW n \in NodeClasses, ReconcileFetched(n) PROVE ImagesSelected'
  <2> USE <1>3 DEF ReconcileFetched
  <2>1. \A w \in Query(n) : w.id \in published \intersect Matches[Selector[n]]
    BY DEF Query
  <2>2. \A m \in NodeClasses : \A w \in entry'[Selector[m]] : w.id \in SelectedBy(m)
    BY <2>1 DEF TypeOK, Selectors
  <2>3. \A m \in NodeClasses : \A w \in status'[m] : w.id \in SelectedBy(m)
    BY <2>1 DEF TypeOK
  <2> QED BY <2>2, <2>3
<1>4. ASSUME NEW n \in NodeClasses, NEW m \in Machines, Launch(n, m) PROVE ImagesSelected'
  <2>1. \E w \in status[n] : w.id = FirstImage(n, m)
    BY <1>4, FirstIsCompatible DEF Launch
  <2> QED BY <1>4, <2>1 DEF Launch
<1>5. CASE \/ UNCHANGED vars
           \/ \E n \in NodeClasses : ReconcileFailed(n)
           \/ \E s \in Selectors : Expire(s)
  <2>1. UNCHANGED <<published, entry, status, launched>>
    BY <1>5 DEF vars, ReconcileFailed, Expire
  <2> QED BY <2>1
<1> QED BY <1>1, <1>2, <1>3, <1>4, <1>5 DEF Next

\* Every instance is launched with an image that OCI has published and that its own
\* NodeClass's selector finds, whichever NodeClass fetched it into the shared cache,
\* and however old the status is by then.
THEOREM LaunchesSelected == Spec => []ImagesSelected
<1>1. Init => ImagesSelected
  BY DEF Init, ImagesSelected, Selectors
<1> QED BY <1>1, SelectedStep, Typing, PTL DEF Spec
=============================================================================
