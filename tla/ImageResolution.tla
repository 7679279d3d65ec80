--------------------------- MODULE ImageResolution ---------------------------
(***************************************************************************)
(* From an image selector to the image of a launched instance: OCI         *)
(* publishes images, imagefamily.Provider.List resolves a selector through *)
(* a cache that all NodeClasses share, the nodeclass.status controller     *)
(* stores the result in Status.Images sorted by id, and Resolver.Resolve   *)
(* takes the first image of the status that the instance type is           *)
(* compatible with.                                                        *)
(*                                                                         *)
(* An image is a number, the position of its OCID in the order of the ids. *)
(* Its name says which machines it is made for.                            *)
(***************************************************************************)
EXTENDS Naturals, FiniteSets

CONSTANTS
  NodeClasses,
  Family,       \* [NodeClasses -> the imageFamily]
  Selector,     \* [NodeClasses -> the imageSelector, by its hash]
  Images,       \* ids, as numbers
  NameOf,       \* [Images -> the machine its name says it is made for]
  Matches,      \* [selectors -> the images they select once published]
  MaxFailures   \* bound on failing calls of ListImages and GetImage

OKE == "OracleOKELinux"
Selectors == {Selector[n] : n \in NodeClasses}

\* Machines by their instance type, images by their name: x86, Arm, x86 with GPUs.
Machines == {"amd64", "arm64", "gpu"}

\* An image with the machines its requirements admit.
Wrapped == [id : Images, machines : SUBSET Machines]

ASSUME ImageAssumption ==
  /\ Images \subseteq Nat
  /\ NameOf \in [Images -> Machines]
  /\ Matches \in [Selectors -> SUBSET Images]
  /\ MaxFailures \in Nat

VARIABLES
  published,  \* the images OCI has
  cached,     \* the selectors with an entry in the provider's cache
  entry,      \* [Selectors -> the images of the entry]
  status,     \* [NodeClasses -> Status.Images]
  launched,   \* the last launch: NodeClass, machine and image
  failures

vars == <<published, cached, entry, status, launched, failures>>

TypeOK ==
  /\ published \subseteq Images
  /\ cached \subseteq Selectors
  /\ entry \in [Selectors -> SUBSET Wrapped]
  /\ status \in [NodeClasses -> SUBSET Wrapped]
  /\ launched \subseteq [class : NodeClasses, machine : Machines, image : Images]
  /\ failures \in 0 .. MaxFailures

Init ==
  /\ published = {}
  /\ cached = {}
  /\ entry = [s \in Selectors |-> {}]
  /\ status = [n \in NodeClasses |-> {}]
  /\ launched = {} /\ failures = 0

-----------------------------------------------------------------------------
Publish(i) ==
  /\ i \notin published
  /\ published' = published \union {i}
  /\ UNCHANGED <<cached, entry, status, launched, failures>>

\* requirementsForImage: only the names of OKE's own images tell. "aarch64" asks
\* for arm64, everything else for amd64; "gpu" for an instance type with GPUs,
\* but nothing keeps a plain image from one.
MachinesForImage(n, i) ==
  IF Family[n] # OKE THEN Machines
  ELSE CASE NameOf[i] = "arm64" -> {"arm64"}
         [] NameOf[i] = "gpu"   -> {"gpu"}
         [] OTHER               -> {"amd64", "gpu"}

\* What OCI lists for the NodeClass's selector, with the requirements.
Query(n) ==
  {[id |-> i, machines |-> MachinesForImage(n, i)] : i \in published \intersect Matches[Selector[n]]}

\* Variant: the key leaves out what the selectors differ in.
CacheKeyCoarse(n) == CHOOSE s \in Selectors : TRUE

\* The key of a NodeClass's entry: the hash of its selector, and not its family.
CacheKey(n) == Selector[n]

\* An entry is found until its minute is over. (Variant: one that holds images
\* is stored without expiration.)
ExpiresEmpty(s) == s \in cached /\ entry[s] = {}
Expires(s) == s \in cached

\* List on a hit, then Image.Reconcile stores what it returned.
ReconcileCached(n) ==
  /\ CacheKey(n) \in cached
  /\ status[n] # entry[CacheKey(n)]
  /\ status' = [status EXCEPT ![n] = entry[CacheKey(n)]]
  /\ UNCHANGED <<published, cached, entry, launched, failures>>

\* List on a miss, under the provider's lock: the entry is made with the
\* requirements of the NodeClass that asks, for every one with the selector.
ReconcileFetched(n) ==
  /\ CacheKey(n) \notin cached
  /\ cached' = cached \union {CacheKey(n)}
  /\ entry' = [entry EXCEPT ![CacheKey(n)] = Query(n)]
  /\ status' = [status EXCEPT ![n] = Query(n)]
  /\ UNCHANGED <<published, launched, failures>>

\* A call fails: nothing is cached, the status is left alone and the
\* reconcile is retried.
ReconcileFailed(n) ==
  /\ CacheKey(n) \notin cached
  /\ failures < MaxFailures
  /\ failures' = failures + 1
  /\ UNCHANGED <<published, cached, entry, status, launched>>

Expire(s) ==
  /\ Expires(s)
  /\ cached' = cached \ {s}
  /\ UNCHANGED <<published, entry, status, launched, failures>>

\* The images of the status that fit an instance type of machine m, and the one
\* that MapToInstanceTypes stops at: the first in the order of the ids.
Compatible(n, m) == {w.id : w \in {v \in status[n] : m \in v.machines}}
FirstImage(n, m) == CHOOSE i \in Compatible(n, m) : \A j \in Compatible(n, m) : i <= j

\* Resolve and LaunchInstance for machine m; with no compatible image it fails
\* and nothing is launched.
Launch(n, m) ==
  /\ Compatible(n, m) # {}
  /\ launched' = {[class |-> n, machine |-> m, image |-> FirstImage(n, m)]}
  /\ UNCHANGED <<published, cached, entry, status, failures>>

Next ==
  \/ \E i \in Images : Publish(i)
  \/ \E n \in NodeClasses : ReconcileCached(n) \/ ReconcileFetched(n) \/ ReconcileFailed(n)
  \/ \E s \in Selectors : Expire(s)
  \/ \E n \in NodeClasses, m \in Machines : Launch(n, m)

Spec == Init /\ [][Next]_vars

\* Entries run out of time, and the status controller comes back every five
\* minutes, or sooner after an error.
FairSpec ==
  /\ Spec
  /\ \A s \in Selectors : WF_vars(Expire(s))
  /\ \A n \in NodeClasses : SF_vars(ReconcileCached(n)) /\ SF_vars(ReconcileFetched(n))

-----------------------------------------------------------------------------
(* Properties.                                                             *)

\* The image of a launch is made for the machine, as far as its name tells.
MadeFor(l) ==
  Family[l.class] = OKE =>
    /\ (NameOf[l.image] = "arm64") = (l.machine = "arm64")
    /\ NameOf[l.image] = "gpu" => l.machine = "gpu"

\* The NodeClasses that share n's selector, and so its cache entry, agree with it
\* on whether the names of the images tell.
Undisturbed(n) ==
  \A m \in NodeClasses : Selector[m] = Selector[n] => (Family[m] = OKE <=> Family[n] = OKE)

\* An instance of an OracleOKELinux NodeClass gets an image of its own
\* architecture, and a GPU image only if it has GPUs, unless a NodeClass of another
\* family has the very same selector: then the one that fills the entry decides for
\* both (imagefamily.go:58). Families elsewhere, who filled the entry and when do
\* not matter (requirementsForImage, List, MapToInstanceTypes).
UndisturbedMatch == \A l \in launched : Undisturbed(l.class) => MadeFor(l)

\* A published image that the selector matches gets into the NodeClass's status:
\* the shared cache only delays it.
NewImageSeen ==
  \A n \in NodeClasses, i \in Images :
    i \in published /\ i \in Matches[Selector[n]] ~> \E w \in status[n] : w.id = i

-----------------------------------------------------------------------------
(* The inductive invariants behind the safety properties.                  *)

\* Every image in the cache or in the status of an undisturbed NodeClass carries
\* the requirements that this NodeClass would have given it itself.
RequirementsOwn ==
  \A n \in NodeClasses : Undisturbed(n) =>
    \A w \in entry[Selector[n]] \union status[n] : w.machines = MachinesForImage(n, w.id)

\* No image has, anywhere on its way to an instance of an undisturbed NodeClass,
\* requirements of another family.
ImageInv == RequirementsOwn /\ UndisturbedMatch

\* The images that a NodeClass's own selector finds, of those that OCI has.
SelectedBy(n) == published \intersect Matches[Selector[n]]

\* What is launched, and what any cache entry or status offers, is an image OCI has
\* and the NodeClass selects: the cache hands no NodeClass the images of another's
\* selector, though all of them read and fill it (Provider.List, Resolve).
ImagesSelected ==
  /\ \A n \in NodeClasses : \A w \in entry[Selector[n]] \union status[n] : w.id \in SelectedBy(n)
  /\ \A l \in launched : l.image \in SelectedBy(l.class)
=============================================================================
