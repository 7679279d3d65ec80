------------------------ MODULE NodeClassControllers ------------------------
(***************************************************************************)
(* One OciNodeClass object and the three controllers that write it without *)
(* a common lock: nodeclass.status (finalizer, resolved lists, readiness), *)
(* nodeclass.hash (hash annotations, of the object and of its NodeClaims)  *)
(* and nodeclass.termination (removes the finalizer). They read the object *)
(* from one shared informer cache and write through the API server, with   *)
(* or without an optimistic lock on the resource version. Beside them core *)
(* launches and removes NodeClaims through CloudProvider.Create and asks   *)
(* CloudProvider.IsDrifted, and the user edits and deletes the object.     *)
(*                                                                         *)
(* What a selector resolves to is named by the spec it was resolved from.  *)
(* A resource version is never compared with anything but the current one, *)
(* so "stale" records which copies are no longer of the current version.   *)
(***************************************************************************)
EXTENDS Naturals, FiniteSets

CONSTANTS
  Claims,      \* NodeClaims that refer to the object
  Specs,       \* specs the user may give it
  NoSGSpecs,   \* those of them without a securityGroupSelector
  FirstSpec,   \* the spec it is created with
  Kinds,       \* what is resolved: a subset of {"image", "subnet", "sg"}
  Nothing,     \* an empty list, a missing annotation
  MaxEdits,    \* bound on the user's edits of the spec
  MaxWorld     \* bound on the changes of what OCI has

ASSUME NodeClassAssumption ==
  /\ NoSGSpecs \subseteq Specs /\ FirstSpec \in Specs
  /\ Kinds \subseteq {"image", "subnet", "sg"} /\ Kinds # {}
  /\ Nothing \notin Specs
  /\ MaxEdits \in Nat /\ MaxWorld \in Nat

VARIABLES
  obj,      \* the OciNodeClass as the API server holds it
  cache,    \* the informer cache's copy of it
  claim,    \* [Claims -> the NodeClaim]
  listed,   \* the NodeClaims in the informer cache
  world,    \* [Kinds -> does OCI have what the selectors ask for]
  stale,    \* copies ("cache", or a controller's) of an older resource version
  st, ha, te,    \* the controllers
  edits, changes

envVars == <<world, edits, changes>>
vars    == <<obj, cache, claim, listed, stale, st, ha, te, envVars>>

MaybeSpec == Specs \union {Nothing}
Objects ==
  [exists : BOOLEAN, deleting : BOOLEAN, fin : BOOLEAN, spec : Specs,
   list : [Kinds -> MaybeSpec], cond : [Kinds -> {"Unknown", "True", "False"}],
   hash : MaybeSpec, version : {"old", "v1"}]

NodeClaims ==
  [phase : {"absent", "pending", "launching", "launched", "gone"},
   hash : MaybeSpec, version : {"old", "v1"}, drifted : BOOLEAN,
   from : MaybeSpec, inst : [Kinds -> MaybeSpec]]

NoLists == [k \in Kinds |-> Nothing]

TypeOK ==
  /\ obj \in Objects /\ cache \in Objects
  /\ claim \in [Claims -> NodeClaims]
  /\ listed \subseteq Claims
  /\ world \in [Kinds -> BOOLEAN]
  /\ stale \subseteq {"cache", "st", "te"}
  /\ st \in [pc : {"idle", "finalizer", "resolve", "patch"}, copy : Objects, queued : BOOLEAN]
  /\ ha \in [pc : {"idle", "claims", "patch"}, spec : Specs, hash : MaybeSpec,
             version : {"old", "v1"}, todo : SUBSET Claims, keep : SUBSET Claims,
             failed : BOOLEAN]
  /\ te \in {"idle", "list", "patch"}
  /\ edits \in 0 .. MaxEdits /\ changes \in 0 .. MaxWorld

Created ==
  [exists |-> TRUE, deleting |-> FALSE, fin |-> FALSE, spec |-> FirstSpec,
   list |-> NoLists, cond |-> [k \in Kinds |-> "Unknown"],
   hash |-> Nothing, version |-> "old"]

\* A controller between reconciles keeps nothing of the object.
StatusIdle(q) == [pc |-> "idle", copy |-> Created, queued |-> q]
HashIdle ==
  [pc |-> "idle", spec |-> FirstSpec, hash |-> Nothing, version |-> "old",
   todo |-> {}, keep |-> {}, failed |-> FALSE]

ClaimIn(phase) ==
  [phase |-> phase, hash |-> Nothing, version |-> "old", drifted |-> FALSE,
   from |-> Nothing, inst |-> NoLists]

Init ==
  /\ obj = Created /\ cache = Created
  /\ claim = [c \in Claims |-> ClaimIn("absent")]
  /\ listed = {} /\ stale = {}
  /\ world = [k \in Kinds |-> TRUE]
  /\ st = StatusIdle(TRUE)
  /\ ha = HashIdle
  /\ te = "idle"
  /\ edits = 0 /\ changes = 0

-----------------------------------------------------------------------------
(* API server and informers.                                               *)

Holders == {"cache", "st", "te"}
Holds(h) == CASE h = "cache" -> TRUE
              [] h = "st"    -> st.pc # "idle"
              [] h = "te"    -> te # "idle"

\* A patch under MergeFromWithOptimisticLock does not go through.
Refuses(h) == h \in stale \/ ~obj.exists

\* A write that changes the object makes every copy but the writer's stale.
Write(o, writer) ==
  /\ obj' = o
  /\ stale' = IF o = obj THEN stale \ {writer}
              ELSE {h \in Holders : h # writer /\ Holds(h)}

\* The object's watch delivers the current version, which queues a reconcile.
SyncCache ==
  /\ "cache" \in stale
  /\ cache' = obj /\ stale' = stale \ {"cache"}
  /\ st' = [st EXCEPT !.queued = TRUE]
  /\ UNCHANGED <<obj, claim, listed, ha, te, envVars>>

SyncClaims ==
  /\ listed' = {c \in Claims : claim[c].phase \in {"pending", "launching", "launched"}}
  /\ listed' # listed
  /\ UNCHANGED <<obj, cache, claim, stale, st, ha, te, envVars>>

-----------------------------------------------------------------------------
(* The user and OCI.                                                       *)

EditSpec(s) ==
  /\ obj.exists /\ edits < MaxEdits /\ s # obj.spec
  /\ Write([obj EXCEPT !.spec = s], "user")
  /\ edits' = edits + 1
  /\ UNCHANGED <<cache, claim, listed, world, st, ha, te, changes>>

\* Deletion only marks an object that has a finalizer.
DeleteObject ==
  /\ obj.exists /\ ~obj.deleting
  /\ Write(IF obj.fin THEN [obj EXCEPT !.deleting = TRUE]
                      ELSE [obj EXCEPT !.exists = FALSE], "user")
  /\ UNCHANGED <<cache, claim, listed, st, ha, te, envVars>>

ChangeWorld(k) ==
  /\ changes < MaxWorld
  /\ world' = [world EXCEPT ![k] = ~@]
  /\ changes' = changes + 1
  /\ UNCHANGED <<obj, cache, claim, listed, stale, st, ha, te, edits>>

-----------------------------------------------------------------------------
(* nodeclass.status                                                        *)

StatusRead ==
  /\ st.pc = "idle" /\ st.queued /\ cache.exists
  /\ st' = [pc |-> IF cache.fin THEN "resolve" ELSE "finalizer",
            copy |-> cache, queued |-> FALSE]
  /\ stale' = IF "cache" \in stale THEN stale \union {"st"} ELSE stale \ {"st"}
  /\ UNCHANGED <<obj, cache, claim, listed, ha, te, envVars>>

\* The pass ends without writing: a conflict or another refusal.
StatusGivesUp ==
  st' = StatusIdle(TRUE) /\ stale' = stale \ {"st"} /\ UNCHANGED obj

\* AddFinalizer under the optimistic lock. A conflict, a vanished object or the
\* API server's refusal to add a finalizer to a deleting one end the pass.
StatusAddFinalizer ==
  /\ st.pc = "finalizer"
  /\ IF Refuses("st") \/ obj.deleting
       THEN StatusGivesUp
       ELSE /\ Write([obj EXCEPT !.fin = TRUE], "st")
            /\ st' = [st EXCEPT !.pc = "resolve", !.copy = [obj EXCEPT !.fin = TRUE]]
  /\ UNCHANGED <<cache, claim, listed, ha, te, envVars>>

\* What the provider's List gives for the kind under a spec. The provider caches
\* its answers: "world" changes when the answer does, at the entry's expiry.
Selected(k, s) == IF world[k] /\ ~(k = "sg" /\ s \in NoSGSpecs) THEN s ELSE Nothing

\* Image, Subnet and SecurityGroup.Reconcile of one kind: an error leaves list
\* and condition alone; an empty list sets the condition False, except for
\* security groups nobody selected.
\* (Variants: resolve only once; a condition that is no condition.)
ResolveListOnce(k, copy, failed) ==
  IF k \in failed \/ copy.cond[k] = "True" THEN copy.list[k] ELSE Selected(k, copy.spec)

ResolveList(k, copy, failed) ==
  IF k \in failed THEN copy.list[k] ELSE Selected(k, copy.spec)

ResolveCondError(k, copy, failed) == IF k \in failed THEN "Error" ELSE copy.cond[k]

ResolveCond(k, copy, failed) ==
  IF k \in failed THEN copy.cond[k]
  ELSE IF Selected(k, copy.spec) = Nothing /\ ~(k = "sg" /\ copy.spec \in NoSGSpecs)
    THEN "False" ELSE "True"

\* The three reconcilers run on the copy; the kinds in "failed" return an error.
\* The pass is requeued for an error, and by the RequeueAfter of a kind that
\* resolved. A copy that did not change is not patched.
StatusResolve(failed) ==
  /\ st.pc = "resolve"
  /\ LET list == [k \in Kinds |-> ResolveList(k, st.copy, failed)]
         cond == [k \in Kinds |-> ResolveCond(k, st.copy, failed)]
         q    == st.queued \/ failed # {} \/ \E k \in Kinds : cond[k] = "True"
     IN  IF list = st.copy.list /\ cond = st.copy.cond
           THEN st' = StatusIdle(q) /\ stale' = stale \ {"st"}
           ELSE /\ st' = [st EXCEPT !.pc = "patch", !.copy.list = list,
                                   !.copy.cond = cond, !.queued = q]
                /\ UNCHANGED stale
  /\ UNCHANGED <<obj, cache, claim, listed, ha, te, envVars>>

\* Status().Patch under the optimistic lock; a conflict requeues. (Variant: a
\* merge patch without the lock.)
StatusPatchUnlocked ==
  /\ st.pc = "patch"
  /\ IF obj.exists
       THEN /\ Write([obj EXCEPT !.list = st.copy.list, !.cond = st.copy.cond], "st")
            /\ st' = StatusIdle(st.queued)
       ELSE StatusGivesUp
  /\ UNCHANGED <<cache, claim, listed, ha, te, envVars>>

StatusPatch ==
  /\ st.pc = "patch"
  /\ IF Refuses("st")
       THEN StatusGivesUp
       ELSE /\ Write([obj EXCEPT !.list = st.copy.list, !.cond = st.copy.cond], "st")
            /\ st' = StatusIdle(st.queued)
  /\ UNCHANGED <<cache, claim, listed, ha, te, envVars>>

-----------------------------------------------------------------------------
(* nodeclass.hash                                                          *)

\* Reconcile up to the test of the version annotation, and for an old version
\* the LIST of updateNodeClaimHash: which NodeClaims have an old version, and
\* which of these carry the Drifted condition and keep their hash.
HashRead ==
  /\ ha.pc = "idle" /\ cache.exists
  /\ cache.hash # cache.spec \/ cache.version # "v1"
  /\ LET old == {c \in listed : claim[c].version # "v1"}
     IN  ha' = [pc |-> IF cache.version = "v1" THEN "patch" ELSE "claims",
                spec |-> cache.spec, hash |-> cache.hash, version |-> cache.version,
                todo |-> IF cache.version = "v1" THEN {} ELSE old,
                keep |-> {c \in old : claim[c].drifted}, failed |-> FALSE]
  /\ UNCHANGED <<obj, cache, claim, listed, stale, st, te, envVars>>

\* One NodeClaim's patch (a merge patch without lock; a gone one is ignored).
HashClaim(c) ==
  /\ ha.pc = "claims" /\ c \in ha.todo
  /\ ha' = [ha EXCEPT !.todo = @ \ {c}]
  /\ claim' = IF claim[c].phase \in {"pending", "launching", "launched"}
                THEN [claim EXCEPT ![c].version = "v1",
                                   ![c].hash = IF c \in ha.keep THEN @ ELSE ha.spec]
                ELSE claim
  /\ UNCHANGED <<obj, cache, listed, stale, st, te, envVars>>

\* A NodeClaim's patch fails; the others are still patched.
HashClaimError(c) ==
  /\ ha.pc = "claims" /\ c \in ha.todo
  /\ ha' = [ha EXCEPT !.todo = @ \ {c}, !.failed = TRUE]
  /\ UNCHANGED <<obj, cache, claim, listed, stale, st, te, envVars>>

\* After a failure the reconcile returns the error, and leaves the object's own
\* annotations for the next attempt.
HashGivesUp ==
  /\ ha.pc = "claims" /\ ha.todo = {} /\ ha.failed
  /\ ha' = HashIdle
  /\ UNCHANGED <<obj, cache, claim, listed, stale, st, te, envVars>>

\* The object's merge patch, without lock: it carries the annotations that
\* differ from the copy that was read.
HashPatch ==
  /\ ha.pc \in {"claims", "patch"} /\ ha.todo = {} /\ ~ha.failed
  /\ IF obj.exists
       THEN Write([obj EXCEPT !.hash = IF ha.hash = ha.spec THEN @ ELSE ha.spec,
                              !.version = "v1"], "ha")
       ELSE UNCHANGED <<obj, stale>>
  /\ ha' = HashIdle
  /\ UNCHANGED <<cache, claim, listed, st, te, envVars>>

-----------------------------------------------------------------------------
(* nodeclass.termination                                                   *)

TerminationRead ==
  /\ te = "idle" /\ cache.exists /\ cache.deleting /\ cache.fin
  /\ te' = "list"
  /\ stale' = IF "cache" \in stale THEN stale \union {"te"} ELSE stale \ {"te"}
  /\ UNCHANGED <<obj, cache, claim, listed, st, ha, envVars>>

\* The LIST of NodeClaims by spec.nodeClassRef.name; in the variant those that
\* are gone still count.
NoneEver      == \A c \in Claims : claim[c].phase = "absent"
NoneReferring == listed = {}

\* finalize waits for the NodeClaims that refer to the object to be gone.
TerminationList ==
  /\ te = "list"
  /\ IF NoneReferring THEN te' = "patch" /\ UNCHANGED stale
                       ELSE te' = "idle" /\ stale' = stale \ {"te"}
  /\ UNCHANGED <<obj, cache, claim, listed, st, ha, envVars>>

\* RemoveFinalizer under the optimistic lock: the object is gone.
TerminationPatch ==
  /\ te = "patch"
  /\ IF Refuses("te")
       THEN UNCHANGED obj /\ stale' = stale \ {"te"}
       ELSE Write([obj EXCEPT !.fin = FALSE, !.exists = FALSE], "te")
  /\ te' = "idle"
  /\ UNCHANGED <<cache, claim, listed, st, ha, envVars>>

-----------------------------------------------------------------------------
(* Core's NodeClaims.                                                      *)

CreateClaim(c) ==
  /\ claim[c].phase = "absent" /\ obj.exists
  /\ claim' = [claim EXCEPT ![c].phase = "pending"]
  /\ UNCHANGED <<obj, cache, listed, stale, st, ha, te, envVars>>

\* resolveNodeClassFromNodeClaim: found, and a deleting one counts as missing.
\* In the variant a deleting one is still used.
ResolvesAny   == cache.exists
Resolves      == cache.exists /\ ~cache.deleting
Ready         == \A k \in Kinds : cache.cond[k] = "True"
NotReady      == \E k \in Kinds : cache.cond[k] = "False"

\* What instance.Provider.Create gives the instance: image and security groups
\* from the object's status, the subnet from what its spec selects now.
SubnetsNow == Selected("subnet", cache.spec)
LaunchValue(k) == IF k = "subnet" THEN SubnetsNow ELSE cache.list[k]

\* CloudProvider.Create up to LaunchInstance, from the object in the cache. No
\* subnet is an error, and core calls again.
LaunchBegin(c) ==
  /\ claim[c].phase = "pending" /\ c \in listed
  /\ Resolves /\ Ready
  /\ "subnet" \in Kinds => SubnetsNow # Nothing
  /\ claim' = [claim EXCEPT ![c].phase = "launching", ![c].from = cache.spec,
                            ![c].inst = [k \in Kinds |-> LaunchValue(k)]]
  /\ UNCHANGED <<obj, cache, listed, stale, st, ha, te, envVars>>

\* Create refuses (no NodeClass, NodeClass not ready): core removes the claim.
LaunchRefused(c) ==
  /\ claim[c].phase = "pending" /\ c \in listed
  /\ ~Resolves \/ NotReady
  /\ claim' = [claim EXCEPT ![c] = ClaimIn("gone")]
  /\ UNCHANGED <<obj, cache, listed, stale, st, ha, te, envVars>>

\* The instance is there; core stores the annotations Create returned.
LaunchEnd(c) ==
  /\ claim[c].phase = "launching"
  /\ claim' = [claim EXCEPT ![c].phase = "launched", ![c].hash = claim[c].from,
                            ![c].version = "v1", ![c].from = Nothing]
  /\ UNCHANGED <<obj, cache, listed, stale, st, ha, te, envVars>>

\* The NodeClaim is deleted and its instance terminated.
RemoveClaim(c) ==
  /\ claim[c].phase \in {"pending", "launched"}
  /\ claim' = [claim EXCEPT ![c] = ClaimIn("gone")]
  /\ UNCHANGED <<obj, cache, listed, stale, st, ha, te, envVars>>

\* OCI lists the VNICs of an instance in any order: the primary one, with what
\* the instance was launched with, and those the pod network has added since.
GetVnicAttachments(c) ==
  LET own == [primary |-> TRUE, has |-> claim[c].inst]
      added == [primary |-> FALSE, has |-> [k \in Kinds |-> "elsewhere"]]
  IN  {<<own>>, <<own, added>>, <<added, own>>, <<added, own, added>>}

\* Variant: the subnets of all VNICs.
GetSubnetsAll(vnics) == {vnics[i].has["subnet"] : i \in DOMAIN vnics}

\* The subnets of primary VNICs, up to the first that comes after another VNIC.
GetSubnets(vnics) ==
  {vnics[i].has["subnet"] : i \in {i \in DOMAIN vnics :
     /\ vnics[i].primary
     /\ \A j \in 1 .. (i - 1) : vnics[j].primary => \A m \in 1 .. (j - 1) : vnics[m].primary}}

GetSecurityGroups(vnics) ==
  {vnics[i].has["sg"] : i \in {i \in DOMAIN vnics : vnics[i].primary}}

\* isImageDrifted, areSecurityGroupsDrifted and isSubnetDrifted.
ImageDrifted(c)             == claim[c].inst["image"] # cache.list["image"]
SecurityGroupDrifted(vnics) == GetSecurityGroups(vnics) # {cache.list["sg"]}
SubnetDrifted(vnics)        == ~(GetSubnets(vnics) \subseteq {cache.list["subnet"]})

\* isNodeClassDrifted: an empty list of any kind is an error, else any reason
\* will do (the variant skips the subnet).
DriftError == \E k \in Kinds : cache.list[k] = Nothing
DriftReasonNoSubnet(c, vnics) ==
  ("image" \in Kinds /\ ImageDrifted(c)) \/ ("sg" \in Kinds /\ SecurityGroupDrifted(vnics))
DriftReason(c, vnics) ==
  \/ "image" \in Kinds /\ ImageDrifted(c)
  \/ "sg" \in Kinds /\ SecurityGroupDrifted(vnics)
  \/ "subnet" \in Kinds /\ SubnetDrifted(vnics)

\* CloudProvider.IsDrifted: no drift from a NodeClass that is missing or deleting.
IsDrifted(c, vnics) == Resolves /\ DriftReason(c, vnics)

\* Core sets or clears the Drifted condition, and on an error leaves it as it is.
CheckDrift(c) ==
  /\ claim[c].phase = "launched"
  /\ Resolves => ~DriftError
  /\ \E vnics \in GetVnicAttachments(c) :
       /\ claim[c].drifted # IsDrifted(c, vnics)
       /\ claim' = [claim EXCEPT ![c].drifted = IsDrifted(c, vnics)]
  /\ UNCHANGED <<obj, cache, listed, stale, st, ha, te, envVars>>

-----------------------------------------------------------------------------
StatusController ==
  \/ StatusRead \/ StatusAddFinalizer \/ StatusPatch
  \/ \E failed \in SUBSET Kinds : StatusResolve(failed)
HashController ==
  \/ HashRead \/ HashGivesUp \/ HashPatch
  \/ \E c \in Claims : HashClaim(c) \/ HashClaimError(c)
TerminationController == TerminationRead \/ TerminationList \/ TerminationPatch

Core(c) ==
  \/ CreateClaim(c) \/ LaunchBegin(c) \/ LaunchRefused(c) \/ LaunchEnd(c)
  \/ RemoveClaim(c) \/ CheckDrift(c)

User ==
  DeleteObject \/ (\E s \in Specs : EditSpec(s)) \/ \E k \in Kinds : ChangeWorld(k)

Next ==
  \/ StatusController \/ HashController \/ TerminationController
  \/ SyncCache \/ SyncClaims \/ User
  \/ \E c \in Claims : Core(c)

Spec == Init /\ [][Next]_vars

\* Fairness. The informers deliver, the work queues run, a provider that is
\* asked again and again answers some time, and core keeps checking drift.
\* Nothing is promised about the user or about new NodeClaims.
Fairness ==
  /\ WF_vars(SyncCache) /\ WF_vars(SyncClaims)
  /\ WF_vars(StatusRead) /\ WF_vars(StatusAddFinalizer) /\ WF_vars(StatusPatch)
  /\ SF_vars(StatusResolve({})) /\ WF_vars(\E f \in SUBSET Kinds : StatusResolve(f))
  /\ WF_vars(HashRead) /\ WF_vars(HashGivesUp) /\ SF_vars(HashPatch)
  /\ WF_vars(TerminationController)
  /\ \A c \in Claims :
       /\ SF_vars(HashClaim(c)) /\ WF_vars(CheckDrift(c)) /\ WF_vars(LaunchEnd(c))
       /\ WF_vars(LaunchRefused(c))

FairSpec == Spec /\ Fairness

-----------------------------------------------------------------------------
(* Properties.                                                             *)

\* The object outlives every instance launched from it: it cannot be gone while
\* a launch is under way or an instance is up, although finalize does not lock
\* out new NodeClaims. What saves it is that Create and finalize read the same
\* cache ("should not delete the OciNodeClass until all associated NodeClaims
\* are terminated").
OutlivesInstances ==
  \A c \in Claims : claim[c].phase \in {"launching", "launched"} => obj.exists

\* A list stored in the status was resolved from the spec stored beside it, never
\* from one the user has replaced meanwhile (status Reconcile's optimistic lock).
StatusOfCurrentSpec ==
  [][\A k \in Kinds :
       obj'.list[k] \notin {obj.list[k], Nothing} => obj'.list[k] = obj.spec]_vars

\* An instance is never launched with an empty image or subnet list, although a
\* list can become empty while its condition is stale: readiness and lists agree
\* in every version of the object (Image and Subnet.Reconcile). Security groups
\* may be none.
LaunchedResolved ==
  \A c \in Claims : claim[c].phase \in {"launching", "launched"} =>
    \A k \in Kinds \ {"sg"} : claim[c].inst[k] # Nothing

\* Once the user and OCI leave it alone, the stored status and hash become those
\* of the stored spec and stay so, whatever conflicts and stale reads the three
\* controllers go through. Excepted is an object none of whose selectors matched
\* anything: no reconciler asks for a requeue then.
Converges ==
  <>[](obj.exists =>
        /\ obj.hash = obj.spec /\ obj.version = "v1"
        /\ \/ \A k \in Kinds : obj.list[k] = Selected(k, obj.spec)
           \/ \A k \in Kinds : obj.cond[k] = "False")

\* A deleted object with no NodeClaims left disappears.
DeletionCompletes ==
  (obj.deleting /\ \A c \in Claims : claim[c].phase \in {"absent", "gone"})
    ~> (~obj.exists \/ \E c \in Claims : claim[c].phase \notin {"absent", "gone"})

\* An instance that does not run what the stored spec resolves to is reported
\* drifted, removed, or the difference goes away; also when Create mixed an old
\* status with a new spec.
DriftDetected ==
  \A c \in Claims :
    (claim[c].phase = "launched" /\ \E k \in Kinds : claim[c].inst[k] # Selected(k, obj.spec))
      ~> \/ claim[c].drifted \/ claim[c].phase = "gone"
         \/ obj.deleting \/ ~obj.exists
         \/ \A k \in Kinds : claim[c].inst[k] = Selected(k, obj.spec)
         \/ \E k \in Kinds : ~world[k]

\* An instance is reported drifted only for what it was launched with, whatever
\* VNICs are attached to it meanwhile and in whatever order they are listed:
\* anything else replaces healthy nodes (GetSubnets, GetSecurityGroups).
DriftOfLaunched ==
  [][\A c \in Claims : (claim'[c].drifted /\ ~claim[c].drifted) =>
       \E k \in Kinds : claim[c].inst[k] # cache.list[k]]_vars

-----------------------------------------------------------------------------
(* The inductive invariants behind them.                                   *)

Active(c) == claim[c].phase \in {"launching", "launched"}

\* The finalizer and the deletion mark are never taken back, so a copy that shows
\* them is right about them for as long as the object exists; the finalizer goes
\* with the object.
MarksKept ==
  /\ ~obj.exists => ~obj.fin
  /\ cache.deleting => obj.deleting
  /\ cache.fin /\ ~cache.deleting => obj.exists /\ obj.fin
  /\ cache.fin => obj.fin \/ ~obj.exists
  /\ st.pc \in {"resolve", "patch"} => obj.fin \/ ~obj.exists

\* Readiness comes after the finalizer.
ReadyHasFinalizer ==
  /\ \A k \in Kinds : obj.cond[k] = "True" => obj.fin \/ ~obj.exists
  /\ \A k \in Kinds : cache.cond[k] = "True" => cache.fin \/ ~cache.exists

\* A NodeClaim with an instance stays in the LIST, its object keeps the finalizer,
\* and finalize, once it has read the deletion mark, finds none being added.
FinalizeSeesAll ==
  /\ \A c \in Claims : Active(c) => c \in listed /\ obj.exists /\ obj.fin
  /\ te # "idle" => cache.deleting
  /\ te = "patch" => \A c \in Claims : ~Active(c)

\* A condition is True only beside a list that is not empty, in every copy;
\* security groups may be none.
CondMatchesList ==
  \A k \in Kinds \ {"sg"} :
    /\ obj.cond[k] = "True" => obj.list[k] # Nothing
    /\ cache.cond[k] = "True" => cache.list[k] # Nothing
    /\ st.copy.cond[k] = "True" => st.copy.list[k] # Nothing

\* A copy of the current resource version is the object, up to what the status
\* controller has resolved on it.
CurrentCopies ==
  /\ "cache" \notin stale => cache = obj
  /\ st.pc \in {"finalizer", "resolve"} /\ "st" \notin stale => st.copy = obj
  /\ st.pc = "patch" /\ "st" \notin stale =>
       \A k \in Kinds : st.copy.list[k] \in {obj.list[k], obj.spec, Nothing}

\* No state has the object going while an instance needs it, a ready copy without
\* what it promises, or a current copy that is not the object.
NodeClassInv ==
  /\ MarksKept
  /\ ReadyHasFinalizer
  /\ FinalizeSeesAll
  /\ CondMatchesList
  /\ CurrentCopies
  /\ LaunchedResolved
=============================================================================
