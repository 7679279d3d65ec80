------------------------- MODULE NodeClaimLifecycle -------------------------
(***************************************************************************)
(* NodeClaims, the OCI instances launched for them and the Nodes those     *)
(* instances register, under three actors that never lock against each     *)
(* other:                                                                  *)
(*   - Karpenter core (external), which calls CloudProvider.Create, then   *)
(*     records the provider id in the NodeClaim, and calls                 *)
(*     CloudProvider.Delete when the NodeClaim is deleted;                 *)
(*   - the instance.garbagecollection controller, one step per API call:   *)
(*     list instances, list NodeClaims, list Nodes, then one worker per    *)
(*     instance (terminate, delete node);                                  *)
(*   - OCI and the kubelets (external).                                    *)
(* The process may crash between any two steps.                            *)
(***************************************************************************)
EXTENDS Naturals, FiniteSets

CONSTANTS
  Claims,          \* NodeClaim names
  Instances,       \* instance OCIDs
  Foreign,         \* instances of the compartment Karpenter did not launch
  Overriding,      \* claims whose NodeClass DefinedTags set the managed-by key
  NoClaim,         \* "not launched for a NodeClaim"
  NoInstance,      \* "no provider id"
  AcceptedStatuses,\* HTTP statuses an accepted TerminateInstance may have
  RecordInWindow,  \* a launch is recorded and visible before it is 30s old
  PassInWindow,    \* an instance does not become 30s old during a pass over it
  NodeClassMayGo,  \* the user may delete the OciNodeClass (the NodePool stays)
  MaxCrashes       \* bound on process restarts

ASSUME LifecycleAssumption ==
  /\ Foreign \subseteq Instances
  /\ Overriding \subseteq Claims
  /\ NoClaim \notin Claims
  /\ NoInstance \notin Instances
  /\ AcceptedStatuses \subseteq {200, 204} /\ AcceptedStatuses # {}
  /\ RecordInWindow \in BOOLEAN
  /\ PassInWindow \in BOOLEAN
  /\ NodeClassMayGo \in BOOLEAN
  /\ MaxCrashes \in Nat

VARIABLES
  claim,      \* [Claims -> phase of the NodeClaim object]
  pid,        \* [Claims -> Status.ProviderID]
  created,    \* [Claims -> instance core got from Create and has not recorded]
  instTerm,   \* [Claims -> the InstanceTerminating condition core sets]
  state,      \* [Instances -> lifecycle state]
  age,        \* [Instances -> age class since TimeCreated]
  owner,      \* [Instances -> NodeClaim it was launched for]
  managed,    \* [Instances -> its managed-by tag holds the cluster name]
  node,       \* [Instances -> the Node it registered]
  nodeClass,  \* the OciNodeClass the NodePool refers to
  seen,       \* provider ids in the informer cache's NodeClaims
  crashes,
  gcPC, managedRetrieved, terminated, resolvedProviderIDs, nodeList, unreachable,
  swept,      \* instances whose worker terminated them and not yet their Node
  visible     \* history: what the informer cache showed at the instance LIST

clusterVars == <<claim, pid, created, instTerm, seen, nodeClass>>
cloudVars   == <<state, age, owner, managed, node>>
gcVars      == <<gcPC, managedRetrieved, terminated, resolvedProviderIDs,
                 nodeList, unreachable, swept, visible>>
vars        == <<clusterVars, cloudVars, gcVars, crashes>>

Phases     == {"absent", "pending", "deleting", "gone"}
States     == {"none", "up", "terminating", "terminated"}
NodeStates == {"none", "ready", "unreachable", "deleted"}

\* Age classes: up to 30 seconds, up to five minutes, older.
Ages == 0 .. 2

OlderThan30s(i)  == age[i] > 0
OlderThan5Min(i) == age[i] > 1

TypeOK ==
  /\ claim \in [Claims -> Phases]
  /\ pid \in [Claims -> Instances \union {NoInstance}]
  /\ created \in [Claims -> Instances \union {NoInstance}]
  /\ instTerm \in [Claims -> BOOLEAN]
  /\ state \in [Instances -> States]
  /\ age \in [Instances -> Ages]
  /\ owner \in [Instances -> Claims \union {NoClaim}]
  /\ managed \in [Instances -> BOOLEAN]
  /\ node \in [Instances -> NodeStates]
  /\ nodeClass \in {"present", "terminating", "gone"}
  /\ seen \subseteq Instances
  /\ crashes \in 0 .. MaxCrashes
  /\ gcPC \in {"idle", "listClaims", "listNodes", "collect", "nodes"}
  /\ managedRetrieved \subseteq Instances
  /\ terminated \subseteq Instances
  /\ resolvedProviderIDs \subseteq Instances
  /\ nodeList \subseteq Instances
  /\ unreachable \subseteq Instances
  /\ swept \subseteq Instances
  /\ visible \subseteq Instances

Init ==
  /\ claim = [c \in Claims |-> "absent"]
  /\ pid = [c \in Claims |-> NoInstance]
  /\ created = [c \in Claims |-> NoInstance]
  /\ instTerm = [c \in Claims |-> FALSE]
  /\ state = [i \in Instances |-> IF i \in Foreign THEN "up" ELSE "none"]
  /\ age = [i \in Instances |-> IF i \in Foreign THEN 2 ELSE 0]
  /\ owner = [i \in Instances |-> NoClaim]
  /\ managed = [i \in Instances |-> FALSE]
  /\ node = [i \in Instances |-> "none"]
  /\ nodeClass = "present"
  /\ seen = {} /\ crashes = 0
  /\ gcPC = "idle"
  /\ managedRetrieved = {} /\ terminated = {} /\ resolvedProviderIDs = {}
  /\ nodeList = {} /\ unreachable = {} /\ swept = {} /\ visible = {}

-----------------------------------------------------------------------------
(* Launching: core's launch reconciler around CloudProvider.Create.        *)

CreateClaim(c) ==
  /\ claim[c] = "absent"
  /\ claim' = [claim EXCEPT ![c] = "pending"]
  /\ UNCHANGED <<pid, created, instTerm, seen, nodeClass, cloudVars, gcVars, crashes>>

\* getTags: the cluster name goes in the managed-by tag, unless the NodeClass
\* sets the same key of the same namespace, which lo.Assign lets win.
ManagedTag(c) == c \notin Overriding

\* resolveNodeClassFromNodeClaim: a deleting NodeClass counts as not found.
NodeClassResolves == nodeClass = "present"

AwaitsLaunch(c) ==
  claim[c] = "pending" /\ pid[c] = NoInstance /\ created[c] = NoInstance

\* LaunchInstance succeeds at OCI. The answer may be lost (connection, crash,
\* deadline): Create then returns an error and core calls it again.
Launch(c, i, heard) ==
  /\ AwaitsLaunch(c) /\ NodeClassResolves
  /\ state[i] = "none"
  /\ state' = [state EXCEPT ![i] = "up"]
  /\ owner' = [owner EXCEPT ![i] = c]
  /\ managed' = [managed EXCEPT ![i] = ManagedTag(c)]
  /\ created' = IF heard THEN [created EXCEPT ![c] = i] ELSE created
  /\ UNCHANGED <<claim, pid, instTerm, seen, nodeClass, age, node, gcVars, crashes>>

\* Create returns an InsufficientCapacityError (out of capacity, or no
\* NodeClass to resolve): core deletes the NodeClaim.
LaunchRejected(c) ==
  /\ AwaitsLaunch(c)
  /\ claim' = [claim EXCEPT ![c] = "deleting"]
  /\ UNCHANGED <<pid, created, instTerm, seen, nodeClass, cloudVars, gcVars, crashes>>

\* core patches Status.ProviderID with what Create returned. The patch may be
\* refused; core then retries from its own memory.
RecordProviderID(c) ==
  /\ created[c] # NoInstance
  /\ claim[c] \in {"pending", "deleting"}
  /\ pid' = [pid EXCEPT ![c] = created[c]]
  /\ created' = [created EXCEPT ![c] = NoInstance]
  /\ UNCHANGED <<claim, instTerm, seen, nodeClass, cloudVars, gcVars, crashes>>

\* Variant: the empty provider id is not filtered out.
RecordedIDsUnfiltered ==
  {pid[c] : c \in {d \in Claims : claim[d] \in {"pending", "deleting"}}}

\* Status.ProviderID of the NodeClaims that have one.
RecordedIDs ==
  {pid[c] : c \in {d \in Claims : claim[d] \in {"pending", "deleting"}}} \ {NoInstance}

\* The watch catches up: the cache shows the NodeClaims as they are.
SyncInformer ==
  /\ seen # RecordedIDs
  /\ seen' = RecordedIDs
  /\ UNCHANGED <<claim, pid, created, instTerm, nodeClass, cloudVars, gcVars, crashes>>

-----------------------------------------------------------------------------
(* Deleting: core's termination reconciler around CloudProvider.Delete.    *)

DeleteClaim(c) ==
  /\ claim[c] = "pending"
  /\ claim' = [claim EXCEPT ![c] = "deleting"]
  /\ UNCHANGED <<pid, created, instTerm, seen, nodeClass, cloudVars, gcVars, crashes>>

\* What OCI may answer to TerminateInstance, 0 standing for every failure
\* that is no 404 (throttled, conflicting, unreachable).
TerminateAnswers(i) ==
  AcceptedStatuses \union {0} \union (IF state[i] = "terminated" THEN {404} ELSE {})

TerminateEffect(i, answer) ==
  state' = IF answer \in AcceptedStatuses /\ state[i] = "up"
             THEN [state EXCEPT ![i] = "terminating"] ELSE state

\* Variant: what is not accepted with a 200 counts as "already terminated".
DeleteResultFailed(answer) == IF answer = 200 THEN "nil" ELSE "notFound"

\* instance.Provider.Delete: 404 and 204 both become NodeClaimNotFoundError.
DeleteResult(answer) ==
  IF answer \in {404, 204} THEN "notFound" ELSE IF answer = 200 THEN "nil" ELSE "error"

\* No provider id was ever recorded: nothing to terminate.
FinalizeUnlaunched(c) ==
  /\ claim[c] = "deleting" /\ pid[c] = NoInstance
  /\ claim' = [claim EXCEPT ![c] = "gone"]
  /\ created' = [created EXCEPT ![c] = NoInstance]
  /\ UNCHANGED <<pid, instTerm, seen, nodeClass, cloudVars, gcVars, crashes>>

\* The Node goes first (drained and deleted by core).
FinalizeNode(c) ==
  /\ claim[c] = "deleting" /\ pid[c] # NoInstance
  /\ node[pid[c]] \in {"ready", "unreachable"}
  /\ node' = [node EXCEPT ![pid[c]] = "deleted"]
  /\ UNCHANGED <<clusterVars, state, age, owner, managed, gcVars, crashes>>

\* CloudProvider.Delete; a NodeClaimNotFoundError releases the NodeClaim.
FinalizeInstance(c, answer) ==
  /\ claim[c] = "deleting" /\ pid[c] # NoInstance /\ ~instTerm[c]
  /\ node[pid[c]] \in {"none", "deleted"}
  /\ answer \in TerminateAnswers(pid[c])
  /\ TerminateEffect(pid[c], answer)
  /\ claim' = IF DeleteResult(answer) = "notFound"
                THEN [claim EXCEPT ![c] = "gone"] ELSE claim
  /\ instTerm' = [instTerm EXCEPT ![c] = DeleteResult(answer) = "nil"]
  /\ UNCHANGED <<pid, created, seen, nodeClass, age, owner, managed, node, gcVars, crashes>>

\* instance.Provider.Get: a TERMINATED instance is not found.
GetNotFound(i) == state[i] = "terminated"

\* After an accepted Delete core polls CloudProvider.Get.
FinalizeTerminated(c) ==
  /\ claim[c] = "deleting" /\ instTerm[c]
  /\ GetNotFound(pid[c])
  /\ claim' = [claim EXCEPT ![c] = "gone"]
  /\ UNCHANGED <<pid, created, instTerm, seen, nodeClass, cloudVars, gcVars, crashes>>

-----------------------------------------------------------------------------
(* The garbage collection controller.                                      *)

\* Variant: no filter on the managed-by tag.
ListedAll == {i \in Instances : state[i] # "none"}

\* instance.Provider.List: the managed-by tag holds this cluster's name.
Listed == {i \in Instances : state[i] # "none" /\ managed[i]}

\* resolveInstanceTypeFromInstance: the NodePool exists, so its NodeClass is
\* looked up, and a missing or deleting one is an InsufficientCapacityError
\* that IgnoreNotFound does not ignore.
InstanceTypeFails == ~NodeClassResolves

\* CloudProvider.List: one such instance fails the LIST.
ListFails == Listed # {} /\ InstanceTypeFails

\* instanceToNodeClaim sets a deletion timestamp on these.
Terminating(i) == state[i] \in {"terminating", "terminated"}

\* The LIST, split by the deletion timestamp.
GCListInstances ==
  /\ gcPC = "idle" /\ ~ListFails
  /\ managedRetrieved' = {i \in Listed : ~Terminating(i)}
  /\ terminated' = {i \in Listed : Terminating(i)}
  /\ gcPC' = "listClaims"
  /\ visible' = seen
  /\ UNCHANGED <<clusterVars, cloudVars, resolvedProviderIDs, nodeList,
                 unreachable, swept, crashes>>

\* The NodeClaim LIST, from the informer cache. Variants: a LIST that failed
\* counts as empty; the provider ids of Nodes count as resolved too.
ResolvedIDsLost    == {}
ResolvedIDsOrNodes == seen \union {i \in Instances : node[i] = "ready"}
ResolvedIDs        == seen

GCListClaims ==
  /\ gcPC = "listClaims"
  /\ resolvedProviderIDs' = ResolvedIDs
  /\ gcPC' = "listNodes"
  /\ UNCHANGED <<clusterVars, cloudVars, managedRetrieved, terminated, nodeList,
                 unreachable, swept, visible, crashes>>

\* Of the Nodes, the pass looks only at those of the instances it retrieved:
\* all for garbageCollect, the unreachable ones for garbageNode.
GCListNodes ==
  /\ gcPC = "listNodes"
  /\ nodeList' = {i \in managedRetrieved : node[i] \in {"ready", "unreachable"}}
  /\ unreachable' = {i \in terminated : node[i] = "unreachable"}
  /\ gcPC' = "collect"
  /\ UNCHANGED <<clusterVars, cloudVars, managedRetrieved, terminated,
                 resolvedProviderIDs, swept, visible, crashes>>

\* Variant: no resolution window.
CollectableAtOnce(i) == i \notin resolvedProviderIDs

\* The worker's test. It reads the clock when the worker runs, and the ids
\* that were resolved when the pass listed the NodeClaims.
Collectable(i) == i \notin resolvedProviderIDs /\ OlderThan30s(i)

GCSkip(i) ==
  /\ gcPC = "collect" /\ i \in managedRetrieved
  /\ ~Collectable(i)
  /\ managedRetrieved' = managedRetrieved \ {i}
  /\ UNCHANGED <<clusterVars, cloudVars, gcPC, terminated, resolvedProviderIDs,
                 nodeList, unreachable, swept, visible, crashes>>

\* garbageCollect, up to CloudProvider.Delete: an error other than not found
\* leaves the Node alone.
GCTerminate(i, answer) ==
  /\ gcPC = "collect" /\ i \in managedRetrieved
  /\ Collectable(i)
  /\ answer \in TerminateAnswers(i)
  /\ TerminateEffect(i, answer)
  /\ managedRetrieved' = managedRetrieved \ {i}
  /\ swept' = IF DeleteResult(answer) # "error" /\ i \in nodeList
                THEN swept \union {i} ELSE swept
  /\ UNCHANGED <<clusterVars, age, owner, managed, node, gcPC, terminated,
                 resolvedProviderIDs, nodeList, unreachable, visible, crashes>>

DropNode(i) == node' = [node EXCEPT ![i] = IF @ = "none" THEN "none" ELSE "deleted"]

\* The rest of garbageCollect: the Node of the snapshot is deleted, or the API
\* server refuses and the error ends the worker.
GCDeleteNode(i, ok) ==
  /\ gcPC = "collect" /\ i \in swept
  /\ IF ok THEN DropNode(i) ELSE UNCHANGED node
  /\ swept' = swept \ {i}
  /\ UNCHANGED <<clusterVars, state, age, owner, managed, gcPC, managedRetrieved,
                 terminated, resolvedProviderIDs, nodeList, unreachable, visible, crashes>>

\* The first ParallelizeUntil returned.
GCCollected ==
  /\ gcPC = "collect" /\ managedRetrieved = {} /\ swept = {}
  /\ gcPC' = "nodes"
  /\ UNCHANGED <<clusterVars, cloudVars, managedRetrieved, terminated,
                 resolvedProviderIDs, nodeList, unreachable, swept, visible, crashes>>

\* The test of the second group of workers, and of garbageNode; the variant has
\* the first part the wrong way round.
StaleNodeResolved(i) == i \in resolvedProviderIDs /\ OlderThan5Min(i) /\ i \in unreachable
StaleNode(i) == i \notin resolvedProviderIDs /\ OlderThan5Min(i) /\ i \in unreachable

\* garbageNode: only a Node the snapshot shows as unreachable is deleted.
GCNode(i, ok) ==
  /\ gcPC = "nodes" /\ i \in terminated
  /\ terminated' = terminated \ {i}
  /\ IF ok /\ StaleNode(i) THEN DropNode(i) ELSE UNCHANGED node
  /\ UNCHANGED <<clusterVars, state, age, owner, managed, gcPC, managedRetrieved,
                 resolvedProviderIDs, nodeList, unreachable, swept, visible, crashes>>

\* Forget the pass: it ended, or a LIST failed, or the process crashed.
EndPass ==
  /\ gcPC' = "idle"
  /\ managedRetrieved' = {} /\ terminated' = {} /\ resolvedProviderIDs' = {}
  /\ nodeList' = {} /\ unreachable' = {} /\ swept' = {} /\ visible' = {}

GCFinish ==
  /\ gcPC = "nodes" /\ terminated = {}
  /\ EndPass
  /\ UNCHANGED <<clusterVars, cloudVars, crashes>>

GCListError ==
  /\ gcPC \in {"listClaims", "listNodes"}
  /\ EndPass
  /\ UNCHANGED <<clusterVars, cloudVars, crashes>>

\* The process restarts: core's memory of unrecorded launches is lost too.
Crash ==
  /\ crashes < MaxCrashes
  /\ crashes' = crashes + 1
  /\ created' = [c \in Claims |-> NoInstance]
  /\ EndPass
  /\ UNCHANGED <<claim, pid, instTerm, seen, nodeClass, cloudVars>>

-----------------------------------------------------------------------------
(* OCI, the kubelets, the clock and the user.                              *)

\* The launch of i is not yet visible as a recorded provider id.
InFlight(i) ==
  \E c \in Claims : \/ created[c] = i
                    \/ pid[c] = i /\ claim[c] = "pending" /\ i \notin seen

GrowOld(i) ==
  /\ state[i] # "none" /\ age[i] < 2
  /\ age[i] = 0 => /\ RecordInWindow => ~InFlight(i)
                   /\ PassInWindow => i \notin managedRetrieved
  /\ age' = [age EXCEPT ![i] = @ + 1]
  /\ UNCHANGED <<clusterVars, state, owner, managed, node, gcVars, crashes>>

FinishTerminating(i) ==
  /\ state[i] = "terminating"
  /\ state' = [state EXCEPT ![i] = "terminated"]
  /\ UNCHANGED <<clusterVars, age, owner, managed, node, gcVars, crashes>>

RegisterNode(i) ==
  /\ state[i] = "up" /\ node[i] = "none" /\ owner[i] # NoClaim
  /\ node' = [node EXCEPT ![i] = "ready"]
  /\ UNCHANGED <<clusterVars, state, age, owner, managed, gcVars, crashes>>

NodeUnreachable(i) ==
  /\ state[i] \in {"terminating", "terminated"} /\ node[i] = "ready"
  /\ node' = [node EXCEPT ![i] = "unreachable"]
  /\ UNCHANGED <<clusterVars, state, age, owner, managed, gcVars, crashes>>

DeleteNodeClass ==
  /\ NodeClassMayGo /\ nodeClass = "present"
  /\ nodeClass' = "terminating"
  /\ UNCHANGED <<claim, pid, created, instTerm, seen, cloudVars, gcVars, crashes>>

\* The nodeclass.termination controller waits for the NodeClaims to be gone.
FinalizeNodeClass ==
  /\ nodeClass = "terminating"
  /\ \A c \in Claims : claim[c] \in {"absent", "gone"}
  /\ nodeClass' = "gone"
  /\ UNCHANGED <<claim, pid, created, instTerm, seen, cloudVars, gcVars, crashes>>

-----------------------------------------------------------------------------
Core(c) ==
  \/ CreateClaim(c) \/ LaunchRejected(c) \/ RecordProviderID(c) \/ DeleteClaim(c)
  \/ \E i \in Instances, heard \in BOOLEAN : Launch(c, i, heard)
  \/ FinalizeUnlaunched(c) \/ FinalizeNode(c) \/ FinalizeTerminated(c)
  \/ \E answer \in {0, 200, 204, 404} : FinalizeInstance(c, answer)

GCWorker(i) ==
  \/ GCSkip(i)
  \/ \E ok \in BOOLEAN : GCDeleteNode(i, ok) \/ GCNode(i, ok)
  \/ \E answer \in {0, 200, 204, 404} : GCTerminate(i, answer)

GCReconcile ==
  \/ GCListInstances \/ GCListClaims \/ GCListNodes \/ GCCollected
  \/ GCFinish \/ GCListError

Environment(i) ==
  GrowOld(i) \/ FinishTerminating(i) \/ RegisterNode(i) \/ NodeUnreachable(i)

Next ==
  \/ \E c \in Claims : Core(c)
  \/ \E i \in Instances : GCWorker(i) \/ Environment(i)
  \/ GCReconcile
  \/ SyncInformer \/ Crash \/ DeleteNodeClass \/ FinalizeNodeClass

Spec == Init /\ [][Next]_vars

\* Fairness. The controllers' work queues run every enabled step; a call that is
\* retried for ever succeeds some time (SF); the clock, OCI and the informers
\* make progress. Nothing is promised about the user, new launches or crashes.
Fairness ==
  /\ WF_vars(GCListInstances) /\ SF_vars(GCListClaims) /\ SF_vars(GCListNodes)
  /\ WF_vars(GCCollected) /\ WF_vars(GCFinish) /\ WF_vars(SyncInformer)
  /\ \A i \in Instances :
       /\ WF_vars(GCSkip(i)) /\ WF_vars(\E ok \in BOOLEAN : GCDeleteNode(i, ok))
       /\ SF_vars(\E answer \in AcceptedStatuses : GCTerminate(i, answer))
       /\ SF_vars(GCNode(i, TRUE))
       /\ SF_vars(GrowOld(i)) /\ WF_vars(FinishTerminating(i))
       /\ WF_vars(NodeUnreachable(i))
  /\ \A c \in Claims :
       /\ WF_vars(RecordProviderID(c)) /\ WF_vars(FinalizeUnlaunched(c))
       /\ WF_vars(FinalizeNode(c)) /\ WF_vars(FinalizeTerminated(c))
       /\ WF_vars(\E answer \in AcceptedStatuses : FinalizeInstance(c, answer))

FairSpec == Spec /\ Fairness

-----------------------------------------------------------------------------
(* Properties.                                                             *)

\* A NodeClaim that is not being deleted names i as its instance.
Owned(i) == \E c \in Claims : claim[c] = "pending" /\ pid[c] = i

\* While a NodeClaim that is not being deleted has recorded its provider id, its
\* instance stays up and its Node is not deleted: the garbage collector never
\* takes an owned instance, whatever the interleaving of LIST, record and
\* workers (garbagecollection Reconcile; "should not delete the instance or node
\* if it already has a NodeClaim that matches it"). Needs both window
\* assumptions.
OwnedInstanceUp ==
  \A i \in Instances : Owned(i) => state[i] = "up" /\ node[i] # "deleted"

\* Instances that no NodeClaim launched are never terminated (the managed-by
\* filter of instance.Provider.List is all that protects them).
ForeignUntouched == \A i \in Foreign : state[i] = "up"

\* A NodeClaim that is gone leaves no running instance behind, whichever status
\* OCI accepts the termination with: its instance is going down or TERMINATED,
\* and if Delete reported success, so that core was to poll CloudProvider.Get, it
\* is TERMINATED. Delete reports a 204 as "instance already terminated", so after
\* a 204 the first is all there is (instance.Provider.Delete, core's finalizer).
ReleasedWhenDown ==
  \A c \in Claims :
    claim[c] = "gone" /\ pid[c] # NoInstance =>
      /\ Terminating(pid[c])
      /\ instTerm[c] => state[pid[c]] = "terminated"

\* With no assumption on time: a pass never terminates an owned instance whose
\* recorded id the informer cache showed when the pass listed the instances.
\* This is what listing the cloud BEFORE the NodeClaims is for.
VisibleSurvives ==
  [][\A i \in Instances :
       (Owned(i) /\ i \in visible /\ state[i] = "up") => state'[i] = "up"]_vars

\* The instance was launched for a NodeClaim and none holds it now: its answer
\* was lost, or its NodeClaim was finalized before recording it.
Leaked(i) ==
  /\ owner[i] # NoClaim /\ state[i] = "up"
  /\ \A c \in Claims : claim[c] \in {"pending", "deleting"} =>
                         pid[c] # i /\ created[c] # i

\* Every leaked instance, and every instance whose NodeClaim is being deleted, is
\* eventually terminated, through lost answers, crashes, failing calls and
\* stale caches (garbagecollection Reconcile, instance.Provider.Delete).
NoInstanceLeaks ==
  \A i \in Instances :
    (Leaked(i) \/ (state[i] = "up" /\ \E c \in Claims : claim[c] = "deleting" /\ pid[c] = i))
      ~> state[i] # "up"

\* The Node of an instance that was terminated is eventually deleted, even if the
\* process crashed between TerminateInstance and the Node's deletion
\* (garbageCollect, garbageNode).
NodesCollected ==
  \A i \in Instances :
    (state[i] \in {"terminating", "terminated"} /\ node[i] \in {"ready", "unreachable"})
      ~> node[i] = "deleted"

-----------------------------------------------------------------------------
(* The abstract specification this one implements.                         *)

\* A NodeClaim that is not being deleted holds the instance it has recorded, or
\* got from Create and is about to record.
Holder(i) ==
  IF \E c \in Claims : claim[c] = "pending" /\ i \in {pid[c], created[c]}
  THEN CHOOSE c \in Claims : claim[c] = "pending" /\ i \in {pid[c], created[c]} ELSE NoClaim

Life(i) == IF state[i] \in {"terminating", "terminated"} THEN "down" ELSE state[i]

Ownership == INSTANCE InstanceOwnership WITH
  life   <- [i \in Instances |-> Life(i)],
  holder <- [i \in Instances |-> Holder(i)]

\* Seen through NodeClaims and instances alone, every behaviour is one of
\* InstanceOwnership: launches go to one NodeClaim, an instance that was let go is
\* never taken up again, only such are terminated, and all of them are (Create,
\* Delete and the garbage collector, under the window assumptions).
ImplementsOwnership == Ownership!Spec

\* Its safety part: how the instances start, and that every step launches for one
\* NodeClaim, lets instances go, terminates an unheld one, or changes nothing.
ImplementsOwnershipSafety == Ownership!Init /\ [][Ownership!Next]_(Ownership!vars)

-----------------------------------------------------------------------------
(* The inductive invariant behind OwnedInstanceUp.                         *)

\* An id that OCI has not given out has no age and no Node.
Unlaunched ==
  \A i \in Instances : state[i] = "none" => age[i] = 0 /\ node[i] = "none"

\* An instance is held by at most one NodeClaim, in one way, and was launched.
SingleHolder ==
  /\ \A c, d \in Claims : \A i \in Instances :
       (pid[c] = i \/ created[c] = i) /\ (pid[d] = i \/ created[d] = i) => c = d
  /\ \A c \in Claims : created[c] # NoInstance => pid[c] = NoInstance
  /\ \A c \in Claims :
       claim[c] = "absent" => pid[c] = NoInstance /\ created[c] = NoInstance
  /\ \A c \in Claims : \A i \in Instances :
       pid[c] = i \/ created[c] = i => state[i] # "none"

\* A launch that is not yet recorded, or recorded and not yet visible, is still
\* in its resolution window; and nothing has touched it.
HeldInstanceFresh ==
  /\ \A c \in Claims : \A i \in Instances :
       created[c] = i => age[i] = 0 /\ state[i] = "up" /\ node[i] # "deleted"
  /\ \A c \in Claims : \A i \in Instances :
       claim[c] = "pending" /\ pid[c] = i /\ i \notin seen => age[i] = 0

\* What a pass may still terminate it does not find owned: an owned instance it
\* retrieved is in its window or was resolved.
PassSparesOwned ==
  gcPC \in {"listNodes", "collect"} =>
    \A i \in managedRetrieved :
      Owned(i) /\ age[i] > 0 => i \in resolvedProviderIDs

\* Nodes are deleted only for instances that are going or gone.
PassSweepsDead ==
  /\ \A i \in managedRetrieved : state[i] # "none"
  /\ \A i \in swept \union terminated : state[i] \in {"terminating", "terminated"}

\* No state has a launch that escaped the window, a claim held twice or a pass
\* about to take an owned instance (garbagecollection Reconcile, core's record).
LifecycleInv ==
  /\ Unlaunched
  /\ SingleHolder
  /\ HeldInstanceFresh
  /\ PassSparesOwned
  /\ PassSweepsDead
  /\ OwnedInstanceUp

(* The inductive invariants behind VisibleSurvives and ForeignUntouched.   *)

\* Ids in the cache, now or at the instance LIST, were recorded by a NodeClaim;
\* and an owned id that was visible then is resolved by the NodeClaim LIST.
VisibleResolved ==
  /\ \A i \in seen \union visible : \E c \in Claims : pid[c] = i
  /\ \A i \in visible : Owned(i) =>
       /\ gcPC = "listClaims" => i \in seen
       /\ gcPC \in {"listNodes", "collect"} => i \in resolvedProviderIDs

\* A foreign instance is never tagged, retrieved or held.
ForeignInv ==
  \A i \in Foreign :
    /\ state[i] = "up" /\ ~managed[i] /\ i \notin managedRetrieved
    /\ \A c \in Claims : pid[c] # i /\ created[c] # i
=============================================================================
