---------------------- MODULE NodeClaimLifecycleProofs ----------------------
(* Proofs about NodeClaimLifecycle, for every set of NodeClaims and instances *)
(* and any number of crashes.                                                 *)
EXTENDS NodeClaimLifecycle, TLAPS

\* Every step keeps the types of the variables (TypeOK of NodeClaimLifecycle).
LEMMA TypeStep == TypeOK /\ [Next]_vars => TypeOK'
<1> SUFFICES ASSUME TypeOK, [Next]_vars PROVE TypeOK'
  OBVIOUS
<1> USE LifecycleAssumption DEF TypeOK, Phases, States, NodeStates, Ages,
        clusterVars, cloudVars, gcVars
<1>1. ASSUME NEW c \in Claims, Core(c) PROVE TypeOK'
  <2>1. CASE CreateClaim(c) \/ LaunchRejected(c) \/ DeleteClaim(c)
    BY <2>1 DEF CreateClaim, LaunchRejected, DeleteClaim
  <2>2. CASE RecordProviderID(c)
    BY <2>2 DEF RecordProviderID
  <2>3. ASSUME NEW i \in Instances, NEW heard \in BOOLEAN, Launch(c, i, heard)
        PROVE TypeOK'
    BY <2>3 DEF Launch, ManagedTag
  <2>4. CASE FinalizeUnlaunched(c) \/ FinalizeNode(c) \/ FinalizeTerminated(c)
    BY <2>4 DEF FinalizeUnlaunched, FinalizeNode, FinalizeTerminated
  <2>5. ASSUME NEW answer \in {0, 200, 204, 404}, FinalizeInstance(c, answer)
        PROVE TypeOK'
    BY <2>5 DEF FinalizeInstance, TerminateEffect
  <2> QED BY <1>1, <2>1, <2>2, <2>3, <2>4, <2>5 DEF Core
<1>2. ASSUME NEW i \in Instances, GCWorker(i) PROVE TypeOK'
  <2>1. CASE GCSkip(i)
    BY <2>1 DEF GCSkip
  <2>2. ASSUME NEW ok \in BOOLEAN, GCDeleteNode(i, ok) \/ GCNode(i, ok) PROVE TypeOK'
    BY <2>2 DEF GCDeleteNode, GCNode, DropNode
  <2>3. ASSUME NEW answer \in {0, 200, 204, 404}, GCTerminate(i, answer) PROVE TypeOK'
    BY <2>3 DEF GCTerminate, TerminateEffect
  <2> QED BY <1>2, <2>1, <2>2, <2>3 DEF GCWorker
<1>3. ASSUME NEW i \in Instances, Environment(i) PROVE TypeOK'
  BY <1>3 DEF Environment, GrowOld, FinishTerminating, RegisterNode, NodeUnreachable
<1>4. CASE GCReconcile
  BY <1>4 DEF GCReconcile, GCListInstances, GCListClaims, ResolvedIDs, GCListNodes, GCCollected,
              GCFinish, GCListError, EndPass, Listed, Terminating
<1>5. CASE SyncInformer
  BY <1>5 DEF SyncInformer, RecordedIDs
<1>6. CASE Crash
  BY <1>6 DEF Crash, EndPass
<1>7. CASE DeleteNodeClass \/ FinalizeNodeClass
  BY <1>7 DEF DeleteNodeClass, FinalizeNodeClass
<1>8. CASE UNCHANGED vars
  BY <1>8 DEF vars
<1> QED BY <1>1, <1>2, <1>3, <1>4, <1>5, <1>6, <1>7, <1>8 DEF Next

\* The variables keep their types in every reachable state, so the passes, the
\* caches and the NodeClaims only ever name instances that exist.
THEOREM Typing == Spec => []TypeOK
<1>1. Init => TypeOK
  BY LifecycleAssumption DEF Init, TypeOK, Phases, States, NodeStates, Ages
<1> QED BY <1>1, TypeStep, PTL DEF Spec

-----------------------------------------------------------------------------
\* Core's steps keep the invariant: launching takes a fresh instance, recording
\* moves it from core's memory to the NodeClaim within its window, and
\* finalizing touches only the instance of a NodeClaim that is being deleted.
LEMMA CoreStep ==
  ASSUME TypeOK, LifecycleInv, NEW c \in Claims, Core(c)
  PROVE  LifecycleInv'
<1> USE LifecycleAssumption DEF TypeOK, LifecycleInv, clusterVars, cloudVars, gcVars,
        Owned
<1>1. CASE CreateClaim(c)
  BY <1>1 DEF CreateClaim, Unlaunched, SingleHolder,
     HeldInstanceFresh, PassSparesOwned, PassSweepsDead, OwnedInstanceUp
<1>7. CASE LaunchRejected(c) \/ DeleteClaim(c)
  BY <1>7 DEF LaunchRejected, DeleteClaim, AwaitsLaunch, Unlaunched, SingleHolder,
     HeldInstanceFresh, PassSparesOwned, PassSweepsDead, OwnedInstanceUp
<1>2. CASE RecordProviderID(c)
  BY <1>2 DEF RecordProviderID, Unlaunched, SingleHolder,
     HeldInstanceFresh, PassSparesOwned, PassSweepsDead, OwnedInstanceUp
<1>3. ASSUME NEW i \in Instances, NEW heard \in BOOLEAN, Launch(c, i, heard)
      PROVE  LifecycleInv'
  BY <1>3 DEF Launch, AwaitsLaunch, Unlaunched, SingleHolder,
     HeldInstanceFresh, PassSparesOwned, PassSweepsDead, OwnedInstanceUp
<1>4. CASE FinalizeUnlaunched(c) \/ FinalizeTerminated(c)
  BY <1>4 DEF FinalizeUnlaunched, FinalizeTerminated, Unlaunched, SingleHolder,
     HeldInstanceFresh, PassSparesOwned, PassSweepsDead, OwnedInstanceUp
<1>5. CASE FinalizeNode(c)
  BY <1>5 DEF FinalizeNode, Unlaunched, SingleHolder,
     HeldInstanceFresh, PassSparesOwned, PassSweepsDead, OwnedInstanceUp
<1>6. ASSUME NEW answer \in {0, 200, 204, 404}, FinalizeInstance(c, answer)
      PROVE  LifecycleInv'
  BY <1>6 DEF FinalizeInstance, TerminateEffect, Unlaunched, SingleHolder,
     HeldInstanceFresh, PassSparesOwned, PassSweepsDead, OwnedInstanceUp
<1> QED BY <1>1, <1>2, <1>3, <1>4, <1>5, <1>6, <1>7 DEF Core

\* The collector's workers keep the invariant: what they terminate is older than
\* its window and was not resolved, so no NodeClaim owns or awaits it.
LEMMA WorkerStep ==
  ASSUME TypeOK, LifecycleInv, NEW i \in Instances, GCWorker(i)
  PROVE  LifecycleInv'
<1> USE LifecycleAssumption DEF TypeOK, LifecycleInv, clusterVars, cloudVars, gcVars,
        Owned, Ages
<1>1. CASE GCSkip(i)
  BY <1>1 DEF GCSkip, Unlaunched, SingleHolder,
     HeldInstanceFresh, PassSparesOwned, PassSweepsDead, OwnedInstanceUp
<1>2. ASSUME NEW ok \in BOOLEAN, GCDeleteNode(i, ok) PROVE LifecycleInv'
  BY <1>2 DEF GCDeleteNode, DropNode, Unlaunched, SingleHolder,
     HeldInstanceFresh, PassSparesOwned, PassSweepsDead, OwnedInstanceUp
<1>3. ASSUME NEW ok \in BOOLEAN, GCNode(i, ok) PROVE LifecycleInv'
  BY <1>3 DEF GCNode, DropNode, Unlaunched, SingleHolder,
     HeldInstanceFresh, PassSparesOwned, PassSweepsDead, OwnedInstanceUp
<1>4. ASSUME NEW answer \in {0, 200, 204, 404}, GCTerminate(i, answer)
      PROVE  LifecycleInv'
  <2> USE <1>4 DEF GCTerminate
  <2>1. ~Owned(i) /\ \A c \in Claims : created[c] # i
    BY DEF Collectable, OlderThan30s, PassSparesOwned, HeldInstanceFresh
  <2>2. state' \in [Instances -> States] /\ \A j \in Instances : j # i => state'[j] = state[j]
    BY DEF TerminateEffect, States
  <2>3. state'[i] # "none" /\ (DeleteResult(answer) # "error" => state'[i] \in {"terminating", "terminated"})
    BY DEF TerminateEffect, TerminateAnswers, DeleteResult, PassSweepsDead, States
  <2>4. state[i] \in {"terminating", "terminated"} => state'[i] = state[i]
    BY DEF TerminateEffect
  <2>5. Unlaunched' /\ SingleHolder'
    BY <2>2, <2>3 DEF Unlaunched, SingleHolder
  <2>6. HeldInstanceFresh' /\ OwnedInstanceUp'
    BY <2>1, <2>2 DEF HeldInstanceFresh, OwnedInstanceUp
  <2>7. PassSparesOwned'
    BY DEF PassSparesOwned
  <2>8. PassSweepsDead'
    BY <2>2, <2>3, <2>4 DEF PassSweepsDead
  <2> QED BY <2>5, <2>6, <2>7, <2>8
<1> QED BY <1>1, <1>2, <1>3, <1>4 DEF GCWorker

\* Time, OCI and the kubelets keep the invariant: the two window assumptions are
\* what keeps an instance young while its launch is in flight or a pass holds it.
LEMMA EnvironmentStep ==
  ASSUME TypeOK, LifecycleInv, RecordInWindow, PassInWindow,
         NEW i \in Instances, Environment(i)
  PROVE  LifecycleInv'
<1> USE LifecycleAssumption DEF TypeOK, LifecycleInv, clusterVars, cloudVars, gcVars,
        Owned, Ages
<1>1. CASE GrowOld(i)
  <2> USE <1>1 DEF GrowOld
  <2>1. Unlaunched' /\ SingleHolder' /\ PassSweepsDead' /\ OwnedInstanceUp'
    BY DEF Unlaunched, SingleHolder, PassSweepsDead, OwnedInstanceUp
  <2>2. HeldInstanceFresh'
    BY DEF HeldInstanceFresh, InFlight
  <2>3. PassSparesOwned'
    BY DEF PassSparesOwned
  <2> QED BY <2>1, <2>2, <2>3
<1>2. CASE FinishTerminating(i)
  BY <1>2 DEF FinishTerminating, Unlaunched, SingleHolder,
     HeldInstanceFresh, PassSparesOwned, PassSweepsDead, OwnedInstanceUp
<1>3. CASE RegisterNode(i)
  BY <1>3 DEF RegisterNode, Unlaunched, SingleHolder,
     HeldInstanceFresh, PassSparesOwned, PassSweepsDead, OwnedInstanceUp
<1>4. CASE NodeUnreachable(i)
  BY <1>4 DEF NodeUnreachable, Unlaunched, SingleHolder,
     HeldInstanceFresh, PassSparesOwned, PassSweepsDead, OwnedInstanceUp
<1> QED BY <1>1, <1>2, <1>3, <1>4 DEF Environment

\* The pass's LISTs keep the invariant: what the NodeClaim LIST does not resolve
\* is not visible, hence still in its window if a NodeClaim owns it.
LEMMA ReconcileStep ==
  ASSUME TypeOK, LifecycleInv, GCReconcile
  PROVE  LifecycleInv'
<1> USE LifecycleAssumption DEF TypeOK, LifecycleInv, clusterVars, cloudVars, gcVars,
        Owned, Ages
<1>1. CASE GCListInstances
  BY <1>1 DEF GCListInstances, Listed, Terminating, States, Unlaunched, SingleHolder,
     HeldInstanceFresh, PassSparesOwned, PassSweepsDead, OwnedInstanceUp
<1>2. CASE GCListClaims
  BY <1>2 DEF GCListClaims, ResolvedIDs, Unlaunched, SingleHolder,
     HeldInstanceFresh, PassSparesOwned, PassSweepsDead, OwnedInstanceUp
<1>3. CASE GCListNodes \/ GCCollected
  BY <1>3 DEF GCListNodes, GCCollected, Unlaunched, SingleHolder,
     HeldInstanceFresh, PassSparesOwned, PassSweepsDead, OwnedInstanceUp
<1>4. CASE GCFinish \/ GCListError
  BY <1>4 DEF GCFinish, GCListError, EndPass, Unlaunched, SingleHolder,
     HeldInstanceFresh, PassSparesOwned, PassSweepsDead, OwnedInstanceUp
<1> QED BY <1>1, <1>2, <1>3, <1>4 DEF GCReconcile

\* Informer, crashes and the NodeClass keep the invariant: a crash only forgets
\* launches, and the cache never loses an owned instance once it shows it.
LEMMA OtherStep ==
  ASSUME TypeOK, LifecycleInv,
         SyncInformer \/ Crash \/ DeleteNodeClass \/ FinalizeNodeClass
  PROVE  LifecycleInv'
<1> USE LifecycleAssumption DEF TypeOK, LifecycleInv, clusterVars, cloudVars, gcVars,
        Owned, Ages
<1>1. CASE SyncInformer
  BY <1>1 DEF SyncInformer, RecordedIDs, Unlaunched, SingleHolder,
     HeldInstanceFresh, PassSparesOwned, PassSweepsDead, OwnedInstanceUp
<1>2. CASE Crash
  BY <1>2 DEF Crash, EndPass, Unlaunched, SingleHolder,
     HeldInstanceFresh, PassSparesOwned, PassSweepsDead, OwnedInstanceUp
<1>3. CASE DeleteNodeClass \/ FinalizeNodeClass
  BY <1>3 DEF DeleteNodeClass, FinalizeNodeClass, Unlaunched, SingleHolder,
     HeldInstanceFresh, PassSparesOwned, PassSweepsDead, OwnedInstanceUp
<1> QED BY <1>1, <1>2, <1>3

\* Under the window assumptions every reachable state satisfies the inductive
\* invariant: launches in flight are fresh, and passes spare what is owned.
LEMMA LifecycleInvariant ==
  ASSUME RecordInWindow, PassInWindow
  PROVE  Spec => []LifecycleInv
<1>1. Init => LifecycleInv
  BY LifecycleAssumption DEF Init, LifecycleInv, Unlaunched, SingleHolder, HeldInstanceFresh,
     PassSparesOwned, PassSweepsDead, OwnedInstanceUp, Owned
<1>2. TypeOK /\ LifecycleInv /\ [Next]_vars => LifecycleInv'
  <2> SUFFICES ASSUME TypeOK, LifecycleInv, [Next]_vars PROVE LifecycleInv'
    OBVIOUS
  <2>1. CASE UNCHANGED vars
    BY <2>1 DEF vars, clusterVars, cloudVars, gcVars, LifecycleInv, Unlaunched,
       SingleHolder, HeldInstanceFresh, PassSparesOwned, PassSweepsDead,
       OwnedInstanceUp, Owned
  <2>2. CASE Next
    BY <2>2, CoreStep, WorkerStep, EnvironmentStep, ReconcileStep, OtherStep DEF Next
  <2> QED BY <2>1, <2>2
<1> QED BY <1>1, <1>2, Typing, PTL DEF Spec

\* If every launch is recorded and visible within the resolution window, and no
\* instance leaves the window while a pass holds it, the garbage collector never
\* terminates the instance of a NodeClaim that is not being deleted, nor deletes
\* its Node: for any number of NodeClaims, instances, crashes and passes.
THEOREM OwnedInstancesSurvive ==
  ASSUME RecordInWindow, PassInWindow
  PROVE  Spec => []OwnedInstanceUp
<1>1. LifecycleInv => OwnedInstanceUp
  BY DEF LifecycleInv
<1> QED BY <1>1, LifecycleInvariant, PTL

-----------------------------------------------------------------------------
(* What holds whatever the timing.                                         *)

\* No step makes two NodeClaims hold one instance (Launch takes a fresh one).
LEMMA HolderStep ==
  ASSUME TypeOK, SingleHolder, [Next]_vars
  PROVE  SingleHolder'
<1> USE LifecycleAssumption DEF TypeOK, SingleHolder, clusterVars, cloudVars, gcVars
<1>1. ASSUME NEW c \in Claims, Core(c) PROVE SingleHolder'
  <2>1. CASE CreateClaim(c) \/ LaunchRejected(c) \/ DeleteClaim(c)
    BY <2>1 DEF CreateClaim, LaunchRejected, DeleteClaim
  <2>2. CASE RecordProviderID(c)
    BY <2>2 DEF RecordProviderID
  <2>3. ASSUME NEW i \in Instances, NEW heard \in BOOLEAN, Launch(c, i, heard)
        PROVE  SingleHolder'
    BY <2>3 DEF Launch, AwaitsLaunch
  <2>4. CASE FinalizeUnlaunched(c) \/ FinalizeNode(c) \/ FinalizeTerminated(c)
    BY <2>4 DEF FinalizeUnlaunched, FinalizeNode, FinalizeTerminated
  <2>5. ASSUME NEW answer \in {0, 200, 204, 404}, FinalizeInstance(c, answer)
        PROVE  SingleHolder'
    BY <2>5 DEF FinalizeInstance, TerminateEffect
  <2> QED BY <1>1, <2>1, <2>2, <2>3, <2>4, <2>5 DEF Core
<1>2. ASSUME NEW i \in Instances, GCWorker(i) PROVE SingleHolder'
  BY <1>2 DEF GCWorker, GCSkip, GCDeleteNode, GCNode, GCTerminate, TerminateEffect
<1>3. ASSUME NEW i \in Instances, Environment(i) PROVE SingleHolder'
  BY <1>3 DEF Environment, GrowOld, FinishTerminating, RegisterNode, NodeUnreachable
<1>4. CASE GCReconcile
  BY <1>4 DEF GCReconcile, GCListInstances, GCListClaims, ResolvedIDs, GCListNodes, GCCollected,
              GCFinish, GCListError
<1>5. CASE SyncInformer \/ Crash \/ DeleteNodeClass \/ FinalizeNodeClass
  BY <1>5 DEF SyncInformer, Crash, DeleteNodeClass, FinalizeNodeClass
<1>6. CASE UNCHANGED vars
  BY <1>6 DEF vars
<1> QED BY <1>1, <1>2, <1>3, <1>4, <1>5, <1>6 DEF Next

\* Recording, caching and listing keep visible ids resolved: a recorded id is
\* never recorded by a second NodeClaim, and the cache drops only unowned ids.
LEMMA VisibleStep ==
  ASSUME TypeOK, SingleHolder, VisibleResolved, [Next]_vars
  PROVE  VisibleResolved'
<1> USE LifecycleAssumption DEF TypeOK, VisibleResolved, Owned, clusterVars, cloudVars, gcVars
<1>1. ASSUME NEW c \in Claims, Core(c) PROVE VisibleResolved'
  <2>1. CASE CreateClaim(c)
    BY <2>1 DEF CreateClaim, SingleHolder
  <2>2. CASE RecordProviderID(c)
    BY <2>2 DEF RecordProviderID, SingleHolder
  <2>3. CASE LaunchRejected(c) \/ DeleteClaim(c)
    BY <2>3 DEF LaunchRejected, DeleteClaim
  <2>4. ASSUME NEW i \in Instances, NEW heard \in BOOLEAN, Launch(c, i, heard)
        PROVE  VisibleResolved'
    BY <2>4 DEF Launch
  <2>5. CASE FinalizeUnlaunched(c) \/ FinalizeNode(c) \/ FinalizeTerminated(c)
    BY <2>5 DEF FinalizeUnlaunched, FinalizeNode, FinalizeTerminated
  <2>6. ASSUME NEW answer \in {0, 200, 204, 404}, FinalizeInstance(c, answer)
        PROVE  VisibleResolved'
    BY <2>6 DEF FinalizeInstance
  <2> QED BY <1>1, <2>1, <2>2, <2>3, <2>4, <2>5, <2>6 DEF Core
<1>2. ASSUME NEW i \in Instances, GCWorker(i) PROVE VisibleResolved'
  BY <1>2 DEF GCWorker, GCSkip, GCDeleteNode, GCNode, GCTerminate
<1>3. ASSUME NEW i \in Instances, Environment(i) PROVE VisibleResolved'
  BY <1>3 DEF Environment, GrowOld, FinishTerminating, RegisterNode, NodeUnreachable
<1>4. CASE GCReconcile
  BY <1>4 DEF GCReconcile, GCListInstances, GCListClaims, ResolvedIDs, GCListNodes, GCCollected,
              GCFinish, GCListError, EndPass
<1>5. CASE SyncInformer
  BY <1>5 DEF SyncInformer, RecordedIDs
<1>6. CASE Crash \/ DeleteNodeClass \/ FinalizeNodeClass
  BY <1>6 DEF Crash, EndPass, DeleteNodeClass, FinalizeNodeClass
<1>7. CASE UNCHANGED vars
  BY <1>7 DEF vars
<1> QED BY <1>1, <1>2, <1>3, <1>4, <1>5, <1>6, <1>7 DEF Next

\* An owned instance whose id was visible when the pass listed the instances is
\* not terminated by any step.
LEMMA VisibleKept ==
  ASSUME TypeOK, SingleHolder, VisibleResolved, [Next]_vars,
         NEW i \in Instances, Owned(i), i \in visible, state[i] = "up"
  PROVE  state'[i] = "up"
<1> USE LifecycleAssumption DEF TypeOK, clusterVars, cloudVars, gcVars
<1>1. ASSUME NEW c \in Claims, Core(c) PROVE state'[i] = "up"
  <2>1. ASSUME NEW answer \in {0, 200, 204, 404}, FinalizeInstance(c, answer)
        PROVE  state'[i] = "up"
    BY <2>1 DEF FinalizeInstance, TerminateEffect, SingleHolder, Owned
  <2>2. ASSUME NEW j \in Instances, NEW heard \in BOOLEAN, Launch(c, j, heard)
        PROVE  state'[i] = "up"
    BY <2>2 DEF Launch
  <2> QED BY <1>1, <2>1, <2>2 DEF Core, CreateClaim, LaunchRejected, RecordProviderID,
       DeleteClaim, FinalizeUnlaunched, FinalizeNode, FinalizeTerminated
<1>2. ASSUME NEW j \in Instances, GCWorker(j) PROVE state'[i] = "up"
  <2>1. ASSUME NEW answer \in {0, 200, 204, 404}, GCTerminate(j, answer)
        PROVE  state'[i] = "up"
    BY <2>1 DEF GCTerminate, Collectable, TerminateEffect, VisibleResolved
  <2> QED BY <1>2, <2>1 DEF GCWorker, GCSkip, GCDeleteNode, GCNode
<1>3. ASSUME NEW j \in Instances, Environment(j) PROVE state'[i] = "up"
  BY <1>3 DEF Environment, GrowOld, FinishTerminating, RegisterNode, NodeUnreachable
<1>4. CASE GCReconcile
  BY <1>4 DEF GCReconcile, GCListInstances, GCListClaims, ResolvedIDs, GCListNodes, GCCollected,
              GCFinish, GCListError
<1>5. CASE SyncInformer \/ Crash \/ DeleteNodeClass \/ FinalizeNodeClass
  BY <1>5 DEF SyncInformer, Crash, DeleteNodeClass, FinalizeNodeClass
<1>6. CASE UNCHANGED vars
  BY <1>6 DEF vars
<1> QED BY <1>1, <1>2, <1>3, <1>4, <1>5, <1>6 DEF Next

\* With no assumption on time, a garbage collection pass spares every owned
\* instance whose id the informer showed when the pass listed the instances:
\* listing the cloud before the NodeClaims buys exactly this.
THEOREM VisibleInstancesSurvive == Spec => VisibleSurvives
<1>1. Init => SingleHolder /\ VisibleResolved
  BY LifecycleAssumption DEF Init, SingleHolder, VisibleResolved
<1>2. TypeOK /\ SingleHolder /\ VisibleResolved /\ [Next]_vars
        => SingleHolder' /\ VisibleResolved'
  BY HolderStep, VisibleStep
<1>3. TypeOK /\ SingleHolder /\ VisibleResolved /\ [Next]_vars
        => [\A i \in Instances :
              (Owned(i) /\ i \in visible /\ state[i] = "up") => state'[i] = "up"]_vars
  BY VisibleKept
<1> QED BY <1>1, <1>2, <1>3, Typing, PTL DEF Spec, VisibleSurvives

-----------------------------------------------------------------------------
\* No step tags, retrieves, holds or terminates a foreign instance.
LEMMA ForeignStep ==
  ASSUME TypeOK, ForeignInv, [Next]_vars
  PROVE  ForeignInv'
<1> USE LifecycleAssumption DEF TypeOK, ForeignInv, clusterVars, cloudVars, gcVars
<1>1. ASSUME NEW c \in Claims, Core(c) PROVE ForeignInv'
  <2>1. ASSUME NEW answer \in {0, 200, 204, 404}, FinalizeInstance(c, answer)
        PROVE  ForeignInv'
    BY <2>1 DEF FinalizeInstance, TerminateEffect
  <2>2. ASSUME NEW j \in Instances, NEW heard \in BOOLEAN, Launch(c, j, heard)
        PROVE  ForeignInv'
    BY <2>2 DEF Launch
  <2>3. CASE RecordProviderID(c)
    BY <2>3 DEF RecordProviderID
  <2> QED BY <1>1, <2>1, <2>2, <2>3 DEF Core, CreateClaim, LaunchRejected,
       DeleteClaim, FinalizeUnlaunched, FinalizeNode, FinalizeTerminated
<1>2. ASSUME NEW j \in Instances, GCWorker(j) PROVE ForeignInv'
  BY <1>2 DEF GCWorker, GCSkip, GCDeleteNode, GCNode, GCTerminate, TerminateEffect
<1>3. ASSUME NEW j \in Instances, Environment(j) PROVE ForeignInv'
  BY <1>3 DEF Environment, GrowOld, FinishTerminating, RegisterNode, NodeUnreachable
<1>4. CASE GCReconcile
  BY <1>4 DEF GCReconcile, GCListInstances, GCListClaims, ResolvedIDs, GCListNodes, GCCollected,
              GCFinish, GCListError, EndPass, Listed, Terminating
<1>5. CASE SyncInformer \/ Crash \/ DeleteNodeClass \/ FinalizeNodeClass
  BY <1>5 DEF SyncInformer, Crash, EndPass, DeleteNodeClass, FinalizeNodeClass
<1>6. CASE UNCHANGED vars
  BY <1>6 DEF vars
<1> QED BY <1>1, <1>2, <1>3, <1>4, <1>5, <1>6 DEF Next

\* Instances of the compartment that Karpenter did not launch are never
\* terminated, by core or by the collector (instance.Provider.List's filter).
THEOREM ForeignInstancesSurvive == Spec => []ForeignUntouched
<1>1. Init => ForeignInv
  BY LifecycleAssumption DEF Init, ForeignInv
<1>2. ForeignInv => ForeignUntouched
  BY DEF ForeignInv, ForeignUntouched
<1> QED BY <1>1, <1>2, ForeignStep, Typing, PTL DEF Spec

-----------------------------------------------------------------------------
(* What a NodeClaim that is gone leaves behind.                            *)

\* An instance that is going down never comes back, and one that is TERMINATED
\* stays so: no step launches on, restarts or forgets an id OCI has given out.
LEMMA DownStaysDown ==
  ASSUME TypeOK, [Next]_vars, NEW i \in Instances
  PROVE  /\ state[i] = "terminated" => state'[i] = "terminated"
         /\ Terminating(i) => Terminating(i)'
<1> USE LifecycleAssumption DEF TypeOK, Terminating, clusterVars, cloudVars, gcVars
<1> DEFINE Stays == /\ state[i] = "terminated" => state'[i] = "terminated"
                    /\ Terminating(i) => Terminating(i)'
<1>1. ASSUME NEW c \in Claims, Core(c) PROVE Stays
  <2>1. ASSUME NEW answer \in {0, 200, 204, 404}, FinalizeInstance(c, answer) PROVE Stays
    BY <2>1 DEF FinalizeInstance, TerminateEffect
  <2>2. ASSUME NEW j \in Instances, NEW heard \in BOOLEAN, Launch(c, j, heard) PROVE Stays
    BY <2>2 DEF Launch
  <2> QED BY <1>1, <2>1, <2>2 DEF Core, CreateClaim, LaunchRejected, RecordProviderID,
       DeleteClaim, FinalizeUnlaunched, FinalizeNode, FinalizeTerminated
<1>2. ASSUME NEW j \in Instances, GCWorker(j) PROVE Stays
  BY <1>2 DEF GCWorker, GCSkip, GCDeleteNode, GCNode, GCTerminate, TerminateEffect
<1>3. ASSUME NEW j \in Instances, Environment(j) PROVE Stays
  BY <1>3 DEF Environment, GrowOld, FinishTerminating, RegisterNode, NodeUnreachable
<1>4. CASE GCReconcile
  BY <1>4 DEF GCReconcile, GCListInstances, GCListClaims, GCListNodes, GCCollected,
              GCFinish, GCListError
<1>5. CASE SyncInformer \/ Crash \/ DeleteNodeClass \/ FinalizeNodeClass
  BY <1>5 DEF SyncInformer, Crash, DeleteNodeClass, FinalizeNodeClass
<1>6. CASE UNCHANGED vars
  BY <1>6 DEF vars
<1> QED BY <1>1, <1>2, <1>3, <1>4, <1>5, <1>6 DEF Next

\* A NodeClaim that is gone after a step was gone before it with the same
\* provider id, or the step finalized it: it has no instance, or the answer or
\* CloudProvider.Get said that its instance is not there.
LEMMA GoneBySomeFinalizer ==
  ASSUME TypeOK, SingleHolder, [Next]_vars,
         NEW c \in Claims, claim'[c] = "gone", pid'[c] # NoInstance
  PROVE  /\ pid'[c] = pid[c]
         /\ \/ claim[c] = "gone" /\ instTerm'[c] = instTerm[c]
            \/ state'[pid[c]] = "terminated"
            \/ Terminating(pid[c])' /\ ~instTerm'[c]
<1> USE LifecycleAssumption DEF TypeOK, Terminating, clusterVars, cloudVars, gcVars
<1> DEFINE Finalized == /\ pid'[c] = pid[c]
                        /\ \/ claim[c] = "gone" /\ instTerm'[c] = instTerm[c]
                           \/ state'[pid[c]] = "terminated"
                           \/ Terminating(pid[c])' /\ ~instTerm'[c]
<1>1. ASSUME NEW d \in Claims, Core(d) PROVE Finalized
  <2>1. CASE CreateClaim(d) \/ LaunchRejected(d) \/ DeleteClaim(d) \/ RecordProviderID(d)
    BY <2>1 DEF CreateClaim, LaunchRejected, DeleteClaim, RecordProviderID
  <2>2. ASSUME NEW i \in Instances, NEW heard \in BOOLEAN, Launch(d, i, heard)
        PROVE  Finalized
    BY <2>2 DEF Launch
  <2>3. CASE FinalizeUnlaunched(d) \/ FinalizeNode(d)
    BY <2>3 DEF FinalizeUnlaunched, FinalizeNode
  <2>4. CASE FinalizeTerminated(d)
    BY <2>4 DEF FinalizeTerminated, GetNotFound
  <2>5. ASSUME NEW answer \in {0, 200, 204, 404}, FinalizeInstance(d, answer)
        PROVE  Finalized
    BY <2>5 DEF FinalizeInstance, TerminateEffect, TerminateAnswers, DeleteResult, States,
       SingleHolder
  <2> QED BY <1>1, <2>1, <2>2, <2>3, <2>4, <2>5 DEF Core
<1>2. ASSUME NEW j \in Instances, GCWorker(j) PROVE Finalized
  BY <1>2 DEF GCWorker, GCSkip, GCDeleteNode, GCNode, GCTerminate
<1>3. ASSUME NEW j \in Instances, Environment(j) PROVE Finalized
  BY <1>3 DEF Environment, GrowOld, FinishTerminating, RegisterNode, NodeUnreachable
<1>4. CASE GCReconcile
  BY <1>4 DEF GCReconcile, GCListInstances, GCListClaims, GCListNodes, GCCollected,
              GCFinish, GCListError
<1>5. CASE SyncInformer \/ Crash \/ DeleteNodeClass \/ FinalizeNodeClass
  BY <1>5 DEF SyncInformer, Crash, DeleteNodeClass, FinalizeNodeClass
<1>6. CASE UNCHANGED vars
  BY <1>6 DEF vars
<1> QED BY <1>1, <1>2, <1>3, <1>4, <1>5, <1>6 DEF Next

\* Whichever status OCI accepts a termination with, a NodeClaim that is gone
\* leaves no running instance: the one it recorded is terminating or terminated,
\* and terminated if Delete had reported success.
THEOREM ReleasedInstancesDown == Spec => []ReleasedWhenDown
<1>1. Init => SingleHolder /\ ReleasedWhenDown
  BY LifecycleAssumption DEF Init, SingleHolder, ReleasedWhenDown
<1>2. TypeOK /\ SingleHolder /\ ReleasedWhenDown /\ [Next]_vars
        => SingleHolder' /\ ReleasedWhenDown'
  <2> SUFFICES ASSUME TypeOK, SingleHolder, ReleasedWhenDown, [Next]_vars
               PROVE  ReleasedWhenDown'
    BY HolderStep
  <2> SUFFICES ASSUME NEW c \in Claims, claim'[c] = "gone", pid'[c] # NoInstance
               PROVE  /\ pid'[c] = pid[c] /\ Terminating(pid[c])'
                      /\ instTerm'[c] => state'[pid[c]] = "terminated"
    BY DEF ReleasedWhenDown, Terminating
  <2>1. /\ pid'[c] = pid[c]
        /\ \/ claim[c] = "gone" /\ instTerm'[c] = instTerm[c]
           \/ state'[pid[c]] = "terminated"
           \/ Terminating(pid[c])' /\ ~instTerm'[c]
    BY GoneBySomeFinalizer
  <2>2. pid[c] \in Instances
    BY <2>1 DEF TypeOK
  <2>3. CASE claim[c] = "gone" /\ instTerm'[c] = instTerm[c]
    BY <2>1, <2>2, <2>3, DownStaysDown DEF ReleasedWhenDown
  <2> QED BY <2>1, <2>3 DEF Terminating
<1> QED BY <1>1, <1>2, Typing, PTL DEF Spec

-----------------------------------------------------------------------------
(* The refinement of InstanceOwnership.                                    *)

\* c, not being deleted, has recorded i or is about to.
Holds(c, i) == claim[c] = "pending" /\ i \in {pid[c], created[c]}

\* The refinement mapping is well defined: nobody but c holds what c holds.
LEMMA HolderOf ==
  ASSUME SingleHolder, NEW i \in Instances
  PROVE  /\ \A c \in Claims : Holds(c, i) => Holder(i) = c
         /\ (\A c \in Claims : ~Holds(c, i)) => Holder(i) = NoClaim
<1>1. ASSUME NEW c \in Claims, Holds(c, i) PROVE Holder(i) = c
  <2>1. \A d \in Claims : Holds(d, i) => d = c
    BY <1>1 DEF Holds, SingleHolder
  <2> QED BY <1>1, <2>1 DEF Holds, Holder
<1> QED BY <1>1 DEF Holds, Holder

\* The same in the state after a step.
LEMMA HolderOfNext ==
  ASSUME SingleHolder', NEW i \in Instances
  PROVE  /\ \A c \in Claims : Holds(c, i)' => Holder(i)' = c
         /\ (\A c \in Claims : ~Holds(c, i)') => Holder(i)' = NoClaim
<1>1. ASSUME NEW c \in Claims, Holds(c, i)' PROVE Holder(i)' = c
  <2>1. \A d \in Claims : Holds(d, i)' => d = c
    BY <1>1 DEF Holds, SingleHolder
  <2> QED BY <1>1, <2>1 DEF Holds, Holder
<1> QED BY <1>1 DEF Holds, Holder

\* A step that leaves the instances as they are and gives nobody a new one is a
\* Release, of nothing if nothing changes.
LEMMA OnlyReleases ==
  ASSUME SingleHolder, SingleHolder',
         \A i \in Instances : Life(i)' = Life(i),
         \A c \in Claims : \A i \in Instances : Holds(c, i)' => Holds(c, i)
  PROVE  Ownership!Release
<1> DEFINE released == {i \in Instances : Holder(i)' = NoClaim}
<1>1. \A i \in Instances : i \notin released => Holder(i)' = Holder(i)
  BY HolderOf, HolderOfNext
<1>2. [i \in Instances |-> Holder(i)'] =
        [i \in Instances |-> IF i \in released THEN NoClaim
                             ELSE [j \in Instances |-> Holder(j)][i]]
  BY <1>1
<1>3. released \in SUBSET Instances
  OBVIOUS
<1>4. [i \in Instances |-> Life(i)'] = [i \in Instances |-> Life(i)]
  OBVIOUS
<1> HIDE DEF released
<1> QED BY <1>2, <1>3, <1>4 DEF Ownership!Release

\* A step that takes the up instance i down, and leaves the others and who holds
\* what alone, is a Terminate if nobody holds i and it is not foreign.
LEMMA OnlyTerminates ==
  ASSUME SingleHolder, SingleHolder', NEW i \in Instances \ Foreign,
         Life(i) = "up", Life(i)' = "down",
         \A j \in Instances : j # i => Life(j)' = Life(j),
         \A c \in Claims : \A j \in Instances : Holds(c, j)' <=> Holds(c, j),
         \A c \in Claims : ~Holds(c, i)
  PROVE  Ownership!Terminate(i)
<1>1. Holder(i) = NoClaim
  BY HolderOf
<1>2. [j \in Instances |-> Holder(j)'] = [j \in Instances |-> Holder(j)]
  <2> SUFFICES ASSUME NEW j \in Instances PROVE Holder(j)' = Holder(j)
    OBVIOUS
  <2> QED BY HolderOf, HolderOfNext
<1>3. [j \in Instances |-> Life(j)'] =
        [[j \in Instances |-> Life(j)] EXCEPT ![i] = "down"]
  OBVIOUS
<1> QED BY <1>1, <1>2, <1>3 DEF Ownership!Terminate

\* A step that brings the id i up is a Launch: for c if c, which held nothing,
\* holds i now and nobody else's holding changed, and for nobody if nobody's did.
LEMMA OnlyLaunches ==
  ASSUME TypeOK, SingleHolder, SingleHolder', NEW i \in Instances, NEW c \in Claims,
         NEW heard \in BOOLEAN, Launch(c, i, heard)
  PROVE  \E d \in Claims \union {NoClaim} : Ownership!Launch(i, d)
<1>1. Life(i) = "none" /\ Life(i)' = "up"
  BY DEF Life, TypeOK, Launch
<1>2. \A j \in Instances : j # i => Life(j)' = Life(j)
  BY DEF Life, TypeOK, Launch
<1>3. [j \in Instances |-> Life(j)'] = [[j \in Instances |-> Life(j)] EXCEPT ![i] = "up"]
  BY <1>1, <1>2
<1>4. \A d \in Claims : \A j \in Instances : j # i => (Holds(d, j)' <=> Holds(d, j))
  BY LifecycleAssumption DEF Holds, TypeOK, Launch, AwaitsLaunch
<1>5. \A j \in Instances : j # i => Holder(j)' = Holder(j)
  BY <1>4, HolderOf, HolderOfNext
<1>6. \A d \in Claims : ~Holds(d, i)
  BY DEF Holds, SingleHolder, Launch
<1>7. CASE heard
  <2>1. \A j \in Instances : Holder(j) # c
    <3> SUFFICES ASSUME NEW j \in Instances PROVE Holder(j) # c
      OBVIOUS
    <3>1. ~Holds(c, j)
      BY LifecycleAssumption DEF Holds, Launch, AwaitsLaunch
    <3>2. ASSUME NEW d \in Claims, Holds(d, j) PROVE Holder(j) # c
      BY <3>1, <3>2, HolderOf
    <3> QED BY <3>2, HolderOf, LifecycleAssumption
  <2>2. Holder(i)' = c
    BY <1>7, HolderOfNext DEF Holds, TypeOK, Launch, AwaitsLaunch
  <2>3. [j \in Instances |-> Holder(j)'] = [[j \in Instances |-> Holder(j)] EXCEPT ![i] = c]
    BY <1>5, <2>2
  <2>4. Ownership!Launch(i, c)
    BY <1>1, <1>3, <2>1, <2>3 DEF Ownership!Launch
  <2> QED BY <2>4
<1>8. CASE ~heard
  <2>1. \A d \in Claims : ~Holds(d, i)'
    BY <1>6, <1>8 DEF Holds, Launch
  <2>2. Holder(i)' = NoClaim
    BY <2>1, HolderOfNext
  <2>3. [j \in Instances |-> Holder(j)'] =
          [[j \in Instances |-> Holder(j)] EXCEPT ![i] = NoClaim]
    BY <1>5, <2>2
  <2>4. Ownership!Launch(i, NoClaim)
    BY <1>1, <1>3, <2>3 DEF Ownership!Launch
  <2> QED BY <2>4
<1> QED BY <1>7, <1>8

\* Core's steps: launching is a Launch; deleting a NodeClaim, and its being gone,
\* lets its instance go; only then does finalizing terminate it.
LEMMA CoreRefines ==
  ASSUME TypeOK, LifecycleInv, LifecycleInv', ForeignInv, NEW c \in Claims, Core(c)
  PROVE  Ownership!Next
<1> USE LifecycleAssumption DEF TypeOK, clusterVars, cloudVars, gcVars
<1>0. SingleHolder /\ SingleHolder'
  BY DEF LifecycleInv
<1>1. ASSUME NEW i \in Instances, NEW heard \in BOOLEAN, Launch(c, i, heard)
      PROVE  Ownership!Next
  BY <1>0, <1>1, OnlyLaunches DEF Ownership!Next
<1>2. ASSUME CreateClaim(c) \/ LaunchRejected(c) \/ RecordProviderID(c) \/ DeleteClaim(c)
             \/ FinalizeUnlaunched(c) \/ FinalizeNode(c) \/ FinalizeTerminated(c)
      PROVE  Ownership!Next
  <2>1. \A i \in Instances : Life(i)' = Life(i)
    BY <1>2 DEF Life, CreateClaim, LaunchRejected, RecordProviderID, DeleteClaim,
       FinalizeUnlaunched, FinalizeNode, FinalizeTerminated
  <2>2. \A d \in Claims : \A i \in Instances : Holds(d, i)' => Holds(d, i)
    BY <1>0, <1>2 DEF Holds, SingleHolder, CreateClaim, LaunchRejected, RecordProviderID,
       DeleteClaim, FinalizeUnlaunched, FinalizeNode, FinalizeTerminated
  <2> QED BY <1>0, <2>1, <2>2, OnlyReleases DEF Ownership!Next
<1>3. ASSUME NEW answer \in {0, 200, 204, 404}, FinalizeInstance(c, answer)
      PROVE  Ownership!Next
  <2> USE <1>3 DEF FinalizeInstance
  <2>1. pid[c] \in Instances \ Foreign
    BY DEF ForeignInv
  <2>2. \A d \in Claims : \A i \in Instances : Holds(d, i)' <=> Holds(d, i)
    BY DEF Holds
  <2>3. \A d \in Claims : ~Holds(d, pid[c])
    BY <1>0, <2>1 DEF Holds, SingleHolder
  <2>4. CASE state[pid[c]] = "up" /\ answer \in AcceptedStatuses
    <3>1. Life(pid[c]) = "up" /\ \A i \in Instances : i # pid[c] => Life(i)' = Life(i)
      BY <2>4 DEF TerminateEffect, Life
    <3>2. \A i \in Instances : i = pid[c] => Life(i)' = "down"
      BY <2>4 DEF TerminateEffect, Life
    <3> QED BY <1>0, <2>1, <2>2, <2>3, <3>1, <3>2, OnlyTerminates DEF Ownership!Next
  <2>5. CASE ~(state[pid[c]] = "up" /\ answer \in AcceptedStatuses)
    <3>1. \A i \in Instances : Life(i)' = Life(i)
      BY <2>5 DEF TerminateEffect, Life
    <3> QED BY <1>0, <2>2, <3>1, OnlyReleases DEF Ownership!Next
  <2> QED BY <2>4, <2>5
<1> QED BY <1>1, <1>2, <1>3 DEF Core

\* The collector's workers: what they terminate nobody holds and is not foreign.
LEMMA WorkerRefines ==
  ASSUME TypeOK, LifecycleInv, LifecycleInv', ForeignInv, NEW i \in Instances, GCWorker(i)
  PROVE  Ownership!Next
<1> USE LifecycleAssumption DEF TypeOK, clusterVars, cloudVars, gcVars
<1>0. SingleHolder /\ SingleHolder'
  BY DEF LifecycleInv
<1>1. \A d \in Claims : \A j \in Instances : Holds(d, j)' <=> Holds(d, j)
  BY DEF Holds, GCWorker, GCSkip, GCDeleteNode, GCNode, GCTerminate
<1>2. ASSUME NEW answer \in {0, 200, 204, 404}, GCTerminate(i, answer),
             state[i] = "up", answer \in AcceptedStatuses
      PROVE  Ownership!Next
  <2> USE <1>2 DEF GCTerminate
  <2>1. \A c \in Claims : ~Holds(c, i)
    BY DEF Collectable, OlderThan30s, LifecycleInv, PassSparesOwned, HeldInstanceFresh,
       Holds, Owned
  <2>2. i \in Instances \ Foreign
    BY DEF ForeignInv
  <2>3. Life(i) = "up" /\ Life(i)' = "down"
    BY DEF TerminateEffect, Life
  <2>4. \A j \in Instances : j # i => Life(j)' = Life(j)
    BY DEF TerminateEffect, Life
  <2> QED BY <1>0, <1>1, <2>1, <2>2, <2>3, <2>4, OnlyTerminates DEF Ownership!Next
<1>3. CASE \A j \in Instances : Life(j)' = Life(j)
  BY <1>0, <1>1, <1>3, OnlyReleases DEF Ownership!Next
<1>4. ASSUME NEW answer \in {0, 200, 204, 404}, GCTerminate(i, answer),
             ~(state[i] = "up" /\ answer \in AcceptedStatuses)
      PROVE  \A j \in Instances : Life(j)' = Life(j)
  BY <1>4 DEF GCTerminate, TerminateEffect, Life
<1>5. ASSUME NEW ok \in BOOLEAN, GCSkip(i) \/ GCDeleteNode(i, ok) \/ GCNode(i, ok)
      PROVE  \A j \in Instances : Life(j)' = Life(j)
  BY <1>5 DEF GCSkip, GCDeleteNode, GCNode, Life
<1> QED BY <1>2, <1>3, <1>4, <1>5 DEF GCWorker

\* The rest neither launches nor terminates, and gives nobody an instance: time
\* and OCI, the pass's LISTs, the informer, the NodeClass; a crash lets go of
\* what core had not recorded.
LEMMA OthersRefine ==
  ASSUME TypeOK, LifecycleInv, LifecycleInv',
         \/ \E i \in Instances : Environment(i)
         \/ GCReconcile \/ SyncInformer \/ Crash \/ DeleteNodeClass \/ FinalizeNodeClass
  PROVE  Ownership!Next
<1> USE LifecycleAssumption DEF TypeOK, clusterVars, cloudVars, gcVars
<1>0. SingleHolder /\ SingleHolder'
  BY DEF LifecycleInv
<1>1. \A j \in Instances : Life(j)' = Life(j)
  BY DEF Life, Environment, GrowOld, FinishTerminating, RegisterNode, NodeUnreachable,
     GCReconcile, GCListInstances, GCListClaims, GCListNodes, GCCollected, GCFinish,
     GCListError, SyncInformer, Crash, DeleteNodeClass, FinalizeNodeClass
<1>2. \A d \in Claims : \A j \in Instances : Holds(d, j)' => Holds(d, j)
  BY DEF Holds, Environment, GrowOld, FinishTerminating, RegisterNode, NodeUnreachable,
     GCReconcile, GCListInstances, GCListClaims, GCListNodes, GCCollected, GCFinish,
     GCListError, SyncInformer, Crash, DeleteNodeClass, FinalizeNodeClass
<1> QED BY <1>0, <1>1, <1>2, OnlyReleases DEF Ownership!Next

\* Seen through NodeClaims and instances alone, the three actors do what
\* InstanceOwnership allows, for any number of NodeClaims, instances, passes and
\* crashes, under the window assumptions: an instance goes to one NodeClaim at its
\* launch, is never taken up again once let go, and is terminated only when
\* nobody holds it. (That all of those are terminated is liveness: TLC's.)
THEOREM OwnershipRefined ==
  ASSUME RecordInWindow, PassInWindow
  PROVE  Spec => ImplementsOwnershipSafety
<1>1. Init => Ownership!Init
  <2> SUFFICES ASSUME Init PROVE Ownership!Init
    OBVIOUS
  <2>1. \A i \in Instances : Holder(i) = NoClaim
    BY LifecycleAssumption DEF Init, Holder
  <2>2. \A i \in Instances : Life(i) = IF i \in Foreign THEN "up" ELSE "none"
    BY DEF Init, Life
  <2> QED BY <2>1, <2>2 DEF Ownership!Init
<1>2. TypeOK /\ LifecycleInv /\ LifecycleInv' /\ ForeignInv /\ [Next]_vars
        => [Ownership!Next]_(Ownership!vars)
  <2> SUFFICES ASSUME TypeOK, LifecycleInv, LifecycleInv', ForeignInv, [Next]_vars
               PROVE  [Ownership!Next]_(Ownership!vars)
    OBVIOUS
  <2>1. CASE Next
    BY <2>1, CoreRefines, WorkerRefines, OthersRefine DEF Next
  <2>2. CASE UNCHANGED vars
    BY <2>2 DEF vars, clusterVars, cloudVars, Ownership!vars, Holder, Life
  <2> QED BY <2>1, <2>2
<1>3. Init => ForeignInv
  BY LifecycleAssumption DEF Init, ForeignInv
<1> QED BY <1>1, <1>2, <1>3, ForeignStep, LifecycleInvariant, Typing, PTL
        DEF Spec, ImplementsOwnershipSafety
=============================================================================
