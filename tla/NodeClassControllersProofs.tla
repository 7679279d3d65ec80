--------------------- MODULE NodeClassControllersProofs ---------------------
(* Proofs about NodeClassControllers, for every set of NodeClaims and specs,  *)
(* any non-empty choice of kinds and any number of edits.                     *)
EXTENDS NodeClassControllers, TLAPS

(* The type invariant.                                                        *)

\* A write of an object keeps the types of the object and of the stale copies.
LEMMA WriteType ==
  ASSUME TypeOK, NEW o \in Objects, NEW writer, Write(o, writer)
  PROVE  obj' \in Objects /\ stale' \subseteq {"cache", "st", "te"}
BY DEF Write, Holders, TypeOK

\* What the three status reconcilers put in the copy has the types of the status.
LEMMA ResolveType ==
  ASSUME TypeOK, NEW failed \in SUBSET Kinds
  PROVE  /\ [k \in Kinds |-> ResolveList(k, st.copy, failed)] \in [Kinds -> MaybeSpec]
         /\ [k \in Kinds |-> ResolveCond(k, st.copy, failed)]
              \in [Kinds -> {"Unknown", "True", "False"}]
<1>1. \A k \in Kinds : ResolveList(k, st.copy, failed) \in MaybeSpec
  BY DEF TypeOK, Objects, ResolveList, Selected, MaybeSpec
<1>2. \A k \in Kinds : ResolveCond(k, st.copy, failed) \in {"Unknown", "True", "False"}
  BY DEF TypeOK, Objects, ResolveCond
<1> QED BY <1>1, <1>2

\* The object and NodeClaims as created, NodeClaims as removed, and what idle
\* controllers keep, are well typed.
LEMMA IdleType ==
  /\ Created \in Objects
  /\ \A phase \in {"absent", "gone"} : ClaimIn(phase) \in NodeClaims
  /\ \A q \in BOOLEAN : StatusIdle(q) \in
       [pc : {"idle", "finalizer", "resolve", "patch"}, copy : Objects, queued : BOOLEAN]
  /\ HashIdle \in [pc : {"idle", "claims", "patch"}, spec : Specs, hash : MaybeSpec,
                   version : {"old", "v1"}, todo : SUBSET Claims, keep : SUBSET Claims,
                   failed : BOOLEAN]
<1>1. Created \in Objects
  BY NodeClassAssumption DEF Created, Objects, NoLists, MaybeSpec
<1>2. \A phase \in {"absent", "gone"} : ClaimIn(phase) \in NodeClaims
  BY DEF ClaimIn, NoLists, MaybeSpec, NodeClaims
<1> QED BY <1>1, <1>2, NodeClassAssumption DEF StatusIdle, HashIdle, MaybeSpec

\* The status controller's steps keep the types.
LEMMA StatusType == TypeOK /\ StatusController => TypeOK'
<1> SUFFICES ASSUME TypeOK, StatusController PROVE TypeOK'
  OBVIOUS
<1> USE DEF envVars
<1>1. CASE StatusRead
  BY <1>1 DEF StatusRead, TypeOK
<1>2. CASE StatusAddFinalizer
  <2>1. [obj EXCEPT !.fin = TRUE] \in Objects
    BY DEF TypeOK, Objects
  <2>2. CASE StatusGivesUp
    BY <1>2, <2>2, IdleType DEF StatusAddFinalizer, StatusGivesUp, TypeOK
  <2>3. CASE /\ Write([obj EXCEPT !.fin = TRUE], "st")
             /\ st' = [st EXCEPT !.pc = "resolve", !.copy = [obj EXCEPT !.fin = TRUE]]
    BY <1>2, <2>1, <2>3, WriteType DEF StatusAddFinalizer, TypeOK
  <2> QED BY <1>2, <2>2, <2>3 DEF StatusAddFinalizer
<1>3. ASSUME NEW failed \in SUBSET Kinds, StatusResolve(failed) PROVE TypeOK'
  <2> DEFINE list == [k \in Kinds |-> ResolveList(k, st.copy, failed)]
             cond == [k \in Kinds |-> ResolveCond(k, st.copy, failed)]
             q    == st.queued \/ failed # {} \/ \E k \in Kinds : cond[k] = "True"
  <2>1. list \in [Kinds -> MaybeSpec] /\ cond \in [Kinds -> {"Unknown", "True", "False"}]
    BY ResolveType
  <2>2. q \in BOOLEAN
    BY DEF TypeOK
  <2>3. \/ st' = StatusIdle(q) /\ stale' = stale \ {"st"}
        \/ /\ st' = [st EXCEPT !.pc = "patch", !.copy.list = list, !.copy.cond = cond,
                              !.queued = q]
           /\ UNCHANGED stale
    BY <1>3 DEF StatusResolve
  <2> HIDE DEF list, cond, q
  <2>4. st' \in [pc : {"idle", "finalizer", "resolve", "patch"}, copy : Objects,
                 queued : BOOLEAN]
    <3>1. [st.copy EXCEPT !.list = list, !.cond = cond] \in Objects
      BY <2>1 DEF TypeOK, Objects
    <3> QED BY <2>2, <2>3, <3>1, IdleType DEF TypeOK
  <2> QED BY <1>3, <2>3, <2>4 DEF StatusResolve, TypeOK
<1>4. CASE StatusPatch
  <2>1. [obj EXCEPT !.list = st.copy.list, !.cond = st.copy.cond] \in Objects
    BY DEF TypeOK, Objects
  <2>2. CASE StatusGivesUp
    BY <1>4, <2>2, IdleType DEF StatusPatch, StatusGivesUp, TypeOK
  <2>3. CASE /\ Write([obj EXCEPT !.list = st.copy.list, !.cond = st.copy.cond], "st")
             /\ st' = StatusIdle(st.queued)
    BY <1>4, <2>1, <2>3, WriteType, IdleType DEF StatusPatch, TypeOK
  <2> QED BY <1>4, <2>2, <2>3 DEF StatusPatch
<1> QED BY <1>1, <1>2, <1>3, <1>4 DEF StatusController

\* The hash controller's steps keep the types.
LEMMA HashType == TypeOK /\ HashController => TypeOK'
<1> SUFFICES ASSUME TypeOK, HashController PROVE TypeOK'
  OBVIOUS
<1> USE DEF envVars
<1>1. CASE HashRead
  BY <1>1 DEF HashRead, TypeOK, Objects
<1>2. CASE HashGivesUp
  BY <1>2, IdleType DEF HashGivesUp, TypeOK
<1>3. CASE HashPatch
  <2> DEFINE o == [obj EXCEPT !.hash = IF ha.hash = ha.spec THEN @ ELSE ha.spec,
                              !.version = "v1"]
  <2>1. o \in Objects
    BY DEF TypeOK, Objects, MaybeSpec
  <2>2. obj' \in Objects /\ stale' \subseteq {"cache", "st", "te"}
    BY <1>3, <2>1, WriteType DEF HashPatch, TypeOK
  <2> QED BY <1>3, <2>2, IdleType DEF HashPatch, TypeOK
<1>4. ASSUME NEW c \in Claims, HashClaim(c) PROVE TypeOK'
  <2>1. \A h \in MaybeSpec : [claim[c] EXCEPT !.version = "v1", !.hash = h] \in NodeClaims
    BY DEF TypeOK, NodeClaims
  <2>2. (IF c \in ha.keep THEN claim[c].hash ELSE ha.spec) \in MaybeSpec
    BY DEF TypeOK, NodeClaims, MaybeSpec
  <2>3. claim' \in [Claims -> NodeClaims]
    BY <1>4, <2>1, <2>2 DEF HashClaim, TypeOK
  <2> QED BY <1>4, <2>3 DEF HashClaim, TypeOK
<1>5. ASSUME NEW c \in Claims, HashClaimError(c) PROVE TypeOK'
  BY <1>5 DEF HashClaimError, TypeOK
<1> QED BY <1>1, <1>2, <1>3, <1>4, <1>5 DEF HashController

\* The termination controller's steps, the informers' and the user's keep them.
LEMMA OtherType ==
  TypeOK /\ (TerminationController \/ SyncCache \/ SyncClaims \/ User) => TypeOK'
<1> SUFFICES ASSUME TypeOK, TerminationController \/ SyncCache \/ SyncClaims \/ User
             PROVE  TypeOK'
  OBVIOUS
<1> USE DEF envVars
<1>1. CASE TerminationRead \/ TerminationList
  BY <1>1 DEF TerminationRead, TerminationList, TypeOK
<1>2. CASE TerminationPatch
  <2>1. [obj EXCEPT !.fin = FALSE, !.exists = FALSE] \in Objects
    BY DEF TypeOK, Objects
  <2>2. obj' \in Objects /\ stale' \subseteq {"cache", "st", "te"}
    BY <1>2, <2>1, WriteType DEF TerminationPatch, TypeOK
  <2> QED BY <1>2, <2>2 DEF TerminationPatch, TypeOK
<1>3. CASE SyncCache
  BY <1>3 DEF SyncCache, TypeOK
<1>4. CASE SyncClaims
  BY <1>4 DEF SyncClaims, TypeOK
<1>5. ASSUME NEW s \in Specs, EditSpec(s) PROVE TypeOK'
  <2>1. [obj EXCEPT !.spec = s] \in Objects
    BY DEF TypeOK, Objects
  <2> QED BY <1>5, <2>1, WriteType, NodeClassAssumption DEF EditSpec, TypeOK
<1>6. CASE DeleteObject
  <2>1. (IF obj.fin THEN [obj EXCEPT !.deleting = TRUE]
                    ELSE [obj EXCEPT !.exists = FALSE]) \in Objects
    BY DEF TypeOK, Objects
  <2> QED BY <1>6, <2>1, WriteType DEF DeleteObject, TypeOK
<1>7. ASSUME NEW k \in Kinds, ChangeWorld(k) PROVE TypeOK'
  BY <1>7, NodeClassAssumption DEF ChangeWorld, TypeOK
<1> QED BY <1>1, <1>2, <1>3, <1>4, <1>5, <1>6, <1>7 DEF TerminationController, User

\* Core's steps keep the types.
LEMMA CoreType == ASSUME TypeOK, NEW c \in Claims, Core(c) PROVE TypeOK'
<1> USE DEF envVars
<1>0. claim[c] \in NodeClaims
  BY DEF TypeOK
<1>1. CASE CreateClaim(c)
  <2>1. [claim[c] EXCEPT !.phase = "pending"] \in NodeClaims
    BY <1>0 DEF NodeClaims
  <2> QED BY <1>1, <2>1 DEF CreateClaim, TypeOK
<1>2. CASE LaunchBegin(c)
  <2> DEFINE inst == [k \in Kinds |-> LaunchValue(k)]
  <2>1. inst \in [Kinds -> MaybeSpec] /\ cache.spec \in MaybeSpec
    BY DEF LaunchValue, SubnetsNow, Selected, TypeOK, Objects, MaybeSpec
  <2>2. claim' = [claim EXCEPT ![c].phase = "launching", ![c].from = cache.spec,
                               ![c].inst = inst]
    BY <1>2 DEF LaunchBegin
  <2> HIDE DEF inst
  <2>3. [claim[c] EXCEPT !.phase = "launching", !.from = cache.spec, !.inst = inst]
          \in NodeClaims
    BY <1>0, <2>1 DEF NodeClaims
  <2>4. claim' \in [Claims -> NodeClaims]
    BY <2>2, <2>3 DEF TypeOK
  <2> QED BY <1>2, <2>4 DEF LaunchBegin, TypeOK
<1>3. CASE LaunchRefused(c) \/ RemoveClaim(c)
  <2>1. claim' \in [Claims -> NodeClaims]
    BY <1>3, IdleType DEF LaunchRefused, RemoveClaim, TypeOK
  <2> QED BY <1>3, <2>1 DEF LaunchRefused, RemoveClaim, TypeOK
<1>4. CASE LaunchEnd(c)
  <2>1. [claim[c] EXCEPT !.phase = "launched", !.hash = claim[c].from,
                         !.version = "v1", !.from = Nothing] \in NodeClaims
    BY <1>0 DEF NodeClaims, MaybeSpec
  <2>2. claim' \in [Claims -> NodeClaims]
    BY <1>4, <2>1 DEF LaunchEnd, TypeOK
  <2> QED BY <1>4, <2>2 DEF LaunchEnd, TypeOK
<1>5. CASE CheckDrift(c)
  <2>1. PICK d \in BOOLEAN : claim' = [claim EXCEPT ![c].drifted = d]
    BY <1>5 DEF CheckDrift, IsDrifted, Resolves, DriftReason
  <2>2. [claim[c] EXCEPT !.drifted = d] \in NodeClaims
    BY <1>0 DEF NodeClaims
  <2>3. claim' \in [Claims -> NodeClaims]
    BY <2>1, <2>2 DEF TypeOK
  <2> QED BY <1>5, <2>3 DEF CheckDrift, TypeOK
<1> QED BY <1>1, <1>2, <1>3, <1>4, <1>5 DEF Core

\* The object, its cached copy, the controllers' copies and the NodeClaims keep
\* their types in every reachable state.
THEOREM Typing == Spec => []TypeOK
<1>1. Init => TypeOK
  <2> SUFFICES ASSUME Init PROVE TypeOK
    OBVIOUS
  <2>1. claim \in [Claims -> NodeClaims] /\ world \in [Kinds -> BOOLEAN]
    BY IdleType DEF Init
  <2>2. st \in [pc : {"idle", "finalizer", "resolve", "patch"}, copy : Objects,
               queued : BOOLEAN]
    BY IdleType DEF Init
  <2>3. edits \in 0 .. MaxEdits /\ changes \in 0 .. MaxWorld
    BY NodeClassAssumption DEF Init
  <2> QED BY <2>1, <2>2, <2>3, IdleType, Zenon DEF Init, TypeOK
<1>2. TypeOK /\ [Next]_vars => TypeOK'
  <2>1. CASE UNCHANGED vars
    BY <2>1 DEF vars, envVars, TypeOK
  <2>2. CASE Next
    BY <2>2, StatusType, HashType, OtherType, CoreType DEF Next
  <2> QED BY <2>1, <2>2
<1> QED BY <1>1, <1>2, PTL DEF Spec

-----------------------------------------------------------------------------
(* The inductive invariant.                                                   *)

\* The status controller keeps the invariant: it takes its copy from the cache,
\* sets the finalizer before it resolves, resolves list and condition together,
\* and stores them only in the version it read.
LEMMA StatusStep ==
  ASSUME TypeOK, NodeClassInv, StatusController
  PROVE  NodeClassInv'
<1> USE DEF TypeOK, envVars, Active
<1>1. CASE StatusRead
  <2> USE <1>1 DEF StatusRead
  <2>1. MarksKept' /\ ReadyHasFinalizer' /\ FinalizeSeesAll' /\ LaunchedResolved'
    BY DEF NodeClassInv, MarksKept, ReadyHasFinalizer, FinalizeSeesAll, LaunchedResolved
  <2>2. CondMatchesList'
    BY DEF NodeClassInv, CondMatchesList
  <2>3. CurrentCopies'
    BY DEF NodeClassInv, CurrentCopies
  <2> QED BY <2>1, <2>2, <2>3 DEF NodeClassInv
<1>2. CASE StatusAddFinalizer
  <2> USE <1>2 DEF StatusAddFinalizer
  <2>1. CASE StatusGivesUp
    <3> USE <2>1 DEF StatusGivesUp, StatusIdle, Created
    <3>1. MarksKept' /\ ReadyHasFinalizer' /\ FinalizeSeesAll' /\ LaunchedResolved'
      BY DEF NodeClassInv, MarksKept, ReadyHasFinalizer, FinalizeSeesAll, LaunchedResolved
    <3>2. CondMatchesList'
      BY DEF NodeClassInv, CondMatchesList
    <3>3. CurrentCopies'
      BY DEF NodeClassInv, CurrentCopies
    <3> QED BY <3>1, <3>2, <3>3 DEF NodeClassInv
  <2>2. CASE /\ ~Refuses("st") /\ Write([obj EXCEPT !.fin = TRUE], "st")
             /\ st' = [st EXCEPT !.pc = "resolve", !.copy = [obj EXCEPT !.fin = TRUE]]
    <3> USE <2>2 DEF Refuses, Write, Objects
    <3>1. MarksKept' /\ ReadyHasFinalizer' /\ FinalizeSeesAll' /\ LaunchedResolved'
      BY DEF NodeClassInv, MarksKept, ReadyHasFinalizer, FinalizeSeesAll, LaunchedResolved
    <3>2. CondMatchesList'
      BY DEF NodeClassInv, CondMatchesList
    <3>3. CurrentCopies'
      BY DEF NodeClassInv, CurrentCopies, Holders, Holds
    <3> QED BY <3>1, <3>2, <3>3 DEF NodeClassInv
  <2> QED BY <2>1, <2>2
<1>3. ASSUME NEW failed \in SUBSET Kinds, StatusResolve(failed) PROVE NodeClassInv'
  <2> DEFINE list == [k \in Kinds |-> ResolveList(k, st.copy, failed)]
             cond == [k \in Kinds |-> ResolveCond(k, st.copy, failed)]
             q    == st.queued \/ failed # {} \/ \E k \in Kinds : cond[k] = "True"
  <2>1. \A k \in Kinds \ {"sg"} : cond[k] = "True" => list[k] # Nothing
    BY DEF NodeClassInv, CondMatchesList, ResolveList, ResolveCond
  <2>2. \A k \in Kinds : list[k] \in {st.copy.list[k], st.copy.spec, Nothing}
    BY DEF ResolveList, Selected
  <2>3. \/ st' = StatusIdle(q) /\ stale' = stale \ {"st"}
        \/ /\ st' = [st EXCEPT !.pc = "patch", !.copy.list = list, !.copy.cond = cond,
                              !.queued = q]
           /\ UNCHANGED stale
    BY <1>3 DEF StatusResolve
  <2>4. st.pc = "resolve" /\ UNCHANGED <<obj, cache, claim, listed, te>>
    BY <1>3 DEF StatusResolve
  <2> HIDE DEF list, cond, q
  <2>5. CASE st' = StatusIdle(q) /\ stale' = stale \ {"st"}
    <3> USE <2>4, <2>5 DEF StatusIdle, Created
    <3>1. MarksKept' /\ ReadyHasFinalizer' /\ FinalizeSeesAll' /\ LaunchedResolved'
      BY DEF NodeClassInv, MarksKept, ReadyHasFinalizer, FinalizeSeesAll, LaunchedResolved
    <3>2. CondMatchesList' /\ CurrentCopies'
      BY DEF NodeClassInv, CondMatchesList, CurrentCopies
    <3> QED BY <3>1, <3>2 DEF NodeClassInv
  <2>6. CASE /\ st' = [st EXCEPT !.pc = "patch", !.copy.list = list, !.copy.cond = cond,
                                 !.queued = q]
             /\ UNCHANGED stale
    <3> USE <2>4, <2>6 DEF Objects
    <3>1. MarksKept' /\ ReadyHasFinalizer' /\ FinalizeSeesAll' /\ LaunchedResolved'
      BY DEF NodeClassInv, MarksKept, ReadyHasFinalizer, FinalizeSeesAll, LaunchedResolved
    <3>2. st'.pc = "patch" /\ st'.copy.list = list /\ st'.copy.cond = cond
      OBVIOUS
    <3>3. CondMatchesList'
      BY <2>1, <3>2 DEF NodeClassInv, CondMatchesList
    <3>4. CurrentCopies'
      BY <2>2, <3>2 DEF NodeClassInv, CurrentCopies
    <3> QED BY <3>1, <3>3, <3>4 DEF NodeClassInv
  <2> QED BY <2>3, <2>5, <2>6
<1>4. CASE StatusPatch
  <2> USE <1>4 DEF StatusPatch
  <2>1. CASE StatusGivesUp
    <3> USE <2>1 DEF StatusGivesUp, StatusIdle, Created
    <3>1. MarksKept' /\ ReadyHasFinalizer' /\ FinalizeSeesAll' /\ LaunchedResolved'
      BY DEF NodeClassInv, MarksKept, ReadyHasFinalizer, FinalizeSeesAll, LaunchedResolved
    <3>2. CondMatchesList' /\ CurrentCopies'
      BY DEF NodeClassInv, CondMatchesList, CurrentCopies
    <3> QED BY <3>1, <3>2 DEF NodeClassInv
  <2>2. CASE /\ ~Refuses("st")
             /\ Write([obj EXCEPT !.list = st.copy.list, !.cond = st.copy.cond], "st")
             /\ st' = StatusIdle(st.queued)
    <3> USE <2>2 DEF Refuses, Write, Objects, StatusIdle, Created
    <3>1. MarksKept' /\ ReadyHasFinalizer' /\ FinalizeSeesAll' /\ LaunchedResolved'
      BY DEF NodeClassInv, MarksKept, ReadyHasFinalizer, FinalizeSeesAll, LaunchedResolved
    <3>2. CondMatchesList'
      BY DEF NodeClassInv, CondMatchesList
    <3>3. CurrentCopies'
      BY DEF NodeClassInv, CurrentCopies, Holders, Holds
    <3> QED BY <3>1, <3>2, <3>3 DEF NodeClassInv
  <2> QED BY <2>1, <2>2
<1> QED BY <1>1, <1>2, <1>3, <1>4 DEF StatusController

\* The hash controller keeps the invariant: its unlocked patch touches only the
\* annotations, and makes every copy of the object stale.
LEMMA HashStep ==
  ASSUME TypeOK, NodeClassInv, HashController
  PROVE  NodeClassInv'
<1> USE DEF TypeOK, envVars, Active
<1>1. CASE HashRead \/ HashGivesUp \/ \E c \in Claims : HashClaimError(c)
  <2>1. UNCHANGED <<obj, cache, claim, listed, stale, st, te>>
    BY <1>1 DEF HashRead, HashGivesUp, HashClaimError
  <2> QED BY <2>1 DEF NodeClassInv, MarksKept, ReadyHasFinalizer, FinalizeSeesAll,
       LaunchedResolved, CondMatchesList, CurrentCopies
<1>2. ASSUME NEW c \in Claims, HashClaim(c) PROVE NodeClassInv'
  <2> USE <1>2 DEF HashClaim
  <2>1. \A d \in Claims : claim'[d].phase = claim[d].phase /\ claim'[d].inst = claim[d].inst
    BY DEF NodeClaims
  <2>2. FinalizeSeesAll' /\ LaunchedResolved'
    BY <2>1 DEF NodeClassInv, FinalizeSeesAll, LaunchedResolved
  <2>3. MarksKept' /\ ReadyHasFinalizer' /\ CondMatchesList' /\ CurrentCopies'
    BY DEF NodeClassInv, MarksKept, ReadyHasFinalizer, CondMatchesList, CurrentCopies
  <2> QED BY <2>2, <2>3 DEF NodeClassInv
<1>3. CASE HashPatch
  <2>0. \/ UNCHANGED obj
        \/ \E h : obj' = [obj EXCEPT !.hash = h, !.version = "v1"]
    BY <1>3, Zenon DEF HashPatch, Write
  <2>1. /\ obj'.exists = obj.exists /\ obj'.deleting = obj.deleting /\ obj'.fin = obj.fin
        /\ obj'.list = obj.list /\ obj'.cond = obj.cond /\ obj'.spec = obj.spec
    BY <2>0 DEF Objects
  <2> USE <1>3 DEF HashPatch, Write
  <2>2. MarksKept' /\ ReadyHasFinalizer' /\ FinalizeSeesAll' /\ LaunchedResolved'
    BY <2>1 DEF NodeClassInv, MarksKept, ReadyHasFinalizer, FinalizeSeesAll, LaunchedResolved
  <2>3. CondMatchesList'
    BY <2>1 DEF NodeClassInv, CondMatchesList
  <2>4. CurrentCopies'
    BY <2>1 DEF NodeClassInv, CurrentCopies, Holders, Holds
  <2> QED BY <2>2, <2>3, <2>4 DEF NodeClassInv
<1> QED BY <1>1, <1>2, <1>3 DEF HashController

\* The termination controller keeps the invariant: it starts from a deletion mark
\* in the cache, which Create reads too, so no launch begins after its LIST.
LEMMA TerminationStep ==
  ASSUME TypeOK, NodeClassInv, TerminationController
  PROVE  NodeClassInv'
<1> USE DEF TypeOK, envVars, Active
<1>1. CASE TerminationRead
  BY <1>1 DEF TerminationRead, NodeClassInv, MarksKept, ReadyHasFinalizer,
     FinalizeSeesAll, LaunchedResolved, CondMatchesList, CurrentCopies
<1>2. CASE TerminationList
  BY <1>2 DEF TerminationList, NoneReferring, NodeClassInv, MarksKept, ReadyHasFinalizer,
     FinalizeSeesAll, LaunchedResolved, CondMatchesList, CurrentCopies
<1>3. CASE TerminationPatch
  <2>0. UNCHANGED obj \/ obj' = [obj EXCEPT !.fin = FALSE, !.exists = FALSE]
    BY <1>3 DEF TerminationPatch, Write
  <2>1. \/ UNCHANGED obj
        \/ /\ obj'.exists = FALSE /\ obj'.fin = FALSE /\ obj'.deleting = obj.deleting
           /\ obj'.list = obj.list /\ obj'.cond = obj.cond /\ obj'.spec = obj.spec
    BY <2>0 DEF Objects
  <2> USE <1>3 DEF TerminationPatch, Refuses, Write
  <2>2. MarksKept' /\ ReadyHasFinalizer' /\ FinalizeSeesAll' /\ LaunchedResolved'
    BY <2>1 DEF NodeClassInv, MarksKept, ReadyHasFinalizer, FinalizeSeesAll, LaunchedResolved
  <2>3. CondMatchesList'
    BY <2>1 DEF NodeClassInv, CondMatchesList
  <2>4. CurrentCopies'
    BY <2>1 DEF NodeClassInv, CurrentCopies, Holders, Holds
  <2> QED BY <2>2, <2>3, <2>4 DEF NodeClassInv
<1> QED BY <1>1, <1>2, <1>3 DEF TerminationController

\* The informers keep the invariant: the cache moves to the object as it is, and
\* the LIST to the NodeClaims as they are.
LEMMA InformerStep ==
  ASSUME TypeOK, NodeClassInv, SyncCache \/ SyncClaims
  PROVE  NodeClassInv'
<1> USE DEF TypeOK, envVars, Active
<1>1. CASE SyncCache
  BY <1>1 DEF SyncCache, NodeClassInv, MarksKept, ReadyHasFinalizer,
     FinalizeSeesAll, LaunchedResolved, CondMatchesList, CurrentCopies
<1>2. CASE SyncClaims
  BY <1>2 DEF SyncClaims, NodeClassInv, MarksKept, ReadyHasFinalizer,
     FinalizeSeesAll, LaunchedResolved, CondMatchesList, CurrentCopies
<1> QED BY <1>1, <1>2

\* The user and OCI keep the invariant: an edit makes every copy stale, and a
\* deletion only marks an object that has the finalizer, as any in use has.
LEMMA UserStep ==
  ASSUME TypeOK, NodeClassInv, User
  PROVE  NodeClassInv'
<1> USE DEF TypeOK, envVars, Active
<1>1. ASSUME NEW s \in Specs, EditSpec(s) PROVE NodeClassInv'
  <2> USE <1>1 DEF EditSpec, Write
  <2>1. /\ obj'.exists = obj.exists /\ obj'.deleting = obj.deleting /\ obj'.fin = obj.fin
        /\ obj'.list = obj.list /\ obj'.cond = obj.cond
    BY DEF Objects
  <2>2. MarksKept' /\ ReadyHasFinalizer' /\ FinalizeSeesAll' /\ LaunchedResolved'
    BY <2>1 DEF NodeClassInv, MarksKept, ReadyHasFinalizer, FinalizeSeesAll, LaunchedResolved
  <2>3. CondMatchesList'
    BY <2>1 DEF NodeClassInv, CondMatchesList
  <2>4. CurrentCopies'
    BY DEF NodeClassInv, CurrentCopies, Holders, Holds
  <2> QED BY <2>2, <2>3, <2>4 DEF NodeClassInv
<1>2. CASE DeleteObject
  <2> USE <1>2 DEF DeleteObject, Write
  <2>1. /\ obj'.fin = obj.fin /\ obj'.list = obj.list /\ obj'.cond = obj.cond
        /\ obj.fin => obj'.exists = obj.exists /\ obj'.deleting
        /\ ~obj.fin => ~obj'.exists /\ obj'.deleting = obj.deleting
    BY DEF Objects
  <2>2. MarksKept' /\ ReadyHasFinalizer' /\ FinalizeSeesAll' /\ LaunchedResolved'
    BY <2>1 DEF NodeClassInv, MarksKept, ReadyHasFinalizer, FinalizeSeesAll, LaunchedResolved
  <2>3. CondMatchesList'
    BY <2>1 DEF NodeClassInv, CondMatchesList
  <2>4. CurrentCopies'
    BY DEF NodeClassInv, CurrentCopies, Holders, Holds
  <2> QED BY <2>2, <2>3, <2>4 DEF NodeClassInv
<1>3. ASSUME NEW k \in Kinds, ChangeWorld(k) PROVE NodeClassInv'
  BY <1>3 DEF ChangeWorld, NodeClassInv, MarksKept, ReadyHasFinalizer,
     FinalizeSeesAll, LaunchedResolved, CondMatchesList, CurrentCopies
<1> QED BY <1>1, <1>2, <1>3 DEF User

\* Core keeps the invariant: a launch begins only for a listed NodeClaim, from a
\* cached object that is ready and unmarked, hence stored and with the finalizer.
LEMMA CoreStep ==
  ASSUME TypeOK, NodeClassInv, NEW c \in Claims, Core(c)
  PROVE  NodeClassInv'
<1> USE DEF envVars
<1>1. UNCHANGED <<obj, cache, listed, stale, st, te>>
  BY DEF Core, CreateClaim, LaunchBegin, LaunchRefused, LaunchEnd, RemoveClaim, CheckDrift
<1>2. MarksKept' /\ ReadyHasFinalizer' /\ CondMatchesList' /\ CurrentCopies'
  BY <1>1 DEF NodeClassInv, MarksKept, ReadyHasFinalizer, CondMatchesList, CurrentCopies
<1>3. \A d \in Claims : d # c => claim'[d] = claim[d]
  BY DEF Core, CreateClaim, LaunchBegin, LaunchRefused, LaunchEnd, RemoveClaim, CheckDrift,
     TypeOK
<1>4. CASE LaunchBegin(c)
  <2>1. c \in listed /\ cache.exists /\ ~cache.deleting /\ Ready
    BY <1>4 DEF LaunchBegin, Resolves
  <2>2. PICK k \in Kinds : cache.cond[k] = "True"
    BY <2>1, NodeClassAssumption DEF Ready
  <2>3. obj.exists /\ obj.fin
    BY <2>1, <2>2 DEF NodeClassInv, ReadyHasFinalizer, MarksKept
  <2>4. FinalizeSeesAll'
    BY <1>1, <1>3, <2>1, <2>3 DEF NodeClassInv, FinalizeSeesAll, Active, TypeOK
  <2>5. claim'[c].inst = [k2 \in Kinds |-> LaunchValue(k2)]
    BY <1>4 DEF LaunchBegin, TypeOK, NodeClaims
  <2>6. \A k2 \in Kinds \ {"sg"} : LaunchValue(k2) # Nothing
    BY <1>4, <2>1 DEF LaunchBegin, LaunchValue, Ready, NodeClassInv, CondMatchesList
  <2>7. LaunchedResolved'
    BY <1>3, <2>5, <2>6 DEF NodeClassInv, LaunchedResolved
  <2> QED BY <1>2, <2>4, <2>7 DEF NodeClassInv
<1>5. ASSUME CreateClaim(c) \/ LaunchRefused(c) \/ LaunchEnd(c) \/ RemoveClaim(c)
             \/ CheckDrift(c)
      PROVE  Active(c)' => Active(c) /\ claim'[c].inst = claim[c].inst
  BY <1>5 DEF CreateClaim, LaunchRefused, LaunchEnd, RemoveClaim, CheckDrift, ClaimIn,
     Active, TypeOK, NodeClaims
<1>6. CASE Active(c)' => Active(c) /\ claim'[c].inst = claim[c].inst
  <2>1. FinalizeSeesAll'
    BY <1>1, <1>3, <1>6 DEF NodeClassInv, FinalizeSeesAll, Active
  <2>2. LaunchedResolved'
    BY <1>3, <1>6 DEF NodeClassInv, LaunchedResolved, Active
  <2> QED BY <1>2, <2>1, <2>2 DEF NodeClassInv
<1> QED BY <1>4, <1>5, <1>6 DEF Core

\* Every reachable state satisfies the inductive invariant.
LEMMA NodeClassInvariant == Spec => []NodeClassInv
<1>1. Init => NodeClassInv
  BY DEF Init, Created, StatusIdle, ClaimIn, NodeClassInv, MarksKept, ReadyHasFinalizer,
     FinalizeSeesAll, LaunchedResolved, CondMatchesList, CurrentCopies, Active
<1>2. TypeOK /\ NodeClassInv /\ [Next]_vars => NodeClassInv'
  <2> SUFFICES ASSUME TypeOK, NodeClassInv, [Next]_vars PROVE NodeClassInv'
    OBVIOUS
  <2>1. CASE UNCHANGED vars
    BY <2>1 DEF vars, NodeClassInv, MarksKept, ReadyHasFinalizer, FinalizeSeesAll,
       LaunchedResolved, CondMatchesList, CurrentCopies, Active
  <2>2. CASE Next
    BY <2>2, StatusStep, HashStep, TerminationStep, InformerStep, UserStep, CoreStep DEF Next
  <2> QED BY <2>1, <2>2
<1> QED BY <1>1, <1>2, Typing, PTL DEF Spec

\* The object outlives every instance launched from it, whatever the interleaving
\* of Create, finalize, the informers and the user ("should not delete the
\* OciNodeClass until all associated NodeClaims are terminated").
THEOREM ObjectOutlivesInstances == Spec => []OutlivesInstances
<1>1. NodeClassInv => OutlivesInstances
  BY DEF NodeClassInv, FinalizeSeesAll, OutlivesInstances, Active
<1> QED BY <1>1, NodeClassInvariant, PTL

\* No instance is launched, or runs, with an empty image or subnet list, whatever
\* became of the lists since the object was ready.
THEOREM InstancesResolved == Spec => []LaunchedResolved
<1>1. NodeClassInv => LaunchedResolved
  BY DEF NodeClassInv
<1> QED BY <1>1, NodeClassInvariant, PTL

\* Only StatusPatch stores a list, and then of the version of the object it read:
\* what it resolved, it resolved from the spec that is stored now.
THEOREM StatusIsOfCurrentSpec == Spec => StatusOfCurrentSpec
<1> DEFINE Stored == \A k \in Kinds :
             obj'.list[k] \notin {obj.list[k], Nothing} => obj'.list[k] = obj.spec
<1>1. TypeOK /\ NodeClassInv /\ [Next]_vars => [Stored]_vars
  <2> SUFFICES ASSUME TypeOK, NodeClassInv, Next PROVE Stored
    BY DEF vars
  <2> USE DEF TypeOK, envVars
  <2>1. CASE StatusPatch
    <3>1. \/ UNCHANGED obj
          \/ "st" \notin stale /\ obj' = [obj EXCEPT !.list = st.copy.list, !.cond = st.copy.cond]
      BY <2>1 DEF StatusPatch, StatusGivesUp, Refuses, Write
    <3>2. \/ UNCHANGED obj
          \/ "st" \notin stale /\ obj'.list = st.copy.list
      BY <3>1 DEF Objects
    <3> QED BY <2>1, <3>2 DEF StatusPatch, NodeClassInv, CurrentCopies
  <2>2. CASE obj'.list = obj.list
    BY <2>2
  <2>3. ASSUME StatusController, ~StatusPatch PROVE obj'.list = obj.list
    <3>1. UNCHANGED obj \/ obj' = [obj EXCEPT !.fin = TRUE]
      BY <2>3 DEF StatusController, StatusRead, StatusAddFinalizer, StatusGivesUp,
         StatusResolve, Write
    <3> QED BY <3>1 DEF Objects
  <2>4. ASSUME HashController PROVE obj'.list = obj.list
    <3>1. UNCHANGED obj \/ \E h : obj' = [obj EXCEPT !.hash = h, !.version = "v1"]
      BY <2>4, Zenon DEF HashController, HashRead, HashGivesUp, HashClaim, HashClaimError,
         HashPatch, Write
    <3> QED BY <3>1 DEF Objects
  <2>5. ASSUME TerminationController \/ SyncCache \/ SyncClaims PROVE obj'.list = obj.list
    <3>1. UNCHANGED obj \/ obj' = [obj EXCEPT !.fin = FALSE, !.exists = FALSE]
      BY <2>5 DEF TerminationController, TerminationRead, TerminationList, TerminationPatch,
         SyncCache, SyncClaims, Write
    <3> QED BY <3>1 DEF Objects
  <2>6. ASSUME User PROVE obj'.list = obj.list
    <3>1. \/ UNCHANGED obj
          \/ obj' = [obj EXCEPT !.deleting = TRUE] \/ obj' = [obj EXCEPT !.exists = FALSE]
          \/ \E s \in Specs : obj' = [obj EXCEPT !.spec = s]
      BY <2>6 DEF User, DeleteObject, EditSpec, ChangeWorld, Write
    <3> QED BY <3>1 DEF Objects
  <2>7. ASSUME NEW c \in Claims, Core(c) PROVE obj'.list = obj.list
    BY <2>7 DEF Core, CreateClaim, LaunchBegin, LaunchRefused, LaunchEnd, RemoveClaim,
       CheckDrift
  <2> QED BY <2>1, <2>2, <2>3, <2>4, <2>5, <2>6, <2>7 DEF Next
<1> QED BY <1>1, NodeClassInvariant, Typing, PTL DEF Spec, StatusOfCurrentSpec

-----------------------------------------------------------------------------
(* Drift.                                                                     *)

\* In whatever order OCI lists the VNICs, the primary one is there, it is the
\* only primary one, and it has what the instance was launched with.
LEMMA PrimaryIsOwn ==
  ASSUME NEW c \in Claims, NEW vnics \in GetVnicAttachments(c)
  PROVE  /\ \E i \in DOMAIN vnics : vnics[i].primary
         /\ \A i \in DOMAIN vnics : vnics[i].primary => vnics[i].has = claim[c].inst
<1> DEFINE own == [primary |-> TRUE, has |-> claim[c].inst]
           added == [primary |-> FALSE, has |-> [k \in Kinds |-> "elsewhere"]]
<1>1. vnics \in {<<own>>, <<own, added>>, <<added, own>>, <<added, own, added>>}
  BY DEF GetVnicAttachments
<1>2. own.primary = TRUE /\ own.has = claim[c].inst /\ added.primary = FALSE
  OBVIOUS
<1> HIDE DEF own, added
<1>3. CASE vnics = <<own>>
  BY <1>2, <1>3
<1>4. CASE vnics = <<own, added>>
  BY <1>2, <1>4
<1>5. CASE vnics = <<added, own>>
  BY <1>2, <1>5
<1>6. CASE vnics = <<added, own, added>>
  BY <1>2, <1>6
<1> QED BY <1>1, <1>3, <1>4, <1>5, <1>6

\* GetSubnets may stop early and may return nothing, but returns no subnet of
\* another VNIC; GetSecurityGroups returns exactly those of the primary one.
LEMMA VnicsOfInstance ==
  ASSUME NEW c \in Claims, NEW vnics \in GetVnicAttachments(c)
  PROVE  /\ GetSubnets(vnics) \subseteq {claim[c].inst["subnet"]}
         /\ GetSecurityGroups(vnics) = {claim[c].inst["sg"]}
BY PrimaryIsOwn DEF GetSubnets, GetSecurityGroups

\* A step that reports an instance drifted finds something it was launched with
\* that the cached status no longer has, never a VNIC that was attached since.
THEOREM DriftIsOfLaunched == Spec => DriftOfLaunched
<1> DEFINE Reported == \A c \in Claims : (claim'[c].drifted /\ ~claim[c].drifted) =>
             \E k \in Kinds : claim[c].inst[k] # cache.list[k]
<1>1. TypeOK /\ [Next]_vars => [Reported]_vars
  <2> SUFFICES ASSUME TypeOK, Next,
                      NEW c \in Claims, claim'[c].drifted, ~claim[c].drifted
               PROVE  \E k \in Kinds : claim[c].inst[k] # cache.list[k]
    BY DEF vars
  <2>1. CASE CheckDrift(c)
    <3>1. PICK vnics \in GetVnicAttachments(c) :
            claim' = [claim EXCEPT ![c].drifted = IsDrifted(c, vnics)]
      BY <2>1 DEF CheckDrift
    <3>2. IsDrifted(c, vnics)
      BY <3>1 DEF TypeOK, NodeClaims
    <3>3. DriftReason(c, vnics)
      BY <3>2 DEF IsDrifted
    <3>4. CASE "image" \in Kinds /\ ImageDrifted(c)
      BY <3>4 DEF ImageDrifted
    <3>5. CASE "sg" \in Kinds /\ SecurityGroupDrifted(vnics)
      BY <3>5, VnicsOfInstance DEF SecurityGroupDrifted
    <3>6. CASE "subnet" \in Kinds /\ SubnetDrifted(vnics)
      BY <3>6, VnicsOfInstance DEF SubnetDrifted
    <3> QED BY <3>3, <3>4, <3>5, <3>6 DEF DriftReason
  <2>2. CASE claim'[c].drifted = claim[c].drifted
    BY <2>2
  <2>3. ASSUME StatusController \/ TerminationController \/ SyncCache \/ SyncClaims \/ User
        PROVE  claim'[c].drifted = claim[c].drifted
    BY <2>3 DEF StatusController, StatusRead, StatusAddFinalizer, StatusResolve, StatusPatch,
       TerminationController, TerminationRead, TerminationList, TerminationPatch,
       SyncCache, SyncClaims, User, DeleteObject, EditSpec, ChangeWorld
  <2>4. ASSUME HashController PROVE claim'[c].drifted = claim[c].drifted
    <3>1. CASE \E d \in Claims : HashClaim(d)
      BY <3>1 DEF HashClaim, TypeOK, NodeClaims
    <3> QED BY <2>4, <3>1 DEF HashController, HashRead, HashGivesUp, HashClaimError, HashPatch
  <2>5. ASSUME NEW d \in Claims, Core(d), ~CheckDrift(c)
        PROVE  claim'[c].drifted = claim[c].drifted
    <3>1. CASE CreateClaim(d) \/ LaunchEnd(d) \/ LaunchBegin(d)
      BY <3>1 DEF CreateClaim, LaunchEnd, LaunchBegin, TypeOK, NodeClaims
    <3>2. CASE LaunchRefused(d) \/ RemoveClaim(d)
      <4>1. claim' = [claim EXCEPT ![d] = ClaimIn("gone")] /\ ~ClaimIn("gone").drifted
        BY <3>2 DEF LaunchRefused, RemoveClaim, ClaimIn
      <4> QED BY <4>1 DEF TypeOK
    <3>3. CASE CheckDrift(d)
      BY <2>5, <3>3 DEF CheckDrift, TypeOK
    <3> QED BY <2>5, <3>1, <3>2, <3>3 DEF Core
  <2> QED BY <2>1, <2>2, <2>3, <2>4, <2>5 DEF Next
<1> QED BY <1>1, Typing, PTL DEF Spec, DriftOfLaunched
=============================================================================
