------------------------------- MODULE Provider -------------------------------
(***************************************************************************)
(* One operator process with its environment: it is started and killed, it *)
(* launches the instances of NodeClaims, several at a time, and tags them  *)
(* once their Nodes are known, while others use the subnets, the user      *)
(* edits tags and deletes NodeClaims, and calls fail.                      *)
(***************************************************************************)
EXTENDS InstanceTagging

vars == <<startVars, events, launchVars, taggingVars>>

Init == StartInit /\ LaunchInit /\ TaggingInit

-----------------------------------------------------------------------------

\* A start that succeeds lists the NodeClaims anew.
Boot ==
  /\ StartNext
  /\ queue' = IF phase' = "up" THEN {n \in NodeClaims : IsTaggable(n)} ELSE queue
  /\ UNCHANGED launchVars
  /\ UNCHANGED <<freeFormTags, tags, given, named, deleting, tagged, tagger>>

Crash ==
  /\ Event /\ Killed
  /\ subnetCache' = Nothing /\ static' = NoVars
  /\ launch' = [n \in NodeClaims |-> Idle]
  /\ queue' = {} /\ tagger' = Resting
  /\ UNCHANGED <<nodeClassOf, instance, freeFormTags, tags, given, named, deleting, tagged>>

Launching ==
  /\ \/ \E n \in NodeClaims : LaunchStep(n) \/ LaunchError(n)
     \/ CacheExpires
  /\ UNCHANGED <<startVars, taggingVars>>

Tagging ==
  /\ TaggerStep \/ TagUpdateError \/ TagError
  /\ UNCHANGED <<startVars, launchVars>>

\* The user deletes a NodeClaim; core has its instance terminated.
Delete(n) ==
  /\ Up(n) /\ n \notin deleting /\ Event
  /\ deleting' = deleting \union {n}
  /\ UNCHANGED <<startVars, launchVars>>
  /\ UNCHANGED <<freeFormTags, tags, given, named, tagged, queue, tagger>>

Terminate(n) ==
  /\ phase = "up" /\ n \in deleting /\ Up(n)
  /\ instance' = [instance EXCEPT ![n].up = FALSE]
  /\ UNCHANGED <<nodeClassOf, subnetCache, launch, static>>
  /\ UNCHANGED <<startVars, events, taggingVars>>

Environment ==
  /\ (\E n \in NodeClaims : Register(n)) \/ EditTags
  /\ UNCHANGED <<startVars, launchVars>>

Next ==
  \/ Boot \/ Crash \/ Launching \/ Tagging \/ Environment
  \/ \E n \in NodeClaims : Delete(n) \/ Terminate(n)

\* Kubernetes starts the container again, goroutines are scheduled, a failed
\* reconciliation is tried again. The environment need not do anything.
Fairness ==
  /\ WF_vars(Boot)
  /\ \A n \in NodeClaims :
       WF_vars(LaunchStep(n) /\ UNCHANGED <<startVars, taggingVars>>)
  /\ WF_vars(TaggerStep /\ UNCHANGED <<startVars, launchVars>>)

Spec == Init /\ [][Next]_vars /\ Fairness

-----------------------------------------------------------------------------
(* Properties.                                                             *)

TypeOK ==
  /\ StartTypeOK
  /\ subnetCache = Nothing \/ subnetCache \in Orders
  /\ \A s \in Subnets : Used(s) \in 0 .. Capacity(s)
  /\ static.user \in {Nothing} \union {UserData[Class(n)] : n \in NodeClaims}
  /\ \A n \in NodeClaims : launch[n].pc \in {"idle", "count", "user", "pre", "readPre", "readUser", "send"}
  /\ freeFormTags \subseteq Tags /\ \A n \in NodeClaims : tags[n] \subseteq Tags
  /\ queue \subseteq named /\ named \subseteq {n \in NodeClaims : instance[n] # Nothing}
  /\ tagger.pc \in {"idle", "get", "update", "annotate"}

\* The script of r, a launch of n or its instance, is made of what n and the
\* launches that met it wrote.
OverlapScript(n, r) ==
  IF IsUbuntu(n)
  THEN \E m, k \in {n} \union r.met : r.script = UbuntuScript(PreInstallScript[Class(m)], UserData[Class(k)])
  ELSE r.script = OwnScript(Class(n))

(* The script an instance was launched with is that of its NodeClass; with *)
(* Ubuntu, user data and the script before them may each be those of one   *)
(* whose launch wrote the shared variables while this script was made, but *)
(* never of a launch that was over (applyOptions, customBootstrapScript).  *)
ScriptOfOverlap == \A n \in NodeClaims : Up(n) => OverlapScript(n, instance[n])

(* An instance whose NodeClaim is annotated as tagged has every tag of its *)
(* NodeClass that the pass which annotated it read, through failing calls, *)
(* calls repeated after they had their effect, crashes and edits, unless   *)
(* an earlier pass gave it tags it had read before an edit: UpdateInstance *)
(* replaces, and only missing tags are sent (tagInstance, CreateTags).     *)
TaggedComplete ==
  \A n \in NodeClaims :
    (tagged[n] # Nothing /\ Up(n) /\ given[n] \subseteq {tagged[n]}) => tagged[n] \subseteq tags[n]

(* With a deployment that has what is asked for, the process comes up in   *)
(* the end, what the file lacks being found in the instance metadata       *)
(* (Complete, Validate, NewOCIProvisioner).                                *)
EventuallyUp == []<>(phase = "up")

\* Some subnet has addresses for the pods of n.
Room(n) == \E s \in Subnets : Capacity(s) - Used(s) >= Requests[n]

\* What OCI reports hides the room there is for n, or makes a full subnet look
\* as free as any.
Misled(n) ==
  \/ \A s \in Subnets : GetSubnetAvailableIPv4Count(s) < Requests[n]
  \/ \E s \in Subnets :
       /\ Used(s) = Capacity(s)
       /\ \A r \in Subnets : GetSubnetAvailableIPv4Count(r) <= GetSubnetAvailableIPv4Count(s)

(* A NodeClaim is launched in the end unless no subnet has room for it or  *)
(* the blocks reported of one mislead: two launches that counted the same  *)
(* addresses, a subnet that filled up meanwhile, a miscounted one that is  *)
(* not the freest, or a script that panicked only delay it                 *)
(* (FindLeastUtilizedSubnet, GetSubnetAvailableIPv4Count, Create).         *)
EventuallyPlaced ==
  \A n \in NodeClaims : <>[](instance[n] # Nothing \/ ~Room(n) \/ Misled(n))

(* A NodeClaim whose Node is known is annotated in the end unless it is    *)
(* deleted: every error of a pass leads to another one (Reconcile).        *)
EventuallyTagged == \A n \in NodeClaims : n \in named ~> (tagged[n] # Nothing \/ n \in deleting)

-----------------------------------------------------------------------------
(* What the proofs need.                                                   *)

\* A process that is being started has its options and its configuration.
BootForm ==
  phase \in {"config", "identity", "clients"} => boot = [options |-> boot.options, config |-> boot.config]

\* What a launch knows where it is.
LaunchForm(l) ==
  \/ l = Idle
  \/ l.pc = "count" /\ l = [pc |-> "count", list |-> l.list, i |-> l.i, subnet |-> l.subnet, count |-> l.count]
  \/ l.pc = "user" /\ l = [pc |-> "user", subnet |-> l.subnet]
  \/ l.pc \in {"pre", "readPre"} /\ l = [pc |-> l.pc, subnet |-> l.subnet, met |-> l.met]
  \/ l.pc = "readUser" /\ l = [pc |-> "readUser", subnet |-> l.subnet, pre |-> l.pre, met |-> l.met]
  \/ l.pc = "send" /\ l = Sending(l.subnet, l.script, l.met)

\* A NodeClaim is launched only while it has no instance.
LaunchForms ==
  /\ static = [user |-> static.user, pre |-> static.pre]
  /\ launch = [n \in NodeClaims |-> launch[n]] /\ instance = [n \in NodeClaims |-> instance[n]]
  /\ \A n \in NodeClaims :
       /\ LaunchForm(launch[n])
       /\ launch[n] # Idle => instance[n] = Nothing
       /\ \/ instance[n] = Nothing
          \/ LET i == instance[n] IN
             i = [up |-> i.up, subnet |-> i.subnet, script |-> i.script, met |-> i.met] /\ i.up \in BOOLEAN

\* Why no script has parts of a launch that was over: from its own write on,
\* the shared variables are those of n or of one that n has met.
OverlapOf(n) ==
  LET l == launch[n] IN
  /\ l.pc \in {"user", "pre", "readPre", "readUser"} => IsUbuntu(n)
  /\ n \in Scripting => \E k \in {n} \union l.met : static.user = UserData[Class(k)]
  /\ l.pc = "readPre" => \E m \in {n} \union l.met : static.pre = PreInstallScript[Class(m)]
  /\ l.pc = "readUser" => \E m \in {n} \union l.met : l.pre = PreInstallScript[Class(m)]
  /\ l.pc = "send" => OverlapScript(n, l)
OverlapInv == \A n \in NodeClaims : OverlapOf(n)

\* Why an annotated instance has its tags: as long as all passes that gave it
\* tags read the same ones, the first of them gave it all and the others, and
\* the attempts of one call, have nothing to take away.
TaggingForms ==
  /\ freeFormTags \subseteq Tags /\ tags \in [NodeClaims -> SUBSET Tags]
  /\ given = [n \in NodeClaims |-> given[n]]
  /\ tagged = [n \in NodeClaims |-> tagged[n]]
  /\ named \subseteq NodeClaims /\ queue \subseteq named
  /\ tagger # Resting => tagger.n \in named /\ tagger.read \subseteq Tags

\* All passes that gave the instance of n tags read r.
OnlyGiven(n, r) == given[n] \subseteq {r}

TaggingInv ==
  /\ LET t == tagger IN
     \/ t = Resting
     \/ t.pc = "get" /\ t = [pc |-> "get", n |-> t.n, read |-> t.read]
     \/ /\ t.pc = "update" /\ t.missing \subseteq Tags
        /\ OnlyGiven(t.n, t.read) => t.missing = t.read
        /\ t = [pc |-> "update", n |-> t.n, read |-> t.read, missing |-> t.missing, attempt |-> t.attempt]
     \/ /\ t.pc = "annotate"
        /\ OnlyGiven(t.n, t.read) => t.read \subseteq tags[t.n]
        /\ t = [pc |-> "annotate", n |-> t.n, read |-> t.read]
  /\ \A n \in NodeClaims :
       /\ given[n] = {} => tags[n] = {}
       /\ \A r \in given[n] : OnlyGiven(n, r) => tags[n] = r
       /\ tagged[n] = Nothing \/ (OnlyGiven(n, tagged[n]) => tagged[n] \subseteq tags[n])

ProviderInv == BootForm /\ LaunchForms /\ OverlapInv /\ TaggingForms /\ TaggingInv
=============================================================================
