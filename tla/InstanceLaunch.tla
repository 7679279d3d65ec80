---------------------------- MODULE InstanceLaunch ----------------------------
(***************************************************************************)
(* instance.Provider.Create from the choice of a subnet to LaunchInstance, *)
(* for several NodeClaims at once: the cached list of subnets, the count   *)
(* of free addresses one subnet after the other, and the user data, which  *)
(* the Ubuntu family makes through one object all launches share. Type and *)
(* zone are chosen in LaunchOfferings, the image in ImageResolution; a lost *)
(* answer of LaunchInstance is a matter of NodeClaimLifecycle. Endpoint,   *)
(* CA bundle and token are the same in all scripts of a process.           *)
(***************************************************************************)
EXTENDS Startup, FiniteSets, SequencesExt

CONSTANTS NodeClaims,
          Assignments,        \* functions NodeClaim -> NodeClass
          Family,             \* NodeClass -> image family
          UserData,           \* NodeClass -> its user data or Nothing
          PreInstallScript,   \* NodeClass -> its script or Nothing
          Requests,           \* NodeClaim -> pods it is made for
          Subnets,            \* the subnets the NodeClasses select
          HostBits,           \* Subnet -> bits of a host in its CIDR block, or Nothing
          Others,             \* Subnet -> addresses others use
          Blocks              \* Subnet -> the blocks OCI reports of it, its own or
                              \* another with its utilisation, in the order of the answer

VARIABLES nodeClassOf,   \* NodeClaim -> its NodeClass, which never changes
          subnetCache,   \* the list of subnets, or Nothing
          launch,        \* NodeClaim -> the launch in progress
          static,        \* staticNodeBootstrapVars
          instance       \* NodeClaim -> its instance or Nothing

launchVars == <<nodeClassOf, subnetCache, launch, static, instance>>

Idle == [pc |-> "idle"]
NoVars == [user |-> Nothing, pre |-> Nothing]

\* An instance of n is up.
Up(n) == instance[n] # Nothing /\ instance[n].up

\* Where the launch of n is, and the step back to be tried again.
At(n, pc) == launch[n].pc = pc
Fail(n) == launch' = [launch EXCEPT ![n] = Idle]

-----------------------------------------------------------------------------
(* Addresses.                                                              *)

CalculateTotalIps(s) == 2 ^ HostBits[s]

Capacity(s) == IF HostBits[s] = Nothing THEN 0 ELSE CalculateTotalIps(s)

\* A block is not overbooked before the first launch.
ASSUME SubnetAssumption ==
  /\ IsFiniteSet(NodeClaims)
  /\ \A s \in Subnets : Capacity(s) \in Nat /\ Others[s] \in 0 .. Capacity(s)

Used(s) == Others[s] + Cardinality({n \in NodeClaims : Up(n) /\ instance[n].subnet = s})

\* The utilisation of a block, in tenths of a percent.
Utilization(s, block) ==
  IF block.own THEN (1000 * Used(s)) \div CalculateTotalIps(s) ELSE block.utilization

\* A subnet whose block is in the answer is counted by the answer's first block,
\* whichever that is; one whose block is not in it counts as empty.
GetSubnetAvailableIPv4Count(s) ==
  IF HostBits[s] = Nothing THEN 0
  ELSE LET total == CalculateTotalIps(s)
           used  == IF \E i \in DOMAIN Blocks[s] : Blocks[s][i].own
                    THEN (total * Utilization(s, Blocks[s][1])) \div 1000 ELSE 0
       IN  IF used < total THEN total - used ELSE 0

-----------------------------------------------------------------------------
(* FindLeastUtilizedSubnet.                                                *)

\* The values of a map of the subnets come in any order.
Orders == SetToSeqs(Subnets)

Counting(list) == [pc |-> "count", list |-> list, i |-> 1, subnet |-> list[1], count |-> 0]

\* subnet.Provider.List, under its lock.
List(n) ==
  /\ phase = "up" /\ At(n, "idle") /\ instance[n] = Nothing
  /\ \E list \in IF subnetCache = Nothing THEN Orders ELSE {subnetCache} :
       /\ subnetCache' = list
       /\ list # <<>> /\ launch' = [launch EXCEPT ![n] = Counting(list)]
  /\ UNCHANGED <<static, instance, events>>

CacheExpires ==
  /\ Event
  /\ subnetCache # Nothing /\ subnetCache' = Nothing
  /\ UNCHANGED <<nodeClassOf, launch, static, instance>>

\* Variant: the last subnet counted is kept.
BetterLast(l) ==
  LET s == l.list[l.i] IN
  [l EXCEPT !.i = @ + 1, !.subnet = s, !.count = GetSubnetAvailableIPv4Count(s)]

\* One more subnet is counted: the first with the most free addresses is kept.
Better(l) ==
  LET s == l.list[l.i] count == GetSubnetAvailableIPv4Count(s) IN
  [l EXCEPT !.i = @ + 1,
            !.subnet = IF count > l.count THEN s ELSE @,
            !.count = IF count > @ THEN count ELSE @]

Count(n) ==
  /\ At(n, "count") /\ launch[n].i <= Len(launch[n].list)
  /\ launch' = [launch EXCEPT ![n] = Better(@)]
  /\ UNCHANGED <<subnetCache, static, instance, events>>

-----------------------------------------------------------------------------
(* User data: a text, a MIME document of several parts, or one that cannot *)
(* be read. A script is the sequence of what the new machine executes; it  *)
(* is made of the NodeClass's own parts, except those Ubuntu reads back    *)
(* from the shared variables. met, a history, has the NodeClaims that      *)
(* wrote the variables while the script was being made.                    *)

Class(n) == nodeClassOf[n]

\* A document that is not yet in MIME form becomes one of a single part.
Mimeify(u) == IF u.form = "text" THEN [form |-> "mime", parts |-> <<u.text>>] ELSE u

\* copyCustomUserDataParts, getMultiPartReader.
Readable(u) == Mimeify(u).form = "mime"

MergeCustomUserData(us) ==
  IF \A i \in DOMAIN us : Readable(us[i])
  THEN FoldLeft(LAMBDA parts, u : parts \o Mimeify(u).parts, <<>>, us) ELSE Nothing

OkeBootstrapScript == [form |-> "text", text |-> "oke-install"]

OKEScript(o) ==
  MergeCustomUserData(SelectSeq(<<o.userData, OkeBootstrapScript>>, Given))

CustomScript(o) == IF Given(o.userData) THEN <<o.userData>> ELSE <<>>

\* createKubeletConfig and the like: files made from the shared variables that
\* are the same for all launches.
Configuration == <<"kubelet-config.json", "bootstrap-kubelet.conf", "kubelet.service", "containerd.toml">>

\* The user data are the installer, run when it and its files are in place.
UbuntuScript(pre, u) == (IF Given(pre) THEN <<pre>> ELSE <<>>) \o Configuration \o <<u>>

\* The families' UserData: what of the NodeClass goes into the script.
UbuntuLinux(class) == [userData |-> UserData[class], preInstallScript |-> PreInstallScript[class]]
OracleOKELinux(class) == [userData |-> UserData[class], preInstallScript |-> PreInstallScript[class]]
Custom(class) == [userData |-> UserData[class], preInstallScript |-> Nothing]

\* An unknown family is taken for OracleOKELinux.
GetImageFamily(f) == IF f \in {"Ubuntu2204", "Custom"} THEN f ELSE "OracleOKELinux"

IsUbuntu(n) == GetImageFamily(Family[Class(n)]) = "Ubuntu2204"

\* The families whose script is made of the NodeClass alone.
OwnScript(class) ==
  IF GetImageFamily(Family[class]) = "Custom" THEN CustomScript(Custom(class))
  ELSE OKEScript(OracleOKELinux(class))

Sending(subnet, script, met) == [pc |-> "send", subnet |-> subnet, script |-> script, met |-> met]

\* Create: are there addresses enough.
Enough(n, count) == Requests[n] <= count

\* Resolver.Resolve, then Bootstrapper.Script.
Resolve(n) ==
  /\ At(n, "count") /\ launch[n].i > Len(launch[n].list)
  /\ launch' = [launch EXCEPT ![n] =
       IF ~Enough(n, @.count) THEN Idle
       ELSE IF IsUbuntu(n) THEN [pc |-> "user", subnet |-> @.subnet]
       ELSE IF OwnScript(Class(n)) = Nothing THEN Idle
       ELSE Sending(@.subnet, OwnScript(Class(n)), {})]
  /\ UNCHANGED <<subnetCache, static, instance, events>>

Scripting == {m \in NodeClaims : launch[m].pc \in {"pre", "readPre", "readUser"}}

\* The launches that are making a script learn of a write by n.
Met(n) == [m \in NodeClaims |->
             IF m \in Scripting \ {n} THEN [launch[m] EXCEPT !.met = @ \union {n}] ELSE launch[m]]

\* Variant: the variables are filled in by the first launch only.
AppliedOnce(field, value) == IF static[field] = Nothing THEN [static EXCEPT ![field] = value] ELSE static

Applied(field, value) == [static EXCEPT ![field] = value]

\* applyOptions, field by field.
ApplyUserData(n) ==
  /\ At(n, "user")
  /\ static' = Applied("user", UbuntuLinux(Class(n)).userData)
  /\ launch' = [Met(n) EXCEPT ![n] = [pc |-> "pre", subnet |-> @.subnet, met |-> {}]]
  /\ UNCHANGED <<subnetCache, instance, events>>

ApplyPreInstallScript(n) ==
  /\ At(n, "pre")
  /\ static' = Applied("pre", UbuntuLinux(Class(n)).preInstallScript)
  /\ launch' = [Met(n) EXCEPT ![n].pc = "readPre"]
  /\ UNCHANGED <<subnetCache, instance, events>>

\* createKubeletInstall, for a NodeClass that has a script: the pointer read
\* may be another's and nil, a panic that ends the reconciliation.
CreateKubeletInstall(n) ==
  /\ At(n, "readPre")
  /\ LET l == launch[n]
         pre == IF PreInstallScript[Class(n)] = Nothing THEN Nothing ELSE static.pre
     IN  IF Given(PreInstallScript[Class(n)]) /\ pre = Nothing THEN Fail(n)
         ELSE launch' = [launch EXCEPT ![n] =
                           [pc |-> "readUser", subnet |-> l.subnet, pre |-> pre, met |-> l.met]]
  /\ UNCHANGED <<subnetCache, static, instance, events>>

\* createBootstrapScript: a nil pointer panics here too.
CreateBootstrapScript(n) ==
  /\ At(n, "readUser")
  /\ LET l == launch[n] IN
     IF static.user = Nothing THEN Fail(n)
     ELSE launch' = [launch EXCEPT ![n] = Sending(l.subnet, UbuntuScript(l.pre, static.user), l.met)]
  /\ UNCHANGED <<subnetCache, static, instance, events>>

-----------------------------------------------------------------------------
(* LaunchInstance takes an address, or is refused where none is left.      *)

LaunchInstance(n) ==
  /\ At(n, "send")
  /\ LET l == launch[n] IN
     instance' = IF Used(l.subnet) < Capacity(l.subnet)
                 THEN [instance EXCEPT ![n] =
                         [up |-> TRUE, subnet |-> l.subnet, script |-> l.script, met |-> l.met]]
                 ELSE instance
  /\ Fail(n)
  /\ UNCHANGED <<subnetCache, static, events>>

\* An error of a call of OCI.
LaunchError(n) ==
  /\ launch[n].pc \in {"count", "send"}
  /\ Event /\ Fail(n)
  /\ UNCHANGED <<nodeClassOf, subnetCache, static, instance>>

LaunchStep(n) ==
  /\ \/ List(n) \/ Count(n) \/ Resolve(n)
     \/ ApplyUserData(n) \/ ApplyPreInstallScript(n)
     \/ CreateKubeletInstall(n) \/ CreateBootstrapScript(n)
     \/ LaunchInstance(n)
  /\ UNCHANGED nodeClassOf

LaunchInit ==
  /\ nodeClassOf \in Assignments
  /\ subnetCache = Nothing /\ static = NoVars
  /\ launch = [n \in NodeClaims |-> Idle]
  /\ instance = [n \in NodeClaims |-> Nothing]
=============================================================================
