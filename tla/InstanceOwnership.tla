--------------------------- MODULE InstanceOwnership ---------------------------
(***************************************************************************)
(* What Karpenter promises about the instances of a compartment, without   *)
(* its controllers, caches and calls: an instance is launched for a        *)
(* NodeClaim, which holds it from the launch on if it hears of it, and     *)
(* lets it go once; it is terminated only when nobody holds it, and then   *)
(* always; instances of others are left alone.                             *)
(***************************************************************************)
CONSTANTS Claims, Instances, Foreign, NoClaim

VARIABLES life,     \* [Instances -> "none", "up" or "down"]
          holder    \* [Instances -> the NodeClaim that holds it, or NoClaim]

vars == <<life, holder>>

Init ==
  /\ life = [i \in Instances |-> IF i \in Foreign THEN "up" ELSE "none"]
  /\ holder = [i \in Instances |-> NoClaim]

\* c is NoClaim if no NodeClaim hears of the launch.
Launch(i, c) ==
  /\ life[i] = "none"
  /\ \A j \in Instances : c # NoClaim => holder[j] # c
  /\ life' = [life EXCEPT ![i] = "up"]
  /\ holder' = [holder EXCEPT ![i] = c]

\* NodeClaims let their instances go; a crash may make several do so.
Release ==
  /\ \E released \in SUBSET Instances :
       holder' = [i \in Instances |-> IF i \in released THEN NoClaim ELSE holder[i]]
  /\ UNCHANGED life

Terminate(i) ==
  /\ life[i] = "up" /\ holder[i] = NoClaim /\ i \notin Foreign
  /\ life' = [life EXCEPT ![i] = "down"]
  /\ UNCHANGED holder

Next ==
  \/ Release
  \/ \E i \in Instances : Terminate(i) \/ \E c \in Claims \union {NoClaim} : Launch(i, c)

\* What is up and held by nobody does not stay up.
Collected ==
  \A i \in Instances \ Foreign : (life[i] = "up" /\ holder[i] = NoClaim) ~> life[i] = "down"

Spec == Init /\ [][Next]_vars /\ Collected
=============================================================================
