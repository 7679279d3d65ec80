---------------------------- MODULE ProviderProofs ----------------------------
(* Proofs about Provider, for every set of NodeClaims, NodeClasses, subnets, *)
(* tags and deployments and every number of disturbances.                  *)
EXTENDS Provider, FiniteSetTheorems, TLAPS

-----------------------------------------------------------------------------
(* The start of the process.                                               *)

\* A step that is no start and no crash leaves the start alone.
LEMMA StartAlone ==
  ASSUME [Next]_vars
  PROVE  Boot \/ Crash \/ UNCHANGED startVars
BY DEF Next, vars, Launching, Tagging, Environment, Delete, Terminate, startVars

\* One step of a start keeps what is known of its options and configuration.
LEMMA StartStep ==
  ASSUME BootForm, [Next]_vars
  PROVE  BootForm'
<1> USE DEF BootForm
<1>1. CASE UNCHANGED startVars
  BY <1>1 DEF startVars
<1>2. CASE Crash
  BY <1>2 DEF Crash, Killed, Exit
<1>3. CASE Boot /\ Start
  BY <1>3 DEF Start, AuthMethod, Exit
<1>4. CASE Boot /\ NewOCIProvisioner
  <2>1. CASE Exit
    BY <2>1 DEF Exit
  <2>2. ASSUME NEW p, boot' = [boot EXCEPT !.config = p]
        PROVE  BootForm'
    <3>1. boot' = [options |-> boot.options, config |-> p]
      BY <1>4, <2>2 DEF NewOCIProvisioner
    <3> QED  BY <3>1
  <2> QED  BY <1>4, <2>1, <2>2 DEF NewOCIProvisioner
<1>5. CASE Boot /\ ListAvailabilityDomains
  BY <1>5 DEF ListAvailabilityDomains, Exit
<1>6. CASE Boot /\ NewOperator
  BY <1>6 DEF NewOperator, Exit
<1> QED  BY StartAlone, <1>1, <1>2, <1>3, <1>4, <1>5, <1>6 DEF Boot, StartNext

-----------------------------------------------------------------------------
(* Tagging.                                                                *)

\* An update that takes effect: as long as all passes read what this one read,
\* the instance has just that.
LEMMA TagsReplaced ==
  ASSUME TaggingForms, TaggingInv, tagger.pc = "update", Tagged(tagger), UNCHANGED tagged
  PROVE  /\ tags' \in [NodeClaims -> SUBSET Tags] /\ given' = [n \in NodeClaims |-> given'[n]]
         /\ given'[tagger.n] \subseteq {tagger.read} =>
              tags'[tagger.n] = tagger.read /\ tagger.missing = tagger.read
         /\ \A n \in NodeClaims :
              /\ given'[n] = {} => tags'[n] = {}
              /\ \A r \in given'[n] : OnlyGiven(n, r)' => tags'[n] = r
              /\ tagged'[n] = Nothing \/ (OnlyGiven(n, tagged[n])' => tagged'[n] \subseteq tags'[n])
<1> DEFINE t == tagger
<1>1. t.n \in NodeClaims /\ t.missing \subseteq Tags /\ (OnlyGiven(t.n, t.read) => t.missing = t.read)
  BY DEF TaggingForms, TaggingInv, Resting
<1>2. tags' = [tags EXCEPT ![t.n] = t.missing] /\ given' = [given EXCEPT ![t.n] = @ \union {t.read}]
  BY DEF Tagged, Updated
<1>3. /\ tags' \in [NodeClaims -> SUBSET Tags] /\ tags'[t.n] = t.missing
      /\ \A n \in NodeClaims : n # t.n => tags'[n] = tags[n]
  BY <1>1, <1>2 DEF TaggingForms
<1>4. /\ given' = [n \in NodeClaims |-> given'[n]] /\ given'[t.n] = given[t.n] \union {t.read}
      /\ \A n \in NodeClaims : n # t.n => given'[n] = given[n]
  BY <1>1, <1>2 DEF TaggingForms
<1>5. ASSUME NEW r, given'[t.n] \subseteq {r}  PROVE r = t.read /\ tags'[t.n] = r
  <2>1. r = t.read
    BY <1>4, <1>5
  <2> QED  BY <1>1, <1>3, <1>4, <1>5, <2>1 DEF OnlyGiven
<1>6. given'[t.n] \subseteq {t.read} => tags'[t.n] = t.read /\ t.missing = t.read
  BY <1>3, <1>4, <1>1 DEF OnlyGiven
<1>7. ASSUME NEW n \in NodeClaims
      PROVE  /\ given'[n] = {} => tags'[n] = {}
             /\ \A r \in given'[n] : OnlyGiven(n, r)' => tags'[n] = r
             /\ tagged'[n] = Nothing \/ (OnlyGiven(n, tagged[n])' => tagged'[n] \subseteq tags'[n])
  <2>1. CASE n = t.n
    BY <1>4, <1>5, <2>1 DEF OnlyGiven
  <2>2. CASE n # t.n
    BY <1>3, <1>4, <2>2 DEF OnlyGiven, TaggingInv
  <2> QED  BY <2>1, <2>2
<1> QED  BY <1>3, <1>4, <1>6, <1>7

\* One step keeps what a pass of the tagging controller knows.
LEMMA TaggingStep ==
  ASSUME TaggingForms, TaggingInv, [Next]_vars
  PROVE  TaggingForms' /\ TaggingInv'
<1> USE DEF TaggingForms, TaggingInv, OnlyGiven, Resting
<1>1. CASE Boot
  BY <1>1 DEF Boot, IsTaggable
<1>2. CASE Crash
  BY <1>2 DEF Crash
<1>3. CASE Launching
  BY <1>3 DEF Launching, taggingVars
<1>4. ASSUME NEW n \in NodeClaims, TagBegin(n)  PROVE TaggingForms' /\ TaggingInv'
  BY <1>4 DEF TagBegin
<1>5. CASE TagGet
  <2> DEFINE t == tagger
             missing == OmitByKeys(t.read, tags[t.n])
  <2>1. t = [pc |-> "get", n |-> t.n, read |-> t.read] /\ t.n \in NodeClaims /\ t.read \subseteq Tags
    BY <1>5 DEF TagGet
  <2>2. CASE tagger' = Resting /\ queue' \in {queue, Requeued(t.n)}
    BY <1>5, <2>1, <2>2 DEF TagGet, Requeued
  <2>3. CASE missing = {} /\ UNCHANGED queue /\ tagger' = [pc |-> "annotate", n |-> t.n, read |-> t.read]
    <3>1. t.read \subseteq tags[t.n]
      BY <2>3 DEF OmitByKeys
    <3> QED  BY <1>5, <2>1, <2>3, <3>1 DEF TagGet
  <2>4. CASE /\ missing # {} /\ UNCHANGED queue
             /\ tagger' = [pc |-> "update", n |-> t.n, read |-> t.read, missing |-> missing, attempt |-> 1]
    <3>1. missing \subseteq Tags
      BY <2>1 DEF OmitByKeys
    <3>2. given[t.n] \subseteq {t.read} => given[t.n] = {} \/ t.read \in given[t.n]
      <4> HIDE DEF TaggingForms, TaggingInv
      <4> QED  OBVIOUS
    <3>3. OnlyGiven(t.n, t.read) => missing = t.read
      BY <2>1, <2>4, <3>2 DEF OmitByKeys
    <3> HIDE DEF missing
    <3> QED  BY <1>5, <2>1, <2>4, <3>1, <3>3 DEF TagGet
  <2> QED  BY <1>5, <2>2, <2>3, <2>4 DEF TagGet
<1>6. CASE TagUpdate
  <2>1. CASE Tagged(tagger) /\ tagger' = [pc |-> "annotate", n |-> tagger.n, read |-> tagger.read]
    BY <1>6, <2>1, TagsReplaced DEF TagUpdate
  <2>2. CASE tagger' = Resting /\ UNCHANGED <<tags, given>>
    BY <1>6, <2>2 DEF TagUpdate
  <2> QED  BY <1>6, <2>1, <2>2 DEF TagUpdate
<1>7. CASE TagUpdateError
  <2> DEFINE t == tagger
  <2>1. t.pc = "update" /\ t.n \in named /\ t.n \in NodeClaims
    BY <1>7 DEF TagUpdateError
  <2>2. \/ tagger' = [t EXCEPT !.attempt = @ + 1] /\ UNCHANGED queue
        \/ tagger' = Resting /\ queue' = queue \union {t.n}
    BY <1>7 DEF TagUpdateError, GaveUp, Requeued
  <2>3. tagger' = Resting
        \/ tagger' = [pc |-> "update", n |-> t.n, read |-> t.read, missing |-> t.missing,
                      attempt |-> t.attempt + 1]
    BY <2>1, <2>2
  <2>4. CASE Tagged(t)
    BY <1>7, <2>1, <2>2, <2>3, <2>4, TagsReplaced DEF TagUpdateError
  <2>5. CASE UNCHANGED <<tags, given>>
    BY <1>7, <2>1, <2>2, <2>3, <2>5 DEF TagUpdateError
  <2> QED  BY <1>7, <2>4, <2>5 DEF TagUpdateError
<1>8. CASE TagAnnotate
  BY <1>8 DEF TagAnnotate
<1>9. CASE TagError
  BY <1>9 DEF TagError, Requeued
<1>10. ASSUME NEW n \in NodeClaims, Register(n)  PROVE TaggingForms' /\ TaggingInv'
  BY <1>10 DEF Register
<1>11. CASE EditTags
  BY <1>11 DEF EditTags
<1>12. ASSUME NEW n \in NodeClaims, Delete(n) \/ Terminate(n)  PROVE TaggingForms' /\ TaggingInv'
  BY <1>12 DEF Delete, Terminate, taggingVars
<1>13. CASE UNCHANGED vars
  BY <1>13 DEF vars, taggingVars
<1> QED
  BY <1>1, <1>2, <1>3, <1>4, <1>5, <1>6, <1>7, <1>8, <1>9, <1>10, <1>11, <1>12, <1>13
     DEF Next, Tagging, TaggerStep, Environment

\* What a pass knows holds from the start of the process on.
LEMMA TaggingInvariant == Spec => [](TaggingForms /\ TaggingInv)
<1>1. Init => TaggingForms /\ TaggingInv
  BY TaggingAssumption DEF Init, TaggingInit, TaggingForms, TaggingInv, OnlyGiven
<1> QED  BY <1>1, TaggingStep, PTL DEF Spec

\* An instance whose NodeClaim is annotated has every tag the pass read unless an
\* earlier pass, which read others, had given it some: for every number of
\* attempts, repeated calls, crashes and edits, with OCI replacing the tags.
THEOREM TagsAreComplete == Spec => []TaggedComplete
<1>1. TaggingForms /\ TaggingInv => TaggedComplete
  BY DEF TaggingInv, TaggedComplete, OnlyGiven
<1> QED  BY <1>1, TaggingInvariant, PTL

-----------------------------------------------------------------------------
(* Launching.                                                              *)

\* A step that is no launch, no crash and no termination leaves launches alone.
LEMMA LaunchAlone ==
  ASSUME [Next]_vars
  PROVE  \/ Crash
         \/ \E n \in NodeClaims : Terminate(n)
         \/ \E n \in NodeClaims : LaunchStep(n) \/ LaunchError(n)
         \/ UNCHANGED <<nodeClassOf, launch, static, instance>>
BY DEF Next, vars, Boot, Launching, CacheExpires, Tagging, Environment, Delete, launchVars

\* A step that goes on with launches, each to a form it may have.
LEMMA FormKept ==
  ASSUME LaunchForms, UNCHANGED instance,
         static' = [user |-> static'.user, pre |-> static'.pre],
         launch' = [m \in NodeClaims |-> launch'[m]],
         \A m \in NodeClaims :
           launch'[m] = launch[m] \/ (LaunchForm(launch'[m]) /\ launch[m] # Idle)
  PROVE  LaunchForms'
<1>1. \A m \in NodeClaims : LaunchForm(launch'[m])
  BY DEF LaunchForms
<1>2. \A m \in NodeClaims : LaunchForm(launch[m])'
  BY <1>1 DEF LaunchForm
<1>3. \A m \in NodeClaims : launch'[m] # Idle => instance[m] = Nothing
  BY DEF LaunchForms
<1> QED  BY <1>2, <1>3 DEF LaunchForms, Idle

\* One launch goes on, to a form it may have.
LEMMA OneForm ==
  ASSUME LaunchForms, NEW n \in NodeClaims, launch[n] # Idle, UNCHANGED <<static, instance>>,
         NEW x, LaunchForm(x), launch' = [launch EXCEPT ![n] = x]
  PROVE  LaunchForms'
<1>1. launch' = [m \in NodeClaims |-> launch'[m]] /\ launch'[n] = x
  BY DEF LaunchForms
<1>2. \A m \in NodeClaims : m # n => launch'[m] = launch[m]
  BY DEF LaunchForms
<1>3. static' = [user |-> static'.user, pre |-> static'.pre]
  BY DEF LaunchForms
<1> QED  BY <1>1, <1>2, <1>3, FormKept

\* Writing a field of the shared variables keeps their form; the launches that
\* are making a script only learn of the writer.
LEMMA FormMet ==
  ASSUME LaunchForms, NEW n \in NodeClaims, NEW field \in {"user", "pre"}, NEW value
  PROVE  /\ Applied(field, value) =
              [user |-> IF field = "user" THEN value ELSE static.user,
               pre  |-> IF field = "pre" THEN value ELSE static.pre]
         /\ \A m \in NodeClaims :
              \/ m \notin Scripting \ {n} /\ Met(n)[m] = launch[m]
              \/ m \in Scripting \ {n} /\ launch[m] # Idle /\ LaunchForm(Met(n)[m])
<1>1. Applied(field, value) = [user |-> IF field = "user" THEN value ELSE static.user,
                               pre  |-> IF field = "pre" THEN value ELSE static.pre]
  <2>1. static = [user |-> static.user, pre |-> static.pre]
    BY DEF LaunchForms
  <2> DEFINE u == static.user
             p == static.pre
  <2>2. static = [user |-> u, pre |-> p]
    BY <2>1
  <2> HIDE DEF u, p
  <2>3. CASE field = "user"
    BY <2>2, <2>3 DEF Applied
  <2>4. CASE field = "pre"
    BY <2>2, <2>4 DEF Applied
  <2> QED  BY <2>3, <2>4
<1>2. ASSUME NEW m \in Scripting \ {n}  PROVE launch[m] # Idle /\ LaunchForm(Met(n)[m])
  <2>1. LaunchForm(launch[m]) /\ launch[m].pc \in {"pre", "readPre", "readUser"} /\ m \in NodeClaims
    BY DEF LaunchForms, Scripting
  <2>2. Met(n)[m] = [launch[m] EXCEPT !.met = @ \union {n}]
    BY DEF Met, Scripting
  <2>3. launch[m] # Idle
    BY <2>1 DEF Idle
  <2>4. CASE launch[m].pc = "readUser"
    <3>1. launch[m] = [pc |-> "readUser", subnet |-> launch[m].subnet, pre |-> launch[m].pre, met |-> launch[m].met]
      BY <2>1, <2>4 DEF LaunchForm, Idle, Sending
    <3>2. Met(n)[m] = [pc |-> "readUser", subnet |-> launch[m].subnet, pre |-> launch[m].pre,
                       met |-> launch[m].met \union {n}]
      BY <2>2, <3>1
    <3> QED  BY <2>3, <3>2 DEF LaunchForm
  <2>5. CASE launch[m].pc \in {"pre", "readPre"}
    <3>1. launch[m] = [pc |-> launch[m].pc, subnet |-> launch[m].subnet, met |-> launch[m].met]
      BY <2>1, <2>5 DEF LaunchForm, Idle, Sending
    <3>2. Met(n)[m] = [pc |-> launch[m].pc, subnet |-> launch[m].subnet, met |-> launch[m].met \union {n}]
      BY <2>2, <3>1
    <3> QED  BY <2>3, <2>5, <3>2 DEF LaunchForm
  <2> QED  BY <2>1, <2>4, <2>5
<1>3. ASSUME NEW m \in NodeClaims, m \notin Scripting \ {n}  PROVE Met(n)[m] = launch[m]
  BY <1>3 DEF Met
<1> QED  BY <1>1, <1>2, <1>3

\* One more subnet is counted.
LEMMA BetterForm ==
  ASSUME NEW list, NEW i, NEW s, NEW c
  PROVE  LaunchForm(Better([pc |-> "count", list |-> list, i |-> i, subnet |-> s, count |-> c]))
<1> DEFINE l == [pc |-> "count", list |-> list, i |-> i, subnet |-> s, count |-> c]
           n == GetSubnetAvailableIPv4Count(list[i])
           t == IF n > c THEN list[i] ELSE s
           d == IF n > c THEN n ELSE c
<1>1. Better(l) = [[[l EXCEPT !.i = i + 1] EXCEPT !.subnet = t] EXCEPT !.count = d]
  BY DEF Better
<1> HIDE DEF t, d
<1>2. Better(l) = [pc |-> "count", list |-> list, i |-> i + 1, subnet |-> t, count |-> d]
  BY <1>1
<1> QED  BY <1>2 DEF LaunchForm

\* One step keeps the forms of launches and instances.
LEMMA FormStep ==
  ASSUME LaunchForms, [Next]_vars
  PROVE  LaunchForms'
<1> USE DEF LaunchForms, LaunchForm, Idle, Sending, At
<1>1. CASE UNCHANGED <<nodeClassOf, launch, static, instance>>
  BY <1>1
<1>2. CASE Crash
  BY <1>2 DEF Crash, NoVars
<1>3. ASSUME NEW n \in NodeClaims, Terminate(n)  PROVE LaunchForms'
  BY <1>3 DEF Terminate, Up
<1>4. ASSUME NEW n \in NodeClaims, LaunchError(n)  PROVE LaunchForms'
  BY <1>4 DEF LaunchError, Fail
<1>5. ASSUME NEW n \in NodeClaims, List(n)  PROVE LaunchForms'
  BY <1>5 DEF List, Counting
<1>6. ASSUME NEW n \in NodeClaims, Count(n)  PROVE LaunchForms'
  <2> DEFINE l == launch[n]
  <2>1. l # Idle /\ l = [pc |-> "count", list |-> l.list, i |-> l.i, subnet |-> l.subnet, count |-> l.count]
    BY <1>6 DEF Count
  <2>2. LaunchForm(Better(l))
    <3>1. PICK list, i, s, c : l = [pc |-> "count", list |-> list, i |-> i, subnet |-> s, count |-> c]
      BY <2>1
    <3> HIDE DEF LaunchForm, LaunchForms, l
    <3> QED  BY <3>1, BetterForm
  <2> HIDE DEF LaunchForms, LaunchForm, l
  <2> QED  BY <1>6, <2>1, <2>2, OneForm DEF Count, l
<1>7. ASSUME NEW n \in NodeClaims, Resolve(n)  PROVE LaunchForms'
  <2>1. PICK x : LaunchForm(x) /\ launch' = [launch EXCEPT ![n] = x]
    BY <1>7 DEF Resolve
  <2>2. launch[n] # Idle
    BY <1>7 DEF Resolve
  <2> HIDE DEF LaunchForms, LaunchForm
  <2> QED  BY <1>7, <2>1, <2>2, OneForm DEF Resolve
<1>8. ASSUME NEW n \in NodeClaims, ApplyUserData(n)  PROVE LaunchForms'
  <2>1. launch' = [Met(n) EXCEPT ![n] = [pc |-> "pre", subnet |-> Met(n)[n].subnet, met |-> {}]]
    BY <1>8 DEF ApplyUserData
  <2>2. launch[n] # Idle /\ LaunchForm(launch'[n])
    BY <1>8, <2>1 DEF ApplyUserData, Met
  <2>3. launch' = [m \in NodeClaims |-> launch'[m]]
    BY <2>1 DEF Met
  <2>4. \A m \in NodeClaims : m # n => launch'[m] = Met(n)[m]
    BY <2>1 DEF Met
  <2>5. static' = [user |-> static'.user, pre |-> static'.pre]
    BY <1>8, FormMet DEF ApplyUserData
  <2> HIDE DEF LaunchForms, LaunchForm
  <2>6. \A m \in NodeClaims : launch'[m] = launch[m] \/ (LaunchForm(launch'[m]) /\ launch[m] # Idle)
    BY <2>2, <2>4, FormMet
  <2> QED  BY <1>8, <2>3, <2>5, <2>6, FormKept DEF ApplyUserData
<1>9. ASSUME NEW n \in NodeClaims, ApplyPreInstallScript(n)  PROVE LaunchForms'
  <2>1. launch' = [Met(n) EXCEPT ![n] = [Met(n)[n] EXCEPT !.pc = "readPre"]]
    BY <1>9 DEF ApplyPreInstallScript
  <2>2. launch[n] # Idle /\ Met(n)[n] = launch[n]
    BY <1>9 DEF ApplyPreInstallScript, Met
  <2>3. launch[n] = [pc |-> "pre", subnet |-> launch[n].subnet, met |-> launch[n].met]
    BY <1>9 DEF ApplyPreInstallScript
  <2>4. launch'[n] = [pc |-> "readPre", subnet |-> launch[n].subnet, met |-> launch[n].met]
    BY <2>1, <2>2, <2>3 DEF Met
  <2>5. LaunchForm(launch'[n])
    BY <2>4
  <2>6. launch' = [m \in NodeClaims |-> launch'[m]]
    BY <2>1 DEF Met
  <2>7. \A m \in NodeClaims : m # n => launch'[m] = Met(n)[m]
    BY <2>1 DEF Met
  <2>8. static' = [user |-> static'.user, pre |-> static'.pre]
    BY <1>9, FormMet DEF ApplyPreInstallScript
  <2> HIDE DEF LaunchForms, LaunchForm
  <2>9. \A m \in NodeClaims : launch'[m] = launch[m] \/ (LaunchForm(launch'[m]) /\ launch[m] # Idle)
    BY <2>2, <2>5, <2>7, FormMet
  <2> QED  BY <1>9, <2>6, <2>8, <2>9, FormKept DEF ApplyPreInstallScript
<1>10. ASSUME NEW n \in NodeClaims, CreateKubeletInstall(n)  PROVE LaunchForms'
  <2>1. PICK x : LaunchForm(x) /\ launch' = [launch EXCEPT ![n] = x]
    BY <1>10 DEF CreateKubeletInstall, Fail
  <2>2. launch[n] # Idle
    BY <1>10 DEF CreateKubeletInstall
  <2> HIDE DEF LaunchForms, LaunchForm
  <2> QED  BY <1>10, <2>1, <2>2, OneForm DEF CreateKubeletInstall
<1>11. ASSUME NEW n \in NodeClaims, CreateBootstrapScript(n)  PROVE LaunchForms'
  BY <1>11 DEF CreateBootstrapScript, Fail
<1>12. ASSUME NEW n \in NodeClaims, LaunchInstance(n)  PROVE LaunchForms'
  BY <1>12 DEF LaunchInstance, Fail
<1> QED
  BY LaunchAlone, <1>1, <1>2, <1>3, <1>4, <1>5, <1>6, <1>7, <1>8, <1>9, <1>10, <1>11, <1>12
     DEF LaunchStep

\* A launch that goes on as it was, while nobody writes the shared variables.
LEMMA OverlapFrame ==
  ASSUME NEW m \in NodeClaims, OverlapOf(m), launch'[m] = launch[m], UNCHANGED <<nodeClassOf, static>>
  PROVE  OverlapOf(m)'
BY DEF OverlapOf, OverlapScript, IsUbuntu, Class, Scripting

\* A launch that n meets, or that is not making a script, when n writes a field
\* of the shared variables.
LEMMA OverlapMet ==
  ASSUME LaunchForms, NEW n \in NodeClaims, NEW m \in NodeClaims, m # n, OverlapOf(m),
         NEW field \in {"user", "pre"},
         static' = Applied(field, IF field = "user" THEN UserData[Class(n)] ELSE PreInstallScript[Class(n)]),
         launch'[m] = Met(n)[m], UNCHANGED nodeClassOf
  PROVE  OverlapOf(m)'
<1>1. CASE m \notin Scripting
  <2>1. launch'[m] = launch[m]
    BY <1>1 DEF Met
  <2>2. launch[m].pc \notin {"pre", "readPre", "readUser"}
    BY <1>1 DEF Scripting
  <2> QED  BY <2>1, <2>2 DEF OverlapOf, OverlapScript, IsUbuntu, Class, Scripting
<1>2. CASE m \in Scripting
  <2>1. PICK l : l = launch[m]
    OBVIOUS
  <2>2. launch'[m] = [l EXCEPT !.met = @ \union {n}]
    BY <1>2, <2>1 DEF Met
  <2>3. \/ l.pc = "readUser" /\ l = [pc |-> "readUser", subnet |-> l.subnet, pre |-> l.pre, met |-> l.met]
        \/ l.pc \in {"pre", "readPre"} /\ l = [pc |-> l.pc, subnet |-> l.subnet, met |-> l.met]
    BY <1>2, <2>1 DEF LaunchForms, LaunchForm, Idle, Sending, Scripting
  <2>4. /\ launch'[m].pc = l.pc /\ launch'[m].met = l.met \union {n}
        /\ l.pc = "readUser" => launch'[m].pre = l.pre
    BY <2>2, <2>3
  <2>5. /\ IsUbuntu(m)
        /\ \E k \in {m} \union l.met : static.user = UserData[Class(k)]
        /\ l.pc = "readPre" => \E k \in {m} \union l.met : static.pre = PreInstallScript[Class(k)]
        /\ l.pc = "readUser" => \E k \in {m} \union l.met : l.pre = PreInstallScript[Class(k)]
    BY <1>2, <2>1 DEF OverlapOf, Scripting
  <2>6. /\ static'.user = IF field = "user" THEN UserData[Class(n)] ELSE static.user
        /\ static'.pre = IF field = "pre" THEN PreInstallScript[Class(n)] ELSE static.pre
    BY FormMet
  <2>7. \E k \in {m} \union launch'[m].met : static'.user = UserData[Class(k)]
    BY <2>4, <2>5, <2>6
  <2>8. l.pc = "readPre" => \E k \in {m} \union launch'[m].met : static'.pre = PreInstallScript[Class(k)]
    BY <2>4, <2>5, <2>6
  <2>9. l.pc = "readUser" => \E k \in {m} \union launch'[m].met : launch'[m].pre = PreInstallScript[Class(k)]
    BY <2>4, <2>5
  <2>10. l.pc \in {"pre", "readPre", "readUser"}
    BY <2>3
  <2> QED  BY <2>4, <2>5, <2>7, <2>8, <2>9, <2>10 DEF OverlapOf, Class, IsUbuntu
<1> QED  BY <1>1, <1>2

\* One launch goes on while nobody writes the shared variables: the others
\* have what they had.
LEMMA OverlapOne ==
  ASSUME LaunchForms, OverlapInv, NEW n \in NodeClaims, UNCHANGED <<nodeClassOf, static>>,
         NEW x, launch' = [launch EXCEPT ![n] = x], OverlapOf(n)'
  PROVE  OverlapInv'
<1>1. \A m \in NodeClaims : m # n => launch'[m] = launch[m]
  BY DEF LaunchForms
<1>2. \A m \in NodeClaims : m # n => OverlapOf(m)'
  BY <1>1, OverlapFrame DEF OverlapInv
<1> QED  BY <1>2 DEF OverlapInv

\* An idle or a counting launch has nothing of the shared variables.
LEMMA OverlapNone ==
  ASSUME NEW n, launch'[n].pc \in {"idle", "count"}
  PROVE  OverlapOf(n)'
BY DEF OverlapOf, Scripting

\* One step keeps what launches have of each other.
LEMMA OverlapStep ==
  ASSUME LaunchForms, OverlapInv, [Next]_vars
  PROVE  OverlapInv'
<1> USE DEF At
<1>1. CASE UNCHANGED <<nodeClassOf, launch, static, instance>>
  BY <1>1, OverlapFrame DEF OverlapInv
<1>2. CASE Crash
  BY <1>2, OverlapNone DEF Crash, OverlapInv, Idle
<1>3. ASSUME NEW n \in NodeClaims, Terminate(n)  PROVE OverlapInv'
  BY <1>3, OverlapFrame DEF Terminate, OverlapInv
<1>4. ASSUME NEW n \in NodeClaims, UNCHANGED <<nodeClassOf, static>>,
             NEW x, launch' = [launch EXCEPT ![n] = x], x.pc \in {"idle", "count"}
      PROVE  OverlapInv'
  <2>1. launch'[n] = x
    BY <1>4 DEF LaunchForms
  <2>2. OverlapOf(n)'
    BY <1>4, <2>1, OverlapNone
  <2> QED  BY <1>4, <2>2, OverlapOne
<1>5. ASSUME NEW n \in NodeClaims, UNCHANGED nodeClassOf, List(n)  PROVE OverlapInv'
  BY <1>4, <1>5 DEF List, Counting
<1>6. ASSUME NEW n \in NodeClaims, UNCHANGED nodeClassOf, LaunchError(n) \/ LaunchInstance(n)
      PROVE  OverlapInv'
  BY <1>4, <1>6 DEF LaunchError, LaunchInstance, Fail, Idle
<1>7. ASSUME NEW n \in NodeClaims, UNCHANGED nodeClassOf, Count(n)  PROVE OverlapInv'
  <2>1. Better(launch[n]).pc = "count"
    <3>1. launch[n] = [pc |-> "count", list |-> launch[n].list, i |-> launch[n].i,
                       subnet |-> launch[n].subnet, count |-> launch[n].count]
      BY <1>7 DEF Count, LaunchForms, LaunchForm, Idle, Sending
    <3>2. PICK list, i, s, c : launch[n] = [pc |-> "count", list |-> list, i |-> i, subnet |-> s, count |-> c]
      BY <3>1
    <3> QED  BY <3>2 DEF Better
  <2> QED  BY <1>4, <1>7, <2>1 DEF Count
<1>8. ASSUME NEW n \in NodeClaims, UNCHANGED nodeClassOf, Resolve(n)  PROVE OverlapInv'
  <2>1. PICK x : launch' = [launch EXCEPT ![n] = x] /\
                 \/ x = Idle
                 \/ IsUbuntu(n) /\ x = [pc |-> "user", subnet |-> launch[n].subnet]
                 \/ ~IsUbuntu(n) /\ x = Sending(launch[n].subnet, OwnScript(Class(n)), {})
    BY <1>8 DEF Resolve
  <2>2. launch'[n] = x
    BY <2>1 DEF LaunchForms
  <2>3. OverlapOf(n)'
    BY <1>8, <2>1, <2>2 DEF OverlapOf, OverlapScript, Sending, Idle, Scripting, IsUbuntu, Class
  <2> QED  BY <1>8, <2>1, <2>3, OverlapOne DEF Resolve
<1>9. ASSUME NEW n \in NodeClaims, UNCHANGED nodeClassOf, ApplyUserData(n)  PROVE OverlapInv'
  <2>1. static' = Applied("user", UserData[Class(n)])
    BY <1>9 DEF ApplyUserData, UbuntuLinux
  <2>2. static'.user = UserData[Class(n)]
    BY <2>1, FormMet
  <2>3. launch'[n] = [pc |-> "pre", subnet |-> launch[n].subnet, met |-> {}]
    BY <1>9 DEF ApplyUserData, Met
  <2>4. OverlapOf(n)'
    BY <1>9, <2>2, <2>3 DEF ApplyUserData, OverlapInv, OverlapOf, IsUbuntu, Class
  <2>5. \A m \in NodeClaims : m # n => launch'[m] = Met(n)[m]
    BY <1>9 DEF ApplyUserData, Met
  <2>6. \A m \in NodeClaims : m # n => OverlapOf(m)'
    BY <1>9, <2>1, <2>5, OverlapMet DEF OverlapInv
  <2> QED  BY <2>4, <2>6 DEF OverlapInv
<1>10. ASSUME NEW n \in NodeClaims, UNCHANGED nodeClassOf, ApplyPreInstallScript(n)  PROVE OverlapInv'
  <2>1. static' = Applied("pre", PreInstallScript[Class(n)])
    BY <1>10 DEF ApplyPreInstallScript, UbuntuLinux
  <2>2. static'.pre = PreInstallScript[Class(n)] /\ static'.user = static.user
    BY <2>1, FormMet
  <2>3. launch[n] = [pc |-> "pre", subnet |-> launch[n].subnet, met |-> launch[n].met]
    BY <1>10 DEF ApplyPreInstallScript, LaunchForms, LaunchForm, Idle, Sending
  <2>4. launch'[n] = [launch[n] EXCEPT !.pc = "readPre"]
    BY <1>10 DEF ApplyPreInstallScript, Met
  <2>5. launch'[n].pc = "readPre" /\ launch'[n].met = launch[n].met
    BY <2>3, <2>4
  <2>6. IsUbuntu(n) /\ \E k \in {n} \union launch[n].met : static.user = UserData[Class(k)]
    BY <2>3 DEF OverlapInv, OverlapOf, Scripting
  <2>7. OverlapOf(n)'
    BY <1>10, <2>2, <2>5, <2>6 DEF OverlapOf, IsUbuntu, Class
  <2>8. \A m \in NodeClaims : m # n => launch'[m] = Met(n)[m]
    BY <1>10 DEF ApplyPreInstallScript, Met
  <2>9. \A m \in NodeClaims : m # n => OverlapOf(m)'
    BY <1>10, <2>1, <2>8, OverlapMet DEF OverlapInv
  <2> QED  BY <2>7, <2>9 DEF OverlapInv
<1>11. ASSUME NEW n \in NodeClaims, UNCHANGED nodeClassOf, CreateKubeletInstall(n)  PROVE OverlapInv'
  <2>1. CASE Fail(n)
    BY <1>4, <1>11, <2>1 DEF Fail, Idle, CreateKubeletInstall
  <2>2. ASSUME ~Fail(n)  PROVE OverlapInv'
    <3>1. PICK pre :
            /\ launch' = [launch EXCEPT ![n] =
                           [pc |-> "readUser", subnet |-> launch[n].subnet, pre |-> pre, met |-> launch[n].met]]
            /\ pre \in {PreInstallScript[Class(n)], static.pre}
      BY <1>11, <2>2 DEF CreateKubeletInstall
    <3>2. launch'[n] = [pc |-> "readUser", subnet |-> launch[n].subnet, pre |-> pre, met |-> launch[n].met]
      BY <3>1 DEF LaunchForms
    <3>3. /\ IsUbuntu(n)
          /\ \E k \in {n} \union launch[n].met : static.user = UserData[Class(k)]
          /\ \E k \in {n} \union launch[n].met : static.pre = PreInstallScript[Class(k)]
      BY <1>11 DEF CreateKubeletInstall, OverlapInv, OverlapOf, Scripting
    <3>4. OverlapOf(n)'
      BY <1>11, <3>1, <3>2, <3>3 DEF CreateKubeletInstall, OverlapOf, IsUbuntu, Class
    <3> QED  BY <1>11, <3>1, <3>4, OverlapOne DEF CreateKubeletInstall
  <2> QED  BY <2>1, <2>2
<1>12. ASSUME NEW n \in NodeClaims, UNCHANGED nodeClassOf, CreateBootstrapScript(n)  PROVE OverlapInv'
  <2>1. CASE Fail(n)
    BY <1>4, <1>12, <2>1 DEF Fail, Idle, CreateBootstrapScript
  <2>2. ASSUME ~Fail(n)  PROVE OverlapInv'
    <3> DEFINE x == Sending(launch[n].subnet, UbuntuScript(launch[n].pre, static.user), launch[n].met)
    <3>1. launch' = [launch EXCEPT ![n] = x]
      BY <1>12, <2>2 DEF CreateBootstrapScript
    <3>2. /\ launch'[n].pc = "send" /\ launch'[n].met = launch[n].met
          /\ launch'[n].script = UbuntuScript(launch[n].pre, static.user)
      BY <3>1 DEF LaunchForms, Sending
    <3>3. /\ IsUbuntu(n)
          /\ \E k \in {n} \union launch[n].met : static.user = UserData[Class(k)]
          /\ \E k \in {n} \union launch[n].met : launch[n].pre = PreInstallScript[Class(k)]
      BY <1>12 DEF CreateBootstrapScript, OverlapInv, OverlapOf, Scripting
    <3>4. OverlapOf(n)'
      BY <1>12, <3>2, <3>3 DEF CreateBootstrapScript, OverlapOf, OverlapScript, Scripting, IsUbuntu, Class
    <3> QED  BY <1>12, <3>1, <3>4, OverlapOne DEF CreateBootstrapScript
  <2> QED  BY <2>1, <2>2
<1> QED
  BY LaunchAlone, <1>1, <1>2, <1>3, <1>5, <1>6, <1>7, <1>8, <1>9, <1>10, <1>11, <1>12
     DEF LaunchStep, LaunchError

\* An instance keeps the script it was launched with.
LEMMA ScriptStep ==
  ASSUME LaunchForms, OverlapInv, ScriptOfOverlap, [Next]_vars
  PROVE  ScriptOfOverlap'
<1>1. CASE UNCHANGED <<nodeClassOf, instance>>
  BY <1>1 DEF ScriptOfOverlap, OverlapScript, Up, IsUbuntu, Class
<1>2. ASSUME NEW n \in NodeClaims, Terminate(n)  PROVE ScriptOfOverlap'
  <2>1. instance' = [instance EXCEPT ![n].up = FALSE] /\ UNCHANGED nodeClassOf
    BY <1>2 DEF Terminate
  <2>2. \A m \in NodeClaims : m # n => instance'[m] = instance[m]
    BY <2>1 DEF LaunchForms
  <2>3. ~Up(n)'
    <3>1. instance[n] = [up |-> instance[n].up, subnet |-> instance[n].subnet,
                         script |-> instance[n].script, met |-> instance[n].met]
      BY <1>2 DEF Terminate, LaunchForms, Up
    <3>2. instance'[n] = [instance[n] EXCEPT !.up = FALSE]
      BY <2>1 DEF LaunchForms
    <3> QED  BY <3>1, <3>2 DEF Up
  <2> QED  BY <2>1, <2>2, <2>3 DEF ScriptOfOverlap, OverlapScript, Up, IsUbuntu, Class
<1>3. ASSUME NEW n \in NodeClaims, LaunchInstance(n), UNCHANGED nodeClassOf  PROVE ScriptOfOverlap'
  <2>1. CASE instance' = instance
    BY <1>1, <1>3, <2>1
  <2>2. CASE instance' # instance
    <3>1. instance' = [instance EXCEPT ![n] =
            [up |-> TRUE, subnet |-> launch[n].subnet, script |-> launch[n].script, met |-> launch[n].met]]
      BY <1>3, <2>2 DEF LaunchInstance
    <3>2. \A m \in NodeClaims : m # n => instance'[m] = instance[m]
      BY <3>1 DEF LaunchForms
    <3>3. instance'[n].script = launch[n].script /\ instance'[n].met = launch[n].met
      BY <3>1 DEF LaunchForms
    <3>4. OverlapScript(n, launch[n])
      BY <1>3 DEF LaunchInstance, At, OverlapInv, OverlapOf
    <3>5. OverlapScript(n, instance[n])'
      BY <1>3, <3>3, <3>4 DEF OverlapScript, IsUbuntu, Class
    <3> QED  BY <1>3, <3>2, <3>5 DEF ScriptOfOverlap, OverlapScript, Up, IsUbuntu, Class
  <2> QED  BY <2>1, <2>2
<1>4. ASSUME NEW n \in NodeClaims, LaunchStep(n) \/ LaunchError(n)
      PROVE  UNCHANGED nodeClassOf /\ (LaunchInstance(n) \/ UNCHANGED instance)
  BY <1>4 DEF LaunchStep, LaunchError, List, Count, Resolve, ApplyUserData, ApplyPreInstallScript,
     CreateKubeletInstall, CreateBootstrapScript
<1> QED  BY LaunchAlone, <1>1, <1>2, <1>3, <1>4 DEF Crash

\* What launches know holds from the start of the process on.
LEMMA LaunchInvariant == Spec => [](LaunchForms /\ OverlapInv /\ ScriptOfOverlap)
<1>1. Init => LaunchForms /\ OverlapInv /\ ScriptOfOverlap
  BY DEF Init, LaunchInit, LaunchForms, LaunchForm, Idle, NoVars, OverlapInv, OverlapOf, Scripting,
     ScriptOfOverlap, Up
<1> QED  BY <1>1, FormStep, OverlapStep, ScriptStep, PTL DEF Spec

\* No instance starts with a script of a NodeClass whose launch was over when
\* its own was made, however many launches share the Ubuntu family's variables.
THEOREM ScriptsOfOverlap == Spec => []ScriptOfOverlap
BY LaunchInvariant, PTL

-----------------------------------------------------------------------------
(* Types.                                                                  *)

\* The instances up in a subnet.
In(s) == {n \in NodeClaims : Up(n) /\ instance[n].subnet = s}

\* Used counts a finite set.
LEMMA UsedNumber ==
  ASSUME NEW s
  PROVE  /\ IsFiniteSet(In(s)) /\ Cardinality(In(s)) \in Nat
         /\ Used(s) = Others[s] + Cardinality(In(s))
<1>1. In(s) \subseteq NodeClaims
  BY DEF In
<1>2. IsFiniteSet(In(s))
  BY <1>1, SubnetAssumption, FS_Subset
<1> QED  BY <1>2, FS_CardinalityType DEF Used, In

\* Addresses are not taken beyond a subnet's block: LaunchInstance is refused
\* where none is left, and a termination gives one back.
LEMMA AddressStep ==
  ASSUME LaunchForms, [Next]_vars, NEW s \in Subnets, Used(s) \in 0 .. Capacity(s)
  PROVE  (Used(s) \in 0 .. Capacity(s))'
<1> USE SubnetAssumption
<1>1. CASE UNCHANGED instance
  BY <1>1 DEF Used, Up
<1>2. ASSUME NEW n \in NodeClaims, In(s)' \subseteq In(s) \union {n},
             n \in In(s)' => Used(s) < Capacity(s)
      PROVE  (Used(s) \in 0 .. Capacity(s))'
  <2>1. IsFiniteSet(In(s)) /\ Cardinality(In(s)) \in Nat /\ Used(s) = Others[s] + Cardinality(In(s))
    BY UsedNumber
  <2>2. IsFiniteSet(In(s)') /\ Cardinality(In(s)') \in Nat /\ Used(s)' = Others[s] + Cardinality(In(s)')
    <3>1. In(s)' \subseteq NodeClaims
      BY DEF In
    <3>2. IsFiniteSet(In(s)')
      BY <3>1, SubnetAssumption, FS_Subset
    <3> QED  BY <3>2, FS_CardinalityType DEF Used, In
  <2>3. CASE n \in In(s)'
    <3>1. IsFiniteSet(In(s) \union {n}) /\ Cardinality(In(s) \union {n}) <= Cardinality(In(s)) + 1
      <4>1. Cardinality(In(s) \union {n}) = IF n \in In(s) THEN Cardinality(In(s)) ELSE Cardinality(In(s)) + 1
        BY <2>1, FS_AddElement
      <4>2. IsFiniteSet(In(s) \union {n})
        BY <2>1, FS_AddElement
      <4> QED  BY <2>1, <4>1, <4>2
    <3>2. Cardinality(In(s)') <= Cardinality(In(s) \union {n}) /\ Cardinality(In(s) \union {n}) \in Nat
      BY <1>2, <3>1, FS_Subset, FS_CardinalityType
    <3>3. Others[s] \in Nat /\ Capacity(s) \in Nat
      OBVIOUS
    <3>4. Cardinality(In(s)') <= Cardinality(In(s)) + 1
      BY <2>1, <2>2, <3>1, <3>2
    <3> QED  BY <1>2, <2>1, <2>2, <2>3, <3>3, <3>4
  <2>4. CASE n \notin In(s)'
    <3>1. In(s)' \subseteq In(s)
      BY <1>2, <2>4
    <3>2. Cardinality(In(s)') <= Cardinality(In(s))
      BY <2>1, <3>1, FS_Subset
    <3>3. Others[s] \in Nat /\ Capacity(s) \in Nat
      OBVIOUS
    <3> QED  BY <2>1, <2>2, <3>2, <3>3
  <2> QED  BY <2>3, <2>4
<1>3. ASSUME NEW n \in NodeClaims, LaunchInstance(n)  PROVE (Used(s) \in 0 .. Capacity(s))'
  <2>1. CASE instance' = instance
    BY <1>1, <2>1
  <2>2. CASE instance' # instance
    <3>1. /\ instance' = [instance EXCEPT ![n] =
               [up |-> TRUE, subnet |-> launch[n].subnet, script |-> launch[n].script, met |-> launch[n].met]]
          /\ Used(launch[n].subnet) < Capacity(launch[n].subnet)
      BY <1>3, <2>2 DEF LaunchInstance
    <3>2. \A m \in NodeClaims : m # n => instance'[m] = instance[m]
      BY <3>1 DEF LaunchForms
    <3>3. instance'[n].subnet = launch[n].subnet
      BY <3>1 DEF LaunchForms
    <3>4. In(s)' \subseteq In(s) \union {n}
      BY <3>2 DEF In, Up
    <3>5. n \in In(s)' => Used(s) < Capacity(s)
      <4>1. n \in In(s)' => instance'[n].subnet = s
        BY DEF In
      <4> QED  BY <3>1, <3>3, <4>1
    <3> QED  BY <1>2, <3>4, <3>5
  <2> QED  BY <2>1, <2>2
<1>4. ASSUME NEW n \in NodeClaims, Terminate(n)  PROVE (Used(s) \in 0 .. Capacity(s))'
  <2>1. \A m \in NodeClaims : m # n => instance'[m] = instance[m]
    BY <1>4 DEF Terminate, LaunchForms
  <2>2. ~Up(n)'
    <3>1. instance[n] = [up |-> instance[n].up, subnet |-> instance[n].subnet,
                         script |-> instance[n].script, met |-> instance[n].met]
      BY <1>4 DEF Terminate, LaunchForms, Up
    <3>2. instance'[n] = [instance[n] EXCEPT !.up = FALSE]
      BY <1>4 DEF Terminate, LaunchForms
    <3> QED  BY <3>1, <3>2 DEF Up
  <2>3. In(s)' \subseteq In(s) \union {n} /\ n \notin In(s)'
    BY <2>1, <2>2 DEF In, Up
  <2> QED  BY <1>2, <2>3
<1>5. ASSUME NEW n \in NodeClaims, LaunchStep(n) \/ LaunchError(n)
      PROVE  LaunchInstance(n) \/ UNCHANGED instance
  BY <1>5 DEF LaunchStep, LaunchError, List, Count, Resolve, ApplyUserData, ApplyPreInstallScript,
     CreateKubeletInstall, CreateBootstrapScript
<1> QED  BY LaunchAlone, <1>1, <1>3, <1>4, <1>5 DEF Crash

\* Nothing, the answer of a call that gave none, is neither an instance nor
\* what a process has while it is started.
NothingIsNoRecord ==
  /\ \A u, s, c, m : [up |-> u, subnet |-> s, script |-> c, met |-> m] # Nothing
  /\ \A o, c : [options |-> o, config |-> c] # Nothing

\* An event is counted or does not happen.
LEMMA EventStep ==
  ASSUME [Next]_vars, events \in 0 .. MaxEvents
  PROVE  events' \in 0 .. MaxEvents
<1>1. Event \/ UNCHANGED events
  BY DEF Next, vars, Boot, StartNext, Start, NewOCIProvisioner, ListAvailabilityDomains, NewOperator, Crash,
     Launching, LaunchStep, LaunchError, List, Count, Resolve, ApplyUserData, ApplyPreInstallScript,
     CreateKubeletInstall, CreateBootstrapScript, LaunchInstance, CacheExpires, Tagging, TaggerStep,
     TagBegin, TagGet, TagUpdate, TagUpdateError, TagAnnotate, TagError, Environment, Register, EditTags,
     Delete, Terminate
<1> QED  BY <1>1, StartAssumption DEF Event

\* The phases of a start.
LEMMA StartTypeStep ==
  ASSUME NothingIsNoRecord, StartTypeOK, BootForm, [Next]_vars
  PROVE  StartTypeOK'
<1>1. events' \in 0 .. MaxEvents
  BY EventStep DEF StartTypeOK
<1>2. CASE UNCHANGED startVars
  BY <1>1, <1>2 DEF StartTypeOK, startVars
<1>3. CASE Exit
  BY <1>1, <1>3 DEF StartTypeOK, Exit
<1>4. CASE Start /\ ~Exit
  <2>1. PICK o, f : AuthMethod(o, f)
    BY <1>4 DEF Start
  <2> QED  BY <1>1, <2>1 DEF AuthMethod, StartTypeOK, NothingIsNoRecord
<1>5. CASE NewOCIProvisioner /\ ~Exit
  <2>1. PICK p : phase' = "identity" /\ boot' = [boot EXCEPT !.config = p]
    BY <1>5 DEF NewOCIProvisioner
  <2>2. boot' = [options |-> boot.options, config |-> p]
    BY <1>5, <2>1 DEF NewOCIProvisioner, BootForm
  <2> QED  BY <1>1, <2>1, <2>2 DEF StartTypeOK, NothingIsNoRecord
<1>6. CASE ListAvailabilityDomains /\ ~Exit
  BY <1>1, <1>6 DEF ListAvailabilityDomains, StartTypeOK
<1>7. CASE NewOperator /\ ~Exit
  BY <1>1, <1>7 DEF NewOperator, StartTypeOK
<1> QED  BY StartAlone, <1>2, <1>3, <1>4, <1>5, <1>6, <1>7 DEF Boot, StartNext, Crash, Killed

\* An instance is never forgotten, also not when it is down.
LEMMA InstancesKept ==
  ASSUME NothingIsNoRecord, LaunchForms, [Next]_vars, NEW n \in NodeClaims, instance[n] # Nothing
  PROVE  instance'[n] # Nothing
<1>1. CASE UNCHANGED instance
  BY <1>1
<1>2. ASSUME NEW m \in NodeClaims, Terminate(m)  PROVE instance'[n] # Nothing
  <2>1. CASE m = n
    <3>1. instance[n] = [up |-> instance[n].up, subnet |-> instance[n].subnet,
                         script |-> instance[n].script, met |-> instance[n].met]
      BY DEF LaunchForms
    <3>2. instance'[n] = [instance[n] EXCEPT !.up = FALSE]
      BY <1>2, <2>1 DEF Terminate, LaunchForms
    <3>3. instance'[n] = [up |-> FALSE, subnet |-> instance[n].subnet,
                          script |-> instance[n].script, met |-> instance[n].met]
      BY <3>1, <3>2
    <3> QED  BY <3>3 DEF NothingIsNoRecord
  <2>2. CASE m # n
    BY <1>2, <2>2 DEF Terminate, LaunchForms
  <2> QED  BY <2>1, <2>2
<1>3. ASSUME NEW m \in NodeClaims, LaunchInstance(m)  PROVE instance'[n] # Nothing
  <2>1. m # n
    BY <1>3 DEF LaunchInstance, At, LaunchForms, Idle
  <2> QED  BY <1>3, <2>1 DEF LaunchInstance, LaunchForms
<1>4. ASSUME NEW m \in NodeClaims, LaunchStep(m) \/ LaunchError(m)
      PROVE  LaunchInstance(m) \/ UNCHANGED instance
  BY <1>4 DEF LaunchStep, LaunchError, List, Count, Resolve, ApplyUserData, ApplyPreInstallScript,
     CreateKubeletInstall, CreateBootstrapScript
<1> QED  BY LaunchAlone, <1>1, <1>2, <1>3, <1>4 DEF Crash

\* The cached list is one of all the subnets.
LEMMA CacheStep ==
  ASSUME [Next]_vars, subnetCache = Nothing \/ subnetCache \in Orders
  PROVE  (subnetCache = Nothing \/ subnetCache \in Orders)'
<1>1. CASE UNCHANGED subnetCache
  BY <1>1
<1>2. CASE subnetCache' = Nothing
  BY <1>2
<1>3. ASSUME NEW n \in NodeClaims, List(n)
      PROVE  (subnetCache = Nothing \/ subnetCache \in Orders)'
  BY <1>3 DEF List
<1> QED
  BY <1>1, <1>2, <1>3 DEF Next, vars, Boot, Crash, Launching, LaunchStep, LaunchError, Count, Resolve,
     ApplyUserData, ApplyPreInstallScript, CreateKubeletInstall, CreateBootstrapScript, LaunchInstance,
     CacheExpires, Tagging, Environment, Delete, Terminate, launchVars

\* The user data in the shared variables are those of some NodeClaim.
UserOfSome == static.user \in {Nothing} \union {UserData[Class(n)] : n \in NodeClaims}

LEMMA SharedStep ==
  ASSUME LaunchForms, UserOfSome, [Next]_vars
  PROVE  UserOfSome'
<1>1. CASE UNCHANGED <<static, nodeClassOf>>
  BY <1>1 DEF UserOfSome, Class
<1>2. CASE Crash
  BY <1>2 DEF Crash, NoVars, UserOfSome
<1>3. ASSUME NEW n \in NodeClaims, ApplyUserData(n), UNCHANGED nodeClassOf  PROVE UserOfSome'
  <2>1. static'.user = UserData[Class(n)]
    BY <1>3, FormMet DEF ApplyUserData, UbuntuLinux
  <2> QED  BY <1>3, <2>1 DEF UserOfSome, Class
<1>4. ASSUME NEW n \in NodeClaims, ApplyPreInstallScript(n), UNCHANGED nodeClassOf  PROVE UserOfSome'
  <2>1. static'.user = static.user
    BY <1>4, FormMet DEF ApplyPreInstallScript
  <2> QED  BY <1>4, <2>1 DEF UserOfSome, Class
<1>5. ASSUME NEW n \in NodeClaims, LaunchStep(n) \/ LaunchError(n)  PROVE UserOfSome'
  BY <1>1, <1>3, <1>4, <1>5 DEF LaunchStep, LaunchError, List, Count, Resolve, CreateKubeletInstall,
     CreateBootstrapScript, LaunchInstance
<1>6. ASSUME NEW n \in NodeClaims, Terminate(n)  PROVE UserOfSome'
  BY <1>1, <1>6 DEF Terminate
<1> QED  BY LaunchAlone, <1>1, <1>2, <1>5, <1>6

\* A NodeClaim whose Node is known has an instance.
LEMMA NamedStep ==
  ASSUME NothingIsNoRecord, LaunchForms, [Next]_vars,
         named \subseteq {n \in NodeClaims : instance[n] # Nothing}
  PROVE  (named \subseteq {n \in NodeClaims : instance[n] # Nothing})'
<1>1. ASSUME NEW n \in named'
      PROVE  n \in named \/ (n \in NodeClaims /\ Register(n))
  BY <1>1 DEF Next, vars, Boot, Crash, Launching, Tagging, TaggerStep, TagBegin, TagGet, TagUpdate,
     TagUpdateError, TagAnnotate, TagError, Environment, Register, EditTags, Delete, Terminate, taggingVars
<1>2. ASSUME NEW n \in named'  PROVE n \in NodeClaims /\ instance[n] # Nothing
  BY <1>1, <1>2 DEF Register, Up
<1> QED  BY <1>2, InstancesKept

\* The types of the process, its launches and its tagging. Among them, that no
\* order of launches and terminations takes more addresses of a subnet than it
\* has, and that only NodeClaims with a Node are in the queue of the tagging
\* controller and only those with an instance have a Node.
THEOREM Typing ==
  ASSUME NothingIsNoRecord
  PROVE  Spec => []TypeOK
<1> DEFINE Known == BootForm /\ LaunchForms /\ OverlapInv /\ ScriptOfOverlap
                      /\ TaggingForms /\ TaggingInv
<1>1. Init => TypeOK
  <2> SUFFICES ASSUME Init  PROVE TypeOK
    OBVIOUS
  <2>1. StartTypeOK
    BY StartAssumption DEF Init, StartInit, StartTypeOK
  <2>2. ASSUME NEW s \in Subnets  PROVE Used(s) \in 0 .. Capacity(s)
    <3>1. In(s) = {}
      BY DEF In, Init, LaunchInit, Up
    <3>2. Used(s) = Others[s] + 0
      BY <3>1, UsedNumber, FS_EmptySet
    <3> QED  BY <3>2, SubnetAssumption
  <2>3. freeFormTags \subseteq Tags /\ \A n \in NodeClaims : tags[n] \subseteq Tags
    BY TaggingAssumption DEF Init, TaggingInit
  <2> QED  BY <2>1, <2>2, <2>3 DEF TypeOK, Init, LaunchInit, TaggingInit, NoVars, Idle, Resting
<1>2. ASSUME TypeOK, Known, Known', [Next]_vars  PROVE TypeOK'
  <2>1. StartTypeOK'
    BY <1>2, StartTypeStep DEF TypeOK
  <2>2. (subnetCache = Nothing \/ subnetCache \in Orders)'
    BY <1>2, CacheStep DEF TypeOK
  <2>3. (\A s \in Subnets : Used(s) \in 0 .. Capacity(s))'
    BY <1>2, AddressStep DEF TypeOK
  <2>4. UserOfSome'
    BY <1>2, SharedStep DEF TypeOK, UserOfSome
  <2>5. \A n \in NodeClaims : launch'[n].pc \in {"idle", "count", "user", "pre", "readPre", "readUser", "send"}
    BY <1>2 DEF LaunchForms, LaunchForm, Idle
  <2>6. (named \subseteq {n \in NodeClaims : instance[n] # Nothing})'
    BY <1>2, NamedStep DEF TypeOK
  <2>7. /\ freeFormTags' \subseteq Tags /\ \A n \in NodeClaims : tags'[n] \subseteq Tags
        /\ queue' \subseteq named'
    BY <1>2 DEF TaggingForms
  <2>8. tagger'.pc \in {"idle", "get", "update", "annotate"}
    BY <1>2 DEF TaggingInv, Resting
  <2> QED  BY <2>1, <2>2, <2>3, <2>4, <2>5, <2>6, <2>7, <2>8 DEF TypeOK, UserOfSome
<1>3. Spec => []Known
  <2>1. Init => BootForm
    BY DEF Init, StartInit, BootForm
  <2> QED  BY <2>1, StartStep, LaunchInvariant, TaggingInvariant, PTL DEF Spec
<1> QED  BY <1>1, <1>2, <1>3, PTL DEF Spec
=============================================================================
