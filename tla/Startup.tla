------------------------------- MODULE Startup -------------------------------
(***************************************************************************)
(* From the start of the process to the start of its controllers: the     *)
(* options are validated, with the API_KEY method a configuration file is  *)
(* read, completed from the instance metadata and validated, and the       *)
(* clients are made. Every error ends the process (lo.Must) and Kubernetes *)
(* starts it again, perhaps with a deployment corrected meanwhile.         *)
(***************************************************************************)
EXTENDS Naturals, TLC

CONSTANTS Nothing,     \* an empty string, a missing file, no answer
          Deployments, \* what the process may be given: settings and a configuration file
          Metadata,    \* what the instance metadata service answers
          MaxEvents    \* bound on what disturbs the process: see Event

ASSUME StartAssumption == MaxEvents \in Nat

VARIABLES phase,    \* "down", "config", "identity", "clients" or "up"
          boot,     \* of a process being started: its options, and its configuration
                    \* file, in whose place the provider comes that is made from it
          events    \* disturbances so far

startVars == <<phase, boot>>

\* A failing call, an unusable deployment, a crash, an expired cache, a change
\* by a user: as many as there may be, in any order.
Event == events < MaxEvents /\ events' = events + 1

Given(x) == x # Nothing
Or(x, y) == IF Given(x) THEN x ELSE y

-----------------------------------------------------------------------------
(* Options, from flags and the environment.                                *)

AddFlags(settings) ==
  settings @@ [clusterName |-> Nothing, endpoint |-> Nothing, overhead |-> 0, auth |-> "OKE"]

ValidateEndpoint(o) == o.endpoint # "not a URL"
ValidateOverhead(o) == o.overhead \in 0 .. 100
ValidateRequired(o) == Given(o.clusterName)

Validate(o) == ValidateEndpoint(o) /\ ValidateOverhead(o) /\ ValidateRequired(o)

-----------------------------------------------------------------------------
(* The configuration file: region, compartment, whether to use instance    *)
(* principals, and in auth the credentials and the deprecated fields. What *)
(* the file does not have is empty. A key is sealed with a passphrase.     *)

NoAuth ==
  [region |-> Nothing, tenancy |-> Nothing, user |-> Nothing, key |-> Nothing, fingerprint |-> Nothing,
   passphrase |-> Nothing, principals |-> FALSE, compartment |-> Nothing, keyPassphrase |-> Nothing]

Decode(yaml) ==
  LET c == yaml @@ [auth |-> <<>>, principals |-> FALSE, compartment |-> Nothing]
  IN  [c EXCEPT !.auth = @ @@ NoAuth]

\* metadataGetter.Get: an answer, or an error of any kind.
Get == {Metadata, Nothing}

\* Variant: the metadata is asked only if both fields are missing.
AuthCompleteBoth(a, meta) ==
  IF Given(a.region) \/ Given(a.compartment) \/ ~Given(meta) THEN a
  ELSE [a EXCEPT !.region = meta.canonicalRegionName, !.compartment = meta.compartment]

AuthComplete(a, meta) ==
  LET b == [a EXCEPT !.passphrase = Or(@, a.keyPassphrase)] IN
  IF ~Given(meta) THEN b
  ELSE [b EXCEPT !.region = Or(@, meta.canonicalRegionName),
                 !.compartment = Or(@, meta.compartment)]

\* Config.Complete without RegionKey, which nothing reads.
Complete(c, meta) ==
  LET auth == AuthComplete(c.auth, meta) IN
  [c EXCEPT !.auth = auth,
            !.compartment = Or(@, auth.compartment),
            !.principals = @ \/ auth.principals]

\* FromFile, ReadConfig: a file that is missing or cannot be read is an error.
FromFile(file, meta) == IF Given(file) THEN Complete(Decode(file), meta) ELSE Nothing

ValidateAuth(a) ==
  Given(a.region) /\ Given(a.tenancy) /\ Given(a.user) /\ Given(a.key) /\ Given(a.fingerprint)

ValidateConfig(c) == Given(c.compartment) /\ (c.principals \/ ValidateAuth(c.auth))

\* A provider signs calls with the identity of the pod, of the machine or of a
\* session, or with a key. The passphrase it is given is the deprecated one.
Identity == [by |-> "identity"]

NewConfigurationProvider(c) ==
  IF ~Given(c) \/ ~ValidateConfig(c) THEN Nothing
  ELSE IF c.principals THEN Identity
  ELSE [by |-> "key", region |-> c.auth.region, tenancy |-> c.auth.tenancy, user |-> c.auth.user,
        fingerprint |-> c.auth.fingerprint, key |-> c.auth.key,
        passphrase |-> c.auth.keyPassphrase]

Signs(p) == p.by = "key" => p.key.sealed = p.passphrase

-----------------------------------------------------------------------------
(* What the operator's documentation asks of a deployment, whatever the    *)
(* process makes of it: the passphrase is that of auth.passphrase, or of   *)
(* the field it deprecates.                                                *)

Usable(o, file) ==
  /\ Given(o.clusterName) /\ o.endpoint # "not a URL" /\ o.overhead \in 0 .. 100
  /\ o.auth = "API_KEY" =>
       /\ Given(file)
       /\ LET c == Decode(file) IN
          \/ c.principals \/ c.auth.principals
          \/ /\ \A f \in {"tenancy", "user", "key", "fingerprint"} : Given(c.auth[f])
             /\ Or(c.auth.passphrase, c.auth.keyPassphrase) = c.auth.key.sealed

-----------------------------------------------------------------------------

StartInit == phase = "down" /\ boot = Nothing /\ events = 0

\* lo.Must, or a signal: the container ends and loses what it has in memory.
Exit == phase' = "down" /\ boot' = Nothing

\* NewOperator begins with the method by which calls are authenticated; an
\* unknown one is taken for OKE.
AuthMethod(o, file) ==
  IF o.auth = "API_KEY" THEN phase' = "config" /\ boot' = [options |-> o, config |-> file]
  ELSE phase' = "identity" /\ boot' = [options |-> o, config |-> Identity]

\* main, Options.Parse. Invalid options end the process at once.
Start ==
  /\ phase = "down"
  /\ \E d \in Deployments :
       LET o == AddFlags(d.settings) IN
       /\ IF Usable(o, d.config) THEN UNCHANGED events ELSE Event
       /\ IF Validate(o) THEN AuthMethod(o, d.config) ELSE Exit

\* The metadata service is asked up to three times; the answer that can matter
\* is that of AuthConfig.Complete, as a configuration without compartment does
\* not get past Validate. From here on boot has the provider for the file.
NewOCIProvisioner ==
  /\ phase = "config"
  /\ \E meta \in Get :
       LET provider == NewConfigurationProvider(FromFile(boot.config, meta)) IN
       /\ IF Given(meta) THEN UNCHANGED events ELSE Event
       /\ IF Given(provider) THEN phase' = "identity" /\ boot' = [boot EXCEPT !.config = provider]
          ELSE Exit

\* NewOperator: the list of availability domains, the first call to be signed.
ListAvailabilityDomains ==
  /\ phase = "identity"
  /\ \/ Signs(boot.config) /\ phase' = "clients" /\ UNCHANGED <<boot, events>>
     \/ ~Signs(boot.config) /\ Exit /\ UNCHANGED events
     \/ Event /\ Exit

\* NewOperator: region, clients, CA bundle and providers, then the controllers.
NewOperator ==
  /\ phase = "clients"
  /\ \/ phase' = "up" /\ boot' = Nothing /\ UNCHANGED events
     \/ Event /\ Exit

StartNext == Start \/ NewOCIProvisioner \/ ListAvailabilityDomains \/ NewOperator

Killed == phase # "down" /\ Exit

-----------------------------------------------------------------------------
StartTypeOK ==
  /\ phase \in {"down", "config", "identity", "clients", "up"}
  /\ events \in 0 .. MaxEvents
  /\ (boot = Nothing) <=> (phase \in {"down", "up"})
=============================================================================
