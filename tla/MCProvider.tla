------------------------------ MODULE MCProvider ------------------------------
(* Small instances of Provider for TLC.                                    *)
EXTENDS Provider

Keys == [tenancy |-> "t", user |-> "u", key |-> [sealed |-> "p"], fingerprint |-> "f", keyPassphrase |-> "p"]

ByKey(file) == [settings |-> [clusterName |-> "c", endpoint |-> "URL", auth |-> "API_KEY"], config |-> file]

ByDefault(settings) == [settings |-> settings, config |-> Nothing]

SomeDeployments ==
  {ByDefault([clusterName |-> "c", overhead |-> 7]),
   ByDefault([endpoint |-> "URL"]),
   ByDefault([clusterName |-> "c", overhead |-> 101]),
   ByKey(Nothing),
   ByKey([compartment |-> "c", auth |-> Keys @@ [region |-> "r"]]),
   ByKey([auth |-> Keys @@ [region |-> "r"]]),
   ByKey([auth |-> Keys @@ [compartment |-> "c"]]),
   ByKey([auth |-> [principals |-> TRUE]]),
   ByKey([compartment |-> "c"])}

\* The passphrase in the field that replaces the deprecated one.
PassphraseDeployments ==
  {ByKey([compartment |-> "c", auth |-> [Keys EXCEPT !.keyPassphrase = Nothing]
                                          @@ [region |-> "r", passphrase |-> "p"]])}

TheMetadata == [compartment |-> "c", canonicalRegionName |-> "r"]

TwoClaims == {"n1", "n2"}
UbuntuAndOther == {[n1 |-> "a", n2 |-> "b"], [n1 |-> "c", n2 |-> "o"]}
Families == [a |-> "Ubuntu2204", b |-> "Ubuntu2204", o |-> "unknown", c |-> "Custom"]
Text(t) == [form |-> "text", text |-> t]
UserDatas == [a |-> Text("ua"), b |-> Text("ub"), o |-> [form |-> "mime", parts |-> <<"uo1", "uo2">>], c |-> Nothing]
Scripts == [a |-> "pa", b |-> Nothing, o |-> Nothing, c |-> Nothing]
Pods == [n1 |-> 1, n2 |-> 1]

\* s1 has room for one instance; of s2 another block is reported first, and it
\* looks no freer than s1.
TwoSubnets == {"s1", "s2"}
Bits == [s1 |-> 1, s2 |-> 2]
InUse == [s1 |-> 1, s2 |-> 1]
Own == [own |-> TRUE]
Other(utilization) == [own |-> FALSE, utilization |-> utilization]
Reported == [s1 |-> <<Own, Other(900)>>, s2 |-> <<Other(750), Own>>]
TwoTags == {"t1", "t2"}
OneTag == {"t1"}
=============================================================================
