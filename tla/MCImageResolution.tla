-------------------------- MODULE MCImageResolution --------------------------
(* Small instances of ImageResolution for TLC.                             *)
EXTENDS ImageResolution

ThreeImages == 1 .. 3
ImageNames == [i \in Images |-> CASE i = 2 -> "arm64" [] i = 3 -> "gpu" [] OTHER -> "amd64"]
\* nc1 and nc2, of different families, have the same selector, nc3 one of its own.
TwoFamilies == [n \in NodeClasses |-> IF n = "nc2" THEN "Custom" ELSE OKE]
Shared == [n \in NodeClasses |-> IF n \in {"nc1", "nc2"} THEN "byCompartment" ELSE "byName"]
Selected == [s \in Selectors |-> IF s = "byName" THEN Images \ {1} ELSE Images]
=============================================================================
