--------------------------- MODULE MCPricingRefresh ---------------------------
(* Shapes for PricingRefresh: those of the repository's own tests, with    *)
(* what the tests expect of the price list.                                *)
EXTENDS PricingRefresh

\* A shape's name as the search sees it.
Name(tier, kind, series, third, parts) ==
  [tier |-> tier, kind |-> kind, series |-> series, third |-> third, parts |-> parts]

Shape(name, ocpus, mem, gpus, disk, expected) ==
  [tier |-> name.tier, kind |-> name.kind, series |-> name.series, third |-> name.third,
   parts |-> name.parts, cpu |-> IF name.third = "A1" THEN ocpus ELSE 2 * ocpus,
   a1 |-> name.third = "A1", mem |-> mem, gpus |-> gpus, disk |-> disk, expected |-> expected]
Flex(g, mem, expected) ==
  Shape(Name("VM", "Standard", "Standard", g, 4), 1, mem, 0, 0, expected)

\* calculator_test.go: the shapes and their prices. Those of Standard3 and
\* DenseIO2 are the hourly commitments of VMware nodes.
TestedShapes ==
  <<Shape(Name("BM", "GPU", "GPU", "A10", 4), 0, 0, 4, 0, 800000),
    Shape(Name("VM", "Standard", "Standard", "B1", 4), 16, 0, 0, 0, 102080),
    Shape(Name("VM", "Standard", "Standard", "B1", 4), 1, 0, 0, 0, 6380),
    Shape(Name("BM", "DenseIO", "DenseIO", "E5", 4), 128, 1536, 0, 835584, 1190592),
    Flex("E2", 1, 3000), Flex("E4", 8, 3700), Flex("E6", 12, 5400), Flex("A1", 6, 0),
    Flex("A2", 6, 2600), Flex("A4", 6, 3000),
    Shape(Name("VM", "Standard", "Standard3", "Flex", 3), 1, 8, 0, 0, 34712),
    Shape(Name("VM", "DenseIO", "DenseIO2", "16", 3), 16, 240, 0, 0, 389920)>>

\* price_test.go: the shapes, sizes left out, that are found in the price list.
FoundShapes ==
  {Name(tier, "Standard", "Standard", g, 4) : tier \in {"BM", "VM"}, g \in {"B1", "E2"}}
    \union {Name("VM", "Standard", "Standard", "E2", 5)}
    \union {Name("BM", "Standard", "Standard", g, 4) : g \in {"A1", "A4", "E3", "E4", "E5", "E6"}}
    \union {Name("BM", "DenseIO", "DenseIO", g, 4) : g \in {"E4", "E5"}}
    \union {Name(tier, "GPU", "GPU", "A10", 4) : tier \in {"BM", "VM"}}
    \union {Name(tier, "GPU", g, "2", 3) : tier \in {"BM", "VM"}, g \in {"GPU2", "GPU3"}}
    \union {Name(tier, "Standard", g, "8", 3) : tier \in {"BM", "VM"}, g \in {"Standard1", "Standard2"}}
    \union {Name(tier, "DenseIO", "DenseIO2", "8", 3) : tier \in {"BM", "VM"}}
    \union {Name("BM", "Standard", "Standard3", "64", 3), Name("BM", "HPC", "HPC2", "36", 3),
            Name("BM", "Optimized", "Optimized3", "36", 3)}

\* ... and the one that is not.
MissingShapes == {Name("BM", "GPU", "GPU", "B4", 4)}

SearchAsTested ==
  /\ \A s \in FoundShapes : FindPriceItems(DefaultPrice, s) # <<>>
  /\ \A s \in MissingShapes : FindPriceItems(DefaultPrice, s) = <<>>

\* By the embedded price list the search finds something for every shape that
\* price_test.go says it finds, nothing for the one it says is missing, and the
\* prices that listers get are those calculator_test.go expects: what the tests
\* say of the list on Oracle's server is true of the list in the binary
\* (FindPriceItems, Calculate). Whether a shape is sold at such a price is not
\* what the tests ask.
PricedAsTested ==
  /\ SearchAsTested
  /\ \A l \in Listers : \A p \in last[l] : p.from = 0 => p.price = Shapes[p.shape].expected
=============================================================================
