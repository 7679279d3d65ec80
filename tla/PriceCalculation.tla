--------------------------- MODULE PriceCalculation ---------------------------
(***************************************************************************)
(* The price of a shape: its name is parsed, the items of the price list   *)
(* whose names hold the search key are collected, and each is multiplied   *)
(* by what the shape has of it. Prices are in 10^-5 dollars, rounded down  *)
(* where the code divides.                                                 *)
(*                                                                         *)
(* A shape is a record: tier and series are the first two parts of its     *)
(* name, kind the series without its number, third the third part, parts   *)
(* how many there are; cpu (vCPUs), mem (gigabytes), gpus and disk (tenths *)
(* of a gigabyte) its size; a1 whether it is A1.Flex, whose OCPUs are one  *)
(* vCPU each.                                                              *)
(***************************************************************************)
EXTENDS PriceList, SequencesExt

MaxFloat32 == 2147483647

\* Pairs of words of the list and the keys where one is the start of the other.
Starts == {<<"Standard", "Standard2">>, <<"Standard", "Standard3">>, <<"A10", "A100">>}

-----------------------------------------------------------------------------
(* The search.                                                             *)

\* ParseShape: the service category, and the ones to fall back to.
ServiceCategory(s) ==
  IF s.kind = "GPU" THEN "Compute - GPU"
  ELSE IF s.tier = "BM" THEN "Compute - Bare Metal" ELSE "Compute - Virtual Machine"

CandidateServiceCategory(s) ==
  (IF s.kind = "GPU" THEN {} ELSE {"Compute - VMware"})
    \union (IF s.kind # "GPU" /\ s.tier = "BM" THEN {"Compute - Virtual Machine"} ELSE {})

\* ParseShape: DenseIO and HPC lose their form, the other series keep it.
ServiceType(s) ==
  CASE s.series = "DenseIO" -> "Dense I/O" [] s.kind = "HPC" -> "HPC" [] OTHER -> s.series

SpecialTypeMap ==
  [GPU2 |-> <<"GPU">> \o Standard("X7"), GPU3 |-> <<"GPU">> \o Standard("X7"),
   Standard1 |-> Standard("X5"), Optimized3 |-> Standard("HPC") \o <<"-", "X7">>,
   HPC |-> Standard("HPC") \o <<"-", "X7">>]

SearchKey(s) ==
  (IF ServiceType(s) \in DOMAIN SpecialTypeMap THEN SpecialTypeMap[ServiceType(s)] ELSE <<ServiceType(s)>>)
    \o (IF s.parts > 3 THEN <<"-", s.third>> ELSE <<>>)

\* The key stands in the name between word boundaries; anywhere in the text.
HasWords(name, key) ==
  \E i \in 1 .. Len(name) - Len(key) + 1 : SubSeq(name, i, i + Len(key) - 1) = key

HasText(name, key) ==
  \E i \in 1 .. Len(name) - Len(key) + 1 :
    LET text == SubSeq(name, i, i + Len(key) - 1) IN
    Front(text) = Front(key) /\ (Last(text) = Last(key) \/ <<Last(key), Last(text)>> \in Starts)

FindCandidate(items, categories) == SelectSeq(items, LAMBDA it : it.category \in categories)

\* Variant: every service is searched.
FindPriceItemsAnywhere(items, s) == SelectSeq(items, LAMBDA it : HasWords(it.name, SearchKey(s)))

FindPriceItems(items, s) ==
  LET own == SelectSeq(FindCandidate(items, {ServiceCategory(s)}),
                       LAMBDA it : HasWords(it.name, SearchKey(s)))
  IN  IF own # <<>> THEN own
      ELSE SelectSeq(FindCandidate(items, CandidateServiceCategory(s)),
                     LAMBDA it : HasText(it.name, SearchKey(s)))

-----------------------------------------------------------------------------
(* The sum.                                                                *)

Named(it, word) == Contains(it.name, word)

\* GetPrice in dollars, for one core where a node is sold.
PricePerUnit(it) ==
  (it.price * 10) \div (IF it.metric = NodePerHour THEN it.cores ELSE 1)

Ocpus(s) == s.cpu \div (IF s.a1 THEN 1 ELSE 2)

\* Calculate with one item: as much of it as the shape has by its metric.
Quantity(s, it) ==
  CASE it.metric = GpuPerHour -> s.gpus
    [] it.metric = OcpuPerHour -> Ocpus(s)
    [] it.metric = GigabytePerHour -> s.mem
    [] it.metric = NodePerHour -> IF Named(it, "GPU") THEN s.gpus ELSE Ocpus(s)
    [] it.metric = NVMeTerabytePerHour -> s.disk \div 10
    [] OTHER -> 0

PriceOfOne(s, it) == IF Named(it, "Free") THEN 0 ELSE Quantity(s, it) * PricePerUnit(it)

Part(it)   == Named(it, "OCPU") \/ Named(it, "Memory") \/ Named(it, "NVMe")
Commit(it) == \E t \in {"1 Month Commit", "1 Year Commit", "3 Year Commit"} : Named(it, t)

\* What one of several items adds: by its name.
PriceOfPart(s, it) ==
  IF Named(it, "OCPU") THEN Ocpus(s) * PricePerUnit(it)
  ELSE IF Named(it, "Memory") THEN s.mem * PricePerUnit(it)
  ELSE IF Named(it, "NVMe") THEN (s.disk * (PricePerUnit(it) \div 10)) \div 1024
  ELSE IF Commit(it) THEN 0
  ELSE Ocpus(s) * PricePerUnit(it)

\* The loop over several items breaks at one with an hourly commitment.
Counted(items) ==
  LET stop == SelectInSeq(items, LAMBDA it : ~Part(it) /\ ~Commit(it) /\ Named(it, "Hourly Commit"))
  IN  IF stop = 0 THEN items ELSE SubSeq(items, 1, stop)

Calculate(s, items) ==
  LET found == FindPriceItems(items, s) IN
  CASE Len(found) = 0 -> MaxFloat32
    [] Len(found) = 1 -> PriceOfOne(s, found[1])
    [] Len(found) > 1 -> FoldLeft(LAMBDA sum, it : sum + PriceOfPart(s, it), 0, Counted(found))

\* Calculate without a price list: eight dollars for an OCPU, one for a gigabyte.
CalculateNil(s) == (8 * Ocpus(s) + s.mem) * 100000
=============================================================================
