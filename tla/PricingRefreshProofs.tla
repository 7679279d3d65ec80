------------------------- MODULE PricingRefreshProofs -------------------------
(* Proofs about PricingRefresh, for every number of listers, every list of *)
(* shapes, every number of price lists published and of refreshes failed.  *)
EXTENDS PricingRefresh, TLAPS

\* The lists are numbered from the embedded one; Nil is after the last.
LEMMA CatalogueNumbers ==
  /\ 0 \in Catalogues /\ Nil \in Catalogues
  /\ \A v \in 0 .. MaxVersion : v \in Catalogues /\ v # Nil
BY PricingAssumption DEF Catalogues, Nil

\* A list that is begun ends after its last shape.
LEMMA NextShape ==
  ASSUME NEW i \in 0 .. Len(Shapes), i # 0
  PROVE  /\ i \in DOMAIN Shapes
         /\ (IF i = Len(Shapes) THEN 0 ELSE i + 1) \in 0 .. Len(Shapes)
<1> DEFINE n == Len(Shapes)
<1>1. n \in Nat /\ DOMAIN Shapes = 1 .. n /\ i \in 0 .. n
  BY PricingAssumption
<1> HIDE DEF n
<1>2. i \in DOMAIN Shapes /\ (IF i = n THEN 0 ELSE i + 1) \in 0 .. n
  BY <1>1
<1> QED  BY <1>2 DEF n

\* Every step keeps the variables in their types.
LEMMA TypeStep ==
  ASSUME TypeOK, [Next]_vars
  PROVE  TypeOK'
<1> USE PricingAssumption, CatalogueNumbers
<1>1. CASE RefreshBegin \/ RefreshLocal
  BY <1>1 DEF TypeOK, RefreshBegin, RefreshLocal, LocalList
<1>2. CASE RefreshOK
  BY <1>2 DEF TypeOK, RefreshOK, Fetched
<1>3. CASE RefreshError \/ RefreshBadStatus
  <2>1. failures' \in 0 .. MaxFailures
    BY <1>3 DEF TypeOK, RefreshError, RefreshBadStatus
  <2>2. catalogue' \in Catalogues /\ lock' = "free" /\ up' \in BOOLEAN /\ due' \in BOOLEAN
    BY <1>3 DEF TypeOK, RefreshError, AfterError, RefreshBadStatus
  <2> QED  BY <1>3, <2>1, <2>2 DEF TypeOK, RefreshError, RefreshBadStatus
<1>4. CASE BecomeDue \/ PublishPrices
  BY <1>4 DEF TypeOK, BecomeDue, PublishPrices
<1>5. CASE Restart
  BY <1>5 DEF TypeOK, Restart
<1>6. ASSUME NEW l \in Listers, ListBegin(l)  PROVE TypeOK'
  BY <1>6 DEF TypeOK, ListBegin
<1>7. ASSUME NEW l \in Listers, ReadPrice(l)  PROVE TypeOK'
  <2>1. next[l] \in DOMAIN Shapes
    BY <1>7, NextShape DEF ReadPrice, TypeOK
  <2>2. [shape |-> next[l], price |-> PriceTable[catalogue][next[l]], from |-> catalogue]
          \in Prices
    BY <2>1 DEF TypeOK, Prices
  <2>3. last' \in [Listers -> SUBSET Prices]
    BY <1>7, <2>2 DEF ReadPrice, TypeOK
  <2>4. next' \in [Listers -> 0 .. Len(Shapes)]
    BY <1>7, NextShape DEF ReadPrice, TypeOK
  <2> QED  BY <1>7, <2>3, <2>4 DEF ReadPrice, TypeOK
<1>8. CASE UNCHANGED vars
  BY <1>8 DEF TypeOK, vars
<1> QED  BY <1>1, <1>2, <1>3, <1>4, <1>5, <1>6, <1>7, <1>8 DEF Next

\* The type invariant of the price catalogue. Every price a lister has is the
\* one Calculate gives for its shape in one catalogue.
THEOREM Typing == Spec => []TypeOK
<1>1. Init => TypeOK
  BY PricingAssumption, CatalogueNumbers DEF Init, TypeOK
<1> QED  BY <1>1, TypeStep, PTL DEF Spec

\* One step of the argument that prices are real: a failed refresh keeps the
\* catalogue, or ends the process before anybody reads what it stored.
LEMMA PricingStep ==
  ASSUME TypeOK, PricingInv, [Next]_vars
  PROVE  PricingInv'
<1> USE PricingAssumption DEF PricingInv, CatalogueServed, FetchOnlyRemote, PricesReal, Newest
<1>1. CASE RefreshBegin \/ RefreshLocal
  BY <1>1 DEF RefreshBegin, RefreshLocal, LocalList
<1>2. CASE RefreshOK
  BY <1>2 DEF RefreshOK, Fetched, TypeOK
<1>3. CASE RefreshError \/ RefreshBadStatus
  BY <1>3 DEF RefreshError, AfterError, RefreshBadStatus
<1>4. CASE BecomeDue
  BY <1>4 DEF BecomeDue
<1>5. CASE PublishPrices
  <2>1. remote' \in Nat /\ remote <= remote' /\ remote \in Nat /\ catalogue \in Nat
    BY <1>5 DEF PublishPrices, TypeOK, Catalogues, Nil
  <2>2. \A l \in Listers : \A p \in last[l] : p.from \in Nat
    BY DEF TypeOK, Prices, Catalogues, Nil
  <2> QED  BY <1>5, <2>1, <2>2 DEF PublishPrices
<1>6. CASE Restart
  BY <1>6 DEF Restart, TypeOK
<1>7. ASSUME NEW l \in Listers, ListBegin(l)  PROVE PricingInv'
  BY <1>7 DEF ListBegin, TypeOK
<1>8. ASSUME NEW l \in Listers, ReadPrice(l)  PROVE PricingInv'
  BY <1>8 DEF ReadPrice, TypeOK
<1>9. CASE UNCHANGED vars
  BY <1>9 DEF vars
<1> QED  BY <1>1, <1>2, <1>3, <1>4, <1>5, <1>6, <1>7, <1>8, <1>9 DEF Next

\* The strengthened invariant holds from the start and in every step.
LEMMA PricingInvariant == Spec => [](TypeOK /\ PricingInv)
<1>1. Init => PricingInv
  BY DEF Init, PricingInv, CatalogueServed, FetchOnlyRemote, PricesReal, Newest
<1> QED  BY <1>1, PricingStep, Typing, PTL DEF Spec

\* No lister ever has a price of a catalogue that was not served, nor of the
\* empty one that a bad status leaves, however lists, refreshes, failures and
\* restarts interleave; with USE_LOCAL_PRICE_LIST all are of the embedded list.
THEOREM PricesAreReal == Spec => []PricesReal
<1>1. PricingInv => PricesReal
  BY DEF PricingInv
<1> QED  BY <1>1, PricingInvariant, PTL

-----------------------------------------------------------------------------
(* Prices go forward.                                                      *)

\* Only a refresh that is answered changes the catalogue of a running process, and
\* what it stores is not older.
LEMMA ReadBehindStep ==
  ASSUME TypeOK, PricingInv, ReadBehindCatalogue, [Next]_vars
  PROVE  ReadBehindCatalogue'
<1>0. /\ catalogue \in Nat /\ remote \in Nat
      /\ \A l \in Listers : \A p \in last[l] : p.from \in Nat
  BY PricingAssumption DEF TypeOK, Prices, Catalogues, Nil
<1> USE DEF ReadBehindCatalogue
<1>1. CASE RefreshOK
  <2>1. up /\ catalogue' = remote /\ UNCHANGED last
    BY <1>1 DEF RefreshOK, Fetched
  <2>2. catalogue <= remote
    BY <1>1 DEF RefreshOK, PricingInv, CatalogueServed, FetchOnlyRemote, Newest
  <2> QED  BY <1>0, <2>1, <2>2
<1>2. CASE RefreshBegin \/ RefreshLocal \/ RefreshError \/ BecomeDue \/ PublishPrices
  BY <1>2 DEF RefreshBegin, RefreshLocal, LocalList, RefreshError, AfterError, BecomeDue,
              PublishPrices
<1>3. CASE RefreshBadStatus
  BY <1>3 DEF RefreshBadStatus
<1>4. CASE Restart
  BY <1>4 DEF Restart
<1>5. ASSUME NEW l \in Listers, ListBegin(l)  PROVE ReadBehindCatalogue'
  BY <1>5 DEF ListBegin, TypeOK
<1>6. ASSUME NEW l \in Listers, ReadPrice(l)  PROVE ReadBehindCatalogue'
  BY <1>0, <1>6 DEF ReadPrice, TypeOK
<1>7. CASE UNCHANGED vars
  BY <1>7 DEF vars
<1> QED  BY <1>1, <1>2, <1>3, <1>4, <1>5, <1>6, <1>7 DEF Next

\* In every list the prices before a refresh are of an older catalogue than those
\* after it, and never the other way round, for any number of listers, refreshes in
\* between, failures and restarts.
THEOREM ListsGoForward == Spec => PricesGoForward
<1>1. Init => ReadBehindCatalogue
  BY DEF Init, ReadBehindCatalogue
<1>2. ASSUME TypeOK, ReadBehindCatalogue, Next
      PROVE  \A l \in Listers : \A p \in last[l], q \in last'[l] : p.from <= q.from
  <2>0. \A l \in Listers : \A p \in last[l] : p.from \in Nat
    BY <1>2, PricingAssumption DEF TypeOK, Prices, Catalogues, Nil
  <2>1. ASSUME NEW l \in Listers, ReadPrice(l)
        PROVE  \A k \in Listers : \A p \in last[k], q \in last'[k] : p.from <= q.from
    <3>1. up /\ \A k \in Listers : k # l => last'[k] = last[k]
      BY <1>2, <2>1 DEF ReadPrice, TypeOK
    <3>2. \A q \in last'[l] : q.from = catalogue
      BY <1>2, <2>1 DEF ReadPrice, TypeOK
    <3> QED  BY <1>2, <2>0, <3>1, <3>2 DEF ReadBehindCatalogue
  <2>2. ASSUME NEW l \in Listers, ListBegin(l)
        PROVE  \A k \in Listers : \A p \in last[k], q \in last'[k] : p.from <= q.from
    <3>1. \A k \in Listers : last'[k] = last[k] \/ last'[k] = {}
      BY <1>2, <2>2 DEF ListBegin, TypeOK
    <3> QED  BY <1>2, <2>0, <3>1 DEF ReadBehindCatalogue
  <2>3. CASE Restart
    BY <2>3 DEF Restart
  <2>4. CASE \/ RefreshBegin \/ RefreshLocal \/ RefreshOK \/ RefreshError \/ RefreshBadStatus
             \/ BecomeDue \/ PublishPrices
    <3>1. UNCHANGED last
      BY <2>4 DEF RefreshBegin, RefreshLocal, RefreshOK, RefreshError, RefreshBadStatus,
                  BecomeDue, PublishPrices
    <3> QED  BY <1>2, <2>0, <3>1 DEF ReadBehindCatalogue
  <2> QED  BY <1>2, <2>1, <2>2, <2>3, <2>4 DEF Next
<1> QED  BY <1>1, <1>2, ReadBehindStep, PricingInvariant, PTL DEF Spec, PricesGoForward
=============================================================================
