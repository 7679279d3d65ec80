---------------------------- MODULE PricingRefresh ----------------------------
(***************************************************************************)
(* The price catalogue: the providers.pricing controller replaces it every *)
(* few hours under the write lock, which it holds for the whole HTTP call; *)
(* each instance type a lister prices takes the read lock once. The work   *)
(* of the controller runs in a goroutine of lop.ForEach, outside the       *)
(* recover of controller-runtime, so a panic there ends the process.       *)
(***************************************************************************)
EXTENDS PriceCalculation

CONSTANTS
  Listers,        \* goroutines that list instance types
  Shapes,         \* the instance types they price, in the order of the list
  MaxVersion,     \* bound on the price lists OCI publishes
  MaxFailures     \* bound on refreshes that fail

ASSUME PricingAssumption ==
  /\ MaxVersion \in Nat /\ MaxFailures \in Nat
  /\ Len(Shapes) \in Nat \ {0} /\ DOMAIN Shapes = 1 .. Len(Shapes)

\* 0 is the embedded price list; Nil is a catalogue that is no catalogue.
Nil == MaxVersion + 1
Catalogues == 0 .. Nil

\* The list OCI publishes as version v sells the same items at other prices.
Published(v) == [i \in DOMAIN DefaultPrice |-> [DefaultPrice[i] EXCEPT !.price = @ * (v + 1)]]

\* Price under each catalogue, worked out once.
PriceTable == [v \in Catalogues |-> [i \in DOMAIN Shapes |->
                IF v = Nil THEN CalculateNil(Shapes[i]) ELSE Calculate(Shapes[i], Published(v))]]

\* The prices there are: of a shape, in a catalogue.
Prices == {[shape |-> i, price |-> PriceTable[v][i], from |-> v] : i \in DOMAIN Shapes, v \in Catalogues}

VARIABLES
  up,         \* the process runs
  catalogue,  \* priceCatalog
  remote,     \* the price list the endpoint serves
  lock,       \* the RWMutex: "free", or held by the refresh that is "fetching"
  due,        \* the controller's next reconcile is due
  useLocal,   \* USE_LOCAL_PRICE_LIST
  next,       \* [Listers -> the instance type to price next, 0 for none]
  last,       \* [Listers -> the price made last and its catalogue, or nothing]
  failures

vars == <<up, catalogue, remote, lock, due, useLocal, next, last, failures>>

TypeOK ==
  /\ up \in BOOLEAN /\ lock \in {"free", "fetching"} /\ due \in BOOLEAN
  /\ catalogue \in Catalogues
  /\ remote \in 0 .. MaxVersion
  /\ useLocal \in BOOLEAN
  /\ next \in [Listers -> 0 .. Len(Shapes)]
  /\ last \in [Listers -> SUBSET Prices]
  /\ failures \in 0 .. MaxFailures

Init ==
  /\ up = TRUE /\ catalogue = 0 /\ remote = 0
  /\ lock = "free" /\ due = TRUE /\ useLocal \in BOOLEAN
  /\ next = [l \in Listers |-> 0]
  /\ last = [l \in Listers |-> {}]
  /\ failures = 0

-----------------------------------------------------------------------------
(* The controller.                                                         *)

\* UpdateOnDemandPricing takes the write lock and sends the GET.
RefreshBegin ==
  /\ up /\ due /\ lock = "free" /\ ~useLocal
  /\ lock' = "fetching" /\ due' = FALSE
  /\ UNCHANGED <<up, catalogue, remote, useLocal, next, last, failures>>

\* What a refresh leaves when the embedded list is to be used.
LocalList == catalogue

\* With USE_LOCAL_PRICE_LIST it returns at once.
RefreshLocal ==
  /\ up /\ due /\ lock = "free" /\ useLocal
  /\ catalogue' = LocalList
  /\ due' = FALSE
  /\ UNCHANGED <<up, remote, lock, useLocal, next, last, failures>>

\* What Get decodes. (Variant: the list it had.)
FetchedKept == catalogue
Fetched     == remote

\* The list is decoded and replaces the old one; the deferred unlock runs.
RefreshOK ==
  /\ up /\ lock = "fetching"
  /\ catalogue' = Fetched
  /\ lock' = "free"
  /\ UNCHANGED <<up, remote, due, useLocal, next, last, failures>>

\* What a failed refresh leaves behind. (Variants: the catalogue of the failed
\* call is stored; the embedded list is; the unlock is not deferred.)
AfterErrorStored == catalogue' = Nil /\ lock' = "free"
AfterErrorReset  == catalogue' = 0 /\ lock' = "free"
AfterErrorLocked == catalogue' = catalogue /\ lock' = "leaked"
AfterError       == catalogue' = catalogue /\ lock' = "free"

\* The GET fails, times out after 30 seconds, or gives no price list: the error
\* is returned and the controller is requeued at once.
RefreshError ==
  /\ up /\ lock = "fetching" /\ failures < MaxFailures
  /\ failures' = failures + 1
  /\ AfterError
  /\ due' = TRUE
  /\ UNCHANGED <<up, remote, useLocal, next, last>>

\* A status above 299: Get returns no catalogue and no error, the nil catalogue
\* is stored, and logging the number of its items panics. It has changed, since
\* the process has seen none or a real one before.
RefreshBadStatus ==
  /\ up /\ lock = "fetching" /\ failures < MaxFailures
  /\ failures' = failures + 1
  /\ catalogue' = Nil /\ lock' = "free"
  /\ up' = FALSE
  /\ UNCHANGED <<remote, due, useLocal, next, last>>

\* RequeueAfter, PRICE_SYNC_PERIOD hours after a success.
BecomeDue ==
  /\ up /\ ~due /\ lock = "free"
  /\ due' = TRUE
  /\ UNCHANGED <<up, catalogue, remote, lock, useLocal, next, last, failures>>

\* The pod is started again: Reset decodes the embedded list.
Restart ==
  /\ ~up
  /\ up' = TRUE /\ catalogue' = 0 /\ lock' = "free" /\ due' = TRUE
  /\ next' = [l \in Listers |-> 0]
  /\ last' = [l \in Listers |-> {}]
  /\ UNCHANGED <<remote, useLocal, failures>>

-----------------------------------------------------------------------------
(* The listers and the endpoint.                                           *)

ListBegin(l) ==
  /\ up /\ next[l] = 0
  /\ next' = [next EXCEPT ![l] = 1]
  /\ last' = [last EXCEPT ![l] = {}]
  /\ UNCHANGED <<up, catalogue, remote, lock, due, useLocal, failures>>

\* Price of the next instance type, under the read lock.
ReadPrice(l) ==
  /\ up /\ lock = "free" /\ next[l] # 0
  /\ next' = [next EXCEPT ![l] = IF @ = Len(Shapes) THEN 0 ELSE @ + 1]
  /\ last' = [last EXCEPT ![l] = {[shape |-> next[l], price |-> PriceTable[catalogue][next[l]],
                                    from |-> catalogue]}]
  /\ UNCHANGED <<up, catalogue, remote, lock, due, useLocal, failures>>

\* OCI publishes its price list, changed or not.
PublishPrices ==
  /\ remote' \in {remote, remote + 1} \intersect 0 .. MaxVersion
  /\ UNCHANGED <<up, catalogue, lock, due, useLocal, next, last, failures>>

Next ==
  \/ RefreshBegin \/ RefreshLocal \/ RefreshOK \/ RefreshError \/ RefreshBadStatus
  \/ BecomeDue \/ Restart \/ PublishPrices
  \/ \E l \in Listers : ListBegin(l) \/ ReadPrice(l)

Spec == Init /\ [][Next]_vars

\* The GET ends (the client has a timeout), the controller is requeued and its
\* goroutines run; a waiting reader gets the lock some time, as the RWMutex is
\* fair to readers that were there before the next writer.
FairSpec ==
  /\ Spec
  /\ WF_vars(RefreshBegin) /\ WF_vars(BecomeDue) /\ WF_vars(Restart)
  /\ WF_vars(RefreshOK)
  /\ \A l \in Listers : SF_vars(ReadPrice(l))

-----------------------------------------------------------------------------
(* Properties.                                                             *)

\* The newest list a process may have prices of.
Newest == IF useLocal THEN 0 ELSE remote

\* Every price is computed from the embedded list or from one the endpoint has
\* served, also in a list that a refresh cuts in two or that follows a failed
\* refresh; with USE_LOCAL_PRICE_LIST it always is the embedded one.
PricesReal ==
  \A l \in Listers : \A p \in last[l] : p.from <= Newest

\* Why prices are real: the catalogue of a running process is the embedded list
\* or one that was served, and a refresh only fetches where the embedded list is
\* not asked for.
CatalogueServed == up => catalogue <= Newest
FetchOnlyRemote == lock = "fetching" => ~useLocal
PricingInv      == CatalogueServed /\ FetchOnlyRemote /\ PricesReal

\* A refresh may cut the list of a lister in two, but only into an older part and a
\* newer one: no price is of an older catalogue than the one before it, since a
\* refresh that answers late, or fails, never takes a catalogue back
\* (UpdateOnDemandPricing, Price).
PricesGoForward ==
  [][\A l \in Listers : \A p \in last[l], q \in last'[l] : p.from <= q.from]_vars

\* Why they do: the catalogue of a running process is not older than any that the
\* last price of a lister is of.
ReadBehindCatalogue ==
  \A l \in Listers :
    /\ \A p, q \in last[l] : p = q
    /\ up => \A p \in last[l] : p.from <= catalogue

\* A list of instance types is priced to its end: a refresh, failed or not,
\* does not keep the listers out for ever.
ListsComplete ==
  \A l \in Listers : (next[l] # 0) ~> (next[l] = 0)

\* When OCI publishes no new list, the catalogue becomes the one it serves.
CatalogueFresh == <>[](useLocal \/ catalogue = remote)
=============================================================================
