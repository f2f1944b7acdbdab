------------------------ MODULE BackofficeListProofs ------------------------
(***************************************************************************)
(* Theorems about BackofficeList, for any selection of the modules, any     *)
(* rows, search terms and paths, and any number of visits, changes of the   *)
(* input and deletions.                                                     *)
(***************************************************************************)
EXTENDS BackofficeList, FiniteSetTheorems, TLAPS

CacheEntry == [has : BOOLEAN, rows : SUBSET Ids, old : BOOLEAN, failed : BOOLEAN,
               late : SUBSET (Ids \cup {"none"})]
FetchEntry == [st : {"idle", "sent", "served"}, of : Modules \cup {""}, search : Terms,
               rows : SUBSET Ids, late : SUBSET (Ids \cup {"none"})]
Deletion == [n : Int, id : Ids \cup {"none"}, mod : Modules, from : {"list", "detail"},
             key : Keys, mine : BOOLEAN, st : {"sent", "done", "failed"}]
Item == [st : {"none", "loading", "related", "shown", "error"}, id : Ids \cup {"none"},
         left : Int]

QueriesOK == cache \in [Keys -> CacheEntry] /\ fetch \in [Keys -> FetchEntry]

Typed ==
    /\ screen \in {"list", "detail", "missing", "other"}
    /\ module \in Modules /\ term \in Terms /\ debounced \in Terms /\ timer \in BOOLEAN
    /\ QueriesOK
    /\ server \subseteq Ids /\ dels \subseteq Deletion
    /\ gone \in [Keys -> SUBSET (Ids \cup {"none"})]
    /\ item \in Item /\ asked \in Int

\* The rows are those of a query: its module's, found by its term if that
\* module's list is searched.
Matches(k, rows) ==
    \A i \in rows : Title(Owner[i]) = k[1] /\ (Searched(Owner[i]) => k[2] \in Found[i])

\* What is cached and what is on its way belongs to its key, and a row that is
\* known to be deleted is in a fetch under way or in fresh data only if its
\* deletion was confirmed during that fetch.
KeyOK(k) ==
    /\ Matches(k, cache[k].rows) /\ Matches(k, fetch[k].rows)
    /\ fetch[k].st = "idle" => fetch[k].rows = {}
    /\ fetch[k].st # "idle" =>
         fetch[k].of \in Modules /\ Title(fetch[k].of) = k[1] /\ fetch[k].search = k[2]
    /\ fetch[k].rows \cap gone[k] \subseteq fetch[k].late
    /\ (cache[k].has /\ ~cache[k].old) => cache[k].rows \cap gone[k] \subseteq cache[k].late

DataOK == \A k \in Keys : KeyOK(k)

\* A confirmed deletion has happened.
DeletedOK ==
    /\ \A d \in dels : d.st = "done" => d.id \notin server
    /\ \A k \in Keys : gone[k] \cap server = {}

\* A key is being fetched, has data, or has failed.
Observed(k) == fetch[k].st # "idle" \/ cache[k].has \/ cache[k].failed

ListOK == screen = "list" => (timer = FALSE => term = debounced) /\ Observed(key)

PathOK == screen = "missing" => path \in Segments /\ getModuleByPathSegment(path) = {}

\* Inductive.
IInv == Typed /\ DataOK /\ DeletedOK /\ ListOK /\ PathOK
-----------------------------------------------------------------------------
(* The configurations *)

\* The modules of the store.
LEMMA ModuleNames ==
    Modules \subseteq {"customers", "warehouses", "inventory", "orders", "transactions",
                       "reservations"}
BY BackofficeListAssumption DEF initialize

\* Modules have different titles: a key determines its module.
LEMMA TitlesDiffer == \A m, n \in Modules : Title(m) = Title(n) => m = n
<1>1. /\ Title("customers") = "Customers" /\ Title("warehouses") = "Warehouses"
      /\ Title("inventory") = "Inventory" /\ Title("orders") = "Orders"
      /\ Title("transactions") = "Inv. Transactions"
      /\ Title("reservations") = "Inv. Reservations"
  BY DEF Title, initialize, customerModule, warehouseModule, inventoryModule, orderModule,
         transactionModule, reservationModule, Config
<1>2. QED
  BY <1>1, ModuleNames

\* The number of related entities is a number.
LEMMA RelatedInt == \A m \in Modules : Related(m) \in Int
<1>1. IsFiniteSet({}) /\ IsFiniteSet(customerDetail) /\ IsFiniteSet(warehouseDetail)
  BY FS_EmptySet, FS_Singleton DEF customerDetail, warehouseDetail
<1>2. IsFiniteSet(inventoryDetail)
  <2>1. IsFiniteSet({"transactions"})
    BY FS_Singleton
  <2>2. IsFiniteSet({"transactions"} \cup {"reservations"})
    BY <2>1, FS_AddElement
  <2>3. inventoryDetail = {"transactions"} \cup {"reservations"}
    BY DEF inventoryDetail
  <2>4. QED
    BY <2>2, <2>3
<1>3. /\ initialize["customers"].related = customerDetail
      /\ initialize["warehouses"].related = warehouseDetail
      /\ initialize["inventory"].related = inventoryDetail
      /\ initialize["orders"].related = {} /\ initialize["transactions"].related = {}
      /\ initialize["reservations"].related = {}
  BY DEF initialize, customerModule, warehouseModule, inventoryModule, orderModule,
         transactionModule, reservationModule, Config
<1>4. ASSUME NEW m \in Modules PROVE IsFiniteSet(initialize[m].related)
  BY <1>1, <1>2, <1>3, ModuleNames
<1>5. QED
  BY <1>4, FS_CardinalityType DEF Related

\* A name is a segment in lower case.
LEMMA NameRecord ==
    \A m \in Modules : \E stem, s : Name(m) = [stem |-> stem, s |-> s, upper |-> FALSE] /\ s \in Nat
<1>1. /\ Name("customers") = Segment("customer", 1)
      /\ Name("warehouses") = Segment("warehouse", 1)
      /\ Name("inventory") = Segment("inventory", 0)
      /\ Name("orders") = Segment("order", 1)
      /\ Name("transactions") = Segment("transaction", 1)
      /\ Name("reservations") = Segment("reservation", 1)
  BY DEF Name, initialize, customerModule, warehouseModule, inventoryModule, orderModule,
         transactionModule, reservationModule, Config
<1>2. \A stem : \A n \in Nat :
         \E x, s : Segment(stem, n) = [stem |-> x, s |-> s, upper |-> FALSE] /\ s \in Nat
  BY DEF Segment
<1>3. 0 \in Nat /\ 1 \in Nat
  OBVIOUS
<1>4. QED
  BY <1>1, <1>2, <1>3, ModuleNames

\* The key of a module and a term.
LEMMA KeyType == \A m \in Modules, t \in Terms :
    queryKey(m, t) \in Keys /\ queryKey(m, t)[1] = Title(m) /\ queryKey(m, t)[2] = t
BY DEF queryKey, Keys

\* A segment is its three fields.
LEMMA SegmentFields ==
    ASSUME NEW p \in [stem : STRING, s : Nat, upper : BOOLEAN]
    PROVE  p = [stem |-> p.stem, s |-> p.s, upper |-> p.upper]
OBVIOUS

\* A segment that finds no module is not one away from a name.
LEMMA NoneFound ==
    ASSUME NEW p \in Segments, getModuleByPathSegment(p) = {},
           NEW m \in Modules, Name(m).stem = p.stem
    PROVE  p.s - Name(m).s \notin {-1, 0, 1}
<1>1. PICK stem, s : Name(m) = [stem |-> stem, s |-> s, upper |-> FALSE] /\ s \in Nat
  BY NameRecord
<1>2. p \in [stem : STRING, s : Nat, upper : BOOLEAN]
  BY BackofficeListAssumption
<1>3. p.s \in Nat /\ p.stem = stem
  BY <1>1, <1>2
<1> DEFINE q == [p EXCEPT !.upper = FALSE]
           named(x) == {n \in Modules : Name(n) = x}
<1>4. q = [stem |-> stem, s |-> p.s, upper |-> FALSE]
  <2>1. q \in [stem : STRING, s : Nat, upper : BOOLEAN]
    BY <1>2
  <2>2. q.stem = stem /\ q.s = p.s /\ q.upper = FALSE
    BY <1>2, <1>3
  <2> HIDE DEF q
  <2>3. QED
    BY <2>1, <2>2, SegmentFields
<1>5. /\ named(q) = {}
      /\ named([q EXCEPT !.s = @ + 1]) = {}
      /\ p.s > 0 => named([q EXCEPT !.s = @ - 1]) = {}
  <2>1. q.s = p.s
    BY <1>4
  <2>2. named(q) = {}
    BY DEF getModuleByPathSegment
  <2>3. (IF q.s > 0 THEN named([q EXCEPT !.s = @ - 1]) ELSE {}) = {}
    BY <2>2 DEF getModuleByPathSegment
  <2>4. named([q EXCEPT !.s = @ + 1]) = {}
    BY <2>2, <2>3 DEF getModuleByPathSegment
  <2>5. QED
    BY <2>1, <2>2, <2>3, <2>4
<1>6. p.s # s
  BY <1>1, <1>4, <1>5
<1>7. p.s + 1 # s
  <2>1. [q EXCEPT !.s = @ + 1] = [stem |-> stem, s |-> p.s + 1, upper |-> FALSE]
    <3> HIDE DEF q
    <3>0. p.s + 1 \in Nat
      BY <1>3
    <3>1. q \in [stem : STRING, s : Nat, upper : BOOLEAN]
      BY <1>2 DEF q
    <3> DEFINE r == [q EXCEPT !.s = @ + 1]
    <3>2. q.stem = stem /\ q.s = p.s /\ q.upper = FALSE
      BY <1>4
    <3>3. r \in [stem : STRING, s : Nat, upper : BOOLEAN]
      BY <3>0, <3>1, <3>2
    <3>4. r.stem = stem /\ r.s = p.s + 1 /\ r.upper = FALSE
      BY <3>1, <3>2
    <3> HIDE DEF r
    <3>5. r = [stem |-> stem, s |-> p.s + 1, upper |-> FALSE]
      BY <3>3, <3>4, SegmentFields
    <3>6. QED
      BY <3>5 DEF r
  <2>2. QED
    BY <1>1, <1>5, <2>1
<1>8. p.s > 0 => p.s - 1 # s
  <2>0. HAVE p.s > 0
  <2>1. [q EXCEPT !.s = @ - 1] = [stem |-> stem, s |-> p.s - 1, upper |-> FALSE]
    <3> HIDE DEF q
    <3>0. p.s - 1 \in Nat
      BY <1>3, <2>0
    <3>1. q \in [stem : STRING, s : Nat, upper : BOOLEAN]
      BY <1>2 DEF q
    <3> DEFINE r == [q EXCEPT !.s = @ - 1]
    <3>2. q.stem = stem /\ q.s = p.s /\ q.upper = FALSE
      BY <1>4
    <3>3. r \in [stem : STRING, s : Nat, upper : BOOLEAN]
      BY <3>0, <3>1, <3>2
    <3>4. r.stem = stem /\ r.s = p.s - 1 /\ r.upper = FALSE
      BY <3>1, <3>2
    <3> HIDE DEF r
    <3>5. r = [stem |-> stem, s |-> p.s - 1, upper |-> FALSE]
      BY <3>3, <3>4, SegmentFields
    <3>6. QED
      BY <3>5 DEF r
  <2>2. QED
    BY <1>1, <1>5, <2>0, <2>1
<1>9. Name(m).s = s
  BY <1>1
<1>10. QED
  BY <1>1, <1>3, <1>6, <1>7, <1>8, <1>9

-----------------------------------------------------------------------------
(* Cache entries and fetches *)

\* An entry whose error is forgotten or set keeps its data.
LEMMA FailedEntry ==
    ASSUME NEW c \in [Keys -> CacheEntry], NEW k \in Keys, NEW b \in BOOLEAN
    PROVE  LET e == [c EXCEPT ![k].failed = b]
           IN  /\ e \in [Keys -> CacheEntry]
               /\ \A j \in Keys : j # k => e[j] = c[j]
               /\ e[k].has = c[k].has /\ e[k].rows = c[k].rows /\ e[k].old = c[k].old
               /\ e[k].late = c[k].late /\ e[k].failed = b
BY DEF CacheEntry

-----------------------------------------------------------------------------
(* What the steps do to the queries *)

\* A key whose entry, fetch and deletions stay.
LEMMA KeepKey ==
    ASSUME NEW k \in Keys, KeyOK(k),
           cache'[k] = cache[k], fetch'[k] = fetch[k], gone'[k] = gone[k]
    PROVE  KeyOK(k)'
BY DEF KeyOK, Matches

\* Nothing about the queries changes.
LEMMA KeepData == ASSUME DataOK, UNCHANGED <<cache, fetch, gone>> PROVE DataOK'
BY DEF DataOK, KeyOK, Matches

\* Keys are tuples of a title and a term.
LEMMA CurrentKey == ASSUME Typed PROVE key \in Keys /\ key[1] = Title(module) /\ key[2] = debounced
BY KeyType DEF Typed, key

\* A fetch that is sent.
LEMMA SentFetch ==
    ASSUME NEW f \in [Keys -> FetchEntry], NEW k \in Keys, NEW m \in Modules, NEW t \in Terms
    PROVE  LET e == [f EXCEPT ![k] = Sent(m, t)]
           IN  /\ e \in [Keys -> FetchEntry]
               /\ \A j \in Keys : j # k => e[j] = f[j]
               /\ e[k] = Sent(m, t)
<1>1. Sent(m, t) \in FetchEntry
  BY DEF Sent, FetchEntry
<1>2. QED
  BY <1>1

\* The fields of a fetch that is sent.
LEMMA SentFields ==
    \A m, t : /\ Sent(m, t).st = "sent" /\ Sent(m, t).of = m /\ Sent(m, t).search = t
             /\ Sent(m, t).rows = {}
BY DEF Sent

\* A key for which a fetch is sent and whose data is kept or made older.
LEMMA SentKey ==
    ASSUME NEW m \in Modules, NEW t \in Terms, NEW k \in Keys, k = queryKey(m, t),
           KeyOK(k), fetch'[k] = Sent(m, t),
           cache'[k].rows = cache[k].rows, cache'[k].has = cache[k].has,
           \/ /\ cache'[k].old = cache[k].old /\ cache'[k].late = cache[k].late
              /\ gone'[k] = gone[k]
           \/ cache'[k].old = TRUE
    PROVE  KeyOK(k)'
<1>1. k[1] = Title(m) /\ k[2] = t
  BY KeyType
<1>2. Matches(k, cache[k].rows)' /\ Matches(k, fetch[k].rows)'
  BY SentFields DEF KeyOK, Matches
<1>3. /\ fetch'[k].of \in Modules /\ Title(fetch'[k].of) = k[1] /\ fetch'[k].search = k[2]
      /\ fetch'[k].rows = {}
  BY <1>1, SentFields
<1>4. cache'[k].has /\ ~cache'[k].old => cache'[k].rows \cap gone'[k] \subseteq cache'[k].late
  BY DEF KeyOK
<1>5. QED
  BY <1>2, <1>3, <1>4 DEF KeyOK

\* Observing a key fetches what is missing or stale.
LEMMA ObserveOK ==
    ASSUME QueriesOK, DataOK, NEW m \in Modules, NEW t \in Terms, Observe(m, t), gone' = gone
    PROVE  QueriesOK' /\ DataOK' /\ Observed(queryKey(m, t))'
<1> DEFINE k == queryKey(m, t)
           start == (~cache[k].has \/ cache[k].old) /\ fetch[k].st = "idle"
<1>1. k \in Keys
  BY KeyType
<1>2. CASE start
  <2>1. /\ fetch' = [fetch EXCEPT ![k] = Sent(m, t)]
        /\ cache' = [cache EXCEPT ![k].failed = @ /\ cache[k].has]
    BY <1>2 DEF Observe
  <2>2. PICK b \in BOOLEAN : b = (cache[k].failed /\ cache[k].has)
    OBVIOUS
  <2>3. cache' = [cache EXCEPT ![k].failed = b]
    BY <2>1, <2>2
  <2> HIDE DEF k, start
  <2>4. /\ cache' \in [Keys -> CacheEntry]
        /\ \A j \in Keys : j # k => cache'[j] = cache[j]
        /\ cache'[k].has = cache[k].has /\ cache'[k].rows = cache[k].rows
        /\ cache'[k].old = cache[k].old /\ cache'[k].late = cache[k].late
    BY <1>1, <2>3, FailedEntry DEF QueriesOK
  <2>5. /\ fetch' \in [Keys -> FetchEntry]
        /\ \A j \in Keys : j # k => fetch'[j] = fetch[j]
        /\ fetch'[k] = Sent(m, t)
    BY <1>1, <2>1, SentFetch DEF QueriesOK
  <2>6. KeyOK(k)'
    <3>1. k = queryKey(m, t) /\ KeyOK(k)
      BY <1>1 DEF k, DataOK
    <3>2. QED
      BY <1>1, <2>4, <2>5, <3>1, SentKey
  <2>7. ASSUME NEW j \in Keys, j # k PROVE KeyOK(j)'
    BY <2>4, <2>5, <2>7, KeepKey DEF DataOK
  <2>8. Observed(k)'
    BY <2>5, SentFields DEF Observed
  <2>9. QED
    BY <2>4, <2>5, <2>6, <2>7, <2>8 DEF QueriesOK, DataOK, k
<1>3. CASE ~start
  <2>1. fetch' = fetch /\ cache' = cache
    BY <1>3 DEF Observe
  <2>2. DataOK' /\ QueriesOK'
    BY <2>1, KeepData DEF QueriesOK
  <2>3. Observed(k)
    BY <1>3 DEF Observed
  <2>4. QED
    BY <2>1, <2>2, <2>3 DEF Observed
<1>4. QED
  BY <1>2, <1>3

\* No detail page.
LEMMA NoItemType == NoItem \in Item
<1>1. 0 \in Int
  OBVIOUS
<1>2. QED
  BY <1>1 DEF NoItem, Item

\* A list is shown, on the mounted page or a new one.
LEMMA ShowListOK ==
    ASSUME IInv, NEW m \in Modules, ShowList(m), gone' = gone
    PROVE  /\ screen' = "list" /\ module' = m /\ item' \in Item
           /\ term' \in Terms /\ debounced' \in Terms /\ timer' \in BOOLEAN
           /\ QueriesOK' /\ DataOK' /\ ListOK' /\ PathOK'
<1>1. QueriesOK /\ DataOK
  BY DEF IInv, Typed
<1>2. item' \in Item
  BY NoItemType DEF ShowList
<1>3. screen' = "list" /\ module' = m
  BY DEF ShowList
<1>4. CASE screen = "list" /\ Observe(m, debounced) /\ UNCHANGED <<term, timer, debounced>>
  <2>1. PICK t \in Terms : t = debounced
    BY DEF IInv, Typed
  <2>2. QueriesOK' /\ DataOK' /\ Observed(queryKey(m, t))'
    <3>1. Observe(m, t)
      BY <1>4, <2>1
    <3>2. QED
      BY <1>1, <3>1, ObserveOK
  <2>3. key' = queryKey(m, t)
    BY <1>3, <1>4, <2>1 DEF key, queryKey
  <2>4. ListOK'
    BY <1>4, <2>2, <2>3 DEF ListOK, IInv, Observed
  <2>5. QED
    BY <1>2, <1>3, <1>4, <2>2, <2>4 DEF IInv, Typed, PathOK
<1>5. CASE Forgotten /\ Observe(m, "")
  <2>1. "" \in Terms
    BY BackofficeListAssumption
  <2>2. QueriesOK' /\ DataOK' /\ Observed(queryKey(m, ""))'
    BY <1>1, <1>5, <2>1, ObserveOK
  <2>3. key' = queryKey(m, "")
    BY <1>3, <1>5 DEF key, queryKey, Forgotten
  <2>4. ListOK'
    BY <1>5, <2>2, <2>3 DEF ListOK, Forgotten, Observed
  <2>5. QED
    BY <1>2, <1>3, <1>5, <2>1, <2>2, <2>4 DEF Forgotten, PathOK
<1>6. QED
  BY <1>4, <1>5 DEF ShowList

\* Leaving a list detaches its deletion.
LEMMA UnmountedOK ==
    ASSUME Typed, DeletedOK, dels' = Unmounted, UNCHANGED <<server, gone>>
    PROVE  dels' \subseteq Deletion /\ DeletedOK'
<1>1. PICK k \in Keys : k = key
  BY CurrentKey
<1>2. ASSUME NEW e \in dels'
      PROVE  e \in Deletion /\ (e.st = "done" => e.id \notin server)
  <2>1. PICK d \in dels : e = IF d.mine THEN [d EXCEPT !.mine = FALSE, !.key = k] ELSE d
    BY <1>1, <1>2 DEF Unmounted
  <2>2. d \in Deletion /\ (d.st = "done" => d.id \notin server)
    BY DEF Typed, DeletedOK
  <2>3. CASE d.mine
    <3>1. e = [d EXCEPT !.mine = FALSE, !.key = k]
      BY <2>1, <2>3
    <3>2. e \in Deletion /\ e.st = d.st /\ e.id = d.id
      BY <2>2, <3>1 DEF Deletion
    <3>3. QED
      BY <2>2, <3>2
  <2>4. CASE ~d.mine
    BY <2>1, <2>2, <2>4
  <2>5. QED
    BY <2>3, <2>4
<1>3. QED
  BY <1>2 DEF DeletedOK

\* The list goes, and nothing else of the queries changes.
LEMMA AwayOK ==
    ASSUME IInv, dels' = Unmounted, Forgotten, UNCHANGED <<cache, fetch, server, gone, module, asked>>,
           screen' \in {"detail", "missing", "other"}, item' \in Item, PathOK'
    PROVE  IInv'
<1>1. Typed /\ DeletedOK /\ DataOK
  BY DEF IInv
<1>2. dels' \subseteq Deletion /\ DeletedOK'
  BY <1>1, UnmountedOK
<1>3. DataOK'
  BY <1>1, KeepData
<1>4. term' \in Terms /\ debounced' \in Terms /\ timer' \in BOOLEAN
  BY BackofficeListAssumption DEF Forgotten
<1>5. Typed'
  BY <1>1, <1>2, <1>4 DEF Typed, QueriesOK
<1>6. ListOK'
  BY DEF ListOK
<1>7. QED
  BY <1>2, <1>3, <1>5, <1>6 DEF IInv

\* The list of a path.
LEMMA OpenListInv == ASSUME IInv, NEW p \in Segments, OpenList(p) PROVE IInv'
<1> DEFINE ms == getModuleByPathSegment(p)
<1>1. UNCHANGED <<server, gone, asked>>
  BY DEF OpenList
<1>2. CASE \E m \in ms : ShowList(m) /\ UNCHANGED dels
  <2>1. PICK m \in ms : ShowList(m) /\ UNCHANGED dels
    BY <1>2
  <2>2. m \in Modules
    BY DEF getModuleByPathSegment
  <2> HIDE DEF ms
  <2>3. /\ screen' = "list" /\ module' = m /\ item' \in Item
        /\ term' \in Terms /\ debounced' \in Terms /\ timer' \in BOOLEAN
        /\ QueriesOK' /\ DataOK' /\ ListOK' /\ PathOK'
    BY <1>1, <2>1, <2>2, ShowListOK
  <2>4. Typed'
    BY <1>1, <2>1, <2>2, <2>3 DEF IInv, Typed
  <2>5. DeletedOK'
    BY <1>1, <2>1 DEF IInv, DeletedOK
  <2>6. QED
    BY <2>3, <2>4, <2>5 DEF IInv
<1>3. CASE /\ ms = {}
           /\ screen' = "missing" /\ path' = p /\ item' = NoItem
           /\ dels' = Unmounted /\ Forgotten
           /\ UNCHANGED <<module, cache, fetch>>
  <2>1. PathOK'
    BY <1>3 DEF PathOK, getModuleByPathSegment
  <2>2. QED
    BY <1>1, <1>3, <2>1, AwayOK, NoItemType
<1>4. QED
  BY <1>2, <1>3 DEF OpenList

\* Leaving the backoffice.
LEMMA LeaveInv == ASSUME IInv, Leave PROVE IInv'
<1>1. PathOK'
  BY DEF Leave, PathOK
<1>2. QED
  BY <1>1, AwayOK, NoItemType DEF Leave

\* The detail of a row.
LEMMA OpenDetailInv == ASSUME IInv, NEW i \in Ids, OpenDetail(i) PROVE IInv'
<1>1. PathOK'
  BY DEF OpenDetail, PathOK
<1>2. item' \in Item
  <2>1. PICK n \in Int : n = Related(module)
    BY RelatedInt DEF IInv, Typed
  <2>2. item' = [st |-> "loading", id |-> i, left |-> n]
    BY <2>1 DEF OpenDetail
  <2>3. QED
    BY <2>2 DEF Item
<1>3. QED
  BY <1>1, <1>2, AwayOK DEF OpenDetail

\* Steps that leave the screen, its search and the queries as they are.
LEMMA QuietOK ==
    ASSUME IInv,
           UNCHANGED <<screen, path, module, term, timer, debounced, cache, fetch, gone>>,
           server' \subseteq server, dels' \subseteq Deletion, item' \in Item, asked' \in Int,
           \A d \in dels' : d.st = "done" => d.id \notin server'
    PROVE  IInv'
<1>1. Typed'
  BY DEF IInv, Typed, QueriesOK
<1>2. DataOK'
  BY KeepData DEF IInv
<1>3. DeletedOK'
  BY DEF IInv, DeletedOK
<1>4. ListOK'
  BY DEF IInv, ListOK, Observed, key, queryKey
<1>5. PathOK'
  BY DEF IInv, PathOK, getModuleByPathSegment
<1>6. QED
  BY <1>1, <1>2, <1>3, <1>4, <1>5 DEF IInv

\* Typing sets the timer.
LEMMA TypeInv == ASSUME IInv, NEW t \in Terms, Type(t) PROVE IInv'
<1>1. Typed'
  BY DEF IInv, Typed, Type, QueriesOK
<1>2. DataOK'
  BY KeepData DEF IInv, Type
<1>3. DeletedOK'
  BY DEF IInv, DeletedOK, Type
<1>4. ListOK'
  BY DEF IInv, ListOK, Observed, key, queryKey, Type
<1>5. PathOK'
  BY DEF PathOK, Type
<1>6. QED
  BY <1>1, <1>2, <1>3, <1>4, <1>5 DEF IInv

\* The debounce timer fires: the page observes the key of the typed term.
LEMMA UseDebounceInv == ASSUME IInv, useDebounce PROVE IInv'
<1>1. /\ screen = "list" /\ timer' = FALSE /\ debounced' = term
      /\ UNCHANGED <<screen, path, module, term, server, dels, gone, item, asked>>
  BY DEF useDebounce
<1>2. PICK t \in Terms : t = term
  BY DEF IInv, Typed
<1>3. PICK m \in Modules : m = module
  BY DEF IInv, Typed
<1>4. QueriesOK' /\ DataOK' /\ Observed(queryKey(m, t))'
  <2>1. Observe(m, t)
    BY <1>2, <1>3 DEF useDebounce
  <2>2. QED
    BY <1>1, <2>1, ObserveOK DEF IInv, Typed
<1>5. key' = queryKey(m, t)
  BY <1>1, <1>2, <1>3 DEF key, queryKey
<1>6. ListOK'
  BY <1>1, <1>4, <1>5 DEF ListOK, Observed
<1>7. Typed'
  BY <1>1, <1>4 DEF IInv, Typed
<1>8. DeletedOK' /\ PathOK'
  BY <1>1 DEF IInv, DeletedOK, PathOK
<1>9. QED
  BY <1>4, <1>6, <1>7, <1>8 DEF IInv

\* Steps of the queries alone.
LEMMA QueryOK ==
    ASSUME IInv,
           UNCHANGED <<screen, path, module, term, timer, debounced, server, dels, gone, item, asked>>,
           QueriesOK', DataOK',
           \A k \in Keys : Observed(k) => Observed(k)'
    PROVE  IInv'
<1>1. Typed'
  BY DEF IInv, Typed
<1>2. PICK k \in Keys : k = key
  BY CurrentKey DEF IInv
<1>3. key' = k
  BY <1>2 DEF key, queryKey
<1>4. ListOK'
  BY <1>2, <1>3 DEF IInv, ListOK, Observed
<1>5. DeletedOK' /\ PathOK'
  BY DEF IInv, DeletedOK, PathOK, getModuleByPathSegment
<1>6. QED
  BY <1>1, <1>4, <1>5 DEF IInv

\* The service reads rows that exist, so none whose deletion is confirmed.
LEMMA ServeInv == ASSUME IInv, NEW k \in Keys, Serve(k) PROVE IInv'
<1>1. /\ fetch[k].st = "sent" /\ cache' = cache
      /\ UNCHANGED <<screen, path, module, term, timer, debounced, server, dels, gone, item, asked>>
  BY DEF Serve, search
<1>2. QueriesOK /\ KeyOK(k) /\ server \subseteq Ids /\ gone[k] \cap server = {}
  BY DEF IInv, Typed, DataOK, DeletedOK
<1>3. PICK r \in SUBSET Ids :
        r = {i \in server : Owner[i] = fetch[k].of
                              /\ (Searched(fetch[k].of) => fetch[k].search \in Found[i])}
  BY <1>2
<1>4. fetch' = [fetch EXCEPT ![k].st = "served", ![k].rows = r]
  BY <1>3 DEF Serve
<1>5. /\ fetch' \in [Keys -> FetchEntry]
      /\ \A j \in Keys : j # k => fetch'[j] = fetch[j]
      /\ fetch'[k].of = fetch[k].of /\ fetch'[k].search = fetch[k].search
      /\ fetch'[k].st = "served" /\ fetch'[k].rows = r
  <2>1. PICK f \in [Keys -> FetchEntry] : f = fetch
    BY <1>2 DEF QueriesOK
  <2>2. PICK e : e = fetch'
    OBVIOUS
  <2>3. e = [f EXCEPT ![k].st = "served", ![k].rows = r]
    BY <1>4, <2>1, <2>2
  <2>4. /\ e \in [Keys -> FetchEntry]
        /\ \A j \in Keys : j # k => e[j] = f[j]
        /\ e[k].of = f[k].of /\ e[k].search = f[k].search /\ e[k].st = "served"
        /\ e[k].rows = r
    BY <2>3 DEF FetchEntry
  <2>5. QED
    BY <2>1, <2>2, <2>4
<1>6. KeyOK(k)'
  <2>1. Matches(k, r)
    BY <1>1, <1>2, <1>3 DEF KeyOK, Matches
  <2>2. r \cap gone[k] = {}
    BY <1>2, <1>3
  <2>3. QED
    BY <1>1, <1>2, <1>5, <2>1, <2>2 DEF KeyOK, Matches
<1>7. ASSUME NEW j \in Keys, j # k PROVE KeyOK(j)'
  BY <1>1, <1>5, <1>7, KeepKey DEF IInv, DataOK
<1>8. \A j \in Keys : Observed(j) => Observed(j)'
  BY <1>1, <1>5 DEF Observed
<1>9. QueriesOK' /\ DataOK'
  BY <1>1, <1>2, <1>5, <1>6, <1>7 DEF QueriesOK, DataOK
<1>10. QED
  BY <1>1, <1>8, <1>9, QueryOK

\* A fetch that is over.
LEMMA EndedFetch ==
    ASSUME NEW f \in [Keys -> FetchEntry], NEW k \in Keys
    PROVE  LET e == [f EXCEPT ![k] = NoFetch]
           IN  /\ e \in [Keys -> FetchEntry]
               /\ \A j \in Keys : j # k => e[j] = f[j]
               /\ e[k].st = "idle" /\ e[k].rows = {}
<1>1. NoFetch \in FetchEntry
  BY BackofficeListAssumption DEF NoFetch, FetchEntry
<1>2. NoFetch.st = "idle" /\ NoFetch.rows = {}
  BY DEF NoFetch
<1>3. QED
  BY <1>1, <1>2

\* The answer: its rows are of the key, and none is known to be deleted.
LEMMA ReceiveInv == ASSUME IInv, NEW k \in Keys, Receive(k) PROVE IInv'
<1>1. /\ fetch' = [fetch EXCEPT ![k] = NoFetch]
      /\ UNCHANGED <<screen, path, module, term, timer, debounced, server, dels, gone, item, asked>>
  BY DEF Receive, search
<1>2. QueriesOK /\ KeyOK(k)
  BY DEF IInv, Typed, DataOK
<1> DEFINE e == [has |-> TRUE, rows |-> fetch[k].rows, old |-> FALSE, failed |-> FALSE,
                 late |-> fetch[k].late]
<1>3. /\ e \in CacheEntry /\ e.has = TRUE /\ e.rows = fetch[k].rows
      /\ e.late = fetch[k].late
  <2>1. fetch[k] \in FetchEntry
    BY <1>2 DEF QueriesOK
  <2>2. fetch[k].rows \in SUBSET Ids /\ fetch[k].late \in SUBSET (Ids \cup {"none"})
    BY <2>1 DEF FetchEntry
  <2>3. QED
    BY <2>2 DEF CacheEntry
<1>4. cache' = [cache EXCEPT ![k] = e]
  BY DEF Receive
<1> HIDE DEF e
<1>5. /\ cache' \in [Keys -> CacheEntry] /\ cache'[k] = e
      /\ \A j \in Keys : j # k => cache'[j] = cache[j]
  BY <1>2, <1>3, <1>4 DEF QueriesOK
<1>6. /\ fetch' \in [Keys -> FetchEntry]
      /\ \A j \in Keys : j # k => fetch'[j] = fetch[j]
      /\ fetch'[k].st = "idle" /\ fetch'[k].rows = {}
  BY <1>1, <1>2, EndedFetch DEF QueriesOK
<1>7. KeyOK(k)'
  BY <1>1, <1>2, <1>3, <1>5, <1>6 DEF KeyOK, Matches
<1>8. ASSUME NEW j \in Keys, j # k PROVE KeyOK(j)'
  BY <1>1, <1>5, <1>6, <1>8, KeepKey DEF IInv, DataOK
<1>9. \A j \in Keys : Observed(j) => Observed(j)'
  BY <1>3, <1>5, <1>6 DEF Observed
<1>10. QueriesOK' /\ DataOK'
  BY <1>5, <1>6, <1>7, <1>8 DEF QueriesOK, DataOK
<1>11. QED
  BY <1>1, <1>9, <1>10, QueryOK

\* A failure keeps the data.
LEMMA FetchFailsInv == ASSUME IInv, NEW k \in Keys, FetchFails(k) PROVE IInv'
<1>1. /\ fetch' = [fetch EXCEPT ![k] = NoFetch]
      /\ cache' = [cache EXCEPT ![k].failed = TRUE]
      /\ UNCHANGED <<screen, path, module, term, timer, debounced, server, dels, gone, item, asked>>
  BY DEF FetchFails, search
<1>2. QueriesOK /\ KeyOK(k)
  BY DEF IInv, Typed, DataOK
<1>3. /\ cache' \in [Keys -> CacheEntry]
      /\ \A j \in Keys : j # k => cache'[j] = cache[j]
      /\ cache'[k].has = cache[k].has /\ cache'[k].rows = cache[k].rows
      /\ cache'[k].old = cache[k].old /\ cache'[k].failed = TRUE
      /\ cache'[k].late = cache[k].late
  <2>1. cache \in [Keys -> CacheEntry] /\ TRUE \in BOOLEAN
    BY <1>2 DEF QueriesOK
  <2>2. QED
    BY <1>1, <2>1, FailedEntry
<1>4. /\ fetch' \in [Keys -> FetchEntry]
      /\ \A j \in Keys : j # k => fetch'[j] = fetch[j]
      /\ fetch'[k].st = "idle" /\ fetch'[k].rows = {}
  BY <1>1, <1>2, EndedFetch DEF QueriesOK
<1>5. KeyOK(k)'
  BY <1>1, <1>2, <1>3, <1>4 DEF KeyOK, Matches
<1>6. ASSUME NEW j \in Keys, j # k PROVE KeyOK(j)'
  BY <1>1, <1>3, <1>4, <1>6, KeepKey DEF IInv, DataOK
<1>7. \A j \in Keys : Observed(j) => Observed(j)'
  BY <1>3, <1>4 DEF Observed
<1>8. QueriesOK' /\ DataOK'
  BY <1>3, <1>4, <1>5, <1>6 DEF QueriesOK, DataOK
<1>9. QED
  BY <1>1, <1>7, <1>8, QueryOK

\* Data that is no longer fresh.
LEMMA StaleInv == ASSUME IInv, NEW k \in Keys, Stale(k) PROVE IInv'
<1>1. /\ cache' = [cache EXCEPT ![k].old = TRUE] /\ fetch' = fetch
      /\ UNCHANGED <<screen, path, module, term, timer, debounced, server, dels, gone, item, asked>>
  BY DEF Stale, search
<1>2. QueriesOK /\ KeyOK(k)
  BY DEF IInv, Typed, DataOK
<1>3. /\ cache' \in [Keys -> CacheEntry]
      /\ \A j \in Keys : j # k => cache'[j] = cache[j]
      /\ cache'[k].has = cache[k].has /\ cache'[k].rows = cache[k].rows
      /\ cache'[k].old = TRUE /\ cache'[k].failed = cache[k].failed
  BY <1>1, <1>2 DEF QueriesOK, CacheEntry
<1>4. KeyOK(k)'
  BY <1>1, <1>2, <1>3 DEF KeyOK, Matches
<1>5. ASSUME NEW j \in Keys, j # k PROVE KeyOK(j)'
  BY <1>1, <1>3, <1>5, KeepKey DEF IInv, DataOK
<1>6. \A j \in Keys : Observed(j) => Observed(j)'
  BY <1>1, <1>3 DEF Observed
<1>7. QueriesOK' /\ DataOK'
  BY <1>1, <1>2, <1>3, <1>4, <1>5 DEF QueriesOK, DataOK
<1>8. QED
  BY <1>1, <1>6, <1>7, QueryOK

-----------------------------------------------------------------------------
(* Deletions and the detail page *)

\* A deletion is asked for.
LEMMA AskOK ==
    ASSUME IInv, NEW i \in Ids \cup {"none"}, NEW from \in {"list", "detail"}, Ask(i, from),
           UNCHANGED server
    PROVE  /\ dels' \subseteq Deletion /\ asked' \in Int
           /\ \A d \in dels' : d.st = "done" => d.id \notin server'
<1>1. PICK k \in Keys : k = key
  BY CurrentKey DEF IInv
<1>2. PICK m \in Modules : m = module
  BY DEF IInv, Typed
<1>3. asked' \in Int
  BY DEF IInv, Typed, Ask
<1>4. PICK n \in Int : n = asked'
  BY <1>3
<1>5. PICK b \in BOOLEAN : b = (from = "list")
  OBVIOUS
<1> DEFINE r == [n |-> n, id |-> i, mod |-> m, from |-> from, key |-> k, mine |-> b, st |-> "sent"]
<1>6. r \in Deletion /\ r.st = "sent"
  BY DEF Deletion
<1>7. dels' = dels \cup {r}
  BY <1>1, <1>2, <1>4, <1>5 DEF Ask
<1> HIDE DEF r
<1>8. QED
  BY <1>3, <1>6, <1>7 DEF IInv, Typed, DeletedOK

\* Asked for in the list.
LEMMA HandleDeleteInv == ASSUME IInv, NEW i \in Ids, handleDelete(i) PROVE IInv'
<1>1. /\ Ask(i, "list")
      /\ UNCHANGED <<screen, path, module, term, timer, debounced, cache, fetch, gone, server, item>>
  BY DEF handleDelete, search
<1>2. QED
  BY <1>1, AskOK, QuietOK DEF IInv, Typed

\* Asked for on the detail page.
LEMMA DetailDeleteInv == ASSUME IInv, DetailDelete PROVE IInv'
<1>1. /\ Ask(item.id, "detail")
      /\ UNCHANGED <<screen, path, module, term, timer, debounced, cache, fetch, gone, server, item>>
  BY DEF DetailDelete, search
<1>2. PICK i \in Ids \cup {"none"} : i = item.id
  BY DEF IInv, Typed, Item
<1>3. Ask(i, "detail")
  BY <1>1, <1>2
<1>4. QED
  BY <1>1, <1>3, AskOK, QuietOK DEF IInv, Typed

\* The service deletes the row, or fails.
LEMMA DeleteItemInv == ASSUME IInv, NEW d \in dels, deleteItem(d) PROVE IInv'
<1>1. UNCHANGED <<screen, path, module, term, timer, debounced, cache, fetch, gone, item, asked>>
  BY DEF deleteItem, search
<1>2. d \in Deletion
  BY DEF IInv, Typed
<1>3. ASSUME NEW x \in {"done", "failed"}
      PROVE  LET e == [d EXCEPT !.st = x] IN e \in Deletion /\ e.st = x /\ e.id = d.id
  BY <1>2 DEF Deletion
<1>4. ASSUME NEW x \in {"done", "failed"}, server' = server \ {d.id},
             dels' = (dels \ {d}) \cup {[d EXCEPT !.st = x]}
      PROVE  IInv'
  <2>1. /\ dels' \subseteq Deletion /\ server' \subseteq server
        /\ \A e \in dels' : e.st = "done" => e.id \notin server'
    BY <1>3, <1>4 DEF IInv, Typed, DeletedOK
  <2>2. QED
    BY <1>1, <2>1, QuietOK DEF IInv, Typed
<1>5. CASE server' = server /\ dels' = (dels \ {d}) \cup {[d EXCEPT !.st = "failed"]}
  <2>1. /\ dels' \subseteq Deletion /\ server' \subseteq server
        /\ \A e \in dels' : e.st = "done" => e.id \notin server'
    BY <1>3, <1>5 DEF IInv, Typed, DeletedOK
  <2>2. QED
    BY <1>1, <2>1, QuietOK DEF IInv, Typed
<1>6. QED
  BY <1>4, <1>5 DEF deleteItem

\* The entity is loaded, or not.
LEMMA FetchItemInv == ASSUME IInv, fetchItem PROVE IInv'
<1>1. UNCHANGED <<screen, path, module, term, timer, debounced, cache, fetch, server, dels, gone, asked>>
  BY DEF fetchItem, search
<1>2. item \in Item
  BY DEF IInv, Typed
<1>3. item' \in Item
  BY <1>2 DEF fetchItem, Item
<1>4. QED
  BY <1>1, <1>3, QuietOK DEF IInv, Typed, DeletedOK

\* A related entity is answered, or not.
LEMMA FetchRelatedInv == ASSUME IInv, fetchRelated PROVE IInv'
<1>1. UNCHANGED <<screen, path, module, term, timer, debounced, cache, fetch, server, dels, gone, asked>>
  BY DEF fetchRelated, search
<1>2. item \in Item
  BY DEF IInv, Typed
<1>3. item' \in Item
  <2>1. item.left - 1 \in Int
    BY <1>2 DEF Item
  <2>2. PICK x \in Int : x = item.left - 1
    BY <2>1
  <2>3. PICK y \in {"none", "loading", "related", "shown", "error"} :
          y = IF item.left = 1 THEN "shown" ELSE item.st
    BY <1>2 DEF Item
  <2>4. item' = [item EXCEPT !.left = x, !.st = y]
    BY <2>2, <2>3 DEF fetchRelated
  <2>5. QED
    BY <1>2, <2>4 DEF Item
<1>4. QED
  BY <1>1, <1>3, QuietOK DEF IInv, Typed, DeletedOK

\* An invalidated key keeps its data, which is stale now.  What was on its way is
\* replaced by a new fetch, or has the deleted row among its late ones.
LEMMA InvalidateOK ==
    ASSUME IInv, NEW k \in Keys, NEW i \in Ids \cup {"none"}, invalidate(k, i),
           UNCHANGED <<screen, module, debounced>>
    PROVE  /\ QueriesOK'
           /\ \A j \in Keys : j # k => cache'[j] = cache[j] /\ fetch'[j] = fetch[j]
           /\ cache'[k].has = cache[k].has /\ cache'[k].rows = cache[k].rows
           /\ cache'[k].old = TRUE
           /\ Observed(k) => Observed(k)'
           /\ \/ fetch'[k] = fetch[k] /\ fetch[k].st = "idle"
              \/ /\ fetch'[k].st = fetch[k].st /\ fetch'[k].of = fetch[k].of
                 /\ fetch'[k].search = fetch[k].search /\ fetch'[k].rows = fetch[k].rows
                 /\ fetch'[k].late = fetch[k].late \cup {i}
              \/ fetch'[k] = Sent(module, debounced) /\ key = k
<1>1. QueriesOK
  BY DEF IInv, Typed
<1> DEFINE restart == screen = "list" /\ key = k /\ (cache[k].has \/ fetch[k].st = "idle")
<1> DEFINE kept == [fetch[k] EXCEPT !.late = @ \cup {i}]
           next == IF restart THEN Sent(module, debounced)
                   ELSE IF fetch[k].st = "idle" THEN fetch[k] ELSE kept
<1>2. /\ cache' = [cache EXCEPT ![k].old = TRUE,
                               ![k].failed = @ /\ (cache[k].has \/ ~restart)]
      /\ fetch' = [fetch EXCEPT ![k] = next]
  BY DEF invalidate
<1> HIDE DEF kept
<1>3. PICK b \in BOOLEAN : b = (cache[k].has \/ ~restart)
  OBVIOUS
<1>4. PICK c \in [Keys -> CacheEntry] : c = cache
  BY <1>1 DEF QueriesOK
<1>5. cache' = [c EXCEPT ![k].old = TRUE, ![k].failed = @ /\ b]
  BY <1>2, <1>3, <1>4
<1>6. /\ cache' \in [Keys -> CacheEntry]
      /\ \A j \in Keys : j # k => cache'[j] = cache[j]
      /\ cache'[k].has = cache[k].has /\ cache'[k].rows = cache[k].rows /\ cache'[k].old = TRUE
      /\ cache'[k].failed = (cache[k].failed /\ b)
  <2>1. PICK e : e = cache'
    OBVIOUS
  <2>2. e = [c EXCEPT ![k].old = TRUE, ![k].failed = @ /\ b]
    BY <1>5, <2>1
  <2>3. /\ e \in [Keys -> CacheEntry]
        /\ \A j \in Keys : j # k => e[j] = c[j]
        /\ e[k].has = c[k].has /\ e[k].rows = c[k].rows /\ e[k].old = TRUE
        /\ e[k].failed = (c[k].failed /\ b)
    BY <2>2 DEF CacheEntry
  <2>4. QED
    BY <1>4, <2>1, <2>3
<1> HIDE DEF restart
<1>7. CASE restart
  <2>1. PICK m \in Modules : m = module
    BY DEF IInv, Typed
  <2>2. PICK t \in Terms : t = debounced
    BY DEF IInv, Typed
  <2>3. fetch' = [fetch EXCEPT ![k] = Sent(m, t)]
    BY <1>2, <1>7, <2>1, <2>2
  <2>4. /\ fetch' \in [Keys -> FetchEntry]
        /\ \A j \in Keys : j # k => fetch'[j] = fetch[j]
        /\ fetch'[k] = Sent(m, t)
    BY <1>1, <2>3, SentFetch DEF QueriesOK
  <2>5. Observed(k)'
    BY <2>4, SentFields DEF Observed
  <2>6. key = k
    BY <1>7 DEF restart
  <2>7. QED
    BY <1>6, <2>1, <2>2, <2>4, <2>5, <2>6 DEF QueriesOK
<1>8. CASE ~restart /\ fetch[k].st = "idle"
  <2>1. fetch' = [fetch EXCEPT ![k] = fetch[k]] /\ b = TRUE
    BY <1>2, <1>3, <1>8
  <2>2. fetch' = fetch
    BY <1>1, <2>1 DEF QueriesOK
  <2>3. Observed(k) => Observed(k)'
    BY <1>6, <2>1, <2>2 DEF Observed
  <2>4. QED
    BY <1>1, <1>6, <1>8, <2>2, <2>3 DEF QueriesOK
<1>9. CASE ~restart /\ fetch[k].st # "idle"
  <2>1. PICK f \in [Keys -> FetchEntry] : f = fetch
    BY <1>1 DEF QueriesOK
  <2>2. PICK l \in SUBSET (Ids \cup {"none"}) : l = f[k].late \cup {i}
    BY <2>1 DEF FetchEntry
  <2>3. fetch' = [f EXCEPT ![k] = [@ EXCEPT !.late = l]]
    <3>1. PICK v : v = [fetch[k] EXCEPT !.late = @ \cup {i}]
      OBVIOUS
    <3>2. fetch' = [fetch EXCEPT ![k] = v]
      BY <1>2, <1>9, <3>1 DEF kept
    <3>3. v = [f[k] EXCEPT !.late = f[k].late \cup {i}]
      BY <2>1, <3>1
    <3>4. v = [f[k] EXCEPT !.late = l]
      BY <2>2, <3>3
    <3>5. QED
      BY <2>1, <3>2, <3>4
  <2>4. PICK g : g = fetch'
    OBVIOUS
  <2>5. g = [f EXCEPT ![k] = [@ EXCEPT !.late = l]]
    BY <2>3, <2>4
  <2>6. /\ g \in [Keys -> FetchEntry]
        /\ \A j \in Keys : j # k => g[j] = f[j]
        /\ g[k].st = f[k].st /\ g[k].of = f[k].of /\ g[k].search = f[k].search
        /\ g[k].rows = f[k].rows /\ g[k].late = l
    BY <2>5 DEF FetchEntry
  <2>7. Observed(k)'
    BY <1>9, <2>1, <2>4, <2>6 DEF Observed
  <2>8. QED
    BY <1>6, <2>1, <2>2, <2>4, <2>6, <2>7 DEF QueriesOK
<1>10. QED
  BY <1>7, <1>8, <1>9

\* A deletion from the list is confirmed: its row joins the deleted ones of the
\* key, whose data is stale from now on and whose fetch is new or knows of it.
LEMMA DeletedInv == ASSUME IInv, NEW d \in dels, Deleted(d) PROVE IInv'
<1>1. /\ dels' = dels \ {d}
      /\ UNCHANGED <<screen, path, module, term, timer, debounced, server, item, asked>>
  BY DEF Deleted, search
<1>2. d \in Deletion /\ d.id \in Ids \cup {"none"} /\ d.key \in Keys
  BY DEF IInv, Typed, Deletion
<1>3. PICK k \in Keys : k = IF d.mine THEN key ELSE d.key
  BY <1>2, CurrentKey DEF IInv
<1>4. CASE d.st = "failed" /\ UNCHANGED <<cache, fetch, gone>>
  BY <1>1, <1>4, QuietOK DEF IInv, Typed, DeletedOK
<1>5. CASE /\ d.st = "done" /\ invalidate(k, d.id)
           /\ gone' = [gone EXCEPT ![k] = @ \cup {d.id}]
  <2>1. /\ QueriesOK'
        /\ \A j \in Keys : j # k => cache'[j] = cache[j] /\ fetch'[j] = fetch[j]
        /\ cache'[k].has = cache[k].has /\ cache'[k].rows = cache[k].rows
        /\ cache'[k].old = TRUE
        /\ Observed(k) => Observed(k)'
        /\ \/ fetch'[k] = fetch[k] /\ fetch[k].st = "idle"
           \/ /\ fetch'[k].st = fetch[k].st /\ fetch'[k].of = fetch[k].of
              /\ fetch'[k].search = fetch[k].search /\ fetch'[k].rows = fetch[k].rows
              /\ fetch'[k].late = fetch[k].late \cup {d.id}
           \/ fetch'[k] = Sent(module, debounced) /\ key = k
    BY <1>1, <1>2, <1>5, InvalidateOK
  <2>2. /\ gone' \in [Keys -> SUBSET (Ids \cup {"none"})]
        /\ \A j \in Keys : j # k => gone'[j] = gone[j]
        /\ gone'[k] \subseteq gone[k] \cup {d.id}
    BY <1>2, <1>5 DEF IInv, Typed
  <2>3. ASSUME NEW j \in Keys, j # k PROVE KeyOK(j)'
    BY <2>1, <2>2, <2>3, KeepKey DEF IInv, DataOK
  <2>4. KeyOK(k)'
    <3>1. KeyOK(k)
      BY DEF IInv, DataOK
    <3>2. CASE fetch'[k] = fetch[k] /\ fetch[k].st = "idle"
      <4>1. fetch[k].rows = {}
        BY <3>2 DEF IInv, DataOK, KeyOK
      <4>2. QED
        BY <2>1, <2>2, <3>1, <3>2, <4>1 DEF KeyOK, Matches
    <3>5. CASE /\ fetch'[k].st = fetch[k].st /\ fetch'[k].of = fetch[k].of
               /\ fetch'[k].search = fetch[k].search /\ fetch'[k].rows = fetch[k].rows
               /\ fetch'[k].late = fetch[k].late \cup {d.id}
      BY <2>1, <2>2, <3>1, <3>5 DEF KeyOK, Matches
    <3>3. CASE fetch'[k] = Sent(module, debounced) /\ key = k
      <4>1. PICK m \in Modules : m = module
        BY DEF IInv, Typed
      <4>2. PICK t \in Terms : t = debounced
        BY DEF IInv, Typed
      <4>3. k = queryKey(m, t) /\ fetch'[k] = Sent(m, t)
        BY <3>3, <4>1, <4>2 DEF key
      <4>4. QED
        BY <2>1, <3>1, <4>3, SentKey
    <3>4. QED
      BY <2>1, <3>2, <3>3, <3>5
  <2>5. DataOK'
    BY <2>3, <2>4 DEF DataOK
  <2>6. DeletedOK'
    <3>1. d.id \notin server
      BY <1>5 DEF IInv, DeletedOK
    <3>2. ASSUME NEW j \in Keys PROVE gone'[j] \cap server = {}
      <4>1. gone[j] \cap server = {}
        BY DEF IInv, DeletedOK
      <4>2. QED
        BY <2>2, <3>1, <4>1
    <3>3. QED
      BY <1>1, <3>2 DEF IInv, DeletedOK
  <2>7. ListOK'
    <3>1. PICK q \in Keys : q = key
      BY CurrentKey DEF IInv
    <3>2. key' = q
      BY <1>1, <3>1 DEF key, queryKey
    <3>3. Observed(q) => Observed(q)'
      BY <2>1 DEF Observed
    <3>4. QED
      BY <1>1, <3>1, <3>2, <3>3 DEF IInv, ListOK, Observed
  <2>8. PathOK'
    BY <1>1 DEF IInv, PathOK, getModuleByPathSegment
  <2>9. Typed'
    BY <1>1, <2>1, <2>2 DEF IInv, Typed
  <2>10. QED
    BY <2>5, <2>6, <2>7, <2>8, <2>9 DEF IInv
<1>6. QED
  BY <1>3, <1>4, <1>5 DEF Deleted

\* The answer to a deletion from the detail page.
LEMMA DetailDeletedInv == ASSUME IInv, NEW d \in dels, DetailDeleted(d) PROVE IInv'
<1>1. dels' = dels \ {d} /\ UNCHANGED <<server, gone, asked>>
  BY DEF DetailDeleted
<1>2. PICK m \in Modules : m = d.mod
  BY DEF IInv, Typed, Deletion
<1>3. CASE ShowList(m)
  <2>1. /\ screen' = "list" /\ module' = m /\ item' \in Item
        /\ term' \in Terms /\ debounced' \in Terms /\ timer' \in BOOLEAN
        /\ QueriesOK' /\ DataOK' /\ ListOK' /\ PathOK'
    BY <1>1, <1>3, ShowListOK
  <2>2. Typed'
    BY <1>1, <2>1 DEF IInv, Typed
  <2>3. DeletedOK'
    BY <1>1 DEF IInv, DeletedOK
  <2>4. QED
    BY <2>1, <2>2, <2>3 DEF IInv
<1>4. CASE /\ item' = IF item.id = d.id THEN [item EXCEPT !.st = "error"] ELSE item
           /\ UNCHANGED <<screen, path, module, term, timer, debounced, last, cache, fetch>>
  <2>1. item' \in Item
    BY <1>4 DEF IInv, Typed, Item
  <2>2. QED
    BY <1>1, <1>4, <2>1, QuietOK DEF IInv, Typed, DeletedOK
<1>5. QED
  BY <1>2, <1>3, <1>4 DEF DetailDeleted

\* Back to the list.
LEMMA HandleBackInv == ASSUME IInv, handleBack PROVE IInv'
<1>1. UNCHANGED <<server, dels, gone, asked>>
  BY DEF handleBack
<1>2. PICK m \in Modules : m = module
  BY DEF IInv, Typed
<1>3. ShowList(m)
  BY <1>2 DEF handleBack
<1>4. /\ screen' = "list" /\ module' = m /\ item' \in Item
      /\ term' \in Terms /\ debounced' \in Terms /\ timer' \in BOOLEAN
      /\ QueriesOK' /\ DataOK' /\ ListOK' /\ PathOK'
  BY <1>1, <1>3, ShowListOK
<1>5. Typed'
  BY <1>1, <1>4 DEF IInv, Typed
<1>6. DeletedOK'
  BY <1>1 DEF IInv, DeletedOK
<1>7. QED
  BY <1>4, <1>5, <1>6 DEF IInv

-----------------------------------------------------------------------------
(* Theorems *)

\* The first state.
LEMMA InitInv == Init => IInv
<1>1. HAVE Init
<1>2. module \in Modules
  BY <1>1, BackofficeListAssumption DEF Init
<1>3. NoData \in CacheEntry /\ NoData.has = FALSE /\ NoData.rows = {}
  BY DEF NoData, CacheEntry
<1>4. NoFetch \in FetchEntry /\ NoFetch.st = "idle" /\ NoFetch.rows = {}
  BY BackofficeListAssumption DEF NoFetch, FetchEntry
<1>5. QueriesOK
  BY <1>1, <1>3, <1>4 DEF Init, QueriesOK
<1>6. \A k \in Keys : cache[k] = NoData /\ fetch[k] = NoFetch /\ gone[k] = {}
  BY <1>1 DEF Init
<1>7. gone \in [Keys -> SUBSET (Ids \cup {"none"})]
  BY <1>1 DEF Init
<1>8. Typed
  <2>1. item = NoItem /\ dels = {} /\ server = Ids /\ screen = "other"
        /\ term = "" /\ debounced = "" /\ timer = FALSE
    BY <1>1 DEF Init
  <2>2. "" \in Terms
    BY BackofficeListAssumption
  <2>3. asked \in Int
    <3>1. asked = 0
      BY <1>1 DEF Init
    <3>2. QED
      BY <3>1
  <2>4. item \in Item
    BY <2>1, NoItemType
  <2>5. QED
    BY <1>2, <1>5, <1>7, <2>1, <2>2, <2>3, <2>4 DEF Typed
<1>9. DataOK
  BY <1>3, <1>4, <1>6 DEF DataOK, KeyOK, Matches
<1>10. DeletedOK /\ ListOK /\ PathOK
  BY <1>1, <1>6 DEF Init, DeletedOK, ListOK, PathOK
<1>11. QED
  BY <1>8, <1>9, <1>10 DEF IInv

\* Every step.
LEMMA NextInv == IInv /\ [Next]_vars => IInv'
<1> SUFFICES ASSUME IInv, [Next]_vars PROVE IInv'
  OBVIOUS
<1>1. ASSUME NEW p \in Segments, OpenList(p) PROVE IInv'
  BY <1>1, OpenListInv
<1>2. CASE Leave \/ useDebounce \/ fetchItem \/ fetchRelated \/ DetailDelete \/ handleBack
  BY <1>2, LeaveInv, UseDebounceInv, FetchItemInv, FetchRelatedInv, DetailDeleteInv, HandleBackInv
<1>3. ASSUME NEW t \in Terms, Type(t) PROVE IInv'
  BY <1>3, TypeInv
<1>4. ASSUME NEW k \in Keys, Serve(k) \/ Receive(k) \/ FetchFails(k) \/ Stale(k) PROVE IInv'
  BY <1>4, ServeInv, ReceiveInv, FetchFailsInv, StaleInv
<1>5. ASSUME NEW i \in Ids, handleDelete(i) \/ OpenDetail(i) PROVE IInv'
  BY <1>5, HandleDeleteInv, OpenDetailInv
<1>6. ASSUME NEW d \in dels, deleteItem(d) \/ Deleted(d) \/ DetailDeleted(d) PROVE IInv'
  BY <1>6, DeleteItemInv, DeletedInv, DetailDeletedInv
<1>7. CASE UNCHANGED vars
  <2>1. /\ UNCHANGED <<screen, path, module, term, timer, debounced, cache, fetch, gone>>
        /\ UNCHANGED <<server, dels, item, asked>>
    BY <1>7 DEF vars
  <2>2. QED
    BY <2>1, QuietOK DEF IInv, Typed, DeletedOK
<1>8. QED
  BY <1>1, <1>2, <1>3, <1>4, <1>5, <1>6, <1>7 DEF Next

\* The invariant holds of every behaviour of the list and detail pages.
THEOREM Invariance == Spec => []IInv
BY InitInv, NextInv, PTL DEF Spec

\* A row whose deletion a list has heard confirmed returns to the list's fresh
\* data only by the answer of a fetch that was under way at the confirmation and
\* was not replaced: the key's first, or that of a list that was left.
THEOREM AlwaysGoneStaysGone == Spec => []GoneStaysGone
<1>1. IInv => GoneStaysGone
  BY DEF IInv, DataOK, KeyOK, GoneStaysGone
<1>2. QED
  BY <1>1, Invariance, PTL

\* A settled list shows the rows of its own module that its term finds, or
\* reports a failure; the lists of two modules are not searched.
THEOREM AlwaysSettledMatches == Spec => []SettledMatches
<1>1. IInv => SettledMatches
  <2> SUFFICES ASSUME IInv, screen = "list", ~timer, fetch[key].st = "idle", ~cache[key].failed
               PROVE  /\ cache[key].has
                      /\ \A i \in Shown : Owner[i] = module /\ (Searched(module) => term \in Found[i])
    BY DEF SettledMatches
  <2>1. key \in Keys /\ key[1] = Title(module) /\ key[2] = debounced
    BY CurrentKey DEF IInv
  <2>2. timer = FALSE
    BY DEF IInv, Typed
  <2>3. cache[key].has /\ term = debounced
    BY <2>2 DEF IInv, ListOK, Observed
  <2>4. Shown = cache[key].rows
    BY <2>3 DEF Shown
  <2>5. Matches(key, cache[key].rows)
    BY <2>1 DEF IInv, DataOK, KeyOK
  <2>6. ASSUME NEW i \in Shown
        PROVE  Owner[i] = module /\ (Searched(module) => term \in Found[i])
    <3>1. cache[key] \in CacheEntry
      BY <2>1 DEF IInv, Typed, QueriesOK
    <3>2. i \in Ids
      BY <2>4, <3>1 DEF CacheEntry
    <3>3. Owner[i] \in Modules /\ module \in Modules
      BY <3>2, BackofficeListAssumption DEF IInv, Typed
    <3>4. Title(Owner[i]) = Title(module) /\ (Searched(Owner[i]) => term \in Found[i])
      BY <2>1, <2>3, <2>4, <2>5 DEF Matches
    <3>5. Owner[i] = module
      BY <3>3, <3>4, TitlesDiffer
    <3>6. QED
      BY <3>4, <3>5
  <2>7. QED
    BY <2>3, <2>6
<1>2. QED
  BY <1>1, Invariance, PTL

\* A path that is a module's name, its singular or its plural is found.
THEOREM AlwaysPathsResolve == Spec => []PathsResolve
<1>1. IInv => PathsResolve
  <2> SUFFICES ASSUME IInv, screen = "missing", NEW m \in Modules, Name(m).stem = path.stem
               PROVE  path.s - Name(m).s \notin {-1, 0, 1}
    BY DEF PathsResolve
  <2>1. PICK p \in Segments : p = path
    BY DEF IInv, PathOK
  <2>2. getModuleByPathSegment(p) = {}
    BY <2>1 DEF IInv, PathOK
  <2>3. QED
    BY <2>1, <2>2, NoneFound
<1>2. QED
  BY <1>1, Invariance, PTL
=============================================================================
