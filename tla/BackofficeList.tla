---------------------------- MODULE BackofficeList ----------------------------
(***************************************************************************)
(* The list and detail pages of the dashboard's backoffice: ListPage with   *)
(* its debounced search, its react-query cache and its delete mutation,     *)
(* DetailPage with its sequential fetches and its own delete, and the       *)
(* lookup of a module by the segment of the path.                           *)
(*                                                                          *)
(* A list query is cached under its key, the module's title and the search  *)
(* term (no filter is ever set).  Data is fresh for 30 seconds; until a new *)
(* key has data the page shows the rows of the last key that had some.      *)
(* Going from one module's list to another's keeps the page mounted, with   *)
(* its search term.  react-query and the services are external; a fetch is  *)
(* sent, served (the rows are read) and received, and its retries count as  *)
(* one attempt.  Collecting cache entries unused for five minutes is left   *)
(* out: it only makes a later visit fetch what it would show from cache.    *)
(***************************************************************************)
EXTENDS Integers, FiniteSets

CONSTANTS
    Modules,    \* the modules of the store whose rows the instance has
    Terms,      \* search terms; "" is the empty one
    Ids,        \* the rows of all modules
    Owner,      \* the module of each row
    Found,      \* the terms a search finds each row by
    Segments,   \* path segments that are visited
    NoSegment,
    MaxVisits,  \* bound on the navigations of the user
    MaxTyped,   \* bound on the changes of the search input
    MaxDeletes  \* bound on the deletions asked for

-----------------------------------------------------------------------------
(* The modules that BackofficeDirector builds: the title, the name in the    *)
(* store and the entities that the details relate to.  Columns and sections  *)
(* are layout; no filter is ever set, and the actions of a list              *)
(* configuration are not the page's buttons.                                 *)

\* A path segment is a stem and the number of s at its end.
Segment(stem, s) == [stem |-> stem, s |-> s, upper |-> FALSE]
Config(title, name, related) == [title |-> title, name |-> name, related |-> related]

customerDetail  == {"orders"}
warehouseDetail == {"inventory"}
inventoryDetail == {"transactions", "reservations"}

customerModule    == Config("Customers", Segment("customer", 1), customerDetail)
warehouseModule   == Config("Warehouses", Segment("warehouse", 1), warehouseDetail)
inventoryModule   == Config("Inventory", Segment("inventory", 0), inventoryDetail)
transactionModule == Config("Inv. Transactions", Segment("transaction", 1), {})
reservationModule == Config("Inv. Reservations", Segment("reservation", 1), {})
orderModule       == Config("Orders", Segment("order", 1), {})

initialize ==
    [customers |-> customerModule, warehouses |-> warehouseModule,
     inventory |-> inventoryModule, orders |-> orderModule,
     transactions |-> transactionModule, reservations |-> reservationModule]

Title(m) == initialize[m].title
Name(m) == initialize[m].name
Related(m) == Cardinality(initialize[m].related)

\* What the engine's endpoint of a module does: the lists of transactions and of
\* reservations take no search term, and orders and transactions have no DELETE.
Searched(m)  == m \notin {"transactions", "reservations"}
Deletable(m) == m \notin {"transactions", "orders"}

Keys == {Title(m) : m \in Modules} \X Terms
NoKey == <<>>

ASSUME BackofficeListAssumption ==
    /\ Modules \subseteq DOMAIN initialize /\ Modules # {}
    /\ "" \in Terms /\ Owner \in [Ids -> Modules]
    /\ Found \in [Ids -> SUBSET Terms] /\ \A i \in Ids : "" \in Found[i]
    /\ Segments \subseteq [stem : STRING, s : Nat, upper : BOOLEAN]
    /\ NoSegment \notin Segments
    /\ MaxVisits \in Nat /\ MaxTyped \in Nat /\ MaxDeletes \in Nat

VARIABLES
    screen,     \* "list", "detail", "missing" or "other"
    path,       \* the segment no module was found for
    module,     \* the module of the list or the detail
    term,       \* what the search input holds
    timer,      \* whether the debounce timer is pending; it carries term
    debounced,  \* debouncedSearchTerm
    last,       \* the last key of this mounted page that had data
    cache,      \* the query cache
    fetch,      \* its fetches
    server,     \* the rows that exist
    dels,       \* deletions in flight
    gone,       \* history: per key, rows whose deletion its list has heard confirmed
    item,       \* the detail page
    visits, typed, asked

vars == <<screen, path, module, term, timer, debounced, last, cache, fetch, server,
          dels, gone, item, visits, typed, asked>>
search == <<term, timer, debounced, typed>>

queryKey_NoTerm(m, t) == <<Title(m), "">>

queryKey(m, t) == <<Title(m), t>>
key == queryKey(module, debounced)

\* The rows on screen: the key's own, or the placeholder while its first load is
\* pending.
Shown ==
    IF cache[key].has THEN cache[key].rows
    ELSE IF last # NoKey /\ ~cache[key].failed THEN cache[last].rows
    ELSE {}

\* useMutation observes the deletion asked for by this mounted page.
isPending == \E d \in dels : d.mine

\* late is a history: the rows whose deletion was confirmed while the fetch was
\* under way; the data keeps that of the fetch it came from.
NoData == [has |-> FALSE, rows |-> {}, old |-> FALSE, failed |-> FALSE, late |-> {}]
NoFetch == [st |-> "idle", of |-> "", search |-> "", rows |-> {}, late |-> {}]
Sent(m, t) == [st |-> "sent", of |-> m, search |-> t, rows |-> {}, late |-> {}]
NoItem == [st |-> "none", id |-> "none", left |-> 0]

Init ==
    /\ screen = "other" /\ path = NoSegment /\ module = CHOOSE m \in Modules : TRUE
    /\ term = "" /\ timer = FALSE /\ debounced = "" /\ last = NoKey
    /\ cache = [k \in Keys |-> NoData] /\ fetch = [k \in Keys |-> NoFetch]
    /\ server = Ids /\ dels = {} /\ gone = [k \in Keys |-> {}]
    /\ item = NoItem /\ visits = 0 /\ typed = 0 /\ asked = 0

-----------------------------------------------------------------------------
(* The path.                                                               *)

getModuleByPathSegment_NoPlural(segment) ==
    LET s == [segment EXCEPT !.upper = FALSE]
        named(x) == {m \in Modules : Name(m) = x}
    IN  IF named(s) # {} THEN named(s)
        ELSE IF s.s > 0 THEN named([s EXCEPT !.s = @ - 1]) ELSE {}

\* In lower case: the name itself, then without its last s, then with one more.
getModuleByPathSegment(segment) ==
    LET s == [segment EXCEPT !.upper = FALSE]
        named(x) == {m \in Modules : Name(m) = x}
        singular == IF s.s > 0 THEN named([s EXCEPT !.s = @ - 1]) ELSE {}
    IN  CASE named(s) # {} -> named(s)
          [] named(s) = {} /\ singular # {} -> singular
          [] OTHER -> named([s EXCEPT !.s = @ + 1])

-----------------------------------------------------------------------------
(* Mounting the list and observing a key.                                  *)

\* useQuery on a new key: data that is missing or stale is fetched, unless a
\* fetch of the key is already under way.  A first load forgets its last error.
Observe(m, t) ==
    LET k == queryKey(m, t)
        start == (~cache[k].has \/ cache[k].old) /\ fetch[k].st = "idle"
    IN  /\ fetch' = IF start THEN [fetch EXCEPT ![k] = Sent(m, t)] ELSE fetch
        /\ cache' = IF start THEN [cache EXCEPT ![k].failed = @ /\ cache[k].has] ELSE cache

Remember == last' = IF cache[key].has THEN key ELSE last

\* Leaving the list: the options its mutation ends with are the last render's.
Unmounted == {IF d.mine THEN [d EXCEPT !.mine = FALSE, !.key = key] ELSE d : d \in dels}

\* Its own state goes with it, and the cleanup clears its timer.
Forgotten == term' = "" /\ timer' = FALSE /\ debounced' = "" /\ last' = NoKey

\* The list of module m, on the page that is mounted or on a new one.
ShowList(m) ==
    /\ screen' = "list" /\ module' = m /\ item' = NoItem /\ path' = NoSegment
    /\ \/ /\ screen = "list"
          /\ Remember
          /\ Observe(m, debounced)
          /\ UNCHANGED <<term, timer, debounced>>
       \/ /\ screen # "list"
          /\ Forgotten
          /\ Observe(m, "")

Visit == visits < MaxVisits /\ visits' = visits + 1

OpenList(segment) ==
    LET found == getModuleByPathSegment(segment)
    IN  /\ Visit
        /\ \/ \E m \in found : ShowList(m) /\ UNCHANGED dels
           \/ /\ found = {}
              /\ screen' = "missing" /\ path' = segment /\ item' = NoItem
              /\ dels' = Unmounted /\ Forgotten
              /\ UNCHANGED <<module, cache, fetch>>
        /\ UNCHANGED <<server, gone, typed, asked>>

\* Away from the backoffice, or to one of its forms.
Leave ==
    /\ Visit
    /\ screen \in {"list", "detail"} /\ screen' = "other" /\ item' = NoItem
    /\ dels' = Unmounted /\ Forgotten
    /\ UNCHANGED <<path, module, cache, fetch, server, gone, typed, asked>>

-----------------------------------------------------------------------------
(* Searching.                                                              *)

\* Each change clears the pending timer and sets one for the new value.
Type(t) ==
    /\ screen = "list" /\ t # term /\ typed < MaxTyped
    /\ typed' = typed + 1
    /\ term' = t /\ timer' = TRUE
    /\ UNCHANGED <<screen, path, module, debounced, last, cache, fetch, server, dels, gone,
                   item, visits, asked>>

useDebounce ==
    /\ screen = "list" /\ timer
    /\ timer' = FALSE /\ debounced' = term
    /\ Remember
    /\ Observe(module, term)
    /\ UNCHANGED <<screen, path, module, term, typed, server, dels, gone, item, visits, asked>>

-----------------------------------------------------------------------------
(* Fetching a list.                                                        *)

\* The service reads the rows the search of the request finds, if it searches.
Serve(k) ==
    /\ fetch[k].st = "sent"
    /\ fetch' = [fetch EXCEPT ![k].st = "served",
                    ![k].rows = {i \in server : Owner[i] = fetch[k].of
                                   /\ (Searched(fetch[k].of) => fetch[k].search \in Found[i])}]
    /\ UNCHANGED <<screen, path, module, search, last, cache, server, dels, gone, item,
                   visits, asked>>

\* The answer, which makes the data fresh, or the failure of the last retry.
Receive(k) ==
    /\ fetch[k].st = "served"
    /\ fetch' = [fetch EXCEPT ![k] = NoFetch]
    /\ cache' = [cache EXCEPT ![k] =
                    [has |-> TRUE, rows |-> fetch[k].rows, old |-> FALSE, failed |-> FALSE,
                     late |-> fetch[k].late]]
    /\ UNCHANGED <<screen, path, module, search, last, server, dels, gone, item, visits, asked>>

FetchFails(k) ==
    /\ fetch[k].st # "idle"
    /\ fetch' = [fetch EXCEPT ![k] = NoFetch]
    /\ cache' = [cache EXCEPT ![k].failed = TRUE]
    /\ UNCHANGED <<screen, path, module, search, last, server, dels, gone, item, visits, asked>>

\* staleTime passes.
Stale(k) ==
    /\ cache[k].has /\ ~cache[k].old
    /\ cache' = [cache EXCEPT ![k].old = TRUE]
    /\ UNCHANGED <<screen, path, module, search, last, fetch, server, dels, gone, item,
                   visits, asked>>

-----------------------------------------------------------------------------
(* Deleting from the list.  The table is hidden while a deletion is pending; *)
(* placeholder rows have their buttons, whatever module they are from.      *)

Ask(i, from) ==
    /\ asked < MaxDeletes /\ asked' = asked + 1
    /\ dels' = dels \cup {[n |-> asked', id |-> i, mod |-> module, from |-> from, key |-> key,
                           mine |-> (from = "list"), st |-> "sent"]}

handleDelete(i) ==
    /\ screen = "list" /\ i \in Shown /\ ~isPending
    /\ Ask(i, "list")
    /\ UNCHANGED <<screen, path, module, search, last, cache, fetch, server, gone, item, visits>>

\* DELETE on the module's endpoint, if it has one: only its own rows are there.
\* An answer that is lost or late is a failure too.
deleteItem(d) ==
    /\ d.st = "sent"
    /\ \/ /\ Deletable(d.mod) /\ d.id \in server /\ Owner[d.id] = d.mod
          /\ server' = server \ {d.id}
          /\ \E st \in {"done", "failed"} :
                dels' = (dels \ {d}) \cup {[d EXCEPT !.st = st]}
       \/ /\ dels' = (dels \ {d}) \cup {[d EXCEPT !.st = "failed"]}
          /\ UNCHANGED server
    /\ UNCHANGED <<screen, path, module, search, last, cache, fetch, gone, item, visits, asked>>

\* invalidateQueries for the key the page has by now: its data is stale, and is
\* fetched again when a mounted list observes it.  A fetch under way is cancelled
\* for that if the key has data already, and kept if it is the first.
invalidate(k, i) ==
    LET active  == screen = "list" /\ key = k
        restart == active /\ (cache[k].has \/ fetch[k].st = "idle")
        kept == [fetch[k] EXCEPT !.late = @ \cup {i}]
    IN  /\ cache' = [cache EXCEPT ![k].old = TRUE, ![k].failed = @ /\ (cache[k].has \/ ~restart)]
        /\ fetch' = [fetch EXCEPT ![k] =
                       IF restart THEN Sent(module, debounced)
                       ELSE IF fetch[k].st = "idle" THEN fetch[k] ELSE kept]

Deleted_NoInvalidate(d) ==
    /\ d.from = "list" /\ d.st \in {"done", "failed"}
    /\ dels' = dels \ {d}
    /\ gone' = IF d.st = "done" THEN [gone EXCEPT ![IF d.mine THEN key ELSE d.key] = @ \cup {d.id}]
                                ELSE gone
    /\ UNCHANGED <<screen, path, module, search, last, cache, fetch, server, item, visits, asked>>

Deleted_Hang(d) ==
    /\ d.from = "list" /\ d.st = "done"
    /\ dels' = dels \ {d}
    /\ invalidate(IF d.mine THEN key ELSE d.key, d.id)
    /\ UNCHANGED <<screen, path, module, search, last, gone, server, item, visits, asked>>

\* The deletion's answer: onSuccess, or the error message.
Deleted(d) ==
    /\ d.from = "list" /\ d.st \in {"done", "failed"}
    /\ dels' = dels \ {d}
    /\ LET k == IF d.mine THEN key ELSE d.key
       IN  \/ /\ d.st = "done"
              /\ invalidate(k, d.id)
              /\ gone' = [gone EXCEPT ![k] = @ \cup {d.id}]
           \/ d.st = "failed" /\ UNCHANGED <<cache, fetch, gone>>
    /\ UNCHANGED <<screen, path, module, search, last, server, item, visits, asked>>

-----------------------------------------------------------------------------
(* The detail page.                                                        *)

OpenDetail(i) ==
    /\ Visit
    /\ screen = "list" /\ i \in Shown /\ ~isPending
    /\ screen' = "detail"
    /\ item' = [st |-> "loading", id |-> i, left |-> Related(module)]
    /\ dels' = Unmounted /\ Forgotten
    /\ UNCHANGED <<path, module, cache, fetch, server, gone, typed, asked>>

\* fetchData: fetchItem of the module's endpoint, through the API client; then
\* the related entities one by one, by a bare fetch that nothing ends if it is not
\* answered, and whose errors are swallowed.
fetchItem ==
    /\ item.st = "loading"
    /\ \/ /\ item.id \in server /\ Owner[item.id] = module
          /\ item' = [item EXCEPT !.st = IF item.left = 0 THEN "shown" ELSE "related"]
       \/ item' = [item EXCEPT !.st = "error"]
    /\ UNCHANGED <<screen, path, module, search, last, cache, fetch, server, dels, gone,
                   visits, asked>>

fetchRelated ==
    /\ item.st = "related"
    /\ item' = [item EXCEPT !.left = @ - 1, !.st = IF item.left = 1 THEN "shown" ELSE @]
    /\ UNCHANGED <<screen, path, module, search, last, cache, fetch, server, dels, gone,
                   visits, asked>>

\* The button is not disabled while a deletion is under way.
DetailDelete ==
    /\ item.st = "shown"
    /\ Ask(item.id, "detail")
    /\ UNCHANGED <<screen, path, module, search, last, cache, fetch, server, gone, item, visits>>

\* A success goes to the list from wherever the user is by then, and leaves the
\* cache as it is; a failure is shown if the page is still there.
DetailDeleted(d) ==
    /\ d.from = "detail" /\ d.st \in {"done", "failed"}
    /\ \/ /\ d.st = "done"
          /\ ShowList(d.mod)
       \/ /\ d.st = "failed"
          /\ item' = IF item.id = d.id THEN [item EXCEPT !.st = "error"] ELSE item
          /\ UNCHANGED <<screen, path, module, term, timer, debounced, last, cache, fetch>>
    /\ dels' = dels \ {d}
    /\ UNCHANGED <<server, gone, visits, typed, asked>>

handleBack ==
    /\ screen = "detail" /\ item.st \in {"shown", "error"}
    /\ Visit
    /\ ShowList(module)
    /\ UNCHANGED <<server, dels, gone, typed, asked>>

-----------------------------------------------------------------------------
Next ==
    \/ \E s \in Segments : OpenList(s)
    \/ Leave \/ useDebounce \/ fetchItem \/ fetchRelated \/ DetailDelete \/ handleBack
    \/ \E t \in Terms : Type(t)
    \/ \E k \in Keys : Serve(k) \/ Receive(k) \/ FetchFails(k) \/ Stale(k)
    \/ \E i \in Ids : handleDelete(i) \/ OpenDetail(i)
    \/ \E d \in dels : deleteItem(d) \/ Deleted(d) \/ DetailDeleted(d)

Spec == Init /\ [][Next]_vars

\* Timers fire, and every request of the API client ends: it aborts one that is
\* not answered within its timeout.  The detail page's related rows are not
\* fetched through it, so nothing is assumed of fetchRelated.
FairSpec ==
    /\ Spec
    /\ WF_vars(useDebounce) /\ WF_vars(fetchItem)
    /\ \A k \in Keys : WF_vars(Serve(k) \/ Receive(k) \/ FetchFails(k))
    /\ WF_vars(\E d \in dels : deleteItem(d) \/ Deleted(d) \/ DetailDeleted(d))

-----------------------------------------------------------------------------
(* Properties.                                                             *)

\* A row whose deletion a list has heard confirmed is in the list's fresh data
\* again only by the answer of a fetch that was under way at the confirmation and
\* was not started anew: the key's first fetch, when what was deleted is a
\* placeholder row, or one of a list that was left.  Such a row lasts until the
\* next fetch of the key.
GoneStaysGone ==
    \A k \in Keys : (cache[k].has /\ ~cache[k].old)
                       => cache[k].rows \cap gone[k] \subseteq cache[k].late

\* Once the input has settled and nothing is being fetched, the list either
\* reports a failure or shows rows of its own module that the typed term finds,
\* whichever searches and modules were visited and answered in between.  The
\* lists of transactions and reservations are not searched.
SettledMatches ==
    (screen = "list" /\ ~timer /\ fetch[key].st = "idle" /\ ~cache[key].failed)
        => /\ cache[key].has
           /\ \A i \in Shown : Owner[i] = module /\ (Searched(module) => term \in Found[i])

\* No path that is a module's name, its singular or its plural ends at "Module
\* not found".
PathsResolve ==
    screen = "missing" =>
        \A m \in Modules : Name(m).stem = path.stem =>
            path.s - Name(m).s \notin {-1, 0, 1}

\* No list stays busy: its debounce fires, its fetch ends and a deletion of its
\* own is answered.  A detail page shows its item or an error, or is left waiting
\* for related rows, which only modules with related entities have.
PagesSettle ==
    /\ screen = "list" ~> (screen # "list" \/ (~timer /\ fetch[key].st = "idle" /\ ~isPending))
    /\ screen = "detail" ~>
         \/ screen # "detail" \/ item.st \in {"shown", "error"}
         \/ item.st = "related" /\ Related(module) > 0
=============================================================================
