---------------------------- MODULE PriceCatalog ----------------------------
(* The catalogue of models and prices of one backend process                   *)
(* (services/sovereign_catalog.py): a cache with a time to live in front of    *)
(* the provider, filled by whoever finds it too old and by a daily refresh.    *)
(* Several calls may fetch at once.  The prices themselves are left out: of a  *)
(* list the model keeps when the provider made it.                             *)
EXTENDS Naturals

CONSTANTS Call, TTL, MaxClock,
          NoList \* nothing fetched, an empty list

VARIABLES clock, cache, call

catalogVars == <<clock, cache, call>>

List == (0..MaxClock) \cup {NoList}
IdleCall == [at |-> "idle", force |-> FALSE, now |-> 0, cached |-> NoList, got |-> NoList]

CatalogTypeOK ==
  /\ clock \in 0..MaxClock
  /\ cache.at \in 0..MaxClock /\ cache.data \in List
  /\ \A c \in Call : /\ call[c].at \in {"idle", "start", "fetch", "store", "got"}
                     /\ call[c].force \in BOOLEAN
                     /\ call[c].cached \in List /\ call[c].got \in List

CatalogInit ==
  /\ clock = 0
  /\ cache = [at |-> 0, data |-> NoList]
  /\ call = [c \in Call |-> IdleCall]

At(c, place) == call[c].at = place
Returns(c, list) == call' = [call EXCEPT ![c].at = "got", ![c].got = list, ![c].cached = NoList]

-----------------------------------------------------------------------------
(* get_sovereign_catalog.                                                  *)

Begin(c, force) ==
  /\ At(c, "idle")
  /\ call' = [call EXCEPT ![c].at = "start", ![c].force = force]
  /\ UNCHANGED <<clock, cache>>

\* The page of the LLM configurations (get_sovereign_catalog_status), or a request whose cost
\* is estimated (get_model_egp_pricing).
Ask(c) == Begin(c, FALSE)

\* _daily_refresh_loop.
Refresh(c) == Begin(c, TRUE)

Fresh == cache.data # NoList /\ clock - cache.at < TTL

\* The time of the call and the old copy are read before the provider is asked.
Look(c) ==
  /\ At(c, "start")
  /\ IF Fresh /\ ~call[c].force
     THEN Returns(c, cache.data)
     ELSE call' = [call EXCEPT ![c].at = "fetch", ![c].now = clock, ![c].cached = cache.data]
  /\ UNCHANGED <<clock, cache>>

\* The provider makes its list.
Provider(c) ==
  /\ At(c, "fetch")
  /\ call' = [call EXCEPT ![c].at = "store", ![c].got = clock]
  /\ UNCHANGED <<clock, cache>>

\* No key, an HTTP error, no network: the copy read before is returned (_fail), and the
\* message kept for the page is left out.
Fail(c) ==
  /\ At(c, "fetch") \/ At(c, "store")
  /\ Returns(c, call[c].cached)
  /\ UNCHANGED <<clock, cache>>

\* Mutant: the list counts as new from the moment it is stored.
StoreNow(c) ==
  /\ At(c, "store")
  /\ cache' = [at |-> clock, data |-> call[c].got]
  /\ Returns(c, call[c].got)
  /\ UNCHANGED clock

\* _normalize, and the cache.
Store(c) ==
  /\ At(c, "store")
  /\ cache' = [at |-> call[c].now, data |-> call[c].got]
  /\ Returns(c, call[c].got)
  /\ UNCHANGED clock

\* estimate_llm_cost_egp: the price of the list, or the default one.
Use(c) ==
  /\ At(c, "got")
  /\ call' = [call EXCEPT ![c] = IdleCall]
  /\ UNCHANGED <<clock, cache>>

Clock ==
  /\ clock < MaxClock
  /\ clock' = clock + 1
  /\ UNCHANGED <<cache, call>>

CallStep(c) == Look(c) \/ Provider(c) \/ Fail(c) \/ Store(c) \/ Use(c)

CatalogNext == Clock \/ \E c \in Call : Ask(c) \/ Refresh(c) \/ CallStep(c)

CatalogSpec == CatalogInit /\ [][CatalogNext]_catalogVars /\ \A c \in Call : WF_catalogVars(CallStep(c))

-----------------------------------------------------------------------------
(* Properties.                                                             *)

\* Whatever calls fetch at once and in whatever order they store, no price is served from
\* the cache that the provider quoted longer ago than the time to live (_CACHE_TTL_SECONDS).
ServedFresh == Fresh => clock - cache.data < TTL

\* Every call returns.
CallsReturn == \A c \in Call : []<>At(c, "idle")
=============================================================================
