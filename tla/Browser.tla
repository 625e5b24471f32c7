------------------------------ MODULE Browser -------------------------------
(***************************************************************************)
(* The browser/resolver of daemon/avahi/avahi-browser.c.  A struct         *)
(* s_browser owns an avahi service browser; every AVAHI_BROWSER_NEW event  *)
(* starts an avahi service resolver whose callback receives the browser as *)
(* userdata, filters the resolved name, calls the owner's find callback    *)
(* and frees the resolver.  Resolvers are not de-duplicated, so the        *)
(* pending resolvers form a bag of <<browser, instance>> pairs.  The       *)
(* avahi engine is the environment: it delivers any browse event to a     *)
(* live browser and completes any pending resolver.                        *)
(***************************************************************************)
EXTENDS ServiceKey, Bags, BagsExt

CONSTANTS
  BrowserIds,        \* identities of struct s_browser allocations
  Instances,         \* service instances advertised on the network
  InstName,          \* [Instances -> string]: the advertised instance name
  MaxBrowseEvents    \* bound on the browse events the engine delivers

VARIABLES
  browsers,      \* the live struct s_browser allocations
  resolvers,     \* bag of pending resolvers [b |-> browser, i |-> instance]
  browseEvents   \* browse events delivered so far

browserVars == <<browsers, resolvers, browseEvents>>

\* avahi_service_resolver_new(..., browser) on a NEW event: a resolver is
\* identified by its userdata, the browser, and the instance it resolves
Resolver == [b : BrowserIds, i : Instances]

BrowseEventKinds ==
  {"NEW", "REMOVE", "FAILURE", "ALL_FOR_NOW", "CACHE_EXHAUSTED"}

BrowserTypeOK ==
  /\ browsers \subseteq BrowserIds
  /\ IsABag(resolvers) /\ BagToSet(resolvers) \subseteq Resolver
  /\ browseEvents \in 0..MaxBrowseEvents

BrowserInit ==
  /\ browsers = {}
  /\ resolvers = EmptyBag
  /\ browseEvents = 0

\* s_browser_new with avahi_service_browser_new succeeding
BrowserNew(b) ==
  /\ b \notin browsers
  /\ browsers' = browsers \cup {b}
  /\ UNCHANGED <<resolvers, browseEvents>>

(***************************************************************************)
(* s_browser_free: avahi_service_browser_free and s_service_free.  The     *)
(* resolvers the browser started belong to the avahi client and stay       *)
(* pending, with the freed browser as their userdata.                      *)
(***************************************************************************)
BrowserFree(b) ==
  /\ b \in browsers
  /\ browsers' = browsers \ {b}
  /\ UNCHANGED <<resolvers, browseEvents>>

(***************************************************************************)
(* _s_browser_cbk for event ev about instance i.  On NEW a resolver is     *)
(* created unless avahi_service_resolver_new fails (resolverOk = FALSE),   *)
(* which the owner hears as a failure callback.  REMOVE hands a stack      *)
(* record to the owner's remove callback, FAILURE calls the failure        *)
(* callback, ALL_FOR_NOW and CACHE_EXHAUSTED are ignored: none of these    *)
(* changes the browser.                                                    *)
(***************************************************************************)
OnBrowseEvent(b, i, ev, resolverOk) ==
  /\ b \in browsers
  /\ browseEvents < MaxBrowseEvents
  /\ browseEvents' = browseEvents + 1
  /\ resolvers' = IF ev = "NEW" /\ resolverOk
                    THEN BagAdd(resolvers, [b |-> b, i |-> i])
                    ELSE resolvers
  /\ UNCHANGED browsers

(***************************************************************************)
(* _s_browser_resolver_cbk for a pending resolver r with event ev:         *)
(* FAILURE calls the failure callback, FOUND calls the find callback when  *)
(* the name passes the filter; either way the resolver is freed.           *)
(***************************************************************************)
OnResolverEvent(r, ev) ==
  /\ BagIn(r, resolvers)
  /\ resolvers' = BagRemove(resolvers, r)
  /\ UNCHANGED <<browsers, browseEvents>>

\* The resolver callback calls the owner's find callback.
FindFires(r, ev) == ev = "FOUND" /\ NameMatches(InstName[r.i])

\* the owner calls s_browser_new/free; avahi reports browse and resolve
\* events, which reach the owner through struct s_browser_funcs
BrowserNext ==
  \/ \E b \in BrowserIds : BrowserNew(b) \/ BrowserFree(b)
  \/ \E b \in BrowserIds, i \in Instances, ev \in BrowseEventKinds,
        ok \in BOOLEAN : OnBrowseEvent(b, i, ev, ok)
  \/ \E r \in Resolver, ev \in {"FOUND", "FAILURE"} : OnResolverEvent(r, ev)

BrowserSpec == BrowserInit /\ [][BrowserNext]_browserVars
=============================================================================
