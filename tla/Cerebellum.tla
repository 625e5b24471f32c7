----------------------------- MODULE Cerebellum -----------------------------
(***************************************************************************)
(* The cerebellum daemon: main (daemon/cerebellum-main.c) builds a struct  *)
(* s_cerebellum (daemon/cerebellum.c) holding a loop, a discovery session, *)
(* a browser and a TLS connection, installs a SIGINT handler that calls    *)
(* s_cerebellum_quit, runs the session and the loop, then frees            *)
(* everything.  The callbacks of daemon/cerebellum-client.c,               *)
(* cerebellum-browser.c and cerebellum-ssl.c react to the components.      *)
(* All callbacks run one at a time on the loop; the signal handler is the  *)
(* only step that may interleave with the main thread anywhere.            *)
(***************************************************************************)
EXTENDS Naturals, FiniteSets

CONSTANTS
  ServiceKey, ServiceName, LenWidth,
  BrowserIds, Instances, InstName, MaxBrowseEvents,
  Clients, MaxBytes, MaxContexts, MaxRunning,
  InstAddr,     \* [Instances -> {"ipv4", "ipv6"}]: the resolved address family
  MaxSignals,   \* bound on SIGINT deliveries
  NULL

VARIABLES
  loop, wake, idleArmed,
  session, runCount,
  browsers, resolvers, browseEvents,
  ssl,
  pc,           \* the statement of main that runs
  browser,      \* cerebellum->browser
  connection,   \* cerebellum->connection
  nextClient,   \* the next struct s_ssl_client allocation
  signals,      \* SIGINT deliveries so far
  uafQuit       \* the signal handler ran on a freed cerebellum

INSTANCE Loop
INSTANCE DiscoverySession
INSTANCE Browser
INSTANCE SslClient

\* the components' variables, as the instantiated modules group them
reactorVars == <<loop, wake, idleArmed>>
discoveryVars == <<session, runCount>>
browseVars == <<browsers, resolvers, browseEvents>>

ownVars == <<pc, browser, connection, nextClient,
             signals, uafQuit>>
vars == <<reactorVars, discoveryVars, browseVars, ssl, ownVars>>

MainStates ==
  {"new", "run", "loop", "free_browser", "free_connection", "free_client",
   "free_loop", "exit", "done", "aborted", "crashed", "killed"}

\* the process has ended: main returned, an assert, a NULL dereference, SIGINT
Ended == pc \in {"done", "aborted", "crashed", "killed"}

TypeOK ==
  /\ LoopTypeOK /\ SessionTypeOK /\ BrowserTypeOK /\ SslTypeOK
  /\ pc \in MainStates
  /\ browser \in BrowserIds \cup {NULL}
  /\ connection \in Clients \cup {NULL}
  /\ nextClient \in 1..(MaxBrowseEvents + 1)
  /\ signals \in 0..MaxSignals
  /\ uafQuit \in BOOLEAN

\* s_cerebellum_quit: s_loop_quit(cerebellum->loop)
CerebellumQuit == LoopQuit

\* process start: nothing is allocated and SIGINT has its default action
Init ==
  /\ LoopInit /\ SessionInit /\ BrowserInit /\ SslInit
  /\ pc = "new"
  /\ browser = NULL
  /\ connection = NULL
  /\ nextClient = 1
  /\ signals = 0
  /\ uafQuit = FALSE

-----------------------------------------------------------------------------
(***************************************************************************)
(* main and s_cerebellum_run, s_cerebellum_free                            *)
(***************************************************************************)

\* the steps of s_cerebellum_new that can fail
ConstructionFaults == LoopFaults \cup {"client"}

(***************************************************************************)
(* main: _g_cerebellum = s_cerebellum_new(), then signal(SIGINT, handler). *)
(* s_cerebellum_new builds the loop, then the avahi client over the loop's *)
(* poll, which fails when the loop is NULL.  When either is NULL,          *)
(* s_cerebellum_free releases what was built (the free_* steps, whose      *)
(* frees of NULL return at once) and main returns -EBADE.  A failed        *)
(* event_new in s_task_idle_new crashes in its error path.  `fault` is the *)
(* step that fails, "none" when all succeed.                               *)
(***************************************************************************)
CerebellumNew(fault) ==
  /\ pc = "new"
  /\ LoopNew(IF fault \in LoopFaults THEN fault ELSE "none")
  /\ IF IdleTaskFreeCrashes(fault)
       THEN pc' = "crashed" /\ UNCHANGED discoveryVars
       ELSE /\ SessionNew(fault = "none")
            /\ pc' = IF fault = "none" THEN "run" ELSE "free_browser"
  /\ UNCHANGED <<browseVars, ssl, browser, connection, nextClient,
                 signals, uafQuit>>

\* s_cerebellum_run: s_client_run(client) == 0 ? s_loop_run(loop) : -EBADE
Run ==
  /\ pc = "run"
  /\ \/ SessionStart /\ LoopRun /\ pc' = "loop"
     \/ pc' = "free_browser" /\ UNCHANGED <<reactorVars, discoveryVars>>
  /\ UNCHANGED <<browseVars, ssl, browser, connection, nextClient,
                  signals, uafQuit>>

\* s_loop_run returns once event_base_loop has seen the loopexit
RunReturns ==
  /\ pc = "loop"
  /\ LoopExit
  /\ pc' = "free_browser"
  /\ UNCHANGED <<discoveryVars, browseVars, ssl, browser, connection,
                 nextClient,  signals, uafQuit>>

\* Fault variant of FreeBrowser: s_browser_free is not called.
FreeBrowserMissing ==
  /\ pc = "free_browser"
  /\ pc' = "free_connection"
  /\ UNCHANGED <<reactorVars, discoveryVars, browseVars, ssl, browser,
                 connection, nextClient,  signals, uafQuit>>

FreeBrowser ==
  /\ pc = "free_browser"
  /\ IF browser # NULL THEN BrowserFree(browser) ELSE UNCHANGED browseVars
  /\ pc' = "free_connection"
  /\ UNCHANGED <<reactorVars, discoveryVars, ssl, browser, connection,
                 nextClient,  signals, uafQuit>>

FreeConnection ==
  /\ pc = "free_connection"
  /\ IF connection # NULL THEN SslFree(connection) ELSE UNCHANGED ssl
  /\ pc' = "free_client"
  /\ UNCHANGED <<reactorVars, discoveryVars, browseVars, browser, connection,
                 nextClient,  signals, uafQuit>>

FreeClient ==
  /\ pc = "free_client"
  /\ IF session # "none" THEN SessionFree ELSE UNCHANGED discoveryVars
  /\ pc' = "free_loop"
  /\ UNCHANGED <<reactorVars, browseVars, ssl, browser, connection,
                 nextClient,  signals, uafQuit>>

\* Fault variant of FreeLoop: only a loop that has run is freed.
FreeLoopAfterRun ==
  /\ pc = "free_loop"
  /\ IF loop = "returned" THEN LoopFree ELSE UNCHANGED reactorVars
  /\ pc' = "exit"
  /\ UNCHANGED <<discoveryVars, browseVars, ssl, browser, connection,
                 nextClient,  signals, uafQuit>>

\* s_loop_free, then x_free(cerebellum)
FreeLoop ==
  /\ pc = "free_loop"
  /\ IF loop # "none" THEN LoopFree ELSE UNCHANGED reactorVars
  /\ pc' = "exit"
  /\ UNCHANGED <<discoveryVars, browseVars, ssl, browser, connection,
                 nextClient,  signals, uafQuit>>

\* dbus_shutdown and return 0: the process ends
Exit ==
  /\ pc = "exit"
  /\ pc' = "done"
  /\ UNCHANGED <<reactorVars, discoveryVars, browseVars, ssl, browser,
                 connection, nextClient,  signals, uafQuit>>

(***************************************************************************)
(* SIGINT.  Until main installs _cerebellum_main_handler, which it does    *)
(* only once s_cerebellum_new succeeded (a session exists), the default    *)
(* action ends the process.  The handler calls                             *)
(* s_cerebellum_quit(_g_cerebellum); the global is never cleared, so after *)
(* s_cerebellum_free it reaches a freed cerebellum and a freed loop.       *)
(***************************************************************************)
\* main installs the handler right after s_cerebellum_new succeeded
HandlerInstalled == session # "none"

Signal ==
  /\ ~Ended
  /\ signals < MaxSignals
  /\ signals' = signals + 1
  /\ CASE ~HandlerInstalled -> pc' = "killed" /\ UNCHANGED <<reactorVars, uafQuit>>
       [] pc = "exit"         -> uafQuit' = TRUE /\ UNCHANGED <<reactorVars, pc>>
       [] OTHER               -> CerebellumQuit /\ UNCHANGED <<uafQuit, pc>>
  /\ UNCHANGED <<discoveryVars, browseVars, ssl, browser, connection,
                 nextClient>>

-----------------------------------------------------------------------------
(* Callbacks dispatched by the loop                                        *)

(***************************************************************************)
(* Fault variant of ClientRunning: the previous browser is released with   *)
(* s_browser_free before the new one is stored.                            *)
(***************************************************************************)
ClientRunningFreesOld ==
  /\ Dispatching
  /\ SessionRunning
  /\ LET b    == runCount + 1
          live == IF browser # NULL THEN browsers \ {browser} ELSE browsers
      IN  \/ browsers' = live \cup {b} /\ browser' = b /\ UNCHANGED pc
          \/ pc' = "aborted" /\ UNCHANGED <<browsers, browser>>
  /\ UNCHANGED <<resolvers, browseEvents>>
  /\ UNCHANGED <<reactorVars, ssl, connection, nextClient, signals, uafQuit>>

(***************************************************************************)
(* _s_cerebellum_client_running: s_service_generate and s_browser_new;     *)
(* cerebellum->browser is overwritten, whatever it held before.  When      *)
(* avahi_service_browser_new fails, the error path of s_browser_new calls  *)
(* s_browser_free, whose avahi_service_browser_free(NULL) fails avahi's    *)
(* assert(b) (or, built without assertions, dereferences NULL): the        *)
(* process aborts.                                                         *)
(***************************************************************************)
ClientRunning ==
  /\ Dispatching
  /\ SessionRunning
  /\ LET b == runCount + 1 IN
       \/ BrowserNew(b) /\ browser' = b /\ UNCHANGED pc
       \/ pc' = "aborted" /\ UNCHANGED <<browseVars, browser>>
  /\ UNCHANGED <<reactorVars, ssl, connection, nextClient, signals, uafQuit>>

\* _s_cerebellum_client_collision only logs
ClientCollision ==
  /\ Dispatching
  /\ SessionCollision
  /\ UNCHANGED <<reactorVars, browseVars, ssl, ownVars>>

\* _s_cerebellum_client_failure: s_cerebellum_quit
ClientFailure ==
  /\ Dispatching
  /\ SessionFailure
  /\ CerebellumQuit
  /\ UNCHANGED <<browseVars, ssl, ownVars>>

\* _s_browser_cbk; the failure and remove callbacks of the daemon only log
BrowseEvent(b, i, ev, resolverOk) ==
  /\ Dispatching
  /\ OnBrowseEvent(b, i, ev, resolverOk)
  /\ UNCHANGED <<reactorVars, discoveryVars, ssl, ownVars>>

\* inet_pton(AF_INET, data->address, ...) only parses an IPv4 text form
AddressParses(i) == InstAddr[i] = "ipv4"

(***************************************************************************)
(* _s_cerebellum_find for instance i: unless the address fails to parse, a *)
(* new client is allocated into cerebellum->connection, overwriting the    *)
(* previous one, and connected to the address and port 8000; the connect   *)
(* fails with -EBADE when the TLS context or the bufferevent cannot be     *)
(* built (contextOk, bufferOk).  The address and port are data the model *)
(* abstracts away.                                                         *)
(* The record is freed on both paths.                                      *)
(***************************************************************************)
Find(i) ==
  IF AddressParses(i)
    THEN \E contextOk, bufferOk \in BOOLEAN :
           /\ ssl' = [ssl EXCEPT ![nextClient] =
                        AfterConnect(NewClient, contextOk, bufferOk)]
           /\ connection' = nextClient
           /\ nextClient' = nextClient + 1
    ELSE UNCHANGED <<ssl, connection, nextClient>>

\* _s_browser_resolver_cbk, calling _s_cerebellum_find or the failure log
ResolverCallback(r, ev) ==
  /\ Dispatching
  /\ OnResolverEvent(r, ev)
  /\ IF FindFires(r, ev) THEN Find(r.i)
     ELSE UNCHANGED <<ssl, connection, nextClient>>
  /\ UNCHANGED <<reactorVars, discoveryVars, pc, browser, signals, uafQuit>>

\* bytes reach an input buffer; _s_ssl_client_read hands them to _s_ssl_read
TlsReceive(c) ==
  /\ Dispatching
  /\ SslReceive(c)
  /\ UNCHANGED <<reactorVars, discoveryVars, browseVars, ownVars>>

TlsRead(c) ==
  /\ Dispatching
  /\ SslRead(c)
  /\ UNCHANGED <<reactorVars, discoveryVars, browseVars, ownVars>>

(***************************************************************************)
(* _s_ssl_client_event and the daemon's callbacks: _s_ssl_connection only  *)
(* logs, _s_ssl_error quits on a connection error and logs the others.    *)
(* Every client shares the daemon's callbacks and userdata.                *)
(***************************************************************************)
TlsEvent(c, what) ==
  /\ Dispatching
  /\ SslEvent(c, what)
  /\ IF EventCallback(what) = "error_connection" THEN CerebellumQuit
     ELSE UNCHANGED reactorVars
  /\ UNCHANGED <<discoveryVars, browseVars, ownVars>>

-----------------------------------------------------------------------------

\* _s_task_idle_cbk: the eventfd written by s_loop_quit is dispatched
IdleWakeup ==
  /\ IdleCallback
  /\ UNCHANGED <<discoveryVars, browseVars, ssl, ownVars>>

\* the steps the main thread and the loop take without outside input
Progress ==
  \/ \E fault \in ConstructionFaults \cup {"none"} : CerebellumNew(fault)
  \/ Run \/ IdleWakeup \/ RunReturns \/ FreeBrowser \/ FreeConnection \/ FreeClient
  \/ FreeLoop \/ Exit

\* s_cerebellum_client_get_funcs: the avahi client's three lifecycle callbacks
ClientCallbacks == ClientRunning \/ ClientCollision \/ ClientFailure

\* s_cerebellum_ssl_get_funcs: the TLS client's read and error callbacks
TlsCallbacks(c) ==
  \/ TlsRead(c)
  \/ \E what \in Reports(ssl[c]) : TlsEvent(c, what)

Environment ==
  \/ Signal
  \/ ClientCallbacks
  \/ \E b \in BrowserIds, i \in Instances, ev \in BrowseEventKinds,
        ok \in BOOLEAN : BrowseEvent(b, i, ev, ok)
  \/ \E r \in BagToSet(resolvers), ev \in {"FOUND", "FAILURE"} :
        ResolverCallback(r, ev)
  \/ \E c \in Clients :
        TlsReceive(c) \/ TlsCallbacks(c)

Next == ~Ended /\ (Progress \/ Environment)

(***************************************************************************)
(* Only the main thread and the loop's own dispatch are fair: the loop     *)
(* dispatches every ready event, and main runs to its end once the loop    *)
(* returns.  The network, the avahi daemon and the user owe nothing.       *)
(***************************************************************************)
Spec == Init /\ [][Next]_vars /\ WF_vars(~Ended /\ Progress)

-----------------------------------------------------------------------------
(* Properties                                                              *)

(***************************************************************************)
(* A pending avahi resolver's userdata is a live struct s_browser whenever *)
(* the loop can still dispatch its callback: _s_browser_resolver_cbk never *)
(* runs on a browser that s_browser_free has released.                     *)
(***************************************************************************)
ResolverOwnerLive ==
  pc \in {"run", "loop"} => \A r \in BagToSet(resolvers) : r.b \in browsers

(***************************************************************************)
(* Spec section 4.5: s_cerebellum_free releases children before parents:   *)
(* the browser it holds is gone before the avahi client is freed, and the  *)
(* client and the connection it holds are gone before the loop is freed.   *)
(***************************************************************************)
ChildrenFreedFirst ==
  /\ session = "freed" => (browser = NULL \/ browser \notin browsers)
  /\ loop = "freed" => /\ session \in {"none", "freed"}
                      /\ (connection = NULL \/ ~ssl[connection].alloc)

(***************************************************************************)
(* s_cerebellum_free, reached from main's teardown or from the error path  *)
(* of s_cerebellum_new after a partial construction: when main is about to *)
(* return, the loop, the avahi client, cerebellum->browser and             *)
(* cerebellum->connection have all been released, whichever of them was   *)
(* ever built.                                                             *)
(***************************************************************************)
ExitFreesAll ==
  pc = "exit" =>
    /\ loop \in {"none", "freed"}
    /\ session \in {"none", "freed"}
    /\ browser = NULL \/ browser \notin browsers
    /\ connection = NULL \/ ~ssl[connection].alloc

(***************************************************************************)
(* Once a stop is requested -- SIGINT or any s_cerebellum_quit, a session  *)
(* failure, or a connection-level TLS error -- the loop returns and main   *)
(* frees everything and exits, unless the process aborted first.         *)
(***************************************************************************)
StopRequested ==
  \/ wake
  \/ session = "failed"
  \/ \E c \in Clients : ssl[c].told = "error_connection"

AtMostOneClient == Cardinality({c \in Clients : ssl[c].alloc}) <= 1

(***************************************************************************)
(* Spec section 4.5: the orchestrator owns at most one Browser/Resolver.   *)
(***************************************************************************)
AtMostOneBrowser == Cardinality(browsers) <= 1

(***************************************************************************)
(* Spec sections 4.1 and 9: quit is safe from any context, the signal      *)
(* path included: the SIGINT handler never reaches a freed cerebellum.     *)
(***************************************************************************)
NoQuitAfterFree == ~uafQuit

(***************************************************************************)
(* Spec section 7: a component that cannot be built is reported as a NULL  *)
(* handle, and discovery failures are recoverable; only an allocation      *)
(* failure may end the process.  _s_cerebellum_client_running reaches      *)
(* s_browser_new, whose error path hands the NULL avahi browser to         *)
(* avahi_service_browser_free and its assert.                              *)
(***************************************************************************)
BrowseFailureRecoverable == pc # "aborted"
=============================================================================
