-------------------------- MODULE DiscoverySession --------------------------
(***************************************************************************)
(* The discovery session struct s_client (avahi-client.c, not part of the  *)
(* sources): it connects to the avahi daemon through the poll bridge and   *)
(* reports its lifecycle through the running, collision and failure        *)
(* callbacks of struct s_client_funcs.  The avahi client reports "running" *)
(* again every time it re-registers (after a host-name collision or a      *)
(* daemon restart), so the running callback can fire more than once.      *)
(***************************************************************************)
EXTENDS Naturals

CONSTANT MaxRunning   \* bound on the number of running callbacks

VARIABLES
  session,    \* "none", "new", "started", "running", "collision", "failed", "freed"
  runCount    \* running callbacks delivered so far

sessionVars == <<session, runCount>>

SessionTypeOK ==
  /\ session \in {"none", "new", "started", "running", "collision", "failed", "freed"}
  /\ runCount \in 0..MaxRunning

\* before s_client_new
SessionInit ==
  /\ session = "none"
  /\ runCount = 0

(***************************************************************************)
(* s_client_new over the loop's avahi poll: it fails (NULL) when that poll *)
(* is NULL, the loop having failed, or when the avahi allocation fails.    *)
(***************************************************************************)
SessionNew(ok) ==
  /\ session = "none"
  /\ session' = IF ok THEN "new" ELSE "none"
  /\ UNCHANGED runCount

\* s_client_run returning 0: the avahi client is created and connecting
SessionStart ==
  /\ session = "new"
  /\ session' = "started"
  /\ UNCHANGED runCount

\* the running callback (AVAHI_CLIENT_S_RUNNING)
SessionRunning ==
  /\ session \in {"started", "running", "collision"}
  /\ runCount < MaxRunning
  /\ session' = "running"
  /\ runCount' = runCount + 1

\* the collision callback (AVAHI_CLIENT_S_COLLISION)
SessionCollision ==
  /\ session \in {"started", "running"}
  /\ session' = "collision"
  /\ UNCHANGED runCount

\* the failure callback (AVAHI_CLIENT_FAILURE)
SessionFailure ==
  /\ session \in {"started", "running", "collision"}
  /\ session' = "failed"
  /\ UNCHANGED runCount

\* s_client_free
SessionFree ==
  /\ session \notin {"none", "freed"}
  /\ session' = "freed"
  /\ UNCHANGED runCount

SessionNext ==
  \/ \E ok \in BOOLEAN : SessionNew(ok)
  \/ SessionStart \/ SessionRunning \/ SessionCollision
  \/ SessionFailure \/ SessionFree

SessionSpec == SessionInit /\ [][SessionNext]_sessionVars
=============================================================================
