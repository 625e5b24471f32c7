-------------------------------- MODULE Loop --------------------------------
(***************************************************************************)
(* The reactor: struct s_loop (core/loop/loop.c) wraps a libevent          *)
(* event_base and an idle task (core/loop/loop-idle.c) made of an eventfd  *)
(* and a one-shot EV_READ event on it.  s_loop_quit writes the value       *)
(* 0xfffffffffffffffe to the eventfd, the maximum an eventfd counter may   *)
(* hold; nothing ever reads the eventfd, so the first write saturates the  *)
(* counter and every later write fails with EAGAIN.  When the loop         *)
(* dispatches the readable eventfd, _s_task_idle_cbk calls                 *)
(* event_base_loopexit, after which event_base_loop may still run the      *)
(* callbacks that are already active before it returns.                    *)
(***************************************************************************)
EXTENDS Naturals

VARIABLES
  loop,       \* "none" (no struct s_loop), "created", "running",
              \* "exiting" (loopexit requested),
              \* "returned" (event_base_loop returned) or "freed"
  wake,       \* the eventfd counter is non-zero (saturated by one write)
  idleArmed   \* the one-shot idle event is still pending in the base

loopVars == <<loop, wake, idleArmed>>

LoopStates == {"none", "created", "running", "exiting", "returned", "freed"}

LoopTypeOK ==
  /\ loop \in LoopStates
  /\ wake \in BOOLEAN
  /\ idleArmed \in BOOLEAN

\* before s_loop_new: no loop, no eventfd, no idle event
LoopInit ==
  /\ loop = "none"
  /\ wake = FALSE
  /\ idleArmed = FALSE

(***************************************************************************)
(* The steps of s_loop_new that can fail, each leading to its error path:  *)
(* event_base_new, eventfd, event_new and event_add of s_task_idle_new.    *)
(***************************************************************************)
LoopFaults == {"base", "eventfd", "event_new", "event_add"}

\* s_task_idle_new: eventfd(0), event_new(EV_READ, one-shot) and event_add
IdleTaskNew == wake' = FALSE /\ idleArmed' = TRUE

(***************************************************************************)
(* The error path of s_task_idle_new calls s_task_idle_free, whose         *)
(* event_del(task->event) dereferences the NULL that a failed event_new    *)
(* left.  A failed eventfd or event_add, or a NULL base (event_new then    *)
(* builds an event with no base, which event_add, event_del and event_free *)
(* reject with a warning), leaves a task that is freed cleanly.            *)
(***************************************************************************)
IdleTaskFreeCrashes(fault) == fault = "event_new"

(***************************************************************************)
(* s_loop_new for the failing step `fault` ("none" when all succeed).  On  *)
(* failure, s_loop_free quits (s_task_idle_wakeup(NULL) returns -EINVAL),  *)
(* frees the NULL task and the base, and s_loop_new returns NULL: no loop. *)
(* The crashing case is the caller's to end.                               *)
(***************************************************************************)
LoopNew(fault) ==
  /\ loop = "none"
  /\ IF fault = "none"
       THEN loop' = "created" /\ IdleTaskNew
       ELSE UNCHANGED loopVars

\* The base dispatches callbacks while event_base_loop has not returned.
Dispatching == loop \in {"running", "exiting"}

\* s_loop_run: event_base_loop(base, 0)
LoopRun ==
  /\ loop = "created"
  /\ loop' = "running"
  /\ UNCHANGED <<wake, idleArmed>>

(***************************************************************************)
(* s_loop_quit -> s_task_idle_wakeup: write(2) of 0xfffffffffffffffe.  On  *)
(* a zero counter the write succeeds and makes the eventfd readable; on a  *)
(* saturated counter it fails with EAGAIN and changes nothing.             *)
(***************************************************************************)
IdleTaskWakeup ==
  /\ wake' = TRUE
  /\ UNCHANGED <<loop, idleArmed>>

\* s_loop_quit(loop): s_task_idle_wakeup(loop->idle)
LoopQuit ==
  /\ loop \notin {"none", "freed"}
  /\ IdleTaskWakeup

IdleCallback ==
  /\ Dispatching
  /\ wake
  /\ idleArmed
  /\ idleArmed' = FALSE
  /\ loop' = "exiting"
  /\ UNCHANGED wake

\* event_base_loop sees the loopexit request and returns to s_loop_run
LoopExit ==
  /\ loop = "exiting"
  /\ loop' = "returned"
  /\ UNCHANGED <<wake, idleArmed>>

\* s_task_idle_free: close the eventfd, event_del and event_free the event
IdleTaskFree == idleArmed' = FALSE

(***************************************************************************)
(* s_loop_free: s_loop_quit, then s_task_idle_free (close the eventfd,     *)
(* event_del, event_free), event_base_free and x_free.                     *)
(***************************************************************************)
LoopFree ==
  /\ loop \in {"created", "returned"}
  /\ loop' = "freed"
  /\ wake' = TRUE
  /\ IdleTaskFree

LoopNext ==
  \/ \E fault \in LoopFaults \cup {"none"} : LoopNew(fault)
  \/ LoopRun
  \/ LoopQuit
  \/ IdleCallback
  \/ LoopExit
  \/ LoopFree

LoopSpec == LoopInit /\ [][LoopNext]_loopVars
=============================================================================
