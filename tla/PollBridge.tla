----------------------------- MODULE PollBridge -----------------------------
(***************************************************************************)
(* The avahi poll API over libevent: core/loop/avahi/avahi-watch.c and     *)
(* avahi-timer.c.  A struct s_avahi_watch or s_avahi_timer owns one        *)
(* struct event; libevent's events are modelled as slots, each unused,     *)
(* initialised (event_new, not added), pending (added) or active (queued   *)
(* for dispatch on the loop).  The avahi client calls new/update/free      *)
(* from the loop's dispatch context; file readiness and the passing of     *)
(* time are the environment.  A call of event_del, event_free or           *)
(* event_pending on a NULL event dereferences it: the process crashes.     *)
(***************************************************************************)
EXTENDS Naturals, FiniteSets

CONSTANTS
  Watches,    \* struct s_avahi_watch allocations
  Timers,     \* struct s_avahi_timer allocations
  EventIds,   \* libevent struct event slots
  NULL

VARIABLES
  watch,      \* [Watches -> [st, event]]: the wrapper and its watch->event
  timer,      \* [Timers -> [st, event]]
  event,      \* [EventIds -> [st, owner, mask]]: libevent's view
  crashed,    \* a NULL event was passed to libevent
  uaf,        \* history: a callback ran for a freed wrapper
  immediate   \* history: [Timers -> BOOLEAN] armed to fire at once

pollVars == <<watch, timer, event, crashed, uaf, immediate>>

Owners == Watches \cup Timers
WrapperStates == {"none", "live", "freed"}
EventStates == {"unused", "init", "pending", "active"}
\* the struct timeval * an avahi caller passes, relative to now
Deadlines == {"null", "zero", "past", "future"}

\* struct s_avahi_watch / s_avahi_timer: whether it is allocated, and its event
Wrapper == [st : WrapperStates, event : EventIds \cup {NULL}]
Slot == [st : EventStates, owner : Owners \cup {NULL},
         mask : SUBSET {"READ", "WRITE"}]

UnusedSlot == [st |-> "unused", owner |-> NULL, mask |-> {}]

PollTypeOK ==
  /\ watch \in [Watches -> Wrapper]
  /\ timer \in [Timers -> Wrapper]
  /\ event \in [EventIds -> Slot]
  /\ crashed \in BOOLEAN /\ uaf \in BOOLEAN
  /\ immediate \in [Timers -> BOOLEAN]

PollInit ==
  /\ watch = [w \in Watches |-> [st |-> "none", event |-> NULL]]
  /\ timer = [t \in Timers |-> [st |-> "none", event |-> NULL]]
  /\ event = [e \in EventIds |-> UnusedSlot]
  /\ crashed = FALSE /\ uaf = FALSE
  /\ immediate = [t \in Timers |-> FALSE]

FreeSlots == {e \in EventIds : event[e].st = "unused"}

\* Fault variant of EvEvents: the AvahiWatchEvent bits passed through as is.
EvEventsRaw(events) == events

\* EV_READ / EV_WRITE for the AvahiWatchEvent bits AVAHI_WATCH_IN / _OUT
EvEvents(events) ==
  {"READ" : x \in events \cap {"IN"}} \cup {"WRITE" : x \in events \cap {"OUT"}}

\* a libevent call on watch->event or timer->event: NULL crashes
UsesEvent(ev) == crashed' = (ev = NULL)

-----------------------------------------------------------------------------
(* avahi-watch.c                                                           *)

(***************************************************************************)
(* s_avahi_watch_new: event_new with EV_PERSIST and the translated mask,   *)
(* then event_add.  When either fails, s_avahi_watch_free releases the     *)
(* event -- event_del(NULL) when event_new returned NULL -- and NULL is    *)
(* returned.                                                               *)
(***************************************************************************)
WatchNew(w, events, newOk, addOk) ==
  /\ watch[w].st = "none"
  /\ IF newOk
       THEN \E e \in FreeSlots :
              /\ event' = [event EXCEPT ![e] =
                   IF addOk THEN [st |-> "pending", owner |-> w,
                                  mask |-> EvEvents(events)]
                   ELSE UnusedSlot]
              /\ watch' = [watch EXCEPT ![w] =
                   IF addOk THEN [st |-> "live", event |-> e]
                   ELSE [st |-> "freed", event |-> NULL]]
              /\ UNCHANGED crashed
       ELSE /\ watch' = [watch EXCEPT ![w] = [st |-> "freed", event |-> NULL]]
            /\ UsesEvent(NULL)
            /\ UNCHANGED event
  /\ UNCHANGED <<timer, uaf, immediate>>

\* Fault variant of WatchUpdate: the old event is neither deleted nor freed.
WatchUpdateKeepsOld(w, events, newOk, addOk) ==
  /\ watch[w].st = "live"
  /\ \E e \in FreeSlots :
       /\ event' = [event EXCEPT ![e] =
            [st |-> IF addOk THEN "pending" ELSE "init", owner |-> w,
             mask |-> EvEvents(events)]]
       /\ watch' = [watch EXCEPT ![w].event = e]
  /\ UNCHANGED <<timer, crashed, uaf, immediate>>

(***************************************************************************)
(* s_avahi_watch_update: event_del and event_free of the old event, then   *)
(* event_new and event_add with the new mask.  A failure is only logged:   *)
(* watch->event stays NULL when event_new fails, and an event whose        *)
(* event_add failed stays initialised and never fires.                     *)
(***************************************************************************)
WatchUpdate(w, events, newOk, addOk) ==
  /\ watch[w].st = "live"
  /\ UsesEvent(watch[w].event)
  /\ IF watch[w].event = NULL
       THEN UNCHANGED <<watch, event>>
       ELSE LET freed == [event EXCEPT ![watch[w].event] = UnusedSlot]
                free  == {e \in EventIds : freed[e].st = "unused"}
            IN  IF newOk
                  THEN \E e \in free :
                         /\ event' = [freed EXCEPT ![e] =
                              [st |-> IF addOk THEN "pending" ELSE "init",
                               owner |-> w, mask |-> EvEvents(events)]]
                         /\ watch' = [watch EXCEPT ![w].event = e]
                  ELSE /\ event' = freed
                       /\ watch' = [watch EXCEPT ![w].event = NULL]
  /\ UNCHANGED <<timer, uaf, immediate>>

\* s_avahi_watch_get_events: event_pending on watch->event
WatchGetEvents(w) ==
  /\ watch[w].st = "live"
  /\ UsesEvent(watch[w].event)
  /\ UNCHANGED <<watch, timer, event, uaf, immediate>>

\* Fault variant of WatchFree: only x_free(watch).
WatchFreeLeaksEvent(w) ==
  /\ watch[w].st = "live"
  /\ watch' = [watch EXCEPT ![w].st = "freed"]
  /\ UNCHANGED <<timer, event, crashed, uaf, immediate>>

\* s_avahi_watch_free: event_del, event_free, x_free
WatchFree(w) ==
  /\ watch[w].st = "live"
  /\ UsesEvent(watch[w].event)
  /\ event' = IF watch[w].event = NULL THEN event
              ELSE [event EXCEPT ![watch[w].event] = UnusedSlot]
  /\ watch' = [watch EXCEPT ![w] = [st |-> "freed", event |-> NULL]]
  /\ UNCHANGED <<timer, uaf, immediate>>

-----------------------------------------------------------------------------
(* avahi-timer.c                                                           *)

\* evtimer_add with tv - now: a NULL or zero tv in s_avahi_timer_new is
\* cleared to no delay, a past deadline gives a negative delay; both are due
\* at the loop's next timeout pass, which the slot being active stands for.
Armed(tv) == IF tv = "future" THEN "pending" ELSE "active"

(***************************************************************************)
(* s_avahi_timer_new: event_new(EV_TIMEOUT); e_tv cleared when tv is NULL  *)
(* or zero, tv - now otherwise; evtimer_add.  When event_new fails, the    *)
(* error path s_avahi_timer_free calls event_del(NULL).                    *)
(***************************************************************************)
TimerNew(t, tv, newOk) ==
  /\ timer[t].st = "none"
  /\ IF newOk
       THEN \E e \in FreeSlots :
              /\ event' = [event EXCEPT ![e] =
                   [st |-> Armed(tv), owner |-> t, mask |-> {}]]
              /\ timer' = [timer EXCEPT ![t] = [st |-> "live", event |-> e]]
              /\ immediate' = [immediate EXCEPT ![t] = tv # "future"]
              /\ UNCHANGED crashed
       ELSE /\ timer' = [timer EXCEPT ![t] = [st |-> "freed", event |-> NULL]]
            /\ UsesEvent(NULL)
            /\ UNCHANGED <<event, immediate>>
  /\ UNCHANGED <<watch, uaf>>

\* Fault variant of TimerUpdate: returns after event_del whatever tv is.
TimerUpdateNoRearm(t, tv) ==
  /\ timer[t].st = "live"
  /\ event' = [event EXCEPT ![timer[t].event].st = "init"]
  /\ immediate' = [immediate EXCEPT ![t] = tv \in {"zero", "past"}]
  /\ UNCHANGED <<watch, timer, crashed, uaf>>

(***************************************************************************)
(* s_avahi_timer_update: event_del; a NULL tv leaves the timer disarmed;   *)
(* otherwise event_add with tv - now, which for a zero tv is a large       *)
(* negative delay, due at once.                                            *)
(***************************************************************************)
TimerUpdate(t, tv) ==
  /\ timer[t].st = "live"
  /\ event' = [event EXCEPT ![timer[t].event].st =
                 IF tv = "null" THEN "init" ELSE Armed(tv)]
  /\ immediate' = [immediate EXCEPT ![t] = tv \in {"zero", "past"}]
  /\ UNCHANGED <<watch, timer, crashed, uaf>>

\* s_avahi_timer_free: event_del, event_free, x_free
TimerFree(t) ==
  /\ timer[t].st = "live"
  /\ event' = [event EXCEPT ![timer[t].event] = UnusedSlot]
  /\ timer' = [timer EXCEPT ![t] = [st |-> "freed", event |-> NULL]]
  /\ immediate' = [immediate EXCEPT ![t] = FALSE]
  /\ UNCHANGED <<watch, crashed, uaf>>

-----------------------------------------------------------------------------
(* libevent and the environment                                            *)

\* the descriptor of a persistent watch event becomes ready
Ready(e) ==
  /\ event[e].st = "pending"
  /\ event[e].owner \in Watches
  /\ event[e].mask # {}
  /\ event' = [event EXCEPT ![e].st = "active"]
  /\ UNCHANGED <<watch, timer, crashed, uaf, immediate>>

\* the deadline of a pending timer event passes
Elapse(e) ==
  /\ event[e].st = "pending"
  /\ event[e].owner \in Timers
  /\ event' = [event EXCEPT ![e].st = "active"]
  /\ UNCHANGED <<watch, timer, crashed, uaf, immediate>>

\* _s_avahi_watch_cbk: the EV_PERSIST event stays pending after its callback
WatchDispatch(e) ==
  LET w == event[e].owner IN
  /\ event[e].st = "active"
  /\ w \in Watches
  /\ event' = [event EXCEPT ![e].st = "pending"]
  /\ uaf' = (uaf \/ watch[w].st # "live")
  /\ UNCHANGED <<watch, timer, crashed, immediate>>

\* _s_avahi_timeout_cbk: the EV_TIMEOUT event is no longer pending
TimeoutDispatch(e) ==
  LET t == event[e].owner IN
  /\ event[e].st = "active"
  /\ t \in Timers
  /\ event' = [event EXCEPT ![e].st = "init"]
  /\ uaf' = (uaf \/ timer[t].st # "live")
  /\ immediate' = [immediate EXCEPT ![t] = FALSE]
  /\ UNCHANGED <<watch, timer, crashed>>

(***************************************************************************)
(* The loop runs the callback of an active event with the struct it was    *)
(* created for, whether or not that struct is still allocated.             *)
(***************************************************************************)
Dispatch(e) == WatchDispatch(e) \/ TimeoutDispatch(e)

EventMasks == SUBSET {"IN", "OUT"}

PollNext ==
  /\ ~crashed
  /\ \/ \E w \in Watches, m \in EventMasks, newOk, addOk \in BOOLEAN :
           WatchNew(w, m, newOk, addOk) \/ WatchUpdate(w, m, newOk, addOk)
     \/ \E w \in Watches : WatchGetEvents(w) \/ WatchFree(w)
     \/ \E t \in Timers, tv \in Deadlines :
           \/ \E newOk \in BOOLEAN : TimerNew(t, tv, newOk)
           \/ TimerUpdate(t, tv)
     \/ \E t \in Timers : TimerFree(t)
     \/ \E e \in EventIds : Ready(e) \/ Elapse(e) \/ Dispatch(e)

(***************************************************************************)
(* Only dispatch is fair, and per event: each loop iteration runs every    *)
(* event of libevent's active queue in order, and callbacks do not block.  *)
(* The avahi client, the descriptors and the clock owe nothing.            *)
(***************************************************************************)
PollSpec ==
  /\ PollInit /\ [][PollNext]_pollVars
  /\ \A e \in EventIds : WF_pollVars(~crashed /\ Dispatch(e))

-----------------------------------------------------------------------------
(* Properties                                                              *)

(***************************************************************************)
(* Spec section 8: a watch or timer, once freed, never has its callback    *)
(* run again, even when its event was already queued: s_avahi_watch_free   *)
(* and s_avahi_timer_free retire the event before freeing the struct.      *)
(***************************************************************************)
NoDispatchAfterFree == ~uaf

(***************************************************************************)
(* Spec section 3: s_avahi_watch_update retires the old registration       *)
(* before it installs the new one, so a watch never has two libevent       *)
(* events that could dispatch it twice for one readiness.                  *)
(***************************************************************************)
OneEventPerWatch ==
  \A w \in Watches :
    Cardinality({e \in EventIds : event[e].st # "unused" /\ event[e].owner = w})
      <= 1

(***************************************************************************)
(* A timer that s_avahi_timer_new or s_avahi_timer_update arms with a NULL,*)
(* zero or past deadline has its callback run, unless avahi re-arms or     *)
(* frees it first or the process has crashed.                              *)
(***************************************************************************)
ImmediateTimerFires ==
  \A t \in Timers : immediate[t] ~> (~immediate[t] \/ crashed)

(***************************************************************************)
(* Spec section 3.2: a watch registration is persistent, it keeps firing   *)
(* until it is cancelled.  So a live watch always has its libevent event   *)
(* added (pending or active) -- also after s_avahi_watch_update replaced   *)
(* it, where a failed event_new or event_add is only logged.               *)
(***************************************************************************)
WatchPersists ==
  \A w \in Watches :
    watch[w].st = "live" =>
      /\ watch[w].event # NULL
      /\ event[watch[w].event].st \in {"pending", "active"}
=============================================================================
