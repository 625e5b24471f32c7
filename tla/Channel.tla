------------------------------- MODULE Channel ------------------------------
(***************************************************************************)
(* What a Secure Channel Client promises its owner (spec section 4.4),     *)
(* per client: idle -> connecting -> connected -> closed, or a fatal       *)
(* failure from connecting or connected, each change announced to the      *)
(* owner by the callback that names it.  A connect on a channel that is    *)
(* not idle changes nothing; a client may be released in any state.        *)
(* FatalReports is the set of error kinds a fatal failure may be reported  *)
(* with: spec section 7 has only "connection" fatal, read and write faults *)
(* leaving the channel usable.                                             *)
(***************************************************************************)
CONSTANTS
  Clients,
  FatalReports  \* subset of {"connection", "read", "write"}

VARIABLES
  chan,   \* [Clients -> ChanStates]
  told    \* [Clients -> Told]: the last callback the owner received

ChanStates == {"absent", "idle", "connecting", "connected", "closed", "failed"}
Told == {"none", "connected", "closed", "timeout", "connection", "read", "write"}

chanVars == <<chan, told>>

ChanInit ==
  /\ chan = [c \in Clients |-> "absent"]
  /\ told = [c \in Clients |-> "none"]

Step(c, from, to) ==
  /\ chan[c] \in from
  /\ chan' = [chan EXCEPT ![c] = to]

Tell(c, what) == told' = [told EXCEPT ![c] = what]

Create(c)    == Step(c, {"absent"}, "idle") /\ Tell(c, "none")
Connect(c)   == Step(c, {"idle"}, "connecting") /\ UNCHANGED told
Connected(c) == Step(c, {"connecting"}, "connected") /\ Tell(c, "connected")
Close(c)     == Step(c, {"connecting", "connected"}, "closed")
                /\ Tell(c, "closed")
Fail(c)      == Step(c, {"connecting", "connected"}, "failed")
                /\ \E kind \in FatalReports : Tell(c, kind)
Release(c)   == Step(c, ChanStates \ {"absent"}, "absent") /\ Tell(c, "none")

ChanNext ==
  \E c \in Clients :
    Create(c) \/ Connect(c) \/ Connected(c) \/ Close(c) \/ Fail(c)
    \/ Release(c)

ChanSpec == ChanInit /\ [][ChanNext]_chanVars
=============================================================================
