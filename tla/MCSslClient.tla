---------------------------- MODULE MCSslClient -----------------------------
(***************************************************************************)
(* The TLS client on its own, driven by an owner that may call every       *)
(* operation in any order, and shown to implement the Channel promise.     *)
(***************************************************************************)
EXTENDS SslClient

CONSTANTS c1, c2

MCClients == {c1, c2}

\* the promised state of a client record
ChanState(rec) ==
  IF ~rec.alloc THEN "absent"
  ELSE CASE rec.transport = "none"       -> "idle"
         [] rec.transport = "connecting" -> "connecting"
         [] rec.transport = "connected"  -> "connected"
         [] rec.transport = "eof"        -> "closed"
         [] rec.transport = "fault"      -> "failed"

\* the owner's callback as the channel names it
ToldAs(cb) ==
  CASE cb = "close"            -> "closed"
    [] cb = "error_connection" -> "connection"
    [] cb = "error_read"       -> "read"
    [] cb = "error_write"      -> "write"
    [] OTHER                   -> cb

CONSTANT FatalKinds

Abstract == INSTANCE Channel
              WITH chan <- [c \in Clients |-> ChanState(ssl[c])],
                   told <- [c \in Clients |-> ToldAs(ssl[c].told)],
                   FatalReports <- FatalKinds

(***************************************************************************)
(* Spec section 4.4: the client implements the channel state machine and  *)
(* _s_ssl_client_event tells the owner of every change libevent reports  *)
(* by the callback that names it: CONNECTED as connected, EOF as closed,   *)
(* a fault as an error of a kind in FatalKinds.  s_ssl_client_connect on   *)
(* an established channel is a no-op.                                      *)
(***************************************************************************)
ChannelRefinement == Abstract!ChanSpec

(***************************************************************************)
(* Every SSL_CTX a client builds is the one client->ssl.context holds, and *)
(* s_ssl_client_free releases it: a connect retried after a failed        *)
(* bufferevent_openssl_socket_new leaks none.                              *)
(***************************************************************************)
ContextOwned ==
  \A c \in Clients : ssl[c].contexts = IF ssl[c].context THEN 1 ELSE 0
=============================================================================
