------------------------------ MODULE SslClient -----------------------------
(***************************************************************************)
(* The TLS client of core/ssl/ssl-client.c.  A struct s_ssl_client holds   *)
(* an SSL_CTX and an openssl bufferevent created by s_ssl_client_connect.  *)
(* The transport below the bufferevent is the environment: it completes    *)
(* or refuses the connection, delivers bytes into the input buffer and     *)
(* reports end-of-stream or errors, each as the flag set `what` that       *)
(* libevent passes to _s_ssl_client_event.  The bytes are counted: inbuf   *)
(* is the length of the bufferevent's input evbuffer.                      *)
(***************************************************************************)
EXTENDS Naturals

CONSTANTS
  Clients,     \* identities of struct s_ssl_client allocations
  MaxBytes,    \* bound on the bytes waiting in an input or output buffer
  MaxContexts  \* bound on the SSL_CTX objects one client builds

VARIABLE ssl  \* [Clients -> client record]

\* libevent's view of the bufferevent: after EOF or an error it stops reading
\* and writing for good
Transports == {"none", "connecting", "connected", "eof", "fault"}

\* the callback _s_ssl_client_event last made to the owner
Callbacks == {"none", "connected", "close", "timeout", "error_read",
              "error_write", "error_connection"}

(***************************************************************************)
(* alloc/freed: the struct is live / was freed; context, buffer: the       *)
(* client->ssl.context and client->ssl.buffer pointers are set; told: the  *)
(* last callback the owner received from _s_ssl_client_event;              *)
(* inbuf, outbuf: bytes in the input and output evbuffers; named:          *)
(* s_ssl_client_set_name replaced "unknown"; contexts: SSL_CTX objects     *)
(* this client built and did not free; writeNull: s_ssl_client_write       *)
(* passed a NULL bufferevent to bufferevent_write.                         *)
(***************************************************************************)
ClientRec ==
  [alloc : BOOLEAN, freed : BOOLEAN, context : BOOLEAN, buffer : BOOLEAN,
   transport : Transports, told : Callbacks, inbuf : 0..MaxBytes,
   outbuf : 0..MaxBytes, named : BOOLEAN, contexts : 0..MaxContexts,
   writeNull : BOOLEAN]

Unallocated ==
  [alloc |-> FALSE, freed |-> FALSE, context |-> FALSE, buffer |-> FALSE,
   transport |-> "none", told |-> "none", inbuf |-> 0, outbuf |-> 0,
   named |-> FALSE, contexts |-> 0, writeNull |-> FALSE]

SslTypeOK == ssl \in [Clients -> ClientRec]

SslInit == ssl = [c \in Clients |-> Unallocated]

\* s_ssl_client_new: x_malloc (zeroed), funcs, loop, name "unknown", userdata
NewClient == [Unallocated EXCEPT !.alloc = TRUE]

(***************************************************************************)
(* s_ssl_client_connect on record rec: a no-op returning 0 when the        *)
(* bufferevent exists.  Otherwise client->ssl.context is overwritten by    *)
(* s_ssl_context_client_new (NULL, -EBADE, when contextOk is FALSE), then  *)
(* SSL_new and bufferevent_openssl_socket_new in BUFFEREVENT_SSL_CONNECTING*)
(* (NULL, -EBADE, when bufferOk is FALSE, the new context kept), then      *)
(* bufferevent_setcb and bufferevent_socket_connect.                       *)
(***************************************************************************)
\* Fault variant of AfterConnect: the existing bufferevent is not checked.
AfterConnectNoGuard(rec, contextOk, bufferOk) ==
  CASE ~contextOk -> [rec EXCEPT !.context = FALSE]
    [] ~bufferOk  -> [rec EXCEPT !.context = TRUE, !.contexts = @ + 1]
    [] OTHER      -> [rec EXCEPT !.context = TRUE, !.buffer = TRUE,
                                 !.transport = "connecting",
                                 !.contexts = @ + 1]

AfterConnect(rec, contextOk, bufferOk) ==
  CASE rec.buffer -> rec
    [] ~contextOk -> [rec EXCEPT !.context = FALSE]
    [] ~bufferOk  -> [rec EXCEPT !.context = TRUE, !.contexts = @ + 1]
    [] OTHER      -> [rec EXCEPT !.context = TRUE, !.buffer = TRUE,
                                 !.transport = "connecting",
                                 !.contexts = @ + 1]

(***************************************************************************)
(* _s_ssl_client_event: the callback that a flag set `what` produces, in   *)
(* the order the code tests the flags.                                     *)
(***************************************************************************)
\* Fault variant of EventCallback: the direction flags tested before EOF.
EventCallbackReadingFirst(what) ==
  IF "READING" \in what THEN "error_read"
  ELSE IF "EOF" \in what THEN "close"
  ELSE IF "TIMEOUT" \in what THEN "timeout"
  ELSE IF "CONNECTED" \in what THEN "connected"
  ELSE IF "WRITING" \in what THEN "error_write"
  ELSE "error_connection"

EventCallback(what) ==
  IF "EOF" \in what THEN "close"
  ELSE IF "TIMEOUT" \in what THEN "timeout"
  ELSE IF "CONNECTED" \in what THEN "connected"
  ELSE IF "READING" \in what THEN "error_read"
  ELSE IF "WRITING" \in what THEN "error_write"
  ELSE "error_connection"

(***************************************************************************)
(* The flag sets libevent can report for a client record, and the          *)
(* transport state that follows.  No timeout is ever set on the            *)
(* bufferevent, so BEV_EVENT_TIMEOUT is never reported.  A failed TLS     *)
(* handshake is reported as ERROR|READING while connecting.  After EOF or  *)
(* any error libevent disables the bufferevent and reports nothing more.   *)
(***************************************************************************)
Reports(rec) ==
  CASE rec.transport = "connecting" ->
         {{"CONNECTED"}, {"ERROR"}, {"ERROR", "READING"}, {"EOF", "READING"}}
    [] rec.transport = "connected" ->
         {{"EOF", "READING"}, {"ERROR", "READING"}, {"ERROR", "WRITING"}}
    [] OTHER -> {}

\* the transport state libevent is in once it has reported `what`
TransportAfter(what) ==
  CASE "CONNECTED" \in what -> "connected"
    [] "EOF" \in what       -> "eof"
    [] OTHER               -> "fault"

\* the bufferevent moves bytes from and to the socket
Flowing(rec) == rec.buffer /\ rec.transport = "connected"

SslNew(c) ==
  /\ ssl[c] = Unallocated
  /\ ssl' = [ssl EXCEPT ![c] = NewClient]

SslConnect(c, contextOk, bufferOk) ==
  /\ ssl[c].alloc
  /\ ssl[c].contexts < MaxContexts
  /\ ssl' = [ssl EXCEPT ![c] = AfterConnect(@, contextOk, bufferOk)]

\* bytes arrive in the input evbuffer
SslReceive(c) ==
  /\ Flowing(ssl[c])
  /\ ssl[c].inbuf < MaxBytes
  /\ ssl' = [ssl EXCEPT ![c].inbuf = @ + 1]

\* bytes leave the output evbuffer
SslSend(c) ==
  /\ Flowing(ssl[c])
  /\ ssl[c].outbuf > 0
  /\ ssl' = [ssl EXCEPT ![c].outbuf = @ - 1]

(***************************************************************************)
(* _s_ssl_client_read, deferred (BEV_OPT_DEFER_CALLBACKS): when the owner  *)
(* has a read callback, _s_ssl_packet_generate moves the whole input       *)
(* buffer into one packet.                                                 *)
(***************************************************************************)
SslRead(c) ==
  /\ ssl[c].buffer
  /\ ssl[c].inbuf > 0
  /\ ssl' = [ssl EXCEPT ![c].inbuf = 0]

(***************************************************************************)
(* _s_ssl_client_event for the flag set `what` on client c: the owner     *)
(* gets the callback EventCallback(what); read and write errors drain the  *)
(* input buffer into the error's packet.  The deferred read callback,      *)
(* scheduled when the bytes arrived, runs before the deferred event        *)
(* callback, so the input buffer is empty by then.                         *)
(***************************************************************************)
SslEvent(c, what) ==
  /\ ssl[c].buffer
  /\ ssl[c].inbuf = 0
  /\ what \in Reports(ssl[c])
  /\ ssl' = [ssl EXCEPT ![c].transport = TransportAfter(what),
                        ![c].told = EventCallback(what)]

\* s_ssl_client_set_name: x_free(client->name), strdup(name)
SslSetName(c) ==
  /\ ssl[c].alloc
  /\ ssl' = [ssl EXCEPT ![c].named = TRUE]

(***************************************************************************)
(* s_ssl_client_write: bufferevent_write(client->ssl.buffer, ...), which   *)
(* enqueues the bytes; a NULL bufferevent (no successful connect yet) is   *)
(* dereferenced.                                                           *)
(***************************************************************************)
SslWrite(c) ==
  /\ ssl[c].alloc
  /\ ssl[c].outbuf < MaxBytes
  /\ ssl' = [ssl EXCEPT ![c] =
               IF @.buffer THEN [@ EXCEPT !.outbuf = @ + 1]
               ELSE [@ EXCEPT !.writeNull = TRUE]]

(***************************************************************************)
(* s_ssl_client_free: when a context exists, s_ssl_context_deinit, then    *)
(* SSL shutdown and bufferevent_free when a bufferevent exists, then       *)
(* SSL_CTX_free of client->ssl.context; finally the name and the struct.   *)
(***************************************************************************)
SslFree(c) ==
  /\ ssl[c].alloc
  /\ ssl' = [ssl EXCEPT ![c] =
               [Unallocated EXCEPT
                  !.freed = TRUE,
                  !.contexts = ssl[c].contexts
                                 - (IF ssl[c].context THEN 1 ELSE 0)]]

\* a write through a NULL bufferevent ends the process
Crashed == \E c \in Clients : ssl[c].writeNull

\* the owner calls the operations of ssl-client.h in any order; the
\* transport and libevent deliver bytes and reports
SslNext ==
  /\ ~Crashed
  /\ \E c \in Clients :
       \/ SslNew(c)
       \/ \E contextOk, bufferOk \in BOOLEAN : SslConnect(c, contextOk, bufferOk)
       \/ SslReceive(c) \/ SslSend(c) \/ SslRead(c)
       \/ \E what \in Reports(ssl[c]) : SslEvent(c, what)
       \/ SslSetName(c) \/ SslWrite(c) \/ SslFree(c)

SslSpec == SslInit /\ [][SslNext]_ssl
=============================================================================
