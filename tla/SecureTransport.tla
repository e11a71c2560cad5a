--------------------------- MODULE SecureTransport ---------------------------
(***************************************************************************)
(* The network stack below coreMQTT, for one caller task: the transport    *)
(* interface (transport_secure_sockets.c), the secure sockets it opens     *)
(* (iot_secure_sockets.c), the TLS context of a socket (iot_tls.c) and the *)
(* PKCS #11 session that context keeps for the device key.                 *)
(*                                                                         *)
(* SecureSocketsTransport_Connect and _Disconnect are the only calls that  *)
(* allocate and release.  They run as a sequence of steps, call.at, one    *)
(* for every call in them that can fail on its own; a failing step goes to *)
(* "close", the clean-up of establishConnect.  Send and Recv are single    *)
(* steps of the MQTT library that calls them.                              *)
(*                                                                         *)
(* A step that uses a socket structure that was already released is        *)
(* undefined behaviour: the call ends at "undefined" and nothing is said   *)
(* of what follows.                                                        *)
(***************************************************************************)
EXTENDS Naturals

CONSTANTS
    Handles,    \* addresses the heap may give a socket structure
    Ids,        \* socket ids of the IoT socket layer
    Sessions,   \* PKCS #11 sessions the heap has room for
    None        \* NULL, an invalid handle, an invalid session

ASSUME NoneAssumption == None \notin Handles \cup Ids \cup Sessions

VARIABLES
    sock,       \* the socket structure at an address, or None
    tcp,        \* state of a socket id
    ctx,        \* the TLS context of the socket at an address, or None
    sessions,   \* open PKCS #11 sessions
    tcpSocket,  \* pParams->tcpSocket of the network context
    call        \* the transport call under way and its status

transportVars == <<sock, tcp, ctx, sessions, tcpSocket, call>>

Flags == {"CONNECTED", "USE_TLS", "SHUTDOWN_RD", "SHUTDOWN_WR"}

\* struct xSOCKET; memory is what SetSockOpt allocated for it.
Socket == [id : Ids, flags : SUBSET Flags,
           memory : SUBSET {"destination", "server_cert"}]

\* The states of a TCP socket.  "stuck": iotSocketClose refused, and the only
\* copy of the id is gone.
TcpStates == {"closed", "open", "up", "stuck"}

\* TLSContext_t: the handshake state, the session, and whether the mbed TLS
\* structures are not yet set up, usable, or freed.
Handshakes == {"NOT_STARTED", "STARTED", "SUCCESSFUL"}

Context == [hs : Handshakes, session : Sessions \cup {None},
            ssl : {"raw", "ready", "freed"}]

\* NULL is no structure.
ASSUME NullAssumption == None \notin Socket /\ None \notin Context

Steps == {"idle", "socket", "tlsSetup", "dns", "connect", "tlsInit",
          "tlsConnect", "handshake", "timeouts", "close", "cleanup",
          "undefined"}

TransportTypeOK ==
    /\ sock \in [Handles -> Socket \cup {None}]
    /\ tcp \in [Ids -> TcpStates]
    /\ ctx \in [Handles -> Context \cup {None}]
    /\ sessions \in SUBSET Sessions
    /\ tcpSocket \in Handles \cup {None}
    /\ call \in [at : Steps, h : Handles \cup {None}, ok : BOOLEAN]

\* The structure of the network context is cleared: its socket is NULL.
TransportInit ==
    /\ sock = [h \in Handles |-> None]
    /\ tcp = [i \in Ids |-> "closed"]
    /\ ctx = [h \in Handles |-> None]
    /\ sessions = {}
    /\ tcpSocket = None
    /\ call = [at |-> "idle", h |-> None, ok |-> TRUE]

Idle == call.at = "idle"

GoTo(step) == call' = [call EXCEPT !.at = step]

Fail_WithoutClose == call' = [call EXCEPT !.at = "idle", !.ok = FALSE]

\* establishConnect after a failing step: the socket is closed and the call
\* returns an error.
Fail == call' = [call EXCEPT !.at = "close", !.ok = FALSE]

(***************************************************************************)
(* The TLS context: prvFreeContext.  The close-notify alert it tries to    *)
(* send leaves no trace here, the socket id of the context is closed or    *)
(* broken when it runs.  The session is closed only if the handshake was   *)
(* started, and the context keeps its stale session handle.                *)
(***************************************************************************)
MbedFreed(c) == [c EXCEPT !.hs = "NOT_STARTED", !.ssl = "freed"]

SessionsAfterFree(c) ==
    IF c.hs # "NOT_STARTED" THEN sessions \ {c.session} ELSE sessions

prvFreeContext(h) ==
    /\ ctx' = [ctx EXCEPT ![h] = MbedFreed(ctx[h])]
    /\ sessions' = SessionsAfterFree(ctx[h])

(***************************************************************************)
(* SecureSocketsTransport_Connect, step by step.                           *)
(***************************************************************************)
SecureSocketsTransport_Connect ==
    /\ Idle
    /\ call' = [at |-> "socket", h |-> None, ok |-> TRUE]
    /\ UNCHANGED <<sock, tcp, ctx, sessions, tcpSocket>>

\* The socket port, over FreeRTOS+TCP or the virtual sockets of the simulator.
iotSocketCreate(i) ==
    /\ tcp[i] = "closed"
    /\ tcp' = [tcp EXCEPT ![i] = "open"]

iotSocketConnect(i) == tcp' = [tcp EXCEPT ![i] = "up"]

\* The graceful shutdown may not be over yet (EAGAIN): the socket stays.
iotSocketClose(i, closed) ==
    tcp' = [tcp EXCEPT ![i] = IF closed THEN "closed" ELSE "stuck"]

\* A structure and a socket id.
SOCKETS_Socket ==
    /\ call.at = "socket"
    /\ \E h \in Handles, i \in Ids :
          /\ sock[h] = None
          /\ iotSocketCreate(i)
          /\ sock' = [sock EXCEPT ![h] = [id |-> i, flags |-> {}, memory |-> {}]]
          /\ ctx' = [ctx EXCEPT ![h] = None]
          /\ call' = [call EXCEPT !.at = "tlsSetup", !.h = h]
    /\ UNCHANGED <<sessions, tcpSocket>>

\* No memory, or no socket id: the structure is released again.
SocketRefused ==
    /\ call.at = "socket"
    /\ call' = [call EXCEPT !.at = "idle", !.ok = FALSE]
    /\ UNCHANGED <<sock, tcp, ctx, sessions, tcpSocket>>

\* SO_REQUIRE_TLS cannot fail on a socket that is not connected; the copies of
\* the host name and of the root certificate may find no memory.
SOCKETS_SetSockOpt(s, memory) ==
    [s EXCEPT !.flags = @ \cup {"USE_TLS"}, !.memory = memory]

tlsSetup ==
    /\ call.at = "tlsSetup"
    /\ \E memory \in {{}, {"destination"}, {"destination", "server_cert"}} :
          /\ sock' = [sock EXCEPT ![call.h] = SOCKETS_SetSockOpt(@, memory)]
          /\ IF "server_cert" \in memory THEN GoTo("dns") ELSE Fail
    /\ UNCHANGED <<tcp, ctx, sessions, tcpSocket>>

\* The look-up of a name by the socket port, and its result for the caller: an
\* address that is not 0.
iotSocketGetHostByName == {"address", "EHOSTNOTFOUND"}

SOCKETS_GetHostByName(r) == r = "address"

connectToServer ==
    /\ call.at = "dns"
    /\ \E r \in iotSocketGetHostByName :
          IF SOCKETS_GetHostByName(r) THEN GoTo("connect") ELSE Fail
    /\ UNCHANGED <<sock, tcp, ctx, sessions, tcpSocket>>

\* SOCKETS_Connect, first half: the TCP connection.
SOCKETS_Connect ==
    /\ call.at = "connect"
    /\ \/ /\ sock' = [sock EXCEPT ![call.h].flags = @ \cup {"CONNECTED"}]
          /\ iotSocketConnect(sock[call.h].id)
          /\ GoTo("tlsInit")
       \/ /\ Fail
          /\ UNCHANGED <<sock, tcp>>
    /\ UNCHANGED <<ctx, sessions, tcpSocket>>

\* TLS_Init: the context, the PKCS #11 session, the seed of the random number
\* generator.  Whatever fails, the context stays with the socket.
NewContext(s) == [hs |-> "NOT_STARTED", session |-> s, ssl |-> "raw"]

\* xInitializePkcs11Session: slot list, initialization, C_OpenSession.
xInitializePkcs11Session(s) ==
    /\ s \notin sessions
    /\ sessions' = sessions \cup {s}

TLS_Init ==
    /\ call.at = "tlsInit"
    /\ \/ /\ Fail
          /\ UNCHANGED <<ctx, sessions>>
       \/ /\ Fail
          /\ ctx' = [ctx EXCEPT ![call.h] = NewContext(None)]
          /\ UNCHANGED sessions
       \/ \E s \in Sessions :
             /\ xInitializePkcs11Session(s)
             /\ ctx' = [ctx EXCEPT ![call.h] = NewContext(s)]
             /\ GoTo("tlsConnect") \/ Fail
    /\ UNCHANGED <<sock, tcp, tcpSocket>>

\* The key and the certificate of the device are looked up in the session; the
\* handshake counts as started whether or not they are found.
prvInitializeClientCredential(c) == [c EXCEPT !.hs = "STARTED"]

\* TLS_Connect up to the handshake.  The root certificate or the defaults may
\* be refused before prvInitializeClientCredential marks the handshake as
\* started, the set-up of the SSL context or the host name after it.  That
\* the device credentials cannot be loaded is not an error here.
TLS_Connect ==
    /\ call.at = "tlsConnect"
    /\ \/ /\ Fail
          /\ UNCHANGED ctx
       \/ /\ ctx' = [ctx EXCEPT ![call.h] = prvInitializeClientCredential(@)]
          /\ Fail
       \/ /\ ctx' = [ctx EXCEPT ![call.h] =
                       [prvInitializeClientCredential(@) EXCEPT !.ssl = "ready"]]
          /\ GoTo("handshake")
    /\ UNCHANGED <<sock, tcp, sessions, tcpSocket>>

\* The negotiation loop.  The transport has not set its timeouts yet: a server
\* that is silent for the default receive timeout of the socket ends it, no
\* data being the end of the stream for the handshake.
HandshakeDone ==
    /\ call.at = "handshake"
    /\ ctx' = [ctx EXCEPT ![call.h].hs = "SUCCESSFUL"]
    /\ GoTo("timeouts")
    /\ UNCHANGED <<sock, tcp, sessions, tcpSocket>>

HandshakeFailed ==
    /\ call.at = "handshake"
    /\ prvFreeContext(call.h)
    /\ Fail
    /\ UNCHANGED <<sock, tcp, tcpSocket>>

\* A timeout of a socket of the port, in milliseconds; 0 waits for ever.
iotSocketSetOpt == {"set", "EINVAL"}

\* The two timeouts, one after the other.
transportTimeoutSetup(recv, send) == recv = "set" /\ send = "set"

\* Only a complete connection reaches the network context.
SetTimeouts ==
    /\ call.at = "timeouts"
    /\ \E recv, send \in iotSocketSetOpt :
          IF transportTimeoutSetup(recv, send)
          THEN /\ tcpSocket' = call.h
               /\ call' = [call EXCEPT !.at = "idle", !.ok = TRUE]
          ELSE Fail /\ UNCHANGED tcpSocket
    /\ UNCHANGED <<sock, tcp, ctx, sessions>>

(***************************************************************************)
(* SecureSocketsTransport_Disconnect and SOCKETS_Close.                    *)
(***************************************************************************)

\* The socket of the network context is a structure that is allocated.
SocketIsLive == tcpSocket # None /\ sock[tcpSocket] # None

\* SOCKETS_Shutdown only forbids later calls.  A NULL socket is an error of
\* the shutdown; a socket that was closed before is undefined behaviour.
SecureSocketsTransport_Disconnect ==
    /\ Idle
    /\ \/ /\ SocketIsLive
          /\ sock' = [sock EXCEPT ![tcpSocket].flags =
                                     @ \cup {"SHUTDOWN_RD", "SHUTDOWN_WR"}]
          /\ call' = [at |-> "close", h |-> tcpSocket, ok |-> TRUE]
       \/ /\ tcpSocket = None
          /\ call' = [call EXCEPT !.ok = FALSE]
          /\ UNCHANGED sock
       \/ /\ tcpSocket # None /\ ~SocketIsLive
          /\ GoTo("undefined")
          /\ UNCHANGED sock
    /\ UNCHANGED <<tcp, ctx, sessions, tcpSocket>>

\* SOCKETS_Close releases the structure whether or not the id could be closed.
SOCKETS_Close ==
    /\ call.at = "close"
    /\ \E closed \in BOOLEAN :
          /\ iotSocketClose(sock[call.h].id, closed)
          /\ call' = [call EXCEPT !.at = "cleanup", !.ok = @ /\ closed]
    /\ sock' = [sock EXCEPT ![call.h].memory = {}]
    /\ UNCHANGED <<ctx, sessions, tcpSocket>>

\* TLS_Cleanup, and the structure itself.  tcpSocket keeps its value.
TLS_Cleanup ==
    /\ call.at = "cleanup"
    /\ sessions' = IF ctx[call.h] = None THEN sessions
                                         ELSE SessionsAfterFree(ctx[call.h])
    /\ ctx' = [ctx EXCEPT ![call.h] = None]
    /\ sock' = [sock EXCEPT ![call.h] = None]
    /\ GoTo("idle")
    /\ UNCHANGED <<tcp, tcpSocket>>

(***************************************************************************)
(* SecureSocketsTransport_Send and _Recv on the connection, as steps of    *)
(* the library that calls them.  What the TCP stack answers goes through   *)
(* the socket port, the callback of the secure socket, mbed TLS (which     *)
(* hands a negative answer through) and TLS_Send or TLS_Recv.              *)
(***************************************************************************)

\* The port to FreeRTOS+TCP: the stack's answer to the IoT socket's.  The
\* virtual socket of the simulator answers with the codes of the IoT socket.
iotSocketSend ==
    [data |-> "data", ENOTCONN |-> "ENOTCONN", ENOMEM |-> "ERROR",
     EINVAL |-> "ESOCK", ENOSPC |-> "ECONNABORTED"]

iotSocketRecv ==
    [data |-> "data", none |-> "none", ENOMEM |-> "ERROR",
     ENOTCONN |-> "ENOTCONN", EINTR |-> "ECONNABORTED", EINVAL |-> "ESOCK"]

vSocketSend == {"data", "ESOCK", "EINVAL", "ENOTCONN", "ECONNRESET",
                "ECONNABORTED", "EAGAIN", "ERROR"}

\* Its receive polls until the receive timeout and takes no data for EAGAIN.
vSocketRecv == vSocketSend

AnswersTo(port, virtual) == {port[r] : r \in DOMAIN port} \cup virtual

\* The code of the secure sockets for that of the IoT socket.
SocketsError(e) ==
    CASE e = "EINVAL"                          -> "EINVAL"
      [] e = "ENOTCONN"                        -> "ENOTCONN"
      [] e \in {"ECONNRESET", "ECONNABORTED"}  -> "ECLOSED"
      [] e = "EAGAIN"                          -> "EWOULDBLOCK"
      [] OTHER                                 -> "SOCKET_ERROR"

Send_Cb(r) == IF r = "data" THEN r ELSE SocketsError(r)

Recv_Cb(r) ==
    CASE r \in {"data", "none"}          -> r
      [] SocketsError(r) = "EWOULDBLOCK" -> "none"
      [] OTHER                           -> SocketsError(r)

Established ==
    /\ Idle
    /\ SocketIsLive
    /\ ctx[tcpSocket] # None
    /\ ctx[tcpSocket].hs = "SUCCESSFUL"

\* TLS_Send: every answer but data is a hard error, that of a send that timed
\* out included, and invalidates the context; a context whose handshake is
\* not successful is refused and left alone.
TLS_Send(r) ==
    /\ IF Established /\ Send_Cb(r) # "data"
       THEN prvFreeContext(tcpSocket)
       ELSE UNCHANGED <<ctx, sessions>>
    /\ UNCHANGED <<sock, tcp, tcpSocket, call>>

\* TLS_Recv: no data within the timeout is not an error; anything else, and a
\* context whose handshake is not successful, is, and invalidates the context.
TLS_Recv(r) ==
    /\ IF Established /\ Recv_Cb(r) \in {"data", "none"}
       THEN UNCHANGED <<ctx, sessions>>
       ELSE prvFreeContext(tcpSocket)
    /\ UNCHANGED <<sock, tcp, tcpSocket, call>>

\* SOCKETS_Send and SOCKETS_Recv refuse a direction that is shut down, and
\* otherwise leave the work to TLS, which every socket of the transport uses.
SOCKETS_Send(r) ==
    IF "SHUTDOWN_WR" \in sock[tcpSocket].flags THEN UNCHANGED transportVars
                                               ELSE TLS_Send(r)

SOCKETS_Recv(r) ==
    IF "SHUTDOWN_RD" \in sock[tcpSocket].flags THEN UNCHANGED transportVars
                                               ELSE TLS_Recv(r)

SecureSocketsTransport_Send ==
    /\ Idle /\ SocketIsLive
    /\ \E r \in AnswersTo(iotSocketSend, vSocketSend) : SOCKETS_Send(r)

SecureSocketsTransport_Recv ==
    /\ Idle /\ SocketIsLive
    /\ \E r \in AnswersTo(iotSocketRecv, vSocketRecv) : SOCKETS_Recv(r)

\* A send or a receive that passes, or finds nothing.
TransportPasses == Established /\ (SOCKETS_Send("data") \/ SOCKETS_Recv("none"))

\* The steps of a call under way.
TransportStep ==
    \/ SOCKETS_Socket
    \/ SocketRefused
    \/ tlsSetup
    \/ connectToServer
    \/ SOCKETS_Connect
    \/ TLS_Init
    \/ TLS_Connect
    \/ HandshakeDone
    \/ HandshakeFailed
    \/ SetTimeouts
    \/ SOCKETS_Close
    \/ TLS_Cleanup

=============================================================================
