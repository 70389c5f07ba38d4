-------------------------------- MODULE Gate --------------------------------
(***************************************************************************)
(* One gate service: gated.lua on top of gateserver_tcp.lua.  Two tables   *)
(* describe a client socket: gateserver's (here gs) says whether its       *)
(* messages are dispatched, gated's (connection) to whom.  close_agent     *)
(* yields in the middle, waiting for the hub, so a kick and the socket's   *)
(* own close event may be inside it at the same time.                      *)
(***************************************************************************)
EXTENDS Entities

CONSTANT MaxClient     \* conf.maxclient

ASSUME GateAssumption == MaxClient \in Nat

VARIABLES
    gateq,          \* lua messages of the gate, oldest first
    sock,           \* the socket as the socket thread sees it
    gs,             \* gateserver.connection: "nil", "true" or "false"
    connection,     \* gated.connection: fd -> [uid, agent], a Lua table
    kicking,        \* CMD.kick coroutines waiting for the hub, per fd
    closing,        \* MSG.close coroutines waiting for the hub
    client_number

gateVars == <<gateq, sock, gs, connection, kicking, closing, client_number>>

Conn == [uid: Uids \cup {None}, agent: Agents \cup {None}]

GateMsg ==
    [type: {"connected"}, fd: Fds]
        \cup [type: {"kick"}, fd: Fds, raw: BOOLEAN]
        \cup [type: {"register"}, req: Requests, fd: Fds,
              uid: Uids, agent: Agents]

(* "closing": the gate has closed the socket, its close event is due. *)
SockState == {"none", "accepted", "open", "closing", "closed"}

GateTypeOK ==
    /\ gateq \in Seq(GateMsg)
    /\ sock \in [Fds -> SockState]
    /\ gs \in [Fds -> {"nil", "true", "false"}]
    /\ DOMAIN connection \subseteq Fds
    /\ connection \in [DOMAIN connection -> Conn]
    /\ kicking \in [Fds -> Nat]
    /\ closing \subseteq Fds
    /\ client_number \in Int

GateInit ==
    /\ gateq = <<>>
    /\ sock = [fd \in Fds |-> "none"]
    /\ gs = [fd \in Fds |-> "nil"]
    /\ connection = <<>>
    /\ kicking = [fd \in Fds |-> 0]
    /\ closing = {}
    /\ client_number = 0

GateRecv(m) ==
    /\ gateq' = Append(gateq, m)
    /\ UNCHANGED <<sock, gs, connection, kicking, closing, client_number>>

GateHas(type) == gateq # <<>> /\ Head(gateq).type = type

(* gateserver.closeclient: what it makes of the two socket tables. *)
CloseClient(fd) ==
    /\ gs' = [gs EXCEPT ![fd] = IF @ = "true" THEN "false" ELSE @]
    /\ sock' = [sock EXCEPT ![fd] =
                  IF gs[fd] = "true" /\ @ = "open" THEN "closing" ELSE @]

(* gated forgets the connection of fd, if it has one. *)
Drop(fd) == connection' = [f \in DOMAIN connection \ {fd} |-> connection[f]]

(* MSG.open at the limit: the socket is closed and never counted. *)
OpenRefused(fd) ==
    /\ sock[fd] = "none"
    /\ client_number >= MaxClient
    /\ sock' = [sock EXCEPT ![fd] = "closed"]
    /\ UNCHANGED <<gateq, gs, connection, kicking, closing, client_number>>

(* MSG.open: handler.connect calls the hub and yields. *)
Open(fd) ==
    /\ sock[fd] = "none"
    /\ client_number < MaxClient
    /\ sock' = [sock EXCEPT ![fd] = "accepted"]
    /\ gs' = [gs EXCEPT ![fd] = "true"]
    /\ client_number' = client_number + 1
    /\ UNCHANGED <<gateq, connection, kicking, closing>>

(* The rest of handler.connect: enter the connection, then openclient. *)
Connected ==
    /\ GateHas("connected")
    /\ LET fd == Head(gateq).fd
       IN  /\ connection' = [f \in DOMAIN connection \cup {fd} |->
                               IF f = fd THEN [uid |-> None, agent |-> None]
                               ELSE connection[f]]
           /\ sock' = [sock EXCEPT
                         ![fd] = IF gs[fd] = "true" THEN "open" ELSE @]
    /\ gateq' = Tail(gateq)
    /\ UNCHANGED <<gs, kicking, closing, client_number>>

(* dispatch_msg and handler.message for a client that has no uid yet: the  *)
(* message goes to the hub.                                                *)
RoutedToHub(fd) ==
    /\ sock[fd] = "open"
    /\ gs[fd] = "true"
    /\ fd \in DOMAIN connection
    /\ connection[fd].uid = None

(* Fault: close_fd tests the entry's value, not its presence. *)
CloseUnknownTruthy(fd) ==
    /\ sock[fd] \in {"open", "closing"}
    /\ fd \notin DOMAIN connection
    /\ sock' = [sock EXCEPT ![fd] = "closed"]
    /\ gs' = [gs EXCEPT ![fd] = "nil"]
    /\ client_number' = client_number - (IF gs[fd] = "true" THEN 1 ELSE 0)
    /\ UNCHANGED <<gateq, connection, kicking, closing>>

(* MSG.close or MSG.error of a socket gated has no connection for: only    *)
(* close_fd is left to do.                                                 *)
CloseUnknown(fd) ==
    /\ sock[fd] \in {"open", "closing"}
    /\ fd \notin DOMAIN connection
    /\ sock' = [sock EXCEPT ![fd] = "closed"]
    /\ gs' = [gs EXCEPT ![fd] = "nil"]
    /\ client_number' = client_number - (IF gs[fd] # "nil" THEN 1 ELSE 0)
    /\ UNCHANGED <<gateq, connection, kicking, closing>>

(* MSG.close or MSG.error: close_agent calls the hub's logout and yields. *)
CloseBegin(fd) ==
    /\ sock[fd] \in {"open", "closing"}
    /\ fd \in DOMAIN connection
    /\ sock' = [sock EXCEPT ![fd] = "closed"]
    /\ closing' = closing \cup {fd}
    /\ UNCHANGED <<gateq, gs, connection, kicking, client_number>>

(* The rest of close_agent, closeclient included, then close_fd. *)
CloseEnd(fd) ==
    /\ fd \in closing
    /\ closing' = closing \ {fd}
    /\ Drop(fd)
    /\ gs' = [gs EXCEPT ![fd] = "nil"]
    /\ client_number' = client_number - (IF gs[fd] # "nil" THEN 1 ELSE 0)
    /\ UNCHANGED <<gateq, sock, kicking>>

(* CMD.kick of a connection that is gone. *)
KickUnknown ==
    /\ GateHas("kick")
    /\ Head(gateq).fd \notin DOMAIN connection
    /\ gateq' = Tail(gateq)
    /\ UNCHANGED <<sock, gs, connection, kicking, closing, client_number>>

(* Fault: close_agent drops the connection and leaves the socket open. *)
KickRawOpen ==
    /\ GateHas("kick")
    /\ Head(gateq).raw
    /\ Head(gateq).fd \in DOMAIN connection
    /\ Drop(Head(gateq).fd)
    /\ gateq' = Tail(gateq)
    /\ UNCHANGED <<sock, gs, kicking, closing, client_number>>

(* CMD.kick with raw set: the hub is not told. *)
KickRaw ==
    /\ GateHas("kick")
    /\ Head(gateq).raw
    /\ LET fd == Head(gateq).fd
       IN  /\ fd \in DOMAIN connection
           /\ Drop(fd)
           /\ CloseClient(fd)
    /\ gateq' = Tail(gateq)
    /\ UNCHANGED <<kicking, closing, client_number>>

(* CMD.kick: close_agent calls the hub's logout and yields. *)
KickBegin ==
    /\ GateHas("kick")
    /\ ~Head(gateq).raw
    /\ LET fd == Head(gateq).fd
       IN  /\ fd \in DOMAIN connection
           /\ kicking' = [kicking EXCEPT ![fd] = @ + 1]
    /\ gateq' = Tail(gateq)
    /\ UNCHANGED <<sock, gs, connection, closing, client_number>>

(* The rest of close_agent for a kick. *)
KickEnd(fd) ==
    /\ kicking[fd] > 0
    /\ kicking' = [kicking EXCEPT ![fd] = @ - 1]
    /\ Drop(fd)
    /\ CloseClient(fd)
    /\ UNCHANGED <<gateq, closing, client_number>>

(* CMD.register: from now on the client's messages go to the agent. *)
Register ==
    /\ GateHas("register")
    /\ LET m == Head(gateq)
       IN  connection' =
             IF m.fd \notin DOMAIN connection THEN connection
             ELSE [connection EXCEPT
                     ![m.fd] = [uid |-> m.uid, agent |-> m.agent]]
    /\ gateq' = Tail(gateq)
    /\ UNCHANGED <<sock, gs, kicking, closing, client_number>>
=============================================================================
