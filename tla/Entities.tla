------------------------------ MODULE Entities ------------------------------
(***************************************************************************)
(* The things the login and session services of AntServer talk about, and  *)
(* the constants every component module shares.                            *)
(*                                                                         *)
(*  - a login attempt is one socket accepted by the login server.  Its     *)
(*    Diffie-Hellman secret and the subid hubd gives it are unique, so the *)
(*    attempt itself stands for the token (uid, secret, subid), and for    *)
(*    the user object hubd builds from it;                                 *)
(*  - an fd is one client socket of a gate (skynet never reuses a socket   *)
(*    id within the life of a node);                                       *)
(*  - a request is one handshake message of a client, and the hubd         *)
(*    coroutine that serves it;                                            *)
(*  - an agent is a skynet service handle; handles are handed out in       *)
(*    increasing order.                                                    *)
(***************************************************************************)
EXTENDS Integers, Sequences, FiniteSets

CONSTANTS
    Uids,       \* player identities returned by auth_handler
    Logins,     \* login attempts (tokens)
    Fds,        \* client sockets of the gate
    Requests,   \* handshake requests
    MaxAgents,  \* bound: agent services the node may create
    None        \* Lua's nil

Agents == 1..MaxAgents

ASSUME EntitiesAssumption ==
    /\ MaxAgents \in Nat
    /\ None \notin Uids \cup Logins \cup Fds \cup Requests \cup Agents
=============================================================================
