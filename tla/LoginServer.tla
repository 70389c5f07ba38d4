---------------------------- MODULE LoginServer -----------------------------
(***************************************************************************)
(* The login master: loginserver.accept around logind.login_handler.       *)
(* Every accepted socket is a coroutine; it yields while a slave           *)
(* authenticates the client and again inside cluster.call(..., "access").  *)
(* The table user_login is the lock that keeps two coroutines of one uid   *)
(* out of login_handler.                                                   *)
(***************************************************************************)
EXTENDS Entities

VARIABLES
    attempt,      \* attempt[l]: where coroutine l is, and the uid it serves
    user_login,   \* uids inside login_handler
    user_online,  \* uids recorded as online by login_logic
    logouts       \* cluster.send(..., "logout") messages under way

loginVars == <<attempt, user_login, user_online, logouts>>

(* "login": access sent, not yet processed by hubd; "accessed": processed, *)
(* the answer is under way; the rest are the response lines.               *)
AttemptPc == {"new", "login", "accessed", "200", "401", "403", "406"}
InHandler == {"login", "accessed"}

LoginTypeOK ==
    /\ attempt \in [Logins -> [pc: AttemptPc, uid: Uids \cup {None}]]
    /\ user_login \subseteq Uids
    /\ user_online \subseteq Uids
    /\ logouts \subseteq Uids

LoginInit ==
    /\ attempt = [l \in Logins |-> [pc |-> "new", uid |-> None]]
    /\ user_login = {}
    /\ user_online = {}
    /\ logouts = {}

(* auth_handler raised an error, or the socket broke. *)
Unauthorized(l) ==
    /\ attempt[l].pc = "new"
    /\ attempt' = [attempt EXCEPT ![l].pc = "401"]
    /\ UNCHANGED <<user_login, user_online, logouts>>

(* The slave authenticated l as uid, but uid is inside login_handler. *)
Refuse(l, uid) ==
    /\ attempt[l].pc = "new"
    /\ uid \in user_login
    /\ attempt' = [attempt EXCEPT ![l] = [pc |-> "406", uid |-> uid]]
    /\ UNCHANGED <<user_login, user_online, logouts>>

(* The lock is taken and login_handler runs up to cluster.call.  An older  *)
(* session found in user_online is forgotten (the kick that goes with it   *)
(* is sent by the composition), so the second look at the table never      *)
(* finds one.                                                              *)
EnterHandler(l, uid) ==
    /\ attempt[l].pc = "new"
    /\ uid \notin user_login
    /\ user_login' = user_login \cup {uid}
    /\ user_online' = user_online \ {uid}
    /\ attempt' = [attempt EXCEPT ![l] = [pc |-> "login", uid |-> uid]]
    /\ UNCHANGED logouts

(* hubd has processed the access call of l. *)
Accessed(l) ==
    /\ attempt[l].pc = "login"
    /\ attempt' = [attempt EXCEPT ![l].pc = "accessed"]
    /\ UNCHANGED <<user_login, user_online, logouts>>

(* cluster.call returned the subid.  The line that should record the user  *)
(* as online calls get_user_online, which only reads.                      *)
HandlerOk(l) ==
    /\ attempt[l].pc = "accessed"
    /\ attempt' = [attempt EXCEPT ![l].pc = "200"]
    /\ user_login' = user_login \ {attempt[l].uid}
    /\ UNCHANGED <<user_online, logouts>>

(* Fault: the error path leaves the lock taken. *)
HandlerFailedLocked(l) ==
    /\ attempt[l].pc \in InHandler
    /\ attempt' = [attempt EXCEPT ![l].pc = "403"]
    /\ UNCHANGED <<user_login, user_online, logouts>>

(* cluster.call raised an error: the request or the answer was lost. *)
HandlerFailed(l) ==
    /\ attempt[l].pc \in InHandler
    /\ attempt' = [attempt EXCEPT ![l].pc = "403"]
    /\ user_login' = user_login \ {attempt[l].uid}
    /\ UNCHANGED <<user_online, logouts>>

(* CMD.logout, sent by hubd. *)
LoginLogout(uid) ==
    /\ uid \in logouts
    /\ user_online' = user_online \ {uid}
    /\ logouts' = logouts \ {uid}
    /\ UNCHANGED <<attempt, user_login>>

(* hubd's cluster.send("loginnode", "logind", "logout", uid). *)
SendLogouts(S) ==
    /\ logouts' = logouts \cup S
    /\ UNCHANGED <<attempt, user_login, user_online>>
=============================================================================
