---------------------------- MODULE Transaction -----------------------------
(***************************************************************************)
(* Transactions over several services: transactiond grants one session at  *)
(* a time the right to act; each service (transaction.lua) asks it before  *)
(* the first action of a session and keeps the session until it is         *)
(* released.                                                               *)
(*                                                                         *)
(* A transaction runs as in the example services: it creates a session,    *)
(* calls services one after the other (a called service may call further   *)
(* services for the same session) and releases.  An action may raise an    *)
(* error, which raises again in the caller, service or creator.  It does   *)
(* not call a service that is waiting for one of its own calls:            *)
(* skynet.queue would block it for ever.                                   *)
(***************************************************************************)
EXTENDS Naturals, Sequences

CONSTANTS
    Txns,       \* transactions; a transaction is its session id
    Services,   \* services that take part in transactions
    MaxCalls,   \* bound: calls each transaction makes
    None        \* Lua's nil

ASSUME TransactionAssumption ==
    MaxCalls \in [Txns -> Nat] /\ None \notin Txns \cup Services

VARIABLES
    txn,           \* where the creator of the session is
    calls,         \* calls made so far
    stack,         \* services inside a call of the session, innermost last
    top,           \* progress of the innermost call
    session_pool,  \* per service: sessions it knows
    watch,         \* per service and session: the watch_session coroutine
    log,           \* sessions in the order in which actions were performed
    tq,            \* messages of transactiond, oldest first
    active,        \* session_pool.active of transactiond
    queue,         \* session_pool.queue: sessions waiting to be active
    waiting,       \* session_pool.session: responses owed when active
    link           \* session_pool.link: responses owed when released

clientVars == <<txn, calls, stack, top>>
serviceVars == <<session_pool, watch, log>>
lockVars == <<tq, active, queue, waiting, link>>
vars == <<clientVars, serviceVars, lockVars>>

(* "sent": on its way to the service; "query": the service waits for       *)
(* transactiond; "granted": it may act; "exec": it has acted and has not   *)
(* yet answered.                                                           *)
TopPc == {"idle", "sent", "query", "granted", "exec"}

TdMsg == [cmd: {"query", "link"}, t: Txns, s: Services]
            \cup [cmd: {"release"}, t: Txns]

TypeOK ==
    /\ txn \in [Txns -> {"new", "open", "releasing", "released", "failed"}]
    /\ calls \in [Txns -> Nat]
    /\ stack \in [Txns -> Seq(Services)]
    /\ top \in [Txns -> TopPc]
    /\ session_pool \in [Services -> SUBSET Txns]
    /\ watch \in [Services -> [Txns -> {"none", "forked", "linked", "answered"}]]
    /\ log \in Seq(Txns)
    /\ tq \in Seq(TdMsg)
    /\ active \in Txns \cup {None}
    /\ queue \in Seq(Txns)
    /\ waiting \in [Txns -> Seq(Services)]
    /\ link \in [Txns -> Seq(Services)]

Init ==
    /\ txn = [t \in Txns |-> "new"]
    /\ calls = [t \in Txns |-> 0]
    /\ stack = [t \in Txns |-> <<>>]
    /\ top = [t \in Txns |-> "idle"]
    /\ session_pool = [s \in Services |-> {}]
    /\ watch = [s \in Services |-> [t \in Txns |-> "none"]]
    /\ log = <<>>
    /\ tq = <<>>
    /\ active = None
    /\ queue = <<>>
    /\ waiting = [t \in Txns |-> <<>>]
    /\ link = [t \in Txns |-> <<>>]

Callee(t) == stack[t][Len(stack[t])]

InCall(t, s) == \E i \in DOMAIN stack[t] : stack[t][i] = s

-----------------------------------------------------------------------------
(* The transaction's own steps *)

(* transaction.create: transactiond hands out a session id of its own. *)
Create(t) ==
    /\ txn[t] = "new"
    /\ txn' = [txn EXCEPT ![t] = "open"]
    /\ UNCHANGED <<calls, stack, top, serviceVars, lockVars>>

(* t:call(s), by the creator or by a service that is acting for t. *)
Call(t, s) ==
    /\ txn[t] = "open"
    /\ calls[t] < MaxCalls[t]
    /\ top[t] = IF stack[t] = <<>> THEN "idle" ELSE "exec"
    /\ ~InCall(t, s)
    /\ calls' = [calls EXCEPT ![t] = @ + 1]
    /\ stack' = [stack EXCEPT ![t] = Append(@, s)]
    /\ top' = [top EXCEPT ![t] = "sent"]
    /\ UNCHANGED <<txn, serviceVars, lockVars>>

(* t:release(), a call that waits for transactiond's answer. *)
Release(t) ==
    /\ txn[t] = "open"
    /\ stack[t] = <<>>
    /\ txn' = [txn EXCEPT ![t] = "releasing"]
    /\ tq' = Append(tq, [cmd |-> "release", t |-> t])
    /\ UNCHANGED <<calls, stack, top, serviceVars, active, queue, waiting, link>>

-----------------------------------------------------------------------------
(* The services *)

(* dispatch finds the session in session_pool. *)
DispatchKnown(t) ==
    /\ top[t] = "sent"
    /\ t \in session_pool[Callee(t)]
    /\ top' = [top EXCEPT ![t] = "granted"]
    /\ UNCHANGED <<txn, calls, stack, serviceVars, lockVars>>

(* dispatch of a new session: it is entered before query_lock waits for    *)
(* transactiond.                                                           *)
DispatchNew(t) ==
    /\ top[t] = "sent"
    /\ t \notin session_pool[Callee(t)]
    /\ top' = [top EXCEPT ![t] = "query"]
    /\ session_pool' = [session_pool EXCEPT ![Callee(t)] = @ \cup {t}]
    /\ tq' = Append(tq, [cmd |-> "query", t |-> t, s |-> Callee(t)])
    /\ UNCHANGED <<txn, calls, stack, watch, log, active, queue, waiting, link>>

(* The service acts for t (queue_action).  After query_lock it has also    *)
(* forked watch_session.                                                   *)
Execute(t) ==
    /\ top[t] = "granted"
    /\ top' = [top EXCEPT ![t] = "exec"]
    /\ log' = Append(log, t)
    /\ watch' = [watch EXCEPT
                   ![Callee(t)][t] = IF @ = "none" THEN "forked" ELSE @]
    /\ UNCHANGED <<txn, calls, stack, session_pool, lockVars>>

(* The action is over and its call is answered; or it raised an error and  *)
(* the caller goes on all the same, behind a pcall of its own.             *)
Return(t) ==
    /\ top[t] = "exec"
    /\ stack' = [stack EXCEPT ![t] = SubSeq(@, 1, Len(@) - 1)]
    /\ top' = [top EXCEPT ![t] = IF Len(stack[t]) = 1 THEN "idle" ELSE "exec"]
    /\ UNCHANGED <<txn, calls, serviceVars, lockVars>>

(* The action raised an error: resp(false) raises it again in the caller.  *)
(* A service is then itself in an action that raises, unless it goes on;   *)
(* the creator's coroutine ends, and the session is never released.        *)
Raise(t) ==
    /\ top[t] = "exec"
    /\ stack' = [stack EXCEPT ![t] = SubSeq(@, 1, Len(@) - 1)]
    /\ IF Len(stack[t]) = 1
       THEN /\ top' = [top EXCEPT ![t] = "idle"]
            /\ txn' = [txn EXCEPT ![t] = "failed"]
       ELSE UNCHANGED <<top, txn>>
    /\ UNCHANGED <<calls, serviceVars, lockVars>>

(* watch_session calls transactiond's link ... *)
WatchSession(s, t) ==
    /\ watch[s][t] = "forked"
    /\ watch' = [watch EXCEPT ![s][t] = "linked"]
    /\ tq' = Append(tq, [cmd |-> "link", t |-> t, s |-> s])
    /\ UNCHANGED <<clientVars, session_pool, log, active, queue, waiting, link>>

(* ... and forgets the session when the answer comes. *)
ForgetSession(s, t) ==
    /\ watch[s][t] = "answered"
    /\ t \in session_pool[s]
    /\ session_pool' = [session_pool EXCEPT ![s] = @ \ {t}]
    /\ UNCHANGED <<clientVars, watch, log, lockVars>>

-----------------------------------------------------------------------------
(* transactiond *)

TdHas(cmd) == tq # <<>> /\ Head(tq).cmd = cmd

(* Fault: the answer does not depend on who is active. *)
QueryGrantedAlways ==
    /\ TdHas("query")
    /\ active' = Head(tq).t
    /\ top' = [top EXCEPT ![Head(tq).t] = "granted"]
    /\ tq' = Tail(tq)
    /\ UNCHANGED <<txn, calls, stack, serviceVars, queue, waiting, link>>

(* query: the session is active, or becomes it because nobody is. *)
QueryGranted ==
    /\ TdHas("query")
    /\ active \in {None, Head(tq).t}
    /\ active' = Head(tq).t
    /\ top' = [top EXCEPT ![Head(tq).t] = "granted"]
    /\ tq' = Tail(tq)
    /\ UNCHANGED <<txn, calls, stack, serviceVars, queue, waiting, link>>

(* Fault: the calling service, not the session, is queued. *)
QueryQueuedSource ==
    /\ TdHas("query")
    /\ active \notin {None, Head(tq).t}
    /\ waiting' = [waiting EXCEPT ![Head(tq).t] = Append(@, Head(tq).s)]
    /\ queue' = Append(queue, Head(tq).s)
    /\ tq' = Tail(tq)
    /\ UNCHANGED <<clientVars, serviceVars, active, link>>

(* Fault: the answer is kept, but the session is not queued. *)
QueryQueuedForgotten ==
    /\ TdHas("query")
    /\ active \notin {None, Head(tq).t}
    /\ waiting' = [waiting EXCEPT ![Head(tq).t] = Append(@, Head(tq).s)]
    /\ tq' = Tail(tq)
    /\ UNCHANGED <<clientVars, serviceVars, active, queue, link>>

(* query: another session is active, the answer waits. *)
QueryQueued ==
    /\ TdHas("query")
    /\ active \notin {None, Head(tq).t}
    /\ waiting' = [waiting EXCEPT ![Head(tq).t] = Append(@, Head(tq).s)]
    /\ queue' = Append(queue, Head(tq).t)
    /\ tq' = Tail(tq)
    /\ UNCHANGED <<clientVars, serviceVars, active, link>>

Link ==
    /\ TdHas("link")
    /\ link' = [link EXCEPT ![Head(tq).t] = Append(@, Head(tq).s)]
    /\ tq' = Tail(tq)
    /\ UNCHANGED <<clientVars, serviceVars, active, queue, waiting>>

(* release answers the services linked to t. *)
AnswerLinks(t) ==
    /\ watch' = [s \in Services |->
                   IF \E i \in DOMAIN link[t] : link[t][i] = s
                   THEN [watch[s] EXCEPT ![t] = "answered"] ELSE watch[s]]
    /\ link' = [link EXCEPT ![t] = <<>>]

(* Fault: the next session becomes active and nobody is told. *)
ReleaseActiveSilent ==
    /\ TdHas("release")
    /\ active = Head(tq).t
    /\ IF queue = <<>>
       THEN active' = None /\ UNCHANGED queue
       ELSE active' = Head(queue) /\ queue' = Tail(queue)
    /\ txn' = [txn EXCEPT ![Head(tq).t] = "released"]
    /\ AnswerLinks(Head(tq).t)
    /\ tq' = Tail(tq)
    /\ UNCHANGED <<calls, stack, top, session_pool, log, waiting>>

(* release of the active session: the oldest waiting session takes over    *)
(* and the calls that wait for it are answered.                            *)
ReleaseActive ==
    /\ TdHas("release")
    /\ active = Head(tq).t
    /\ IF queue = <<>>
       THEN active' = None /\ UNCHANGED <<queue, top>>
       ELSE /\ active' = Head(queue)
            /\ queue' = Tail(queue)
            /\ top' = IF waiting[Head(queue)] = <<>> THEN top
                      ELSE [top EXCEPT ![Head(queue)] = "granted"]
    /\ txn' = [txn EXCEPT ![Head(tq).t] = "released"]
    /\ AnswerLinks(Head(tq).t)
    /\ tq' = Tail(tq)
    /\ UNCHANGED <<calls, stack, session_pool, log, waiting>>

(* Fault: the lock moves on although another session is active. *)
ReleaseIdleAdvances ==
    /\ TdHas("release")
    /\ active # Head(tq).t
    /\ IF queue = <<>>
       THEN active' = None /\ UNCHANGED <<queue, top>>
       ELSE /\ active' = Head(queue)
            /\ queue' = Tail(queue)
            /\ top' = [top EXCEPT ![Head(queue)] = "granted"]
    /\ txn' = [txn EXCEPT ![Head(tq).t] = "released"]
    /\ AnswerLinks(Head(tq).t)
    /\ tq' = Tail(tq)
    /\ UNCHANGED <<calls, stack, session_pool, log, waiting>>

(* release of a session that never called a service. *)
ReleaseIdle ==
    /\ TdHas("release")
    /\ active # Head(tq).t
    /\ txn' = [txn EXCEPT ![Head(tq).t] = "released"]
    /\ AnswerLinks(Head(tq).t)
    /\ tq' = Tail(tq)
    /\ UNCHANGED <<calls, stack, top, session_pool, log, active, queue, waiting>>

-----------------------------------------------------------------------------
TxnStep(t) ==
    \/ Release(t)
    \/ \E s \in Services : Call(t, s)

ServiceStep(t) ==
    \/ DispatchKnown(t) \/ DispatchNew(t) \/ Execute(t) \/ Return(t) \/ Raise(t)
    \/ \E s \in Services : WatchSession(s, t) \/ ForgetSession(s, t)

LockStep == QueryGranted \/ QueryQueued \/ Link \/ ReleaseActive \/ ReleaseIdle

Next ==
    \/ \E t \in Txns : Create(t) \/ TxnStep(t) \/ ServiceStep(t)
    \/ LockStep

Spec == Init /\ [][Next]_vars

(* skynet runs every service that has a message, and the creator of a      *)
(* transaction goes on to its release as long as no call raises.           *)
Fairness ==
    /\ WF_vars(LockStep)
    /\ \A t \in Txns : WF_vars(TxnStep(t)) /\ WF_vars(ServiceStep(t))

FairSpec == Spec /\ Fairness

-----------------------------------------------------------------------------
Acted(t) == \E i \in DOMAIN log : log[i] = t

(* From its first grant until transactiond handles its release, a          *)
(* transaction is the active one: no service acts for another transaction  *)
(* in between, although grants, releases and services run concurrently.    *)
Isolation ==
    \A t \in Txns :
        \/ top[t] \in {"granted", "exec"}
        \/ Acted(t) /\ txn[t] # "released"
        => active = t

(* A call that waits for the lock is either still in transactiond's        *)
(* mailbox, or queued, exactly once, behind an active transaction that has *)
(* not been released: the wakeup is never lost, and never sent to a call   *)
(* that does not wait for it.                                              *)
NoLostWakeup ==
    /\ \A t \in Txns : top[t] = "query" =>
           \/ \E i \in DOMAIN tq : tq[i] = [cmd |-> "query", t |-> t,
                                            s |-> Callee(t)]
           \/ /\ \E i \in DOMAIN queue : queue[i] = t
              /\ waiting[t] = <<Callee(t)>>
    /\ \A i \in DOMAIN queue :
           /\ top[queue[i]] = "query"
           /\ \A j \in DOMAIN queue : queue[i] = queue[j] => i = j
           /\ active # None
           /\ txn[active] # "released"

(* Every transaction that is created gets every service it calls and is    *)
(* released, unless an error ended the creator of the active one: only a   *)
(* lock kept by the dead leaves the others in the middle of their work.    *)
AllReleased ==
    <>[](\/ \A t \in Txns : txn[t] \in {"new", "released"}
         \/ active # None /\ txn[active] = "failed")

Released == {t \in Txns : txn[t] = "released"}

Serial == INSTANCE SerialTransactions WITH finished <- Released

(* transactiond and the services implement SerialTransactions: the log of  *)
(* actions is one the transactions could leave running one after another.  *)
SerialExecution == Serial!Spec
=============================================================================
