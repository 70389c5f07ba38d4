------------------------- MODULE SerialTransactions -------------------------
(***************************************************************************)
(* What transactiond promises its users: the actions transactions perform  *)
(* on the services happen as if the transactions ran one after the other.  *)
(* log is the order in which actions happened, finished the transactions   *)
(* that have been released.                                                *)
(***************************************************************************)
EXTENDS Naturals, Sequences

CONSTANT Txns

VARIABLES log, finished

Init == log = <<>> /\ finished = {}

(* t acts, unless another transaction has acted and is not released. *)
Act(t) ==
    /\ t \notin finished
    /\ \/ log = <<>>
       \/ log[Len(log)] = t
       \/ log[Len(log)] \in finished
    /\ log' = Append(log, t)
    /\ UNCHANGED finished

Finish(t) ==
    /\ t \notin finished
    /\ finished' = finished \cup {t}
    /\ UNCHANGED log

Next == \E t \in Txns : Act(t) \/ Finish(t)

Spec == Init /\ [][Next]_<<log, finished>>
=============================================================================
