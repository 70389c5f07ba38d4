------------------------------ MODULE SortedSet -----------------------------
(***************************************************************************)
(* What a zset promises its user: a score for each member, and the members *)
(* in the order of score and then of name.  limit and rev_limit keep the   *)
(* first or the last ones of that order; the delete handler is told of the *)
(* others one by one, lowest rank first, and may raise an error, which     *)
(* leaves those after it in the set.                                       *)
(***************************************************************************)
EXTENDS Integers, Sequences, SequencesExt

CONSTANTS Members, Scores, MaxCount

VARIABLES score,    \* the members' scores; its domain is the set
          removed,  \* what the last call told the delete handler
          raised    \* the handler raised an error

vars == <<score, removed, raised>>

\* The members in order.
Sorted(f) ==
  SetToSortSeq(DOMAIN f, LAMBDA m, n : f[m] < f[n] \/ (f[m] = f[n] /\ m < n))

Without(f, S) == [m \in DOMAIN f \ S |-> f[m]]

Init == score = << >> /\ removed = << >> /\ raised = FALSE

Add(s, m) ==
  /\ score' = [n \in DOMAIN score \union {m} |-> IF n = m THEN s ELSE score[n]]
  /\ removed' = << >>
  /\ raised' = FALSE

Rem(m) ==
  /\ score' = Without(score, {m})
  /\ removed' = << >>
  /\ raised' = FALSE

\* The members of the ranks from..to are removed, all of them, or the first k
\* when the handler raised an error at the last of these.
Trim(from, to) ==
  LET doomed == SubSeq(Sorted(score), from, to)
  IN  \E k \in 0..Len(doomed) :
        /\ raised' \in BOOLEAN
        /\ IF raised' THEN k > 0 ELSE k = Len(doomed)
        /\ removed' = SubSeq(doomed, 1, k)
        /\ score' = Without(score, ToSet(SubSeq(doomed, 1, k)))

Limit(count) == Trim(count + 1, Len(Sorted(score)))

RevLimit(count) == Trim(1, Len(Sorted(score)) - count)

Next ==
  \/ \E s \in Scores, m \in Members : Add(s, m)
  \/ \E m \in Members : Rem(m)
  \/ \E count \in 0..MaxCount : Limit(count) \/ RevLimit(count)

Spec == Init /\ [][Next]_vars
=============================================================================
