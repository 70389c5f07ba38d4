---------------------------- MODULE MailboxLemmas ---------------------------
(***************************************************************************)
(* Facts about the sequences that model service mailboxes, lock queues and *)
(* call stacks, used by the proof modules.                                 *)
(***************************************************************************)
EXTENDS Integers, Sequences, SequenceTheorems, TLAPS

(* What is left of a mailbox when its oldest message is taken. *)
LEMMA TailFacts ==
    ASSUME NEW S, NEW q \in Seq(S), q # <<>>
    PROVE  /\ Head(q) \in S
           /\ Head(q) = q[1]
           /\ 1 \in DOMAIN q
           /\ Tail(q) \in Seq(S)
           /\ \A i \in DOMAIN Tail(q) :
                  i \in Nat /\ i + 1 \in DOMAIN q /\ Tail(q)[i] = q[i + 1]
           /\ \A i \in DOMAIN q : i # 1 =>
                  i - 1 \in DOMAIN Tail(q) /\ q[i] = Tail(q)[i - 1]
           /\ \A i \in DOMAIN q : i \in Nat /\ q[i] \in S
  <1>1. Len(q) \in Nat /\ Len(q) > 0 /\ DOMAIN q = 1..Len(q)
    BY EmptySeq, LenProperties
  <1>2. /\ Head(q) \in S
        /\ Tail(q) \in Seq(S)
        /\ Len(Tail(q)) = Len(q) - 1
        /\ \A i \in 1..Len(Tail(q)) : Tail(q)[i] = q[i + 1]
    BY HeadTailProperties
  <1>3. DOMAIN Tail(q) = 1..(Len(q) - 1)
    BY <1>2, LenProperties
  <1>4. \A i \in DOMAIN q : q[i] \in S
    BY <1>1, ElementOfSeq
  <1>5. Head(q) = q[1]
    OBVIOUS
  <1>6. \A i \in DOMAIN q : i # 1 =>
            i - 1 \in DOMAIN Tail(q) /\ q[i] = Tail(q)[i - 1]
    <2> SUFFICES ASSUME NEW i \in DOMAIN q, i # 1
                 PROVE  i - 1 \in DOMAIN Tail(q) /\ q[i] = Tail(q)[i - 1]
      OBVIOUS
    <2>1. i - 1 \in 1..(Len(q) - 1) /\ (i - 1) + 1 = i
      BY <1>1
    <2> QED BY <2>1, <1>2, <1>3
  <1> QED BY <1>1, <1>2, <1>3, <1>4, <1>5, <1>6

(* A mailbox after a message has been added. *)
LEMMA AppendFacts ==
    ASSUME NEW S, NEW q \in Seq(S), NEW m \in S
    PROVE  /\ Append(q, m) \in Seq(S)
           /\ Append(q, m) # <<>>
           /\ DOMAIN Append(q, m) = DOMAIN q \cup {Len(q) + 1}
           /\ Len(q) + 1 \notin DOMAIN q
           /\ Append(q, m)[Len(q) + 1] = m
           /\ \A i \in DOMAIN q : Append(q, m)[i] = q[i]
  <1>1. Len(q) \in Nat /\ DOMAIN q = 1..Len(q)
    BY LenProperties
  <1>2. Append(q, m) \in Seq(S) /\ Len(Append(q, m)) = Len(q) + 1
    BY AppendProperties
  <1>3. DOMAIN Append(q, m) = 1..(Len(q) + 1)
    BY <1>2, LenProperties
  <1>4. Append(q, m) # <<>>
    BY <1>1, <1>2, EmptySeq
  <1>5. /\ Append(q, m)[Len(q) + 1] = m
        /\ \A i \in 1..Len(q) : Append(q, m)[i] = q[i]
    BY AppendProperties
  <1> QED BY <1>1, <1>2, <1>3, <1>4, <1>5

(* A stack after its top has been removed. *)
LEMMA FrontFacts ==
    ASSUME NEW S, NEW q \in Seq(S), q # <<>>
    PROVE  /\ SubSeq(q, 1, Len(q) - 1) \in Seq(S)
           /\ SubSeq(q, 1, Len(q) - 1) = <<>> <=> Len(q) = 1
           /\ q[Len(q)] \in S
  <1>1. Len(q) \in Nat \ {0}
    BY EmptySeq
  <1>2. q[Len(q)] \in S
    BY <1>1, ElementOfSeq
  <1> DEFINE n == Len(q) - 1
             f == SubSeq(q, 1, n)
  <1>3. n \in Int /\ n >= 0 /\ Len(q) = n + 1
    BY <1>1
  <1>4. \A i \in 1..n : q[i] \in S
    BY <1>1, ElementOfSeq
  <1> HIDE DEF n
  <1>5. f \in Seq(S) /\ Len(f) = IF 1 <= n THEN n - 1 + 1 ELSE 0
    BY <1>3, <1>4, SubSeqProperties
  <1>6. Len(f) = n
    BY <1>3, <1>5
  <1> HIDE DEF f
  <1>7. f = <<>> <=> Len(f) = 0
    BY <1>5, EmptySeq
  <1>8. f \in Seq(S) /\ (f = <<>> <=> Len(q) = 1)
    BY <1>3, <1>5, <1>6, <1>7
  <1> QED BY <1>2, <1>8 DEF f, n
=============================================================================
