------------------------------- MODULE MCRudp -------------------------------
(* Small instances of Rudp. *)
EXTENDS Rudp
CONSTANTS a, b

\* Both directions stand just below the first wrap of the header's ids.
MCStart == [e \in Endpoints |-> WireIds - 2]

MCMaxMsgs == (a :> 3) @@ (b :> 2)

\* The end a lives three ticks, long enough for a message to expire; b has one
\* frame, and any number of packages that arrive between frames.
MCMaxTick == (a :> Expired + 3) @@ (b :> Expired + 1)

\* The second message of each end is empty, the third larger than a package.
MCMsgSize ==
  [id \in 0..(2 * WireIds) |-> IF id = WireIds - 1 THEN 0 ELSE IF id = WireIds THEN 20 ELSE 2]
=============================================================================
