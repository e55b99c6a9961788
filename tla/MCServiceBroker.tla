--------------------------- MODULE MCServiceBroker ---------------------------
(***************************************************************************)
(* ServiceBroker with two bindings, requests served two at a time, a route *)
(* with two endpoints and two starts, the second with one plan less.       *)
(***************************************************************************)
EXTENDS ServiceBroker, TLC

CONSTANTS b1, b2, e1, e2, r1, r2

MCPlans == <<{"p", "q"}, {"p"}>>

\* One plan sets all there is, the other leaves the pool alone.
MCSettings == [p |-> Setting, q |-> {"profiles"}]

MCSymmetry == Permutations(BindID) \cup Permutations(Endpoint) \cup Permutations(Request)
=============================================================================
