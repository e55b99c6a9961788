--------------------------- MODULE MCRoutingTable ---------------------------
(***************************************************************************)
(* A small instance of RoutingTable: one route port, since routes do not   *)
(* depend on each other, three backends, three states of a route, the last *)
(* one created anew, and a ttl of one second or none.                      *)
(***************************************************************************)
EXTENDS RoutingTable

MCTag == {[guid |-> "g", index |-> 0], [guid |-> "g", index |-> 1],
          [guid |-> "h", index |-> 0]}

\* Digits of 10^18 to 40 * 10^18 against the same products in decimal: the sign
\* alternates with every 2^63, which is 9.22 * 10^18.
ASSUME SignOfProduct ==
    \A d \in 1 .. 40 :
       (NegatedLead(d) < Digit \div 2) <=>
          (((d * 1000) \div 9223) % 2 = 1)
=============================================================================
