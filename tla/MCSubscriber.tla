---------------------------- MODULE MCSubscriber ----------------------------
(***************************************************************************)
(* Subscriber with an application that has two URIs, and one of another    *)
(* group.                                                                  *)
(***************************************************************************)
EXTENDS Subscriber

MCEndpoint(addr, id) ==
    [addr |-> addr, id |-> id, tag |-> [guid |-> "", index |-> 0], staleThreshold |-> 0]

MCEndpoints == {MCEndpoint("a1", "i1"), MCEndpoint("a2", "i2")}

MCRegistrations == {<<"h">>, <<"h", "x">>} \X MCEndpoints

MCApp ==
    {[uris |-> <<<<"h">>, <<"h", "x">>>>, endpoint |-> MCEndpoint("a1", "i1"),
      group |-> "", https |-> TRUE],
     [uris |-> <<<<"h">>>>, endpoint |-> MCEndpoint("a2", "i2"),
      group |-> "tcp", https |-> TRUE]}
=============================================================================
