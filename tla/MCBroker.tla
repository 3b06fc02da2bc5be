--------------------------- MODULE MCBroker ---------------------------
(* One forwarding route, open to everyone, instantiated for TLC.         *)
EXTENDS Broker, TLC

CONSTANT Large      \* sizes of the bodies

MCRequests ==
    [route : Route, bearer : {NoToken}, peer : {TRUE}, path : Path, large : Large]
MCConfigs ==
    {[open |-> TRUE, samePeer |-> FALSE,
      routes |-> [r \in Route |-> [allowed |-> {}, upstream |-> TRUE, refresh |-> TRUE]]]}
MCTables == {<<>>}
MCBase == <<>>
MCPath == {<<"v1">>}

\* Refresh falls back to credential_command: a route that has only that one behaves as
\* one with both.
BrokerInit == Init /\ commands # {"get"}
BrokerSpec == BrokerInit /\ [][Next]_vars /\ Fairness
========================================================================
