------------------------- MODULE DeliveryRefinement -------------------------
(***************************************************************************)
(* The engine implements Delivery: a delivery is one row of the log, it is *)
(* started by a message that is no retry, and it is owed while a message   *)
(* or a process carries it.                                                *)
(***************************************************************************)
EXTENDS DeliveryEngine

StatusBar == [l \in Logs |-> IF l \in created THEN row[l].status ELSE "none"]
ClosedBar == {l \in Logs : endpoint[EndpointOf(l)] \in {"inactive", "removed"}}
GoneBar   == {l \in Logs : endpoint[EndpointOf(l)] = "removed"}
OwedBar   == {l \in Logs : Carried(l)}

D == INSTANCE Delivery WITH
       status <- StatusBar, closed <- ClosedBar, gone <- GoneBar, turned <- refused,
       sent <- chains, tried <- posts, received <- accepted, owed <- OwedBar,
       lost <- hit

\* Rows, messages, tasks, commits of single columns, deaths and redeliveries keep
\* what a publisher may rely on: every step of the engine is one of Delivery's or
\* changes nothing a publisher sees.
ImplementsDelivery == D!Spec
=============================================================================
