--------------------------- MODULE MCStateMachine ---------------------------
(* Instances of StateMachine for TLC: two io_service threads, two events   *)
(* that are notified up to MaxNotifications times in any order.            *)
EXTENDS StateMachine

CONSTANTS t1, t2, e1, e2

MCThreads == {t1, t2}
MCEvents  == {e1, e2}
=============================================================================
