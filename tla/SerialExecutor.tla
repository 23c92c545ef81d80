--------------------------- MODULE SerialExecutor ---------------------------
(***************************************************************************)
(* What the state machine base class (include/system/IStateMachine.hpp)    *)
(* promises to the client built on it: events are handled one at a time,   *)
(* each exactly once, in the order in which they were notified, whatever   *)
(* threads notify them and however many threads run the io_service.        *)
(*                                                                         *)
(* A handler that throws ends the service: no later event is handled.      *)
(* StateMachine implements this specification.                             *)
(***************************************************************************)
EXTENDS Sequences

CONSTANTS Events,    \* the input events a client can be notified of
          NoEvent    \* no event: no handler is running

VARIABLES pending,   \* events notified and not yet taken up by a handler
          running,   \* the event being handled, or NoEvent
          failed     \* a handler has thrown

vars == <<pending, running, failed>>

TypeOK == /\ pending \in Seq(Events)
          /\ running \in Events \cup {NoEvent}
          /\ failed \in BOOLEAN

Init == /\ pending = <<>>
        /\ running = NoEvent
        /\ failed = FALSE

Submit(e) == /\ pending' = Append(pending, e)
             /\ UNCHANGED <<running, failed>>

Begin == /\ running = NoEvent
         /\ ~failed
         /\ pending # <<>>
         /\ running' = Head(pending)
         /\ pending' = Tail(pending)
         /\ UNCHANGED failed

Finish == /\ running # NoEvent
          /\ running' = NoEvent
          /\ UNCHANGED <<pending, failed>>

Fail == /\ running # NoEvent
        /\ running' = NoEvent
        /\ failed' = TRUE
        /\ UNCHANGED pending

Next == \/ \E e \in Events : Submit(e)
        \/ Begin
        \/ Finish
        \/ Fail

Spec == Init /\ [][Next]_vars
=============================================================================
