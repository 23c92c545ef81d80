---------------------------- MODULE StateMachine ----------------------------
(***************************************************************************)
(* The event loop of a client: system::IStateMachine (IStateMachine.hpp),  *)
(* the base class of Pilot and Device.  notifyEvent may be called by any   *)
(* thread and from inside a handler; the handlers run as io_service tasks  *)
(* on the threads that call io_service::run().  At most one task of the    *)
(* machine is in the io_service at a time: the others wait in `queue', and *)
(* the flag `processing' says which of the two a new event goes to.        *)
(*                                                                         *)
(* The body of a handler is the client's; here it may do anything the      *)
(* class offers it: notify another event, defer its event, recall a        *)
(* deferred one, return, or throw.                                         *)
(***************************************************************************)
EXTENDS Naturals, Sequences

CONSTANTS Events,            \* the input events
          NoEvent,           \* no event
          Threads,           \* the threads that run the io_service
          HandlersThrow,     \* may a handler throw?
          MaxNotifications,  \* bound: calls of notifyEvent
          MaxDeferred        \* bound: deferred events held at once

ASSUME NoEventAssumption == NoEvent \notin Events
ASSUME BoundsAssumption == /\ HandlersThrow \in BOOLEAN
                           /\ MaxNotifications \in Nat
                           /\ MaxDeferred \in Nat

VARIABLES queue,       \* tasks waiting for the running one, oldest first
          processing,  \* a task of this machine is in the io_service
          posted,      \* tasks given to the io_service and not yet begun
          deferred,    \* events a handler has put aside
          phase,       \* what each io_service thread is doing
          current,     \* the event of each thread's task
          notified,    \* history: every event notified, in order
          handled      \* history: every event whose handler began, in order

vars == <<queue, processing, posted, deferred, phase, current, notified,
          handled>>

Phases == {"idle", "handling", "proceeding"}

TypeOK == /\ queue \in Seq(Events)
          /\ processing \in BOOLEAN
          /\ posted \in Seq(Events)
          /\ deferred \in Seq(Events)
          /\ phase \in [Threads -> Phases]
          /\ current \in [Threads -> Events \cup {NoEvent}]
          /\ notified \in Seq(Events)
          /\ handled \in Seq(Events)

Init == /\ queue = <<>>
        /\ processing = FALSE
        /\ posted = <<>>
        /\ deferred = <<>>
        /\ phase = [t \in Threads |-> "idle"]
        /\ current = [t \in Threads |-> NoEvent]
        /\ notified = <<>>
        /\ handled = <<>>

-----------------------------------------------------------------------------
(* Defective variants of the operations, for checking that the properties  *)
(* below can tell them from the code.                                      *)

\* The task is posted even though another one is already in the io_service.
NotifyAlwaysPosts(e) ==
  /\ Len(notified) < MaxNotifications
  /\ notified' = Append(notified, e)
  /\ processing' = TRUE
  /\ posted' = Append(posted, e)
  /\ UNCHANGED queue

\* The newest waiting task is taken first.
ProceedNewestFirst(t) ==
  /\ phase[t] = "proceeding"
  /\ phase' = [phase EXCEPT ![t] = "idle"]
  /\ current' = [current EXCEPT ![t] = NoEvent]
  /\ \/ /\ queue # <<>>
        /\ posted' = Append(posted, queue[Len(queue)])
        /\ queue' = SubSeq(queue, 1, Len(queue) - 1)
        /\ UNCHANGED processing
     \/ /\ queue = <<>>
        /\ processing' = FALSE
        /\ UNCHANGED <<queue, posted>>
  /\ UNCHANGED <<deferred, notified, handled>>

\* The flag is cleared without looking at the queue.
ProceedForgetsQueue(t) ==
  /\ phase[t] = "proceeding"
  /\ phase' = [phase EXCEPT ![t] = "idle"]
  /\ current' = [current EXCEPT ![t] = NoEvent]
  /\ processing' = FALSE
  /\ UNCHANGED <<queue, posted, deferred, notified, handled>>

\* A deferred event is recalled although there may be none: what the front of
\* an empty deque yields is no event.
RecallUnchecked(t) ==
  /\ phase[t] = "handling"
  /\ deferred' = IF deferred = <<>> THEN <<>> ELSE Tail(deferred)
  /\ notified' = Append(notified,
                        IF deferred = <<>> THEN NoEvent ELSE Head(deferred))
  /\ Len(notified) < MaxNotifications
  /\ queue' = Append(queue, notified'[Len(notified')])
  /\ UNCHANGED <<processing, posted, phase, current, handled>>

-----------------------------------------------------------------------------
(* notifyEvent: one critical section of `lock'.                            *)
NotifyEvent(e) ==
  /\ Len(notified) < MaxNotifications
  /\ notified' = Append(notified, e)
  /\ \/ /\ processing
        /\ queue' = Append(queue, e)
        /\ UNCHANGED <<processing, posted>>
     \/ /\ ~processing
        /\ processing' = TRUE
        /\ posted' = Append(posted, e)
        /\ UNCHANGED queue

(* A call from outside: the user, or the reader of the facade stream.      *)
Notify(e) == /\ NotifyEvent(e)
             /\ UNCHANGED <<deferred, phase, current, handled>>

(* An idle io_service thread takes the oldest posted task and enters       *)
(* handleEvent.                                                            *)
Run(t) == /\ phase[t] = "idle"
          /\ posted # <<>>
          /\ posted' = Tail(posted)
          /\ phase' = [phase EXCEPT ![t] = "handling"]
          /\ current' = [current EXCEPT ![t] = Head(posted)]
          /\ handled' = Append(handled, Head(posted))
          /\ UNCHANGED <<queue, processing, deferred, notified>>

(* A handler notifies: a listener calls notifyEvent from onEvent.          *)
NotifyInHandler(t, e) == /\ phase[t] = "handling"
                         /\ NotifyEvent(e)
                         /\ UNCHANGED <<deferred, phase, current, handled>>

(* A handler puts its own event aside.                                     *)
Defer(t) == /\ phase[t] = "handling"
            /\ Len(deferred) < MaxDeferred
            /\ deferred' = Append(deferred, current[t])
            /\ UNCHANGED <<queue, processing, posted, phase, current,
                           notified, handled>>

(* A handler recalls the oldest deferred event: it is notified again.      *)
Recall(t) == /\ phase[t] = "handling"
             /\ deferred # <<>>
             /\ deferred' = Tail(deferred)
             /\ NotifyEvent(Head(deferred))
             /\ UNCHANGED <<phase, current, handled>>

(* handleEvent returns, every state transition it led to included.         *)
Return(t) == /\ phase[t] = "handling"
             /\ phase' = [phase EXCEPT ![t] = "proceeding"]
             /\ UNCHANGED <<queue, processing, posted, deferred, current,
                            notified, handled>>

(* handleEvent throws: the task is left without proceed(), the exception   *)
(* comes out of io_service::run(), and the thread calls run() again.       *)
Throw(t) == /\ HandlersThrow
            /\ phase[t] = "handling"
            /\ phase' = [phase EXCEPT ![t] = "idle"]
            /\ current' = [current EXCEPT ![t] = NoEvent]
            /\ UNCHANGED <<queue, processing, posted, deferred, notified,
                           handled>>

(* proceed: one critical section of `lock', at the end of every task.      *)
Proceed(t) ==
  /\ phase[t] = "proceeding"
  /\ phase' = [phase EXCEPT ![t] = "idle"]
  /\ current' = [current EXCEPT ![t] = NoEvent]
  /\ \/ /\ queue # <<>>
        /\ posted' = Append(posted, Head(queue))
        /\ queue' = Tail(queue)
        /\ UNCHANGED processing
     \/ /\ queue = <<>>
        /\ processing' = FALSE
        /\ UNCHANGED <<queue, posted>>
  /\ UNCHANGED <<deferred, notified, handled>>

Next == \/ \E e \in Events : Notify(e)
        \/ \E t \in Threads : \/ Run(t)
                              \/ \E e \in Events : NotifyInHandler(t, e)
                              \/ Defer(t)
                              \/ Recall(t)
                              \/ Return(t)
                              \/ Throw(t)
                              \/ Proceed(t)

Spec == Init /\ [][Next]_vars

(* The threads stay in io_service::run(), which takes up every posted task *)
(* and completes it; a handler comes to an end.                            *)
Fairness == /\ WF_vars(\E t \in Threads : Run(t))
            /\ \A t \in Threads : /\ WF_vars(Return(t) \/ Throw(t))
                                  /\ WF_vars(Proceed(t))

FairSpec == Spec /\ Fairness

-----------------------------------------------------------------------------
(* No two handlers of one client ever run at the same time, although the   *)
(* handlers run on any io_service thread and take no lock: this is what    *)
(* protects `state', `deferred' and all the data of the states.            *)
Serial == \A t, u \in Threads :
            phase[t] = "handling" /\ phase[u] = "handling" => t = u

(* Every event notified is handled once and in the order of the calls of   *)
(* notifyEvent: those whose handler began are the oldest ones, and the     *)
(* others are waiting in order, the posted ones before the queued ones.    *)
FirstComeFirstServed == notified = handled \o posted \o queue

(* The strengthening of the two that is inductive: there is at most one    *)
(* task of the machine outside `queue', and none when `processing' is off. *)
OneTask == /\ Len(posted) <= 1
           /\ ~processing => queue = <<>> /\ posted = <<>>
           /\ \A t \in Threads : phase[t] # "idle" => processing /\ posted = <<>>
           /\ \A t, u \in Threads :
                phase[t] # "idle" /\ phase[u] # "idle" => t = u
           /\ \A t \in Threads : phase[t] # "idle" <=> current[t] \in Events

IInv == TypeOK /\ OneTask /\ FirstComeFirstServed

(* The refinement mapping.  Pending is what was posted followed by what is *)
(* queued; the service has failed when the flag is on and no task is left  *)
(* to clear it.                                                            *)
Handling == {t \in Threads : phase[t] = "handling"}

Pending == posted \o queue
Running == IF Handling = {} THEN NoEvent
           ELSE current[CHOOSE t \in Handling : TRUE]
Failed  == processing /\ posted = <<>> /\ \A t \in Threads : phase[t] = "idle"

Executor == INSTANCE SerialExecutor WITH
              pending <- Pending, running <- Running, failed <- Failed

(* The event loop implements the serial executor: whatever threads call    *)
(* notifyEvent and run the tasks, one critical section at a time, a client *)
(* sees a queue of events taken up one by one until a handler throws.      *)
ImplementsExecutor == Executor!Spec

(* Every event notified is handled.  The loop calls proceed() after a      *)
(* handler only if it returns.                                             *)
EveryEventHandled ==
  \A n \in 1..MaxNotifications : Len(notified) >= n ~> Len(handled) >= n

(* Every event notified is handled, even one notified in the instant       *)
(* between the last handler's return and the clearing of `processing', if  *)
(* no handler throws before it.                                            *)
HandledUnlessThrown ==
  \A n \in 1..MaxNotifications :
    Len(notified) >= n ~> Len(handled) >= n \/ Failed
=============================================================================
