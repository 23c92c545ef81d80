------------------------- MODULE StateMachineProofs -------------------------
(***************************************************************************)
(* Proofs about the event loop, for every set of events and of io_service  *)
(* threads: the inductive invariant IInv, the invariants it implies, and   *)
(* that StateMachine implements SerialExecutor.                            *)
(***************************************************************************)
EXTENDS StateMachine, SequenceTheorems, TLAPS

-----------------------------------------------------------------------------
(* Sequences of events.  Appending to a concatenation appends to its       *)
(* second part.                                                            *)
LEMMA AppendToSecond ==
  ASSUME NEW s \in Seq(Events), NEW t \in Seq(Events), NEW e \in Events
  PROVE  Append(s \o t, e) = s \o Append(t, e)
<1>1. <<e>> \in Seq(Events)
  OBVIOUS
<1>2. /\ Append(s \o t, e) = (s \o t) \o <<e>>
      /\ Append(t, e) = t \o <<e>>
  BY ConcatProperties, AppendIsConcat
<1> QED
  BY <1>1, <1>2, ConcatAssociative

(* The head of the second part may be moved to the end of the first one.   *)
LEMMA MoveHead ==
  ASSUME NEW s \in Seq(Events), NEW t \in Seq(Events), t # <<>>
  PROVE  s \o t = Append(s, Head(t)) \o Tail(t)
<1>1. Head(t) \in Events /\ Tail(t) \in Seq(Events)
  BY HeadTailProperties
<1>2. <<Head(t)>> \in Seq(Events) /\ t = <<Head(t)>> \o Tail(t)
  BY <1>1, SMT
<1>3. Append(s, Head(t)) = s \o <<Head(t)>>
  BY <1>1, AppendIsConcat
<1> QED
  BY <1>1, <1>2, <1>3, ConcatAssociative

(* The head and the tail of a concatenation are those of its first part.   *)
LEMMA HeadTailOfConcat ==
  ASSUME NEW s \in Seq(Events), NEW t \in Seq(Events), s # <<>>
  PROVE  /\ s \o t # <<>>
         /\ Head(s \o t) = Head(s)
         /\ Tail(s \o t) = Tail(s) \o t
<1>1. /\ s \o t \in Seq(Events)
      /\ Len(s) \in Nat \ {0} /\ Len(t) \in Nat
      /\ Len(s \o t) = Len(s) + Len(t)
  BY ConcatProperties, EmptySeq, LenProperties
<1>2. s \o t # <<>>
  BY <1>1, EmptySeq
<1>3. Head(s \o t) = Head(s)
  BY <1>1, SMT
<1>4. Tail(s \o t) = Tail(s) \o t
  <2>1. /\ Tail(s) \in Seq(Events) /\ Len(Tail(s)) = Len(s) - 1
        /\ \A i \in 1 .. Len(Tail(s)) : Tail(s)[i] = s[i+1]
    BY HeadTailProperties
  <2>2. /\ Tail(s \o t) \in Seq(Events)
        /\ Len(Tail(s \o t)) = Len(s) + Len(t) - 1
        /\ \A i \in 1 .. Len(Tail(s \o t)) : Tail(s \o t)[i] = (s \o t)[i+1]
    BY <1>1, <1>2, HeadTailProperties
  <2>3. /\ Tail(s) \o t \in Seq(Events)
        /\ Len(Tail(s) \o t) = Len(s) - 1 + Len(t)
        /\ \A i \in 1 .. Len(s) - 1 + Len(t) : (Tail(s) \o t)[i] =
              IF i <= Len(s) - 1 THEN Tail(s)[i] ELSE t[i - (Len(s) - 1)]
    BY <2>1, ConcatProperties
  <2>4. \A i \in 1 .. Len(s) + Len(t) : (s \o t)[i] =
              IF i <= Len(s) THEN s[i] ELSE t[i - Len(s)]
    BY ConcatProperties
  <2>5. \A i \in 1 .. Len(s) + Len(t) - 1 :
            Tail(s \o t)[i] = (Tail(s) \o t)[i]
    BY <1>1, <2>1, <2>2, <2>3, <2>4
  <2> QED
    BY <1>1, <2>2, <2>3, <2>5, SeqEqual
<1> QED
  BY <1>2, <1>3, <1>4

-----------------------------------------------------------------------------
(* The loop of a new client satisfies the invariant.                       *)
LEMMA InitIInv == Init => IInv
<1> SUFFICES ASSUME Init PROVE IInv
  OBVIOUS
<1>1. TypeOK
  BY EmptySeq DEF Init, TypeOK, Phases
<1>2. OneTask
  BY EmptySeq, NoEventAssumption DEF Init, OneTask
<1>3. FirstComeFirstServed
  <2>1. <<>> \o <<>> \o <<>> = <<>>
    BY EmptySeq, ConcatEmptySeq
  <2> QED
    BY <2>1 DEF Init, FirstComeFirstServed
<1> QED
  BY <1>1, <1>2, <1>3 DEF IInv

(* What notifyEvent does to the tasks, whoever calls it.                   *)
LEMMA NotifyEventTasks ==
  ASSUME IInv, NEW e \in Events, NotifyEvent(e)
  PROVE  /\ queue' \in Seq(Events) /\ posted' \in Seq(Events)
         /\ notified' \in Seq(Events)
         /\ processing' = TRUE
         /\ Len(posted') <= 1
         /\ processing => posted' = posted
         /\ posted' \o queue' = Append(posted \o queue, e)
         /\ notified' = handled \o posted' \o queue'
<1>1. /\ queue \in Seq(Events) /\ posted \in Seq(Events)
      /\ handled \in Seq(Events) /\ notified \in Seq(Events)
      /\ processing \in BOOLEAN
      /\ handled \o posted \in Seq(Events)
  BY ConcatProperties DEF IInv, TypeOK
<1>2. /\ notified' = Append((handled \o posted) \o queue, e)
      /\ notified' \in Seq(Events)
  BY <1>1, AppendProperties DEF IInv, FirstComeFirstServed, NotifyEvent
<1>3. CASE processing
  <2>1. processing' = TRUE /\ posted' = posted /\ queue' = Append(queue, e)
    BY <1>3 DEF NotifyEvent
  <2>2. /\ notified' = (handled \o posted) \o queue'
        /\ posted' \o queue' = Append(posted \o queue, e)
    <3>1. Append((handled \o posted) \o queue, e)
            = (handled \o posted) \o Append(queue, e)
      BY <1>1, AppendToSecond
    <3>2. Append(posted \o queue, e) = posted \o Append(queue, e)
      BY <1>1, AppendToSecond
    <3> QED
      BY <1>2, <2>1, <3>1, <3>2
  <2>3. queue' \in Seq(Events)
    BY <1>1, <2>1, AppendProperties
  <2> QED
    BY <1>1, <1>2, <2>1, <2>2, <2>3 DEF IInv, OneTask
<1>4. CASE ~processing
  <2>1. /\ processing' = TRUE /\ queue = <<>> /\ posted = <<>>
        /\ posted' = Append(posted, e) /\ queue' = queue
    BY <1>4 DEF NotifyEvent, IInv, OneTask
  <2>2. posted' \in Seq(Events) /\ Len(posted') <= 1
    BY <1>1, <2>1, AppendProperties, EmptySeq
  <2>3. handled \o posted' = Append(handled \o posted, e)
    BY <1>1, <2>1, AppendToSecond
  <2>4. /\ notified' = (handled \o posted') \o queue'
        /\ posted' \o queue' = Append(posted \o queue, e)
    <3>1. handled \o posted' \in Seq(Events)
      BY <1>1, <2>2, ConcatProperties
    <3> QED
      BY <1>1, <1>2, <2>1, <2>2, <2>3, <3>1, ConcatEmptySeq
  <2> QED
    BY <1>1, <1>2, <1>4, <2>1, <2>2, <2>4
<1> QED
  BY <1>1, <1>3, <1>4

(* What proceed does to the tasks.                                         *)
LEMMA ProceedTasks ==
  ASSUME IInv, NEW t \in Threads, Proceed(t)
  PROVE  /\ queue' \in Seq(Events) /\ posted' \in Seq(Events)
         /\ processing' \in BOOLEAN
         /\ Len(posted') <= 1
         /\ ~processing' => queue' = <<>> /\ posted' = <<>>
         /\ processing' => posted' # <<>>
         /\ posted = <<>>
         /\ posted' \o queue' = posted \o queue
         /\ notified = handled \o posted' \o queue'
<1>1. /\ queue \in Seq(Events) /\ posted \in Seq(Events)
      /\ handled \in Seq(Events)
      /\ handled \o posted \in Seq(Events)
  BY ConcatProperties DEF IInv, TypeOK
<1>2. processing = TRUE /\ posted = <<>>
  BY DEF Proceed, IInv, OneTask, TypeOK
<1>3. notified = (handled \o posted) \o queue
  BY DEF IInv, FirstComeFirstServed
<1>4. CASE queue = <<>>
  <2>1. posted' = posted /\ queue' = queue /\ processing' = FALSE
    BY <1>4 DEF Proceed
  <2>2. Len(posted') <= 1
    BY <1>2, <2>1, EmptySeq
  <2> QED
    BY <1>1, <1>2, <1>3, <1>4, <2>1, <2>2
<1>5. CASE queue # <<>>
  <2>1. /\ posted' = Append(posted, Head(queue)) /\ queue' = Tail(queue)
        /\ processing' = processing
    BY <1>5 DEF Proceed
  <2>2. Head(queue) \in Events /\ Tail(queue) \in Seq(Events)
    BY <1>1, <1>5, HeadTailProperties
  <2>3. /\ posted' \in Seq(Events) /\ posted' # <<>> /\ Len(posted') = 1
    BY <1>1, <1>2, <2>1, <2>2, AppendProperties, EmptySeq
  <2>4. posted' \o queue' = posted \o queue
    BY <1>1, <1>5, <2>1, MoveHead
  <2>5. handled \o posted' = Append(handled \o posted, Head(queue))
    BY <1>1, <2>1, <2>2, AppendToSecond
  <2>6. notified = (handled \o posted') \o queue'
    <3>1. (handled \o posted) \o queue
            = Append(handled \o posted, Head(queue)) \o Tail(queue)
      BY <1>1, <1>5, MoveHead
    <3> QED
      BY <1>3, <2>1, <2>5, <3>1
  <2> QED
    <3>1. queue' \in Seq(Events) /\ processing' = TRUE /\ Len(posted') <= 1
      BY <1>2, <2>1, <2>2, <2>3
    <3> QED
      BY <1>2, <2>3, <2>4, <2>6, <3>1
<1> QED
  BY <1>4, <1>5

-----------------------------------------------------------------------------
(* Every step keeps the inductive invariant.                               *)
LEMMA StepIInv == IInv /\ [Next]_vars => IInv'
<1> SUFFICES ASSUME IInv, [Next]_vars PROVE IInv'
  OBVIOUS
<1> USE DEF IInv
<1>1. ASSUME NEW e \in Events, Notify(e) PROVE IInv'
  <2>1. NotifyEvent(e)
    BY <1>1 DEF Notify
  <2>2. TypeOK'
    BY <1>1, <2>1, NotifyEventTasks DEF TypeOK, Notify
  <2>3. OneTask'
    BY <1>1, <2>1, NotifyEventTasks DEF OneTask, Notify, TypeOK
  <2> QED
    BY <1>1, <2>1, <2>2, <2>3, NotifyEventTasks DEF FirstComeFirstServed, Notify
<1>2. ASSUME NEW t \in Threads, Run(t) PROVE IInv'
  <2>1. /\ Head(posted) \in Events /\ Tail(posted) \in Seq(Events)
        /\ Len(Tail(posted)) = Len(posted) - 1
        /\ Append(handled, Head(posted)) \in Seq(Events)
        /\ Len(posted) \in Nat /\ queue \in Seq(Events)
    BY <1>2, HeadTailProperties, AppendProperties, LenProperties
       DEF Run, TypeOK
  <2>2. posted' = <<>>
    BY <1>2, <2>1, EmptySeq DEF Run, OneTask
  <2>3. TypeOK'
    BY <1>2, <2>1 DEF Run, TypeOK, Phases
  <2>4. OneTask'
    <3>1. processing /\ \A u \in Threads : phase[u] = "idle"
      BY <1>2 DEF Run, OneTask
    <3> QED
      BY <1>2, <2>1, <2>2, <3>1, EmptySeq DEF Run, OneTask, TypeOK
  <2>5. FirstComeFirstServed'
    BY <1>2, MoveHead DEF Run, FirstComeFirstServed, TypeOK
  <2> QED
    BY <2>3, <2>4, <2>5
<1>3. ASSUME NEW t \in Threads, NEW e \in Events, NotifyInHandler(t, e)
      PROVE IInv'
  <2>1. NotifyEvent(e)
    BY <1>3 DEF NotifyInHandler
  <2>2. TypeOK'
    BY <1>3, <2>1, NotifyEventTasks DEF TypeOK, NotifyInHandler
  <2>3. OneTask'
    BY <1>3, <2>1, NotifyEventTasks DEF OneTask, NotifyInHandler, TypeOK
  <2> QED
    BY <1>3, <2>1, <2>2, <2>3, NotifyEventTasks
       DEF FirstComeFirstServed, NotifyInHandler
<1>4. ASSUME NEW t \in Threads, Defer(t) PROVE IInv'
  <2>1. current[t] \in Events
    BY <1>4 DEF Defer, OneTask
  <2>2. deferred' \in Seq(Events)
    BY <1>4, <2>1, AppendProperties DEF Defer, TypeOK
  <2> QED
    BY <1>4, <2>2 DEF Defer, TypeOK, OneTask, FirstComeFirstServed
<1>5. ASSUME NEW t \in Threads, Recall(t) PROVE IInv'
  <2> DEFINE e == Head(deferred)
  <2>1. e \in Events /\ deferred' \in Seq(Events)
    BY <1>5, HeadTailProperties DEF Recall, TypeOK
  <2>2. NotifyEvent(e)
    BY <1>5 DEF Recall
  <2> HIDE DEF e
  <2>3. TypeOK'
    BY <1>5, <2>1, <2>2, NotifyEventTasks DEF TypeOK, Recall
  <2>4. OneTask'
    BY <1>5, <2>1, <2>2, NotifyEventTasks DEF OneTask, Recall, TypeOK
  <2> QED
    BY <1>5, <2>1, <2>2, <2>3, <2>4, NotifyEventTasks
       DEF FirstComeFirstServed, Recall
<1>6. ASSUME NEW t \in Threads, Return(t) PROVE IInv'
  BY <1>6 DEF Return, TypeOK, OneTask, FirstComeFirstServed, Phases
<1>7. ASSUME NEW t \in Threads, Throw(t) PROVE IInv'
  BY <1>7, NoEventAssumption
     DEF Throw, TypeOK, OneTask, FirstComeFirstServed, Phases
<1>8. ASSUME NEW t \in Threads, Proceed(t) PROVE IInv'
  <2>1. TypeOK'
    BY <1>8, ProceedTasks DEF TypeOK, Proceed, Phases
  <2>2. OneTask'
    <3>1. \A u \in Threads : phase'[u] = "idle" /\ current'[u] \notin Events
      BY <1>8, NoEventAssumption DEF Proceed, OneTask, TypeOK
    <3> QED
      BY <1>8, <3>1, ProceedTasks DEF OneTask
  <2> QED
    BY <1>8, <2>1, <2>2, ProceedTasks DEF FirstComeFirstServed, Proceed
<1>9. CASE UNCHANGED vars
  BY <1>9 DEF vars, TypeOK, OneTask, FirstComeFirstServed
<1> QED
  BY <1>1, <1>2, <1>3, <1>4, <1>5, <1>6, <1>7, <1>8, <1>9 DEF Next

(* IInv is an invariant of the event loop (IStateMachine.hpp:45-63 and     *)
(* 125-138).                                                               *)
THEOREM Invariance == Spec => []IInv
BY InitIInv, StepIInv, PTL DEF Spec

(* Every variable keeps its type; the only event ever handled, queued or   *)
(* recalled is one that was notified.                                      *)
THEOREM TypeCorrectness == Spec => []TypeOK
<1>1. IInv => TypeOK
  BY DEF IInv
<1> QED
  BY <1>1, Invariance, PTL

(* No two handlers of a client overlap, on however many threads the        *)
(* io_service runs.                                                        *)
THEOREM SerialHandling == Spec => []Serial
<1>1. IInv => Serial
  BY DEF IInv, OneTask, Serial
<1> QED
  BY <1>1, Invariance, PTL

(* No event is lost, duplicated or overtaken between notifyEvent and its   *)
(* handler.                                                                *)
THEOREM Order == Spec => []FirstComeFirstServed
<1>1. IInv => FirstComeFirstServed
  BY DEF IInv
<1> QED
  BY <1>1, Invariance, PTL

-----------------------------------------------------------------------------
(* The refinement of SerialExecutor.                                       *)

(* The state of the executor when a thread is handling, and when none is.  *)
LEMMA WhileHandling ==
  ASSUME IInv, NEW t \in Threads, phase[t] = "handling"
  PROVE  /\ Handling = {t}
         /\ Running = current[t]
         /\ current[t] \in Events
         /\ Failed = FALSE
         /\ processing
         /\ posted = <<>>
<1>1. Handling = {t}
  BY DEF IInv, OneTask, Handling
<1>2. (CHOOSE u \in Handling : TRUE) = t
  BY <1>1
<1> QED
  BY <1>1, <1>2 DEF IInv, OneTask, Running, Failed

(* notifyEvent is a Submit of the executor.                                *)
LEMMA NotifyIsSubmit ==
  ASSUME IInv, NEW e \in Events, NotifyEvent(e), UNCHANGED <<phase, current>>
  PROVE  Executor!Submit(e)
<1>1. Pending' = Append(Pending, e)
  BY NotifyEventTasks DEF Pending
<1>2. Running' = Running
  BY DEF Running, Handling
<1>3. Failed' = Failed
  <2>1. CASE processing
    BY <2>1, NotifyEventTasks DEF Failed, IInv, TypeOK
  <2>2. CASE ~processing
    <3>1. posted' # <<>>
      BY <2>2, AppendProperties DEF NotifyEvent, IInv, TypeOK
    <3> QED
      BY <2>2, <3>1 DEF Failed
  <2> QED
    BY <2>1, <2>2
<1> QED
  BY <1>1, <1>2, <1>3 DEF Executor!Submit

(* A new client is a new executor.                                         *)
LEMMA InitMapsToInit == Init => Executor!Init
<1> SUFFICES ASSUME Init PROVE Executor!Init
  OBVIOUS
<1>1. Pending = <<>>
  BY EmptySeq, ConcatEmptySeq DEF Init, Pending
<1>2. Running = NoEvent
  BY DEF Init, Running, Handling
<1>3. Failed = FALSE
  BY DEF Init, Failed
<1> QED
  BY <1>1, <1>2, <1>3 DEF Executor!Init

(* Every step is a step of the executor or changes nothing in it.          *)
LEMMA StepMapsToStep ==
  IInv /\ IInv' /\ [Next]_vars => [Executor!Next]_(Executor!vars)
<1> SUFFICES ASSUME IInv, IInv', [Next]_vars
             PROVE  [Executor!Next]_(Executor!vars)
  OBVIOUS
<1> DEFINE Stutter == UNCHANGED <<Pending, Running, Failed>>
<1>1. ASSUME NEW e \in Events, Notify(e) PROVE Executor!Next
  BY <1>1, NotifyIsSubmit DEF Notify, Executor!Next
<1>2. ASSUME NEW t \in Threads, Run(t) PROVE Executor!Begin
  <2>1. /\ posted # <<>> /\ posted' = Tail(posted) /\ queue' = queue
        /\ phase[t] = "idle" /\ phase'[t] = "handling"
        /\ current'[t] = Head(posted)
    BY <1>2 DEF Run, IInv, TypeOK
  <2>2. Pending # <<>> /\ Head(posted) = Head(Pending) /\ Pending' = Tail(Pending)
    BY <2>1, HeadTailOfConcat DEF Pending, IInv, TypeOK
  <2>3. Running = NoEvent
    BY <2>1 DEF Running, Handling, IInv, OneTask
  <2>4. Running' = current'[t]
    <3>1. Handling' = {t}
      BY <2>1 DEF Handling, IInv, OneTask
    <3> QED
      BY <3>1 DEF Running
  <2>5. Failed = FALSE /\ Failed' = FALSE
    BY <2>1 DEF Failed
  <2> QED
    BY <2>1, <2>2, <2>3, <2>4, <2>5 DEF Executor!Begin
<1>3. ASSUME NEW t \in Threads, NEW e \in Events, NotifyInHandler(t, e)
      PROVE Executor!Next
  BY <1>3, NotifyIsSubmit DEF NotifyInHandler, Executor!Next
<1>4. ASSUME NEW t \in Threads, Defer(t) PROVE Stutter
  BY <1>4 DEF Defer, Pending, Running, Failed, Handling
<1>5. ASSUME NEW t \in Threads, Recall(t) PROVE Executor!Next
  <2>1. Head(deferred) \in Events
    BY <1>5, HeadTailProperties DEF Recall, IInv, TypeOK
  <2> QED
    BY <1>5, <2>1, NotifyIsSubmit DEF Recall, Executor!Next
<1>6. ASSUME NEW t \in Threads, Return(t) PROVE Executor!Finish
  <2>1. /\ Running = current[t] /\ current[t] \in Events
        /\ Failed = FALSE
    BY <1>6, WhileHandling DEF Return
  <2>2. Running' = NoEvent
    BY <1>6 DEF Return, Running, Handling, IInv, OneTask, TypeOK
  <2>3. Failed' = FALSE /\ Pending' = Pending
    BY <1>6 DEF Return, Failed, Pending, IInv, TypeOK
  <2> QED
    BY <2>1, <2>2, <2>3, NoEventAssumption DEF Executor!Finish
<1>7. ASSUME NEW t \in Threads, Throw(t) PROVE Executor!Fail
  <2>1. /\ Running = current[t] /\ current[t] \in Events
        /\ processing /\ posted = <<>>
    BY <1>7, WhileHandling DEF Throw
  <2>2. \A u \in Threads : phase'[u] = "idle"
    BY <1>7 DEF Throw, IInv, OneTask, TypeOK
  <2>3. Running' = NoEvent
    BY <2>2 DEF Running, Handling
  <2>4. Failed' = TRUE /\ Pending' = Pending
    BY <1>7, <2>1, <2>2 DEF Throw, Failed, Pending
  <2> QED
    BY <2>1, <2>3, <2>4, NoEventAssumption DEF Executor!Fail
<1>8. ASSUME NEW t \in Threads, Proceed(t) PROVE Stutter
  <2>1. /\ phase[t] = "proceeding" /\ phase'[t] = "idle"
        /\ \A u \in Threads : phase[u] # "handling" /\ phase'[u] # "handling"
    BY <1>8 DEF Proceed, IInv, OneTask, TypeOK
  <2>2. Running = NoEvent /\ Running' = NoEvent
    BY <2>1 DEF Running, Handling
  <2>3. ~Failed
    BY <2>1 DEF Failed
  <2>4. ~Failed'
    BY <1>8, ProceedTasks DEF Failed
  <2>5. Pending' = Pending
    BY <1>8, ProceedTasks DEF Pending
  <2> QED
    BY <2>2, <2>3, <2>4, <2>5 DEF Failed
<1>9. ASSUME UNCHANGED vars PROVE Stutter
  BY <1>9 DEF vars, Pending, Running, Failed, Handling
<1>10. Stutter => UNCHANGED Executor!vars
  BY DEF Executor!vars
<1> HIDE DEF Stutter
<1>11. \/ Executor!Begin \/ Executor!Finish \/ Executor!Fail => Executor!Next
  BY DEF Executor!Next
<1>12. CASE Next
  <2>1. CASE \E e \in Events : Notify(e)
    BY <1>1, <2>1
  <2>2. CASE \E t \in Threads : Run(t) \/ Return(t) \/ Throw(t)
    BY <1>2, <1>6, <1>7, <1>11, <2>2
  <2>3. CASE \E t \in Threads : Recall(t) \/ \E e \in Events : NotifyInHandler(t, e)
    BY <1>3, <1>5, <2>3
  <2>4. CASE \E t \in Threads : Defer(t) \/ Proceed(t)
    BY <1>4, <1>8, <1>10, <2>4
  <2> QED
    BY <1>12, <2>1, <2>2, <2>3, <2>4 DEF Next
<1> QED
  BY <1>9, <1>10, <1>12

(* The event loop of IStateMachine.hpp implements the serial executor.     *)
THEOREM Refinement == Spec => ImplementsExecutor
BY InitMapsToInit, StepMapsToStep, Invariance, PTL
   DEF Spec, ImplementsExecutor, Executor!Spec

=============================================================================
