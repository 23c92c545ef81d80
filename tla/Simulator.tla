----------------------------- MODULE Simulator -----------------------------
(***************************************************************************)
(* What the example programs have in common: ISimulator, which is the      *)
(* listener of a client and sends test messages on its channels from a     *)
(* thread of its own, and main, which runs the io_service until the        *)
(* simulator is done.                                                      *)
(*                                                                         *)
(* The thread holds channelsLock while it walks its channels.  onClosed    *)
(* waits for the lock; addChannels does not take it.                       *)
(***************************************************************************)
EXTENDS Naturals

VARIABLES known,    \* the simulator's channels
          walker,   \* its traffic thread
          left,     \* the channels the thread has still to send on
          done,     \* the simulator has ended its work
          main,     \* the thread of main and of the io_service
          crashed   \* std::terminate, or the outcome of undefined behaviour

simulator == <<known, walker, left, done, main, crashed>>

SimulatorTypeOK(ids) ==
  /\ known \subseteq ids /\ left \subseteq ids
  /\ walker \in {"none", "asleep", "walking", "ended"}
  /\ walker # "walking" => left = {}
  /\ done \in BOOLEAN /\ crashed \in BOOLEAN
  /\ main \in {"starting", "running", "spinning", "stuck", "leaving", "ended"}

SimulatorInit == /\ known = {}
                 /\ walker = "none" /\ left = {}
                 /\ done = FALSE
                 /\ crashed = FALSE

(* The io_service runs handlers.                                           *)
Running == main = "running" /\ ~crashed

-----------------------------------------------------------------------------
(* Defective variants, for checking that the properties of the programs    *)
(* can tell them from the code.                                            *)

\* Whether the map was empty is asked when it no longer is.
AddChannelsFirst(ids) ==
  /\ known' = known \cup ids
  /\ walker' = IF known' = {} THEN "asleep" ELSE walker
  /\ crashed' = FALSE
  /\ UNCHANGED <<left, done, main>>

\* The lock is not taken.
OnClosedUnlocked(ids) == /\ known' = known \ ids
                         /\ UNCHANGED <<walker, left, done, main, crashed>>

\* The thread does not end when there are no channels.
WakeAlways == /\ ~crashed
              /\ walker = "asleep"
              /\ known # {}
              /\ walker' = "walking" /\ left' = known
              /\ UNCHANGED <<known, done, main, crashed>>

-----------------------------------------------------------------------------
(* The events of the client.                                               *)

(* addChannels.  A std::thread that was started and never joined is not    *)
(* replaced without std::terminate; a map that is changed while it is      *)
(* walked is undefined behaviour.                                          *)
AddChannels(ids) ==
  LET wasEmpty == known = {}
  IN  /\ known' = known \cup ids
      /\ walker' = IF wasEmpty THEN "asleep" ELSE walker
      /\ crashed' \in IF wasEmpty /\ walker # "none" THEN {TRUE}
                      ELSE IF walker = "walking" /\ ids # {} THEN BOOLEAN
                      ELSE {FALSE}
      /\ UNCHANGED <<left, done, main>>

(* onClosed, for each channel that is closed.                              *)
OnClosed(ids) == /\ ids # {} => walker # "walking"
                 /\ known' = known \ ids
                 /\ UNCHANGED <<walker, left, done, main, crashed>>

(* ERROR or RELEASED.                                                      *)
Done == /\ done' = TRUE
        /\ UNCHANGED <<known, walker, left, main, crashed>>

-----------------------------------------------------------------------------
(* The traffic thread, which sleeps before it looks at the channels.       *)
Wake == /\ ~crashed
        /\ walker = "asleep"
        /\ walker' = IF known = {} THEN "ended" ELSE "walking"
        /\ left' = known
        /\ UNCHANGED <<known, done, main, crashed>>

SendNext == \E c \in left :
  /\ ~crashed
  /\ left' = left \ {c}
  /\ walker' = IF left' = {} THEN "asleep" ELSE walker
  /\ UNCHANGED <<known, done, main, crashed>>

-----------------------------------------------------------------------------
(* main.  When run() has returned or thrown and the simulator is done, the *)
(* client is destroyed; the simulator's destructor waits for its thread.   *)
MainIs(m) == /\ main' = m
             /\ UNCHANGED <<known, walker, left, done, crashed>>

Leave == Running /\ done /\ MainIs("leaving")

Join == /\ ~crashed
        /\ main = "leaving"
        /\ walker \in {"none", "ended"}
        /\ MainIs("ended")

(* Closing the connection throws or does not return.  The poller is gone:  *)
(* without work the io_service stops, and run() returns at once, for ever. *)
ClosingFails == \/ MainIs(IF done THEN "leaving" ELSE "spinning")
                \/ MainIs("stuck")

ThreadStep == Wake \/ SendNext
=============================================================================
