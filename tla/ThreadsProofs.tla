---------------------------- MODULE ThreadsProofs -----------------------------
(***************************************************************************)
(* Proofs about the components of MCThreads.  SessionEvents, for any       *)
(* bounds on messages and wake tasks: the listeners hear what the flag     *)
(* says, a suspended desk will be woken, and no gap callback outlives the  *)
(* exit's join.  ForegroundWatcher, for any windows, programs and threads: *)
(* no change is lost, and no poll thread runs that nobody joins.  At the   *)
(* end, that side by side the components behave as each does alone.        *)
(***************************************************************************)
EXTENDS MCThreads, PresenceClientProofs

EventOf(m) == IF ToSuspended(m) THEN "LockOrSleep" ELSE "UnlockOrResume"

(* The last event sent, and the alternation along the channel.             *)
LastEvent == IF queue = <<>> THEN told ELSE queue[Len(queue)]

QueueAlternates ==
  /\ queue # <<>> => queue[1] # told
  /\ \A i \in 1..(Len(queue) - 1) : queue[i] # queue[i + 1]

FlagInv == QueueAlternates /\ (suspended <=> LastEvent = "LockOrSleep")

(* A shutdown in progress has left the desk off and keeps it so.           *)
StoppingIsOff == stopping # "no" => lifecycle = "Off"

JoinedIsGone ==
  phase \in {"shutdown", "clearing", "closing", "draining", "down"} => detector = "none"

SessionInv ==
  SessionTypeOK /\ FlagInv /\ StoppingIsOff /\ SuspendedIsWoken /\ JoinedIsGone

-----------------------------------------------------------------------------
(* Sequences of events. *)

LEMMA AppendIs ==
  ASSUME NEW S, NEW s \in Seq(S), NEW e \in S
  PROVE  /\ Append(s, e) \in Seq(S) /\ Append(s, e) # <<>>
         /\ Len(Append(s, e)) = Len(s) + 1
         /\ \A i \in 1..Len(s) : Append(s, e)[i] = s[i]
         /\ Append(s, e)[Len(s) + 1] = e
OBVIOUS

LEMMA TailIs ==
  ASSUME NEW S, NEW s \in Seq(S), s # <<>>
  PROVE  /\ Head(s) = s[1] /\ Head(s) \in S
         /\ Tail(s) \in Seq(S) /\ Len(Tail(s)) = Len(s) - 1 /\ Len(s) > 0
         /\ Tail(s) = <<>> <=> Len(s) = 1
         /\ \A i \in 1..(Len(s) - 1) : Tail(s)[i] = s[i + 1]
<1>1. Len(s) \in Nat /\ Len(s) > 0
  OBVIOUS
<1>2. Head(s) = s[1] /\ Head(s) \in S
  BY <1>1
<1>3. Tail(s) \in Seq(S) /\ Len(Tail(s)) = Len(s) - 1
  BY <1>1
<1>4. \A i \in 1..(Len(s) - 1) : Tail(s)[i] = s[i + 1]
  BY <1>1, <1>3
<1>5. \A t \in Seq(S) : t = <<>> <=> Len(t) = 0
  OBVIOUS
<1> QED BY <1>1, <1>2, <1>3, <1>4, <1>5

(* The channel after a send and after a receive.                           *)
LEMMA SendAlternates ==
  ASSUME SessionTypeOK, FlagInv, NEW e \in Events, e # LastEvent,
         queue' = Append(queue, e), told' = told, suspended' = (e = "LockOrSleep")
  PROVE  FlagInv' /\ LastEvent' = e
<1>1. queue \in Seq(Events) /\ told \in Events
  BY DEF SessionTypeOK
<1>2. LastEvent' = e
  BY <1>1, AppendIs DEF LastEvent
<1>3. QueueAlternates'
  BY <1>1, AppendIs DEF FlagInv, QueueAlternates, LastEvent
<1> QED BY <1>2, <1>3 DEF FlagInv

LEMMA ReceiveAlternates ==
  ASSUME SessionTypeOK, FlagInv, queue # <<>>,
         queue' = Tail(queue), told' = Head(queue), suspended' = suspended
  PROVE  FlagInv' /\ LastEvent' = LastEvent
<1>1. queue \in Seq(Events)
  BY DEF SessionTypeOK
<1>2. LastEvent' = LastEvent
  BY <1>1, TailIs DEF LastEvent
<1>3. QueueAlternates'
  BY <1>1, TailIs DEF FlagInv, QueueAlternates
<1> QED BY <1>2, <1>3 DEF FlagInv

-----------------------------------------------------------------------------

LEMMA SessionInitHolds == SessionInit => SessionInv
<1> SUFFICES ASSUME SessionInit PROVE SessionInv
  OBVIOUS
<1>1. messages \in Seq(Messages) /\ Len(messages) = 0 /\ queue \in Seq(Events) /\ Len(queue) = 0
  BY DEF SessionInit
<1>2. SessionTypeOK
  <2>1. 0 <= MaxMessages /\ 0 \in 0..MaxWakes
    BY SessionAssumption DEF SessionAssumption
  <2>2. "UnlockOrResume" \in Events /\ "events" \in Phases
    BY DEF Events, Phases
  <2> QED BY <1>1, <2>1, <2>2 DEF SessionInit, SessionTypeOK
<1>3. FlagInv
  BY <1>1 DEF SessionInit, FlagInv, QueueAlternates, LastEvent
<1>4. StoppingIsOff /\ SuspendedIsWoken /\ JoinedIsGone
  BY DEF SessionInit, StoppingIsOff, SuspendedIsWoken, JoinedIsGone
<1> QED BY <1>2, <1>3, <1>4 DEF SessionInv

LEMMA WindowProcHolds ==
  ASSUME SessionInv, WindowProc PROVE SessionInv'
<1>1. messages \in Seq(Messages) /\ messages # <<>> /\ queue \in Seq(Events)
      /\ Len(messages) \in Nat /\ Len(messages) <= MaxMessages
  BY DEF SessionInv, SessionTypeOK, WindowProc
<1>2. messages' \in Seq(Messages) /\ Len(messages') <= MaxMessages /\ Head(messages) \in Messages
  BY <1>1, TailIs, SessionAssumption DEF SessionAssumption, WindowProc
<1>3. CASE Fires(Head(messages))
  <2> DEFINE e == EventOf(Head(messages))
  <2>1. e \in Events /\ queue' = Append(queue, e) /\ told' = told
        /\ suspended' = ToSuspended(Head(messages)) /\ Len(queue) < MaxMessages
    BY <1>3 DEF WindowProc, EventOf, Events
  <2>2. (e = "LockOrSleep") = ToSuspended(Head(messages))
    BY DEF EventOf, ToSuspended
  <2>3. e # LastEvent
    BY <1>3 DEF Fires, EventOf, SessionInv, FlagInv, ToSuspended, SessionTypeOK
  <2>4. FlagInv' /\ LastEvent' = e
    BY <2>1, <2>2, <2>3, SendAlternates DEF SessionInv
  <2>5. queue' \in Seq(Events) /\ Len(queue') <= MaxMessages /\ queue' # <<>>
    BY <1>1, <2>1, AppendIs, SessionAssumption DEF SessionAssumption
  <2>6. SuspendedIsWoken'
    BY <2>1, <2>2, <2>4, <2>5 DEF SuspendedIsWoken, LastEvent, EventOf
  <2>7. SessionTypeOK'
    BY <1>2, <2>1, <2>5 DEF WindowProc, SessionInv, SessionTypeOK, ToSuspended, os, sampler, desk
  <2> QED
    BY <2>4, <2>6, <2>7 DEF WindowProc, SessionInv, StoppingIsOff, JoinedIsGone, sampler, desk
<1>4. CASE ~Fires(Head(messages))
  <2>1. UNCHANGED <<suspended, queue, os, window, told, sampler, desk, phase>>
    BY <1>4 DEF WindowProc
  <2>2. SessionTypeOK'
    BY <1>2, <2>1 DEF SessionInv, SessionTypeOK, os, sampler, desk
  <2> QED
    BY <2>1, <2>2
       DEF SessionInv, FlagInv, QueueAlternates, LastEvent, StoppingIsOff, SuspendedIsWoken,
           JoinedIsGone, sampler, desk
<1> QED BY <1>3, <1>4

LEMMA DispatchHolds ==
  ASSUME SessionInv, Dispatch PROVE SessionInv'
<1>1. queue \in Seq(Events) /\ queue # <<>> /\ Len(queue) \in Nat /\ Len(queue) <= MaxMessages
  BY DEF SessionInv, SessionTypeOK, Dispatch
<1>2. queue' = Tail(queue) /\ told' = Head(queue) /\ suspended' = suspended
      /\ stopping' = stopping
      /\ UNCHANGED <<os, messages, window, sampler, phase>>
  BY DEF Dispatch
<1>3. FlagInv' /\ LastEvent' = LastEvent
  BY <1>1, <1>2, ReceiveAlternates DEF SessionInv
<1>4. queue' \in Seq(Events) /\ told' \in Events /\ Len(queue') <= MaxMessages
  BY <1>1, <1>2, TailIs, SessionAssumption DEF SessionAssumption
<1>5. CASE Head(queue) = "LockOrSleep"
  <2>1. HandleSleepOrLock
    BY <1>5 DEF Dispatch
  <2>2. SessionTypeOK'
    <3>1. lifecycle' \in {"Off", "Connecting", "Live", "Waiting", "Suspended"} /\ lapsed' \in BOOLEAN
          /\ wakes' = wakes
      BY <2>1 DEF HandleSleepOrLock, BeginLifecycle, SessionInv, SessionTypeOK
    <3> QED BY <1>2, <1>4, <3>1 DEF SessionInv, SessionTypeOK, os, sampler
  <2>3. StoppingIsOff'
    BY <1>2, <2>1 DEF HandleSleepOrLock, BeginLifecycle, SessionInv, StoppingIsOff
  <2>4. LastEvent' \in Events
    BY <1>1, <1>3, TailIs DEF LastEvent
  <2>5. SuspendedIsWoken'
    BY <1>2, <1>3, <1>4, <1>5, <2>4 DEF SuspendedIsWoken, LastEvent, FlagInv, Events
  <2> QED BY <1>2, <1>3, <2>2, <2>3, <2>5 DEF SessionInv, JoinedIsGone, sampler
<1>6. CASE Head(queue) # "LockOrSleep"
  <2>1. HandleWakeOrUnlock
    BY <1>6 DEF Dispatch
  <2>2. SessionTypeOK'
    BY <1>2, <1>4, <2>1, SessionAssumption
       DEF SessionAssumption, HandleWakeOrUnlock, SessionInv, SessionTypeOK, os, sampler
  <2>3. StoppingIsOff'
    BY <1>2, <2>1 DEF HandleWakeOrUnlock, SessionInv, StoppingIsOff
  <2>4. SuspendedIsWoken'
    BY <2>1 DEF HandleWakeOrUnlock, SuspendedIsWoken, SessionInv, SessionTypeOK
  <2> QED BY <1>2, <1>3, <2>2, <2>3, <2>4 DEF SessionInv, JoinedIsGone, sampler
<1> QED BY <1>5, <1>6

(* What the machine does only touches messages and the clock.              *)
LEMMA WindowsHolds ==
  ASSUME SessionInv, Windows PROVE SessionInv'
<1>1. \A m \in Messages : Post(m) => messages' \in Seq(Messages) /\ Len(messages') <= MaxMessages
  <2> SUFFICES ASSUME NEW m \in Messages, Post(m)
               PROVE  messages' \in Seq(Messages) /\ Len(messages') <= MaxMessages
    OBVIOUS
  <2>1. messages \in Seq(Messages) /\ Len(messages) \in Nat /\ Len(messages) <= MaxMessages
    BY DEF SessionInv, SessionTypeOK
  <2>2. Append(messages, m) \in Seq(Messages) /\ Len(Append(messages, m)) = Len(messages) + 1
    BY <2>1, AppendIs
  <2> QED BY <2>1, <2>2, SessionAssumption DEF SessionAssumption, Post
<1>2. messages' \in Seq(Messages) /\ Len(messages') <= MaxMessages
  BY <1>1
     DEF Windows, Lock, Unlock, Sleep, Wake, ClockSteps, Messages, SessionInv, SessionTypeOK, source
<1>3. /\ locked' \in BOOLEAN /\ asleep' \in BOOLEAN /\ clock_gap' \in BOOLEAN /\ lapsed' \in BOOLEAN
      /\ UNCHANGED <<window, suspended, queue, told, detector, running, lifecycle, stopping, wakes,
                     phase>>
  BY DEF Windows, Lock, Unlock, Sleep, Wake, ClockSteps, SessionInv, SessionTypeOK, os, source,
         sampler, desk
<1>4. SessionTypeOK'
  BY <1>2, <1>3 DEF SessionInv, SessionTypeOK
<1> QED
  BY <1>3, <1>4
     DEF SessionInv, FlagInv, QueueAlternates, LastEvent, StoppingIsOff, SuspendedIsWoken, JoinedIsGone

(* The part of the type that the other threads move.                       *)
OwnTypeOK ==
  /\ window \in {"none", "pumping", "gone"}
  /\ detector \in {"none", "waiting", "callback", "starting"}
  /\ running \in BOOLEAN /\ clock_gap \in BOOLEAN
  /\ lifecycle \in {"Off", "Connecting", "Live", "Waiting", "Suspended"}
  /\ stopping \in {"no", "pause", "exit"}
  /\ wakes \in 0..MaxWakes
  /\ lapsed \in BOOLEAN
  /\ phase \in Phases

LEMMA OwnTyped == ASSUME SessionTypeOK PROVE OwnTypeOK
BY DEF SessionTypeOK, OwnTypeOK

(* The other threads leave the source alone, and suspend nothing.          *)
LEMMA OthersHold ==
  ASSUME SessionInv, SamplingThread \/ DeskSteps \/ Boot \/ StopDetector \/ JoinDetector
                     \/ ShutdownDesk \/ ShutdownDeskReturns \/ Exit \/ BudgetExpires
  PROVE  SessionInv'
<1>1. UNCHANGED <<locked, asleep, messages, suspended, queue, told>>
  BY DEF SamplingThread, Sample, CallbackReads, CallbackStarts, SampleEnds, DeskSteps, WakeTask,
         Negotiated, Renegotiates, ConsentStarts, Pause, PauseReturns, Boot, StartEvents,
         StartDetector, StartService, StopDetector, JoinDetector, ShutdownDesk, ShutdownDeskReturns,
         Exit, BudgetExpires, os, source
<1>2. FlagInv'
  BY <1>1 DEF SessionInv, FlagInv, QueueAlternates, LastEvent
<1>3. OwnTypeOK' /\ StoppingIsOff' /\ SuspendedIsWoken' /\ JoinedIsGone'
  <2> USE <1>1, OwnTyped, SessionAssumption
      DEF SessionAssumption, SessionInv, OwnTypeOK, StoppingIsOff, SuspendedIsWoken, JoinedIsGone
  <2>1. CASE SamplingThread
    BY <2>1
       DEF SamplingThread, Sample, CallbackReads, CallbackStarts, SampleEnds, StartDesk,
           BeginLifecycle, source, sampler, desk
  <2>2. CASE WakeTask
    <3>1. wakes' \in 0..MaxWakes
      BY <2>2 DEF WakeTask
    <3>2. lifecycle' \in {"Off", "Connecting", "Live", "Waiting"} /\ lapsed' \in BOOLEAN
          /\ (stopping # "no" => lifecycle' = "Off")
      BY <2>2 DEF WakeTask, StartDesk, BeginLifecycle
    <3>3. UNCHANGED <<window, detector, running, clock_gap, stopping, phase>>
      BY <2>2 DEF WakeTask, source, sampler
    <3> QED BY <3>1, <3>2, <3>3
  <2>3. CASE Negotiated \/ Renegotiates \/ ConsentStarts
    BY <2>3
       DEF Negotiated, Renegotiates, ConsentStarts, StartDesk, BeginLifecycle, source, sampler
  <2>4. CASE Pause \/ PauseReturns
    BY <2>4 DEF Pause, PauseReturns, BeginLifecycle, source, sampler
  <2>5. CASE Boot
    <3>1. CASE StartEvents
      BY <3>1 DEF StartEvents, Main, sampler, desk, Phases
    <3>2. CASE StartDetector
      <4>1. /\ detector' = "waiting" /\ running' \in BOOLEAN /\ clock_gap' \in BOOLEAN
            /\ phase' = "service" /\ UNCHANGED <<window, lifecycle, stopping, wakes, lapsed>>
        BY <3>2 DEF StartDetector, Main, source, desk
      <4> QED BY <4>1 DEF Phases
    <3>3. CASE StartService
      <4>1. phase' = "up" /\ UNCHANGED <<window, detector, running, clock_gap, stopping, wakes>>
        BY <3>3 DEF StartService, Main, source, sampler
      <4>2. lifecycle' = lifecycle \/ (lifecycle' = "Connecting" /\ stopping = "no")
        BY <3>3, Zenon DEF StartService, StartDesk, BeginLifecycle
      <4>3. lapsed' = lapsed \/ lapsed' = FALSE
        BY <3>3, Zenon DEF StartService, StartDesk, BeginLifecycle
      <4> QED BY <4>1, <4>2, <4>3 DEF Phases
    <3> QED BY <2>5, <3>1, <3>2, <3>3 DEF Boot
  <2>6. CASE StopDetector \/ JoinDetector
    <3>1. CASE StopDetector
      <4>1. /\ running' = FALSE /\ phase' = "joining"
            /\ UNCHANGED <<window, detector, clock_gap, lifecycle, stopping, wakes, lapsed>>
        BY <3>1 DEF StopDetector, Main, source, desk
      <4> QED BY <4>1 DEF Phases
    <3>2. CASE JoinDetector
      <4>1. /\ detector = "none" /\ phase' = "shutdown"
            /\ UNCHANGED <<window, detector, running, clock_gap, lifecycle, stopping, wakes, lapsed>>
        BY <3>2 DEF JoinDetector, Main, source, sampler, desk
      <4> QED BY <4>1 DEF Phases
    <3> QED BY <2>6, <3>1, <3>2
  <2>7. CASE ShutdownDesk
    BY <2>7 DEF ShutdownDesk, Main, BeginLifecycle, source, sampler, desk, Phases
  <2>8. CASE ShutdownDeskReturns \/ Exit \/ BudgetExpires
    BY <2>8 DEF ShutdownDeskReturns, Exit, BudgetExpires, Main, source, sampler, desk, Phases
  <2> QED BY <2>1, <2>2, <2>3, <2>4, <2>5, <2>6, <2>7, <2>8 DEF DeskSteps
<1>4. SessionTypeOK'
  BY <1>1, <1>3 DEF OwnTypeOK, SessionInv, SessionTypeOK
<1> QED BY <1>2, <1>3, <1>4 DEF SessionInv

LEMMA CloseWindowHolds ==
  ASSUME SessionInv, CloseWindow PROVE SessionInv'
BY SessionAssumption
   DEF SessionAssumption, SessionInv, SessionTypeOK, FlagInv, QueueAlternates, LastEvent,
       StoppingIsOff, SuspendedIsWoken, JoinedIsGone, CloseWindow, Main, Messages, Phases, os,
       sampler, desk

LEMMA SessionStep == SessionInv /\ [SessionNext]_session_vars => SessionInv'
<1> SUFFICES ASSUME SessionInv, [SessionNext]_session_vars PROVE SessionInv'
  OBVIOUS
<1>1. CASE UNCHANGED session_vars
  BY <1>1
     DEF session_vars, os, source, sampler, desk, SessionInv, SessionTypeOK, FlagInv,
         QueueAlternates, LastEvent, StoppingIsOff, SuspendedIsWoken, JoinedIsGone
<1> QED
  BY <1>1, WindowsHolds, WindowProcHolds, DispatchHolds, OthersHold, CloseWindowHolds
     DEF SessionNext, MainThread, ExitBegun

LEMMA SessionInvHolds == SessionSpec => []SessionInv
BY SessionInitHolds, SessionStep, PTL DEF SessionSpec

-----------------------------------------------------------------------------

(* The state of the event source, the detector, the desk and the main      *)
(* thread keeps its types.                                                 *)
THEOREM SessionTypeCorrect == SessionSpec => []SessionTypeOK
<1>1. SessionInv => SessionTypeOK
  BY DEF SessionInv
<1> QED BY <1>1, SessionInvHolds, PTL

(* Between the flag of the window thread and the listeners nothing is      *)
(* dropped, doubled or reordered.                                          *)
THEOREM FlagIsToldHolds == SessionSpec => []FlagIsTold
<1>1. SessionInv => FlagIsTold
  <2> SUFFICES ASSUME SessionInv PROVE FlagIsTold
    OBVIOUS
  <2> DEFINE events == <<told>> \o queue
  <2>1. queue \in Seq(Events) /\ told \in Events
    BY DEF SessionInv, SessionTypeOK
  <2>2. Len(events) = Len(queue) + 1 /\ events[1] = told
        /\ \A i \in 1..Len(queue) : events[i + 1] = queue[i]
    BY <2>1
  <2>3. \A i \in 1..Len(queue) : events[i] # events[i + 1]
    BY <2>1, <2>2 DEF SessionInv, FlagInv, QueueAlternates
  <2>4. events[Len(events)] = LastEvent
    BY <2>1, <2>2 DEF LastEvent
  <2> QED BY <2>3, <2>4 DEF FlagIsTold, SessionInv, FlagInv
<1> QED BY <1>1, SessionInvHolds, PTL

(* No desk is left suspended: a later unlock or resume will fire, or the   *)
(* wake is under way.                                                      *)
THEOREM SuspendedIsWokenHolds == SessionSpec => []SuspendedIsWoken
<1>1. SessionInv => SuspendedIsWoken
  BY DEF SessionInv
<1> QED BY <1>1, SessionInvHolds, PTL

(* No gap callback runs once the exit shuts the desk down.                 *)
THEOREM DetectorIsGoneHolds == SessionSpec => []DetectorIsGone
<1>1. SessionInv => DetectorIsGone
  BY DEF SessionInv, JoinedIsGone, DetectorIsGone
<1> QED BY <1>1, SessionInvHolds, PTL

-----------------------------------------------------------------------------
(* The coordinator of this module is the desk that Coordinator implements.  *)

AsDesk == Desk!Next \/ UNCHANGED Desk!desk

LEMMA SameDesk == UNCHANGED <<lifecycle, stopping>> => AsDesk
BY DEF AsDesk, Desk!desk

LEMMA StartMovesDesk == StartDesk /\ UNCHANGED stopping => AsDesk
<1> SUFFICES ASSUME StartDesk, UNCHANGED stopping PROVE AsDesk
  OBVIOUS
<1>1. CASE stopping # "no"
  BY <1>1, SameDesk DEF StartDesk
<1>2. CASE stopping = "no"
  BY <1>2
     DEF StartDesk, BeginLifecycle, AsDesk, Desk!Next, Desk!Asked, Desk!Start, Desk!Becomes
<1> QED BY <1>1, <1>2

(* Commands and the exit begin a shutdown and end it.                       *)
LEMMA ShutdownMovesDesk ==
  ASSUME SessionTypeOK, Pause \/ PauseReturns \/ ShutdownDesk \/ ShutdownDeskReturns
  PROVE  AsDesk
<1>1. ASSUME stopping = "no", stopping' \in {"pause", "exit"}, BeginLifecycle("Off")
      PROVE  AsDesk
  BY <1>1 DEF BeginLifecycle, AsDesk, Desk!Next, Desk!Asked, Desk!Shutdown
<1>2. ASSUME stopping' = "no", UNCHANGED lifecycle PROVE AsDesk
  <2>1. CASE stopping = "no"
    BY <1>2, <2>1, SameDesk
  <2>2. CASE stopping # "no"
    BY <1>2, <2>2 DEF AsDesk, Desk!Next, Desk!Asked, Desk!ShutdownReturns
  <2> QED BY <2>1, <2>2
<1>3. CASE ShutdownDesk
  <2>1. CASE stopping # "no"
    BY <1>3, <2>1, SameDesk DEF ShutdownDesk
  <2>2. CASE stopping = "no"
    BY <1>1, <1>3, <2>2 DEF ShutdownDesk
  <2> QED BY <2>1, <2>2
<1>4. CASE Pause
  BY <1>1, <1>4 DEF Pause
<1>5. CASE PauseReturns \/ ShutdownDeskReturns
  BY <1>2, <1>5 DEF PauseReturns, ShutdownDeskReturns
<1> QED BY <1>3, <1>4, <1>5

LEMMA ListenersMoveDesk == ASSUME SessionInv, Dispatch PROVE AsDesk
<1>1. UNCHANGED stopping
  BY DEF Dispatch
<1>2. CASE HandleSleepOrLock
  <2>1. CASE lifecycle = "Suspended" \/ stopping # "no"
    BY <1>1, <1>2, <2>1, SameDesk DEF HandleSleepOrLock
  <2>2. CASE ~(lifecycle = "Suspended" \/ stopping # "no")
    BY <1>1, <1>2, <2>2
       DEF HandleSleepOrLock, BeginLifecycle, AsDesk, Desk!Next, Desk!Asked, Desk!Suspend,
           Desk!Becomes
  <2> QED BY <2>1, <2>2
<1>3. CASE HandleWakeOrUnlock
  BY <1>1, <1>3, SameDesk DEF HandleWakeOrUnlock
<1> QED BY <1>2, <1>3 DEF Dispatch

LEMMA UnaskedMovesDesk ==
  ASSUME SessionInv, Negotiated \/ Renegotiates
  PROVE  (Desk!Unasked \/ UNCHANGED lifecycle) /\ AsDesk
<1>1. stopping = "no" /\ UNCHANGED stopping
  BY DEF Negotiated, Renegotiates, SessionInv, StoppingIsOff
<1>2. CASE Negotiated
  BY <1>1, <1>2
     DEF Negotiated, AsDesk, Desk!Next, Desk!Unasked, Desk!Negotiated, Desk!Becomes
<1>3. CASE Renegotiates
  BY <1>1, <1>3
     DEF Renegotiates, BeginLifecycle, AsDesk, Desk!Next, Desk!Unasked, Desk!Retry, Desk!Becomes
<1> QED BY <1>2, <1>3

LEMMA SessionMovesDesk == ASSUME SessionInv, [SessionNext]_session_vars PROVE AsDesk
<1>1. CASE Windows \/ WindowProc
  <2>1. UNCHANGED <<lifecycle, stopping>>
    BY <1>1 DEF Windows, Lock, Unlock, Sleep, Wake, ClockSteps, WindowProc, desk
  <2> QED BY <2>1, SameDesk
<1>2. CASE Dispatch
  BY <1>2, ListenersMoveDesk
<1>3. CASE SamplingThread
  <2>1. CASE CallbackStarts
    BY <2>1, StartMovesDesk DEF CallbackStarts
  <2>2. CASE Sample \/ CallbackReads \/ SampleEnds
    BY <2>2, SameDesk DEF Sample, CallbackReads, SampleEnds, desk
  <2> QED BY <1>3, <2>1, <2>2 DEF SamplingThread
<1>5. CASE WakeTask
  <2>1. CASE lifecycle # "Suspended"
    BY <1>5, <2>1, SameDesk DEF WakeTask
  <2>2. CASE lifecycle = "Suspended"
    BY <1>5, <2>2, StartMovesDesk DEF WakeTask
  <2> QED BY <2>1, <2>2
<1>6. CASE Negotiated \/ Renegotiates
  BY <1>6, UnaskedMovesDesk
<1>7. CASE ConsentStarts
  BY <1>7, StartMovesDesk DEF ConsentStarts
<1>8. CASE Pause \/ PauseReturns \/ ShutdownDesk \/ ShutdownDeskReturns
  BY <1>8, ShutdownMovesDesk DEF SessionInv
<1>9. CASE StartService
  BY <1>9, StartMovesDesk, SameDesk DEF StartService
<1>10. CASE StartEvents \/ StartDetector \/ StopDetector \/ JoinDetector \/ CloseWindow \/ Exit
            \/ BudgetExpires
  <2>1. UNCHANGED <<lifecycle, stopping>>
    BY <1>10
       DEF StartEvents, StartDetector, StopDetector, JoinDetector, CloseWindow, Exit,
           BudgetExpires, desk
  <2> QED BY <2>1, SameDesk
<1>11. CASE UNCHANGED session_vars
  BY <1>11, SameDesk DEF session_vars, desk
<1> QED
  BY <1>1, <1>2, <1>3, <1>5, <1>6, <1>7, <1>8, <1>9, <1>10, <1>11
     DEF SessionNext, DeskSteps, MainThread, Boot, ExitBegun

(* Through any messages, sleeps, callbacks, commands and exits, the desk    *)
(* moves as Coordinator lets it.                                            *)
THEOREM MovesAsDeskHolds == SessionSpec => MovesAsDesk
<1>1. SessionInit => Desk!Init
  BY DEF SessionInit, Desk!Init
<1>2. SessionInv /\ [SessionNext]_session_vars => [Desk!Next]_(Desk!desk)
  BY SessionMovesDesk DEF AsDesk
<1>3. SessionInv /\ [SessionNext]_session_vars =>
        [Negotiated \/ Renegotiates => Desk!Unasked \/ UNCHANGED lifecycle]_session_vars
  BY UnaskedMovesDesk
<1> QED BY <1>1, <1>2, <1>3, SessionInvHolds, PTL DEF SessionSpec, MovesAsDesk, Desk!Spec

-----------------------------------------------------------------------------
(* The foreground watcher. *)

(* A change that the listeners have not heard of has a debounce thread     *)
(* that will tell it, or is being told; and what waits is the last change. *)
ChangeIsPending ==
  /\ last_key # Unset => heard \/ last_key \in timers \cup delivering
  /\ timers \subseteq {last_key}

(* Every poll thread is one that a stop joins or will join, the watcher    *)
(* polls in the thread of the last start, and a thread is joined once.     *)
ThreadsAreJoined ==
  /\ \A l \in Loops : loop[l] # "none" => l \in {join, stop_call.thread}
  /\ polling => join = epoch /\ join # Idle
  /\ ~polling => join = Idle
  /\ stop_call.pc = "none" => stop_call.thread = Idle
  /\ stop_call.thread # Idle => stop_call.thread # join

WatcherInv == WatcherTypeOK /\ ChangeIsPending /\ ThreadsAreJoined

LEMMA SampledTyped ==
  ASSUME WatcherTypeOK
  PROVE  /\ Sampled \in Samples /\ \A sample \in Samples : Stored(sample) \in Samples
         /\ Asked \in [Apps -> {"none", "querying", "polling"}]
<1>1. \A a \in Apps : DisplayName(a) \in Names
  BY DEF WatcherTypeOK, DisplayName, Names
<1>2. foreground # Hidden => AppOf[foreground] \in Apps /\ foreground \in Views
  BY WatcherAssumption DEF WatcherTypeOK, WatcherAssumption
<1>3. Sampled \in Samples
  BY <1>1, <1>2 DEF Sampled, Samples, Info
<1>4. Asked \in [Apps -> {"none", "querying", "polling"}]
  BY DEF WatcherTypeOK, Asked
<1> QED BY <1>3, <1>4 DEF Stored, WatcherTypeOK

LEMMA PollPassKeeps ==
  ASSUME WatcherTypeOK, ChangeIsPending, PollPass, UNCHANGED delivering
  PROVE  /\ ChangeIsPending'
         /\ last_key' \in Views \cup {Hidden, Unset} /\ last_info' \in Samples
         /\ timers' \subseteq Views \cup {Hidden} /\ heard' \in BOOLEAN
<1> DEFINE info == Stored(Sampled)
<1>1. info \in Samples /\ info.window \in Views \cup {Hidden}
  BY SampledTyped DEF Samples, Info, NoInfo
<1>2. last_info' = info /\ RegisterChange(info)
  BY DEF PollPass
<1> HIDE DEF info
<1>3. CASE info.window = last_key
  BY <1>1, <1>2, <1>3 DEF RegisterChange, ChangeKey, ChangeIsPending, WatcherTypeOK
<1>4. CASE info.window # last_key
  BY <1>1, <1>2, <1>4 DEF RegisterChange, ChangeKey, ChangeIsPending, WatcherTypeOK
<1> QED BY <1>3, <1>4

LEMMA WatcherInitHolds == WatcherInit => WatcherInv
<1> SUFFICES ASSUME WatcherInit PROVE WatcherInv
  OBVIOUS
<1>1. WatcherTypeOK
  BY DEF WatcherInit, WatcherTypeOK, Samples
<1>2. ChangeIsPending
  BY DEF WatcherInit, ChangeIsPending
<1>3. ThreadsAreJoined
  BY DEF WatcherInit, ThreadsAreJoined
<1> QED BY <1>1, <1>2, <1>3 DEF WatcherInv

LEMMA WatcherStep == WatcherInv /\ [WatcherNext]_watcher_vars => WatcherInv'
<1> SUFFICES ASSUME WatcherInv, [WatcherNext]_watcher_vars PROVE WatcherInv'
  OBVIOUS
<1> USE DEF WatcherInv, watch_state, control, names
<1>1. CASE Switch
  BY <1>1 DEF Switch, WatcherTypeOK, ChangeIsPending, ThreadsAreJoined
<1>2. CASE CurrentSamples
  BY <1>2, SampledTyped DEF CurrentSamples, WatcherTypeOK, ChangeIsPending, ThreadsAreJoined
<1>3. CASE CurrentReturns
  <2>1. last_info' \in Samples
    BY <1>3, SampledTyped DEF CurrentReturns, WatcherTypeOK
  <2> QED BY <1>3, <2>1 DEF CurrentReturns, WatcherTypeOK, ChangeIsPending, ThreadsAreJoined
<1>4. CASE TimerWakes
  BY <1>4 DEF TimerWakes, WatcherTypeOK, ChangeIsPending, ThreadsAreJoined
<1>5. CASE ListenersRun
  <2>1. WatcherTypeOK'
    BY <1>5 DEF ListenersRun, WatcherTypeOK
  <2>2. ChangeIsPending'
    BY <1>5 DEF ListenersRun, WatcherTypeOK, ChangeIsPending
  <2>3. ThreadsAreJoined'
    BY <1>5 DEF ListenersRun, ThreadsAreJoined
  <2> QED BY <2>1, <2>2, <2>3
<1>6. ASSUME NEW a \in Apps, ResolverQueries(a) PROVE WatcherInv'
  BY <1>6 DEF ResolverQueries, WatcherTypeOK, ChangeIsPending, ThreadsAreJoined, Names
<1>7. ASSUME NEW a \in Apps, ResolverPolls(a) PROVE WatcherInv'
  <2>1. resolver' \in [Apps -> {"none", "querying", "polling"}]
    BY <1>7, SampledTyped DEF ResolverPolls
  <2>2. PollPass /\ UNCHANGED <<foreground, delivering, control, cache, seen>>
    BY <1>7 DEF ResolverPolls
  <2> QED BY <2>1, <2>2, PollPassKeeps DEF WatcherTypeOK, ThreadsAreJoined
<1>8. ASSUME NEW l \in Loops, LoopPolls(l) PROVE WatcherInv'
  <2>1. /\ resolver' \in [Apps -> {"none", "querying", "polling"}]
        /\ loop[l] = "polling" /\ loop' = [loop EXCEPT ![l] = "sleeping"]
    BY <1>8, SampledTyped DEF LoopPolls
  <2>2. /\ PollPass
        /\ UNCHANGED <<foreground, delivering, polling, epoch, join, stop_call, cache, seen>>
    BY <1>8 DEF LoopPolls
  <2> QED BY <2>1, <2>2, PollPassKeeps DEF WatcherTypeOK, ThreadsAreJoined
<1>9. ASSUME NEW l \in Loops, LoopWakes(l) PROVE WatcherInv'
  BY <1>9 DEF LoopWakes, WatcherTypeOK, ChangeIsPending, ThreadsAreJoined
<1>10. CASE Start
  <2>1. PICK l \in Loops :
          /\ loop[l] = "none" /\ stop_call.thread # l
          /\ loop' = [loop EXCEPT ![l] = "polling"] /\ epoch' = l /\ join' = l
    BY <1>10 DEF Start
  <2>2. l # Idle
    BY WatcherAssumption DEF WatcherAssumption
  <2>3. /\ join = Idle /\ polling' = TRUE
        /\ UNCHANGED <<foreground, watch_state, delivering, stop_call, names, seen>>
    BY <1>10 DEF Start
  <2>4. WatcherTypeOK'
    BY <2>1, <2>3 DEF WatcherTypeOK
  <2>5. ChangeIsPending'
    BY <2>3 DEF ChangeIsPending
  <2>6. ThreadsAreJoined'
    BY <2>1, <2>2, <2>3, WatcherAssumption DEF WatcherTypeOK, ThreadsAreJoined, WatcherAssumption
  <2> QED BY <2>4, <2>5, <2>6
<1>11. CASE Stop
  <2>1. stop_call' = [pc |-> "joining", thread |-> join] /\ join' = Idle /\ polling' = FALSE
    BY <1>11 DEF Stop
  <2>2. stop_call.thread = Idle
    BY <1>11 DEF Stop, ThreadsAreJoined
  <2>3. WatcherTypeOK' /\ ChangeIsPending'
    <3>1. polling' \in BOOLEAN /\ join' \in Loops \cup {Idle}
          /\ stop_call' \in [pc : {"none", "joining"}, thread : Loops \cup {Idle}]
      BY <2>1 DEF WatcherTypeOK
    <3>2. UNCHANGED <<foreground, watch_state, delivering, loop, epoch, names, seen>>
      BY <1>11 DEF Stop
    <3> QED BY <3>1, <3>2 DEF WatcherTypeOK, ChangeIsPending
  <2>4. ThreadsAreJoined'
    <3>1. \A l \in Loops : loop[l] # "none" => l = join
      BY <2>2, WatcherAssumption DEF WatcherAssumption, ThreadsAreJoined
    <3> QED BY <1>11, <2>1, <3>1 DEF Stop, ThreadsAreJoined
  <2> QED BY <2>3, <2>4
<1>12. CASE StopEnds
  <2>1. /\ stop_call' = [pc |-> "none", thread |-> Idle] /\ timers' = {} /\ last_key' = Unset
        /\ stop_call.thread = Idle \/ loop[stop_call.thread] = "none"
    BY <1>12 DEF StopEnds
  <2>2. WatcherTypeOK' /\ ChangeIsPending'
    BY <1>12, <2>1 DEF StopEnds, WatcherTypeOK, ChangeIsPending
  <2>3. ThreadsAreJoined'
    <3>1. \A l \in Loops : loop[l] # "none" => l = join
      BY <2>1, WatcherAssumption DEF WatcherAssumption, ThreadsAreJoined
    <3> QED BY <1>12, <2>1, <3>1 DEF StopEnds, ThreadsAreJoined
  <2> QED BY <2>2, <2>3
<1>13. CASE UNCHANGED watcher_vars
  BY <1>13 DEF watcher_vars, WatcherTypeOK, ChangeIsPending, ThreadsAreJoined
<1> QED
  BY <1>1, <1>2, <1>3, <1>4, <1>5, <1>6, <1>7, <1>8, <1>9, <1>10, <1>11, <1>12, <1>13
     DEF WatcherNext, ResolverThread, PollThread

LEMMA WatcherInvHolds == WatcherSpec => []WatcherInv
BY WatcherInitHolds, WatcherStep, PTL DEF WatcherSpec

(* The state of the foreground watcher keeps its types.                    *)
THEOREM WatcherTypeCorrect == WatcherSpec => []WatcherTypeOK
<1>1. WatcherInv => WatcherTypeOK
  BY DEF WatcherInv
<1> QED BY <1>1, WatcherInvHolds, PTL

(* No change is lost between the poll that saw it and the listeners: a     *)
(* newer change, a cancelled debounce, a stop or a restart at any point.   *)
THEOREM ChangeIsPendingHolds == WatcherSpec => []ChangeIsPending
<1>1. WatcherInv => ChangeIsPending
  BY DEF WatcherInv
<1> QED BY <1>1, WatcherInvHolds, PTL

(* With no stop under way at most one poll thread runs, the one of the     *)
(* last start, and none once the watcher is stopped: an old loop never     *)
(* polls on beside a new one after its stop has returned.                  *)
OneLoopPolls ==
  stop_call.pc = "none" =>
    \A l \in Loops : loop[l] # "none" => polling /\ l = epoch

THEOREM OneLoopPollsHolds == WatcherSpec => []OneLoopPolls
<1>1. WatcherInv => OneLoopPolls
  BY WatcherAssumption DEF WatcherAssumption, WatcherInv, ThreadsAreJoined, OneLoopPolls
<1> QED BY <1>1, WatcherInvHolds, PTL

-----------------------------------------------------------------------------
(* Side by side. *)

(* What is checked of the components side by side is what the theorems are *)
(* about: a behaviour of the whole is one of each component.               *)
THEOREM EachIsItself == Spec => ClientSpec /\ SessionSpec /\ WatcherSpec
<1> USE DEF WriterAlone, SessionAlone, WatcherAlone
<1> DEFINE whole == <<component, writer_vars, session_vars, watcher_vars>>
<1>1. Init => ClientInit /\ SessionInit /\ WatcherInit
  BY DEF Init
<1>2. [Next]_whole => [ClientNext]_writer_vars
  BY DEF Next
<1>3. [Next]_whole => [SessionNext]_session_vars
  BY DEF Next
<1>4. [Next]_whole => [WatcherNext]_watcher_vars
  BY DEF Next
<1> QED
  BY <1>1, <1>2, <1>3, <1>4, PTL DEF Spec, ClientSpec, SessionSpec, WatcherSpec

(* Every component keeps its types, whichever of them runs.                *)
THEOREM ThreadsTypeCorrect == Spec => []ThreadsTypeOK
<1>1. ClientTypeOK /\ SessionTypeOK /\ WatcherTypeOK => ThreadsTypeOK
  BY DEF ThreadsTypeOK
<1> QED
  BY <1>1, EachIsItself, ClientTypeCorrect, SessionTypeCorrect, WatcherTypeCorrect, PTL
===============================================================================
