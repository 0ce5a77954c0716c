----------------------------- MODULE SessionEvents -----------------------------
(***************************************************************************)
(* What the session and the power state do to the desk: the hidden window  *)
(* and its dispatcher (core/src/capture/system_events.rs), the wall-clock  *)
(* suspend detector (core/src/runtime/suspend_detector.rs), the order in   *)
(* which the shell (src/state.rs) starts and stops them, and the lifecycle *)
(* of the coordinator that their callbacks move.                           *)
(*                                                                         *)
(* The window thread, the dispatcher, the sampling thread, the tasks of    *)
(* the coordinator and the main thread are asynchronous; while the machine *)
(* sleeps, none of them runs.                                              *)
(***************************************************************************)
EXTENDS Naturals, Sequences

CONSTANTS
  MaxMessages,   (* bound on window messages, and on events, not yet handled *)
  MaxWakes       (* bound on wake tasks alive at the same time             *)

ASSUME SessionAssumption == MaxMessages \in Nat \ {0} /\ MaxWakes \in Nat \ {0}

VARIABLES
  locked, asleep,     (* the session and the machine                       *)
  messages,           (* for the hidden window                             *)
  window,             (* its thread                                        *)
  suspended,          (* SysShared.suspended                               *)
  queue,              (* the dispatcher's channel                          *)
  told,               (* the last event the listeners got                  *)
  detector,           (* the sampling thread                               *)
  running,            (* Control.running                                   *)
  clock_gap,          (* the clock went over the threshold since last_tick *)
  lifecycle,          (* the coordinator's state; Live is Active or Degraded, *)
                      (* Waiting is ServerFeatureUnavailable                 *)
  stopping,           (* the call that shuts it down                       *)
  wakes,              (* wake tasks that join a clear                      *)
  lapsed,             (* the lease of the live generation ran out in a sleep *)
  phase               (* of the main thread                                *)

os == <<locked, asleep>>
source == <<messages, window, suspended, queue, told>>
sampler == <<detector, running, clock_gap>>
desk == <<lifecycle, stopping, wakes, lapsed>>
session_vars == <<os, source, sampler, desk, phase>>

(* Window messages. "automatic" is PBT_APMRESUMEAUTOMATIC, not mapped.      *)
Messages == {"lock", "unlock", "suspend", "resume", "automatic"}
Events == {"LockOrSleep", "UnlockOrResume"}
Phases == {"events", "detector", "service", "up", "joining", "shutdown", "clearing",
           "closing", "draining", "down"}

SessionTypeOK ==
  /\ locked \in BOOLEAN /\ asleep \in BOOLEAN
  /\ messages \in Seq(Messages) /\ Len(messages) <= MaxMessages
  /\ window \in {"none", "pumping", "gone"}
  /\ suspended \in BOOLEAN
  /\ queue \in Seq(Events) /\ Len(queue) <= MaxMessages
  /\ told \in Events
  /\ detector \in {"none", "waiting", "callback", "starting"}
  /\ running \in BOOLEAN /\ clock_gap \in BOOLEAN
  /\ lifecycle \in {"Off", "Connecting", "Live", "Waiting", "Suspended"}
  /\ stopping \in {"no", "pause", "exit"}
  /\ wakes \in 0..MaxWakes
  /\ lapsed \in BOOLEAN
  /\ phase \in Phases

SessionInit ==
  /\ locked \in BOOLEAN /\ asleep = FALSE
  /\ messages = <<>> /\ window = "none"
  /\ suspended = FALSE /\ queue = <<>> /\ told = "UnlockOrResume"
  /\ detector = "none" /\ running = FALSE /\ clock_gap = FALSE
  /\ lifecycle = "Off" /\ stopping = "no" /\ wakes = 0 /\ lapsed = FALSE
  /\ phase = "events"

Runs == ~asleep /\ phase # "down"

-----------------------------------------------------------------------------
(* Windows. Messages reach a window that exists; the system may also sleep *)
(* or wake without telling.                                                *)

Post(m) ==
  IF window = "pumping"
  THEN Len(messages) < MaxMessages /\ messages' = Append(messages, m)
  ELSE UNCHANGED messages

Lock ==
  /\ ~asleep /\ ~locked
  /\ locked' = TRUE /\ Post("lock")
  /\ UNCHANGED <<asleep, window, suspended, queue, told, sampler, desk, phase>>

Unlock ==
  /\ ~asleep /\ locked
  /\ locked' = FALSE /\ Post("unlock")
  /\ UNCHANGED <<asleep, window, suspended, queue, told, sampler, desk, phase>>

(* A sleep above the detector's threshold outlasts the lease.              *)
Sleep ==
  /\ ~asleep
  /\ asleep' = TRUE
  /\ Post("suspend") \/ UNCHANGED messages
  /\ clock_gap' = TRUE
  /\ lapsed' = (lapsed \/ lifecycle = "Live")
  /\ UNCHANGED <<locked, window, suspended, queue, told, detector, running,
                 lifecycle, stopping, wakes, phase>>

Wake ==
  /\ asleep
  /\ asleep' = FALSE
  /\ \/ \E m \in {"resume", "automatic"} : Post(m)
     \/ UNCHANGED messages
  /\ UNCHANGED <<locked, window, suspended, queue, told, sampler, desk, phase>>

ClockSteps ==
  /\ ~asleep /\ ~clock_gap
  /\ clock_gap' = TRUE
  /\ UNCHANGED <<os, source, detector, running, desk, phase>>

-----------------------------------------------------------------------------
(* SystemEvents. *)

(* The deduplication: one flag for lock and sleep.                         *)
ToSuspended(m) == m \in {"lock", "suspend"}
Fires(m) == m # "automatic" /\ ToSuspended(m) # suspended

(* Faulty variant: every mapped message fires.                             *)
WindowProc_Repeats ==
  /\ Runs /\ window = "pumping" /\ messages # <<>>
  /\ messages' = Tail(messages)
  /\ IF Head(messages) # "automatic"
     THEN /\ Len(queue) < MaxMessages
          /\ suspended' = ToSuspended(Head(messages))
          /\ queue' = Append(queue, IF ToSuspended(Head(messages)) THEN "LockOrSleep"
                                                                   ELSE "UnlockOrResume")
     ELSE UNCHANGED <<suspended, queue>>
  /\ UNCHANGED <<os, window, told, sampler, desk, phase>>

(* The window thread is the only one that moves the flag, and the sender   *)
(* is there as long as this thread is.                                     *)
WindowProc ==
  /\ Runs /\ window = "pumping" /\ messages # <<>>
  /\ messages' = Tail(messages)
  /\ IF Fires(Head(messages))
     THEN /\ Len(queue) < MaxMessages
          /\ suspended' = ToSuspended(Head(messages))
          /\ queue' = Append(queue, IF ToSuspended(Head(messages)) THEN "LockOrSleep"
                                                                   ELSE "UnlockOrResume")
     ELSE UNCHANGED <<suspended, queue>>
  /\ UNCHANGED <<os, window, told, sampler, desk, phase>>

-----------------------------------------------------------------------------
(* The coordinator, reduced to its lifecycle (see Coordinator).            *)

BeginLifecycle(s) == lifecycle' = s /\ lapsed' = FALSE

StartDesk == IF stopping # "no" THEN UNCHANGED <<lifecycle, lapsed>>
             ELSE BeginLifecycle("Connecting")

(* A disabled desk is suspended like any other; a wake task is spawned for *)
(* every wake that finds it suspended.                                     *)
HandleSleepOrLock ==
  /\ IF lifecycle = "Suspended" \/ stopping # "no"
     THEN UNCHANGED <<lifecycle, lapsed>>
     ELSE BeginLifecycle("Suspended")
  /\ UNCHANGED wakes

HandleWakeOrUnlock ==
  /\ IF lifecycle # "Suspended" THEN UNCHANGED wakes
     ELSE wakes < MaxWakes /\ wakes' = wakes + 1
  /\ UNCHANGED <<lifecycle, lapsed>>

(* Faulty variant: the dispatcher takes the latest event first.            *)
Dispatch_LatestFirst ==
  /\ Runs /\ queue # <<>>
  /\ told' = queue[Len(queue)]
  /\ queue' = SubSeq(queue, 1, Len(queue) - 1)
  /\ IF queue[Len(queue)] = "LockOrSleep" THEN HandleSleepOrLock ELSE HandleWakeOrUnlock
  /\ UNCHANGED <<os, messages, window, suspended, sampler, stopping, phase>>

(* The dispatcher thread runs the listener the shell registered.           *)
Dispatch ==
  /\ Runs /\ queue # <<>>
  /\ told' = Head(queue)
  /\ queue' = Tail(queue)
  /\ IF Head(queue) = "LockOrSleep" THEN HandleSleepOrLock ELSE HandleWakeOrUnlock
  /\ UNCHANGED <<os, messages, window, suspended, sampler, stopping, phase>>

WakeTask ==
  /\ Runs /\ wakes > 0
  /\ wakes' = wakes - 1
  /\ IF lifecycle # "Suspended" THEN UNCHANGED <<lifecycle, lapsed>> ELSE StartDesk
  /\ UNCHANGED <<os, source, sampler, stopping, phase>>

(* Faulty variant: the coordinator reports the missing pairing itself.     *)
Negotiated_NotPaired ==
  /\ Runs /\ lifecycle = "Connecting"
  /\ lifecycle' \in {"Live", "Waiting", "Off", "NotPaired"}
  /\ UNCHANGED <<os, source, sampler, stopping, wakes, lapsed, phase>>

(* A negotiation ends: publishing, waiting for the server's feature, or    *)
(* with nothing left to do (disabled, update required).                    *)
Negotiated ==
  /\ Runs /\ lifecycle = "Connecting"
  /\ lifecycle' \in {"Live", "Waiting", "Off"}
  /\ UNCHANGED <<os, source, sampler, stopping, wakes, lapsed, phase>>

(* A retry timer, or a publish the site rejected. A desk that is off has   *)
(* neither.                                                                *)
Renegotiates ==
  /\ Runs /\ stopping = "no" /\ lifecycle \in {"Live", "Waiting"}
  /\ BeginLifecycle("Connecting")
  /\ UNCHANGED <<os, source, sampler, stopping, wakes, phase>>

(* Commands of the page. Their messages need the main thread, so none runs  *)
(* before init returns; one in flight goes on during the exit.             *)
Commands == phase \notin {"events", "detector", "service"}

(* A confirmed consent starts the desk in any state.                       *)
ConsentStarts ==
  /\ Runs /\ Commands
  /\ StartDesk
  /\ UNCHANGED <<os, source, sampler, stopping, wakes, phase>>

Pause ==
  /\ Runs /\ Commands /\ stopping = "no"
  /\ stopping' = "pause" /\ BeginLifecycle("Off")
  /\ UNCHANGED <<os, source, sampler, wakes, phase>>

PauseReturns ==
  /\ Runs /\ stopping = "pause"
  /\ stopping' = "no"
  /\ UNCHANGED <<os, source, sampler, lifecycle, wakes, lapsed, phase>>

-----------------------------------------------------------------------------
(* The sampling thread. *)

(* Faulty variant: a monotonic clock, which stands still in a sleep.       *)
Sample_Monotonic ==
  /\ Runs /\ detector = "waiting" /\ running
  /\ clock_gap' = FALSE
  /\ UNCHANGED <<os, source, detector, running, desk, phase>>

(* last_tick moves before the comparison and the callback.                 *)
Sample ==
  /\ Runs /\ detector = "waiting" /\ running
  /\ clock_gap' = FALSE
  /\ detector' = IF clock_gap THEN "callback" ELSE "waiting"
  /\ UNCHANGED <<os, source, running, desk, phase>>

(* The callback reads the state, then starts: two calls, two locks.        *)
CallbackReads ==
  /\ Runs /\ detector = "callback"
  /\ detector' = IF lifecycle = "Live" THEN "starting" ELSE "waiting"
  /\ UNCHANGED <<os, source, running, clock_gap, desk, phase>>

CallbackStarts ==
  /\ Runs /\ detector = "starting"
  /\ detector' = "waiting"
  /\ StartDesk
  /\ UNCHANGED <<os, source, running, clock_gap, stopping, wakes, phase>>

SampleEnds ==
  /\ Runs /\ detector = "waiting" /\ ~running
  /\ detector' = "none"
  /\ UNCHANGED <<os, source, running, clock_gap, desk, phase>>

-----------------------------------------------------------------------------
(* The main thread: init, and shutdown_blocking at the exit.               *)

Main(from, to) == Runs /\ phase = from /\ phase' = to

(* Creating the window or its registration may fail: no source then.       *)
StartEvents ==
  /\ Main("events", "detector")
  /\ window' \in {"none", "pumping"}
  /\ UNCHANGED <<os, messages, suspended, queue, told, sampler, desk>>

StartDetector ==
  /\ Main("detector", "service")
  /\ running' = TRUE /\ detector' = "waiting" /\ clock_gap' = FALSE
  /\ UNCHANGED <<os, source, desk>>

(* Starts the coordinator when the desk is enabled (one whose negotiation  *)
(* went past the gate is).                                                 *)
StartService ==
  /\ Main("service", "up")
  /\ StartDesk \/ (lifecycle \notin {"Live", "Waiting"} /\ UNCHANGED <<lifecycle, lapsed>>)
  /\ UNCHANGED <<os, source, sampler, stopping, wakes>>

StopDetector ==
  /\ Main("up", "joining")
  /\ running' = FALSE
  /\ UNCHANGED <<os, source, detector, clock_gap, desk>>

(* Faulty variant: the stop does not wait for the thread.                  *)
JoinDetector_Detached ==
  /\ Main("joining", "shutdown")
  /\ UNCHANGED <<os, source, sampler, desk>>

JoinDetector ==
  /\ Main("joining", "shutdown") /\ detector = "none"
  /\ UNCHANGED <<os, source, sampler, desk>>

ShutdownDesk ==
  /\ IF stopping # "no"
     THEN Main("shutdown", "closing") /\ UNCHANGED <<stopping, lifecycle, lapsed>>
     ELSE Main("shutdown", "clearing") /\ stopping' = "exit" /\ BeginLifecycle("Off")
  /\ UNCHANGED <<os, source, sampler, wakes>>

ShutdownDeskReturns ==
  /\ Main("clearing", "closing")
  /\ stopping' = "no"
  /\ UNCHANGED <<os, source, sampler, lifecycle, wakes, lapsed>>

(* WM_CLOSE ends the window thread; what it had not handled is lost.       *)
CloseWindow ==
  /\ Main("closing", "draining")
  /\ messages' = <<>> /\ window' = "gone"
  /\ UNCHANGED <<os, suspended, queue, told, sampler, desk>>

(* The dispatcher empties its channel; the process exits.                  *)
Exit ==
  /\ Main("draining", "down") /\ queue = <<>>
  /\ UNCHANGED <<os, source, sampler, desk>>

(* The budget of the exit runs out.                                        *)
BudgetExpires ==
  /\ Runs /\ phase \in {"clearing", "closing", "draining"}
  /\ phase' = "down"
  /\ UNCHANGED <<os, source, sampler, desk>>

-----------------------------------------------------------------------------
Windows == Lock \/ Unlock \/ Sleep \/ Wake \/ ClockSteps
SamplingThread == Sample \/ CallbackReads \/ CallbackStarts \/ SampleEnds
DeskSteps ==
  WakeTask \/ Negotiated \/ Renegotiates \/ ConsentStarts \/ Pause \/ PauseReturns
Boot == StartEvents \/ StartDetector \/ StartService
ExitBegun ==
  \/ JoinDetector \/ ShutdownDesk \/ ShutdownDeskReturns
  \/ CloseWindow \/ Exit \/ BudgetExpires
MainThread == Boot \/ StopDetector \/ ExitBegun

SessionNext == Windows \/ WindowProc \/ Dispatch \/ SamplingThread \/ DeskSteps \/ MainThread

SessionSpec == SessionInit /\ [][SessionNext]_session_vars

(* Threads run while the machine is awake; a sample comes every 5 s. The   *)
(* main thread finishes init, and an exit that began, at the latest when   *)
(* the budget expires.                                                     *)
SessionFairness ==
  /\ WF_session_vars(SamplingThread)
  /\ WF_session_vars(Boot)
  /\ WF_session_vars(ExitBegun)
SessionFairSpec == SessionSpec /\ SessionFairness

-----------------------------------------------------------------------------
(* Properties. *)

(* The listeners hear lock and unlock alternately, in order, and the flag  *)
(* says what they have heard once the channel is empty: nothing is dropped *)
(* between the flag and the listeners, also while the source stops.        *)
FlagIsTold ==
  LET heard == <<told>> \o queue
  IN /\ \A i \in 1..Len(queue) : heard[i] # heard[i + 1]
     /\ suspended <=> heard[Len(heard)] = "LockOrSleep"

(* A suspended desk is always going to be woken: the source still counts   *)
(* the session as locked or asleep (the next unlock or resume will fire),  *)
(* or the wake event or its task is on the way.                            *)
SuspendedIsWoken ==
  lifecycle = "Suspended" =>
    \/ suspended
    \/ wakes > 0
    \/ queue # <<>> /\ queue[Len(queue)] = "UnlockOrResume"

(* Once the exit shuts the desk down no gap callback is running or will.   *)
DetectorIsGone ==
  phase \in {"shutdown", "clearing", "closing", "draining"} => detector = "none"

(* suspend_detector.rs "safety net [for] sleeps that produced no suspend   *)
(* event": a desk that slept while live, told or not, gets a new lifecycle *)
(* unless the machine sleeps again first or the process ends.              *)
GapIsRepaired == []<>(~lapsed \/ asleep \/ phase = "down")

(* suspend_detector.rs "forced renegotiation ONLY from Active/Degraded":    *)
(* the detector never takes a suspended desk out of its suspension.        *)
DetectorSparesSuspended == [][CallbackStarts => lifecycle # "Suspended"]_session_vars

-----------------------------------------------------------------------------
(* The reduced coordinator is the desk that Coordinator implements.        *)

Desk == INSTANCE DeskLifecycle WITH stopping <- stopping # "no", Retried <- {"Live", "Waiting"}

(* No listener, callback, command or exit moves the desk in a way the      *)
(* coordinator does not have, and what it does here by itself it does      *)
(* there.                                                                  *)
MovesAsDesk ==
  /\ Desk!Spec
  /\ [][Negotiated \/ Renegotiates => Desk!Unasked \/ UNCHANGED lifecycle]_session_vars

================================================================================
