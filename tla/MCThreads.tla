------------------------------ MODULE MCThreads -------------------------------
(* As MCComponents, for the components with liveness under the fairness of  *)
(* their threads and tasks: a behaviour is one of the component chosen at   *)
(* its start.                                                               *)
EXTENDS PresenceClient, SessionEvents, ForegroundWatcher

CONSTANTS s1, app
MCSequencerOf == [c \in Clients |-> s1]
MCAppOf == [v \in Views |-> app]

VARIABLE component

Init ==
  /\ component \in {"writer", "session", "watcher"}
  /\ ClientInit /\ SessionInit /\ WatcherInit
  /\ component = "writer" \/ accepted = 0
  /\ component = "session" \/ ~locked
  /\ component = "watcher" \/ foreground = Hidden

WriterAlone ==
  component = "writer" /\ ClientNext /\ UNCHANGED <<component, session_vars, watcher_vars>>
SessionAlone ==
  component = "session" /\ SessionNext /\ UNCHANGED <<component, writer_vars, watcher_vars>>
WatcherAlone ==
  component = "watcher" /\ WatcherNext /\ UNCHANGED <<component, writer_vars, session_vars>>

Next == WriterAlone \/ SessionAlone \/ WatcherAlone

Fairness ==
  /\ \A u \in Users : WF_writer_vars(component = "writer" /\ Progress(u))
  /\ WF_session_vars(component = "session" /\ SamplingThread)
  /\ WF_session_vars(component = "session" /\ Boot)
  /\ WF_session_vars(component = "session" /\ ExitBegun)
  /\ \A l \in Loops : WF_watcher_vars(component = "watcher" /\ PollThread(l))
  /\ \A a \in Apps : WF_watcher_vars(component = "watcher" /\ ResolverThread(a))
  /\ WF_watcher_vars(component = "watcher" /\ TimerWakes)
  /\ WF_watcher_vars(component = "watcher" /\ ListenersRun)
  /\ WF_watcher_vars(component = "watcher" /\ StopEnds)

Spec == Init /\ [][Next]_<<component, writer_vars, session_vars, watcher_vars>> /\ Fairness

(* Each component's state keeps its types.                                 *)
ThreadsTypeOK == ClientTypeOK /\ SessionTypeOK /\ WatcherTypeOK
===============================================================================
