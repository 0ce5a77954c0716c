---------------------------- MODULE DeskLifecycle ----------------------------
(***************************************************************************)
(* What the service and the session events know of the coordinator: how    *)
(* its lifecycle moves, on whose account, and that it stands still while   *)
(* it is being shut down.  Coordinator implements it; LiveDeskService and  *)
(* SessionEvents, which have the coordinator reduced to its lifecycle, let *)
(* it do nothing else.                                                     *)
(***************************************************************************)
CONSTANT Retried   (* the lifecycles that a retry, or a publish the site   *)
                   (* rejected, takes back to the negotiation              *)

VARIABLES
  lifecycle,       (* Live publishes, Waiting only has its retry timer,    *)
                   (* Off nothing                                          *)
  stopping         (* a shutdown is under way                              *)

desk == <<lifecycle, stopping>>

Init == lifecycle = "Off" /\ stopping = FALSE

Becomes(s) == ~stopping /\ lifecycle' = s /\ UNCHANGED stopping

(* What others ask of it.                                                  *)
Start == Becomes("Connecting")
Suspend == Becomes("Suspended")
Shutdown == ~stopping /\ lifecycle' = "Off" /\ stopping' = TRUE
ShutdownReturns == stopping /\ stopping' = FALSE /\ UNCHANGED lifecycle
Asked == Start \/ Suspend \/ Shutdown \/ ShutdownReturns

(* The end of a suspension, after a wake or an unlock.                     *)
Resume == lifecycle = "Suspended" /\ Becomes("Connecting")

(* What it does by itself.                                                 *)
Negotiated == lifecycle = "Connecting" /\ \E s \in {"Live", "Off"} \cup Retried : Becomes(s)
Retry == lifecycle \in Retried /\ Becomes("Connecting")
Unasked == Negotiated \/ Retry

Next == Asked \/ Resume \/ Unasked
Spec == Init /\ [][Next]_desk

(* The process may die and start again, which resumes the desk or not.     *)
Restart == lifecycle' \in {"Off", "Connecting"} /\ stopping' = FALSE
RestartingSpec == Init /\ [][Next \/ Restart]_desk
==============================================================================
