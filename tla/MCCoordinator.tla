---------------------------- MODULE MCCoordinator ----------------------------
EXTENDS Coordinator, TLC

Symmetry == Permutations(LoopIds) \cup Permutations(WakeIds) \cup Permutations(Connections)

(* What the liveness run leaves out, to have three generations and two     *)
(* wakes: the session ids, which no guard reads, and starts of a desk that *)
(* is not disabled. Neither belongs to a task that fairness is about.      *)
LiveSpec == Init /\ [][Next /\ media_session' = None /\ (Start => state = "Disabled")]_vars
                 /\ Fairness
==============================================================================
