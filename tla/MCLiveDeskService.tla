---------------------------- MODULE MCLiveDeskService ----------------------------
(* LiveDeskService on a small instance: two commands at a time, a policy    *)
(* that shares and one that does not, two screens, one server, one crash.   *)
EXTENDS LiveDeskService, TLC

Symmetry == Permutations(Calls) \cup Permutations(Screens)

==================================================================================
