---------------------------- MODULE TicketIssuer ----------------------------
(***************************************************************************)
(* What the ordered writer promises about sequence numbers, whatever       *)
(* object hands them out: each number handed out is greater than every     *)
(* number handed out before, across crashes and restarts.  Gaps are legal. *)
(***************************************************************************)
EXTENDS Integers

CONSTANT Numbers

VARIABLES
  last,      (* the number handed out last, -1 before the first            *)
  count      (* how many numbers were handed out                           *)

Init == last = -1 /\ count = 0

Issue == \E n \in Numbers : /\ n > last
                            /\ last' = n
                            /\ count' = count + 1

Spec == Init /\ [][Issue]_<<last, count>>
==============================================================================
