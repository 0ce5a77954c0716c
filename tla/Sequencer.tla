------------------------------ MODULE Sequencer ------------------------------
(***************************************************************************)
(* CompanionSequencer (core/src/protocol/sequencer.rs) over the sequence   *)
(* file (core/src/store/sequence.rs), for one paired device.               *)
(*                                                                         *)
(* A call takes the FIFO slot of ITS sequencer object and holds it while   *)
(* it loads the file, computes, stores and returns.  The file itself only  *)
(* makes each load and each store atomic, so two objects over the same     *)
(* file interleave between load and store.  Waiters of a slot are served   *)
(* in any order here, which includes the FIFO order of the code.           *)
(***************************************************************************)
EXTENDS Integers

CONSTANTS
  Users,        (* callers: one mutation each                              *)
  Objects,      (* sequencer objects alive for the device                  *)
  Floor,        (* pairing_next_sequence                                   *)
  MaxSafe,      (* MAXIMUM_SAFE_WIRE_INTEGER, 2^53-1 in the code           *)
  MaxCrashes,   (* bound on process crashes                                *)
  Free          (* not a user: an unlocked slot                            *)

ASSUME SequencerAssumption ==
  /\ MaxSafe \in Nat \ {0} /\ Floor \in 0..MaxSafe
  /\ MaxCrashes \in Nat
  /\ Free \notin Users

VARIABLES
  stored,       (* the value in sequence.json, -1 if absent or invalid     *)
  slot,         (* who holds the slot of each object                       *)
  call,         (* the reserve or reconcile call of each user              *)
  crashes,
  last, count   (* history: the number returned last, how many were        *)

store_vars == <<stored, slot, call, crashes, last, count>>

Invalid == -1
CallPcs == {"idle", "waiting", "loaded", "stored", "failed"}
IdleCall == [pc |-> "idle", object |-> Free, op |-> "none", accepted |-> 0, current |-> 0]

Call == [pc : CallPcs, object : Objects \cup {Free}, op : {"none", "reserve", "reconcile"},
         accepted : 0..MaxSafe, current : 0..MaxSafe]

SequencerTypeOK ==
  /\ stored \in -1..MaxSafe
  /\ slot \in [Objects -> Users \cup {Free}]
  /\ call \in [Users -> Call]
  /\ crashes \in 0..MaxCrashes
  /\ last \in -1..MaxSafe /\ count \in Nat

SequencerInit ==
  /\ stored = Invalid
  /\ slot = [o \in Objects |-> Free]
  /\ call = [u \in Users |-> IdleCall]
  /\ crashes = 0
  /\ last = -1 /\ count = 0

Larger(a, b) == IF a < b THEN b ELSE a

(* max(floor, stored value), an absent or invalid value healing to the     *)
(* floor.                                                                  *)
CurrentNext == IF stored = Invalid THEN Floor ELSE Larger(Floor, stored)

CallReserve(u, o) ==
  /\ call[u].pc = "idle"
  /\ call' = [call EXCEPT ![u] = [IdleCall EXCEPT !.pc = "waiting", !.object = o, !.op = "reserve"]]
  /\ UNCHANGED <<stored, slot, crashes, last, count>>

CallReconcile(u, o, accepted) ==
  /\ call[u].pc = "idle"
  /\ call' = [call EXCEPT ![u] = [IdleCall EXCEPT !.pc = "waiting", !.object = o,
                                  !.op = "reconcile", !.accepted = accepted]]
  /\ UNCHANGED <<stored, slot, crashes, last, count>>

(* Takes the object's slot and loads the file.                             *)
Load(u) ==
  /\ call[u].pc = "waiting"
  /\ slot[call[u].object] = Free
  /\ slot' = [slot EXCEPT ![call[u].object] = u]
  /\ call' = [call EXCEPT ![u].pc = "loaded", ![u].current = CurrentNext]
  /\ UNCHANGED <<stored, crashes, last, count>>

Release(u) == slot' = [slot EXCEPT ![call[u].object] = Free]

(* Faulty variants (named <operator>_<fault>): see PROJECT.json.           *)
PersistReserve_PastEnd(u) ==
  /\ call[u].pc = "loaded" /\ call[u].op = "reserve"
  /\ stored' = call[u].current + 1
  /\ call' = [call EXCEPT ![u].pc = "stored"]
  /\ UNCHANGED <<slot, crashes, last, count>>

(* The file gets current + 1 before current is returned; a call meets its  *)
(* end here when the space is exhausted.                                   *)
PersistReserve(u) ==
  /\ call[u].pc = "loaded" /\ call[u].op = "reserve"
  /\ call[u].current < MaxSafe
  /\ stored' = call[u].current + 1
  /\ call' = [call EXCEPT ![u].pc = "stored"]
  /\ UNCHANGED <<slot, crashes, last, count>>

ReserveExhausted(u) ==
  /\ call[u].pc = "loaded" /\ call[u].op = "reserve"
  /\ call[u].current >= MaxSafe
  /\ Release(u)
  /\ call' = [call EXCEPT ![u].pc = "failed"]
  /\ UNCHANGED <<stored, crashes, last, count>>

ReserveReturns(u) ==
  /\ call[u].pc = "stored" /\ call[u].op = "reserve"
  /\ Release(u)
  /\ call' = [call EXCEPT ![u] = IdleCall]
  /\ last' = call[u].current /\ count' = count + 1
  /\ UNCHANGED <<stored, crashes>>

(* The stored next moves to accepted + 1, never backwards; an accepted     *)
(* value at the end of the wire range is ignored.                          *)
ReconcileTarget(u) == Larger(call[u].current, call[u].accepted + 1)

Reconcile_Backwards(u) ==
  /\ call[u].pc = "loaded" /\ call[u].op = "reconcile"
  /\ stored' = IF call[u].accepted >= MaxSafe THEN stored ELSE call[u].accepted + 1
  /\ Release(u)
  /\ call' = [call EXCEPT ![u] = IdleCall]
  /\ UNCHANGED <<crashes, last, count>>

Reconcile(u) ==
  /\ call[u].pc = "loaded" /\ call[u].op = "reconcile"
  /\ stored' = IF call[u].accepted >= MaxSafe \/ ReconcileTarget(u) = call[u].current
               THEN stored ELSE ReconcileTarget(u)
  /\ Release(u)
  /\ call' = [call EXCEPT ![u] = IdleCall]
  /\ UNCHANGED <<crashes, last, count>>

(* The write fails (disk full): the call fails and consumes nothing.       *)
StoreFails(u) ==
  /\ call[u].pc = "loaded"
  /\ \/ call[u].op = "reserve" /\ call[u].current < MaxSafe
     \/ call[u].op = "reconcile" /\ call[u].accepted < MaxSafe
                                 /\ ReconcileTarget(u) # call[u].current
  /\ Release(u)
  /\ call' = [call EXCEPT ![u].pc = "failed"]
  /\ UNCHANGED <<stored, crashes, last, count>>

(* The caller sees the error.                                              *)
FailureSeen(u) ==
  /\ call[u].pc = "failed"
  /\ call' = [call EXCEPT ![u] = IdleCall]
  /\ UNCHANGED <<stored, slot, crashes, last, count>>

(* The process dies and starts again: calls and slots are gone, the file   *)
(* is what the last store left.                                            *)
SequencerCrash ==
  /\ crashes < MaxCrashes
  /\ crashes' = crashes + 1
  /\ slot' = [o \in Objects |-> Free]
  /\ call' = [u \in Users |-> IdleCall]
  /\ UNCHANGED <<stored, last, count>>

SequencerStep(u) ==
  \/ Load(u) \/ PersistReserve(u) \/ ReserveExhausted(u) \/ ReserveReturns(u)
  \/ Reconcile(u) \/ StoreFails(u)

(* Any caller, any accepted value: the sequencer on its own.               *)
SequencerNext ==
  \/ \E u \in Users : \/ SequencerStep(u) \/ FailureSeen(u)
                      \/ \E o \in Objects : \/ CallReserve(u, o)
                                            \/ \E a \in 0..MaxSafe : CallReconcile(u, o, a)
  \/ SequencerCrash

SequencerSpec == SequencerInit /\ [][SequencerNext]_store_vars

-----------------------------------------------------------------------------
(* Properties. *)

Ticket == INSTANCE TicketIssuer WITH Numbers <- 0..(MaxSafe - 1)

(* "A sequence number is NEVER reused": the numbers reserve returns grow   *)
(* strictly, whatever reconciles, store failures and crashes come between, *)
(* and the last one returned is MaxSafe - 1.                               *)
NeverReused == Ticket!Spec

(* A number that was returned, or is about to be, is already behind the    *)
(* value that the file would yield after a crash.                          *)
ReservedIsDurable ==
  /\ last < CurrentNext
  /\ \A u \in Users : call[u].pc = "stored" => call[u].current < CurrentNext

(* Only the holder of a slot is between its load and its return, so no     *)
(* call of the same object works on a stale load.                          *)
LoadIsFresh ==
  \A u \in Users : call[u].pc = "loaded" => /\ slot[call[u].object] = u
                                            /\ call[u].current = CurrentNext
==============================================================================
