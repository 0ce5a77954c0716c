---------------------------- MODULE SequencerProofs ----------------------------
(***************************************************************************)
(* Proofs about Sequencer.  Types hold for any number of sequencer objects; *)
(* that numbers are never reused is proved for one object per device: each *)
(* has a slot of its own, and two would both load before either stores.     *)
(***************************************************************************)
EXTENDS Sequencer, TLAPS

LEMMA NextInRange == SequencerTypeOK => CurrentNext \in 0..MaxSafe
BY SequencerAssumption DEF SequencerAssumption, SequencerTypeOK, CurrentNext, Larger, Invalid

LEMMA TypeCalls ==
  ASSUME SequencerTypeOK, NEW u \in Users, SequencerStep(u) \/ FailureSeen(u)
  PROVE  SequencerTypeOK'
<1> USE SequencerAssumption DEF SequencerAssumption
<1>0. IdleCall \in Call
  BY DEF IdleCall, Call, CallPcs
<1>1. /\ call[u] \in Call /\ call[u].current \in 0..MaxSafe /\ call[u].accepted \in 0..MaxSafe
      /\ \A pc \in CallPcs : [call[u] EXCEPT !.pc = pc] \in Call
  BY DEF SequencerTypeOK, Call
<1>2. CASE Load(u)
  <2>1. [call[u] EXCEPT !.pc = "loaded", !.current = CurrentNext] \in Call
    BY <1>1, NextInRange DEF Call, CallPcs
  <2>2. call' = [call EXCEPT ![u] = [call[u] EXCEPT !.pc = "loaded", !.current = CurrentNext]]
    BY <1>2 DEF Load
  <2>3. call' \in [Users -> Call]
    BY <2>1, <2>2 DEF SequencerTypeOK
  <2> QED BY <1>2, <2>3 DEF Load, SequencerTypeOK
<1>3. CASE PersistReserve(u) \/ ReserveExhausted(u) \/ StoreFails(u) \/ FailureSeen(u)
  <2>1. \/ \E pc \in CallPcs : call' = [call EXCEPT ![u] = [call[u] EXCEPT !.pc = pc]]
        \/ call' = [call EXCEPT ![u] = IdleCall]
    BY <1>3 DEF PersistReserve, ReserveExhausted, StoreFails, FailureSeen, CallPcs
  <2>2. call' \in [Users -> Call]
    BY <1>0, <1>1, <2>1 DEF SequencerTypeOK
  <2>3. stored' \in -1..MaxSafe
    BY <1>1, <1>3 DEF PersistReserve, ReserveExhausted, StoreFails, FailureSeen, SequencerTypeOK
  <2>4. slot' \in [Objects -> Users \cup {Free}]
    BY <1>3 DEF PersistReserve, ReserveExhausted, StoreFails, FailureSeen, Release, SequencerTypeOK
  <2> QED
    BY <1>3, <2>2, <2>3, <2>4
       DEF PersistReserve, ReserveExhausted, StoreFails, FailureSeen, SequencerTypeOK
<1>4. CASE ReserveReturns(u) \/ Reconcile(u)
  <2>1. call' \in [Users -> Call]
    BY <1>0, <1>4 DEF ReserveReturns, Reconcile, SequencerTypeOK
  <2>2. stored' \in -1..MaxSafe
    BY <1>1, <1>4
       DEF ReserveReturns, Reconcile, ReconcileTarget, Larger, SequencerTypeOK
  <2>3. slot' \in [Objects -> Users \cup {Free}]
    BY <1>4 DEF ReserveReturns, Reconcile, Release, SequencerTypeOK
  <2>4. last' \in -1..MaxSafe /\ count' \in Nat /\ crashes' \in 0..MaxCrashes
    BY <1>1, <1>4 DEF ReserveReturns, Reconcile, SequencerTypeOK
  <2> QED BY <2>1, <2>2, <2>3, <2>4 DEF SequencerTypeOK
<1> QED BY <1>2, <1>3, <1>4 DEF SequencerStep

LEMMA TypeStep == SequencerTypeOK /\ [SequencerNext]_store_vars => SequencerTypeOK'
<1> SUFFICES ASSUME SequencerTypeOK, [SequencerNext]_store_vars PROVE SequencerTypeOK'
  OBVIOUS
<1>0. IdleCall \in Call
  BY SequencerAssumption DEF SequencerAssumption, IdleCall, Call, CallPcs
<1>1. ASSUME NEW u \in Users, NEW o \in Objects,
             CallReserve(u, o) \/ \E a \in 0..MaxSafe : CallReconcile(u, o, a)
      PROVE  SequencerTypeOK'
  <2>1. PICK r \in Call : call' = [call EXCEPT ![u] = r]
    <3>1. [IdleCall EXCEPT !.pc = "waiting", !.object = o, !.op = "reserve"] \in Call
      BY <1>0 DEF Call, CallPcs
    <3>2. \A a \in 0..MaxSafe :
            [IdleCall EXCEPT !.pc = "waiting", !.object = o,
                             !.op = "reconcile", !.accepted = a] \in Call
      BY <1>0 DEF Call, CallPcs
    <3> QED BY <1>1, <3>1, <3>2 DEF CallReserve, CallReconcile
  <2> QED BY <1>1, <2>1 DEF CallReserve, CallReconcile, SequencerTypeOK
<1>2. CASE SequencerCrash
  BY <1>0, <1>2, SequencerAssumption DEF SequencerAssumption, SequencerCrash, SequencerTypeOK
<1>3. CASE UNCHANGED store_vars
  BY <1>3 DEF store_vars, SequencerTypeOK
<1> QED BY <1>1, <1>2, <1>3, TypeCalls DEF SequencerNext

LEMMA TypeInit == SequencerInit => SequencerTypeOK
<1>1. IdleCall \in Call
  BY SequencerAssumption DEF SequencerAssumption, IdleCall, Call, CallPcs
<1> QED
  BY <1>1, SequencerAssumption
     DEF SequencerAssumption, SequencerInit, SequencerTypeOK, Invalid

(* The stored value and every number in flight stay within the wire range.  *)
THEOREM SequencerTypeCorrect == SequencerSpec => []SequencerTypeOK
BY TypeInit, TypeStep, PTL DEF SequencerSpec

-----------------------------------------------------------------------------
(* One object per device.                                                   *)

SingleObject == \A o, p \in Objects : o = p

(* The slot is what makes a read-modify-write of the file atomic: only its  *)
(* holder has loaded or stored, what it loaded is what is stored, and what  *)
(* it is about to return lies between the numbers returned and the file.    *)
SlotHeld ==
  \A u \in Users : call[u].pc \in {"loaded", "stored"} => slot[call[u].object] = u

Called == \A u \in Users : call[u].pc # "idle" => call[u].object \in Objects

Monotone ==
  /\ last < CurrentNext
  /\ \A u \in Users : call[u].pc = "loaded" => call[u].current = CurrentNext
  /\ \A u \in Users : call[u].pc = "stored" =>
       last < call[u].current /\ call[u].current < CurrentNext

SequencerInv == SequencerTypeOK /\ SlotHeld /\ Called /\ Monotone

LEMMA InvInit == SequencerInit => SequencerInv
<1> SUFFICES ASSUME SequencerInit PROVE SequencerInv
  OBVIOUS
<1>1. \A u \in Users : call[u].pc = "idle"
  BY DEF SequencerInit, IdleCall
<1>2. last < CurrentNext
  BY SequencerAssumption DEF SequencerAssumption, SequencerInit, CurrentNext, Invalid
<1> QED BY <1>1, <1>2, TypeInit DEF SequencerInv, SlotHeld, Called, Monotone

(* With one object, a user that has loaded or stored is alone there.        *)
LEMMA Alone ==
  ASSUME SingleObject, SequencerInv,
         NEW u \in Users, call[u].pc \in {"loaded", "stored"},
         NEW v \in Users, call[v].pc \in {"loaded", "stored"}
  PROVE  u = v
<1>1. call[u].object = call[v].object
  BY DEF SingleObject, SequencerInv, Called
<1> QED BY <1>1 DEF SequencerInv, SlotHeld

LEMMA CallsKeep ==
  ASSUME SingleObject, SequencerInv, NEW u \in Users, SequencerStep(u) \/ FailureSeen(u)
  PROVE  SlotHeld' /\ Called' /\ Monotone'
<1> USE SequencerAssumption DEF SequencerAssumption
<1>0. /\ CurrentNext \in 0..MaxSafe /\ last \in -1..MaxSafe /\ stored \in -1..MaxSafe
      /\ call[u].current \in 0..MaxSafe /\ call[u].accepted \in 0..MaxSafe
      /\ call \in [Users -> Call] /\ slot \in [Objects -> Users \cup {Free}]
  BY NextInRange DEF SequencerInv, SequencerTypeOK, Call
<1>1. CASE Load(u)
  <2>1. /\ call[u].object \in Objects
        /\ call'[u].object = call[u].object /\ call'[u].current = CurrentNext
        /\ call'[u].pc = "loaded"
        /\ \A v \in Users \ {u} : call'[v] = call[v]
    BY <1>0, <1>1 DEF Load, Call, SequencerInv, Called
  <2>2. \A v \in Users : call[v].pc \notin {"loaded", "stored"}
    <3> SUFFICES ASSUME NEW v \in Users, call[v].pc \in {"loaded", "stored"} PROVE FALSE
      OBVIOUS
    <3>1. call[v].object = call[u].object /\ slot[call[v].object] = v
      BY <2>1 DEF SingleObject, SequencerInv, Called, SlotHeld
    <3> QED BY <1>1, <3>1 DEF Load
  <2>3. slot'[call[u].object] = u
    BY <1>0, <1>1, <2>1 DEF Load
  <2>4. CurrentNext' = CurrentNext /\ last' = last
    BY <1>1 DEF Load, CurrentNext
  <2> QED
    BY <2>1, <2>2, <2>3, <2>4 DEF SlotHeld, Called, Monotone, SequencerInv
<1>2. CASE FailureSeen(u)
  <2>1. call'[u].pc = "idle" /\ \A v \in Users \ {u} : call'[v] = call[v]
    BY <1>0, <1>2 DEF FailureSeen, IdleCall
  <2>2. CurrentNext' = CurrentNext /\ last' = last /\ slot' = slot
    BY <1>2 DEF FailureSeen, CurrentNext
  <2> QED BY <2>1, <2>2 DEF SlotHeld, Called, Monotone, SequencerInv
<1>3. CASE call[u].pc \in {"loaded", "stored"} /\ SequencerStep(u)
  <2>1. \A v \in Users \ {u} : call[v].pc \notin {"loaded", "stored"}
    BY <1>3, Alone
  <2>2. call[u].object \in Objects
    BY <1>3 DEF SequencerInv, Called
  <2>3. CASE PersistReserve(u)
    <3>1. /\ call'[u].pc = "stored" /\ call'[u].object = call[u].object
          /\ call'[u].current = call[u].current
          /\ \A v \in Users \ {u} : call'[v] = call[v]
      BY <1>0, <2>3 DEF PersistReserve, Call
    <3>2. call[u].current = CurrentNext /\ CurrentNext' = CurrentNext + 1
          /\ last' = last /\ slot' = slot
      BY <1>0, <2>3 DEF PersistReserve, SequencerInv, Monotone, CurrentNext, Larger, Invalid
    <3> QED
      BY <1>0, <1>3, <2>1, <2>2, <3>1, <3>2 DEF SlotHeld, Called, Monotone, SequencerInv
  <2>4. CASE ReserveExhausted(u) \/ StoreFails(u)
    <3>1. call'[u].pc = "failed" /\ call'[u].object = call[u].object
          /\ \A v \in Users \ {u} : call'[v] = call[v]
      BY <1>0, <2>4 DEF ReserveExhausted, StoreFails, Call
    <3>2. CurrentNext' = CurrentNext /\ last' = last
      BY <2>4 DEF ReserveExhausted, StoreFails, CurrentNext
    <3> QED BY <2>1, <2>2, <3>1, <3>2 DEF SlotHeld, Called, Monotone, SequencerInv
  <2>5. CASE ReserveReturns(u)
    <3>1. call'[u].pc = "idle" /\ \A v \in Users \ {u} : call'[v] = call[v]
      BY <1>0, <2>5 DEF ReserveReturns, IdleCall
    <3>2. CurrentNext' = CurrentNext /\ last' = call[u].current /\ last' < CurrentNext
      BY <2>5 DEF ReserveReturns, CurrentNext, SequencerInv, Monotone
    <3> QED BY <2>1, <3>1, <3>2 DEF SlotHeld, Called, Monotone, SequencerInv
  <2>6. CASE Reconcile(u)
    <3>1. call'[u].pc = "idle" /\ \A v \in Users \ {u} : call'[v] = call[v]
      BY <1>0, <2>6 DEF Reconcile, IdleCall
    <3>2. call[u].current = CurrentNext
      BY <2>6 DEF Reconcile, SequencerInv, Monotone
    <3>3. CurrentNext' >= CurrentNext /\ CurrentNext' \in Int /\ last' = last
      BY <1>0, <2>6, <3>2 DEF Reconcile, ReconcileTarget, CurrentNext, Larger, Invalid
    <3> QED BY <1>0, <2>1, <3>1, <3>3 DEF SlotHeld, Called, Monotone, SequencerInv
  <2> QED
    BY <1>3, <2>3, <2>4, <2>5, <2>6 DEF SequencerStep, Load
<1> QED
  BY <1>1, <1>2, <1>3
     DEF SequencerStep, PersistReserve, ReserveExhausted, ReserveReturns, Reconcile, StoreFails

LEMMA InvStep ==
  ASSUME SingleObject PROVE SequencerInv /\ [SequencerNext]_store_vars => SequencerInv'
<1> SUFFICES ASSUME SequencerInv, [SequencerNext]_store_vars PROVE SequencerInv'
  OBVIOUS
<1>1. SequencerTypeOK'
  BY TypeStep DEF SequencerInv
<1>2. ASSUME NEW u \in Users, NEW o \in Objects,
             CallReserve(u, o) \/ \E a \in 0..MaxSafe : CallReconcile(u, o, a)
      PROVE  SlotHeld' /\ Called' /\ Monotone'
  <2>1. /\ call'[u].pc = "waiting" /\ call'[u].object = o
        /\ \A v \in Users \ {u} : call'[v] = call[v]
    <3>1. call \in [Users -> Call]
      BY DEF SequencerInv, SequencerTypeOK
    <3>2. CASE CallReserve(u, o)
      BY <3>1, <3>2 DEF CallReserve, IdleCall
    <3>3. CASE \E a \in 0..MaxSafe : CallReconcile(u, o, a)
      BY <3>1, <3>3 DEF CallReconcile, IdleCall
    <3> QED BY <1>2, <3>2, <3>3
  <2>2. CurrentNext' = CurrentNext /\ last' = last /\ slot' = slot
    BY <1>2 DEF CallReserve, CallReconcile, CurrentNext
  <2> QED BY <2>1, <2>2 DEF SlotHeld, Called, Monotone, SequencerInv
<1>3. CASE SequencerCrash
  <2>1. \A u \in Users : call'[u].pc = "idle"
    BY <1>3 DEF SequencerCrash, IdleCall
  <2>2. CurrentNext' = CurrentNext /\ last' = last
    BY <1>3 DEF SequencerCrash, CurrentNext
  <2> QED BY <1>1, <2>1, <2>2 DEF SlotHeld, Called, Monotone, SequencerInv
<1>4. CASE UNCHANGED store_vars
  BY <1>1, <1>4 DEF store_vars, SlotHeld, Called, Monotone, CurrentNext, SequencerInv
<1>5. SlotHeld' /\ Called' /\ Monotone'
  BY <1>2, <1>3, <1>4, CallsKeep DEF SequencerNext, SequencerInv
<1> QED BY <1>1, <1>5 DEF SequencerInv

LEMMA InvHolds == ASSUME SingleObject PROVE SequencerSpec => []SequencerInv
BY InvInit, InvStep, PTL DEF SequencerSpec

(* Neither the number returned last nor the next one ever moves back.      *)
LEMMA NumbersGrow ==
  ASSUME SingleObject, SequencerInv, [SequencerNext]_store_vars
  PROVE  last <= last' /\ CurrentNext <= CurrentNext'
<1> USE SequencerAssumption DEF SequencerAssumption
<1>1. CurrentNext \in 0..MaxSafe /\ last \in -1..MaxSafe /\ stored \in -1..MaxSafe
  BY NextInRange DEF SequencerInv, SequencerTypeOK
<1>2. ASSUME NEW u \in Users, PersistReserve(u) \/ Reconcile(u)
      PROVE  last <= last' /\ CurrentNext <= CurrentNext'
  <2>1. call[u].current = CurrentNext /\ call[u].accepted \in 0..MaxSafe
    BY <1>2 DEF PersistReserve, Reconcile, SequencerInv, SequencerTypeOK, Monotone, Call
  <2>2. CASE PersistReserve(u)
    BY <1>1, <2>1, <2>2 DEF PersistReserve, CurrentNext, Larger, Invalid
  <2>3. CASE Reconcile(u)
    BY <1>1, <2>1, <2>3 DEF Reconcile, ReconcileTarget, CurrentNext, Larger, Invalid
  <2> QED BY <1>2, <2>2, <2>3
<1>3. ASSUME NEW u \in Users, ReserveReturns(u)
      PROVE  last <= last' /\ CurrentNext <= CurrentNext'
  <2>1. last < call[u].current /\ call[u].current \in Nat
    BY <1>3 DEF ReserveReturns, SequencerInv, SequencerTypeOK, Monotone, Call
  <2> QED BY <1>1, <1>3, <2>1 DEF ReserveReturns, CurrentNext
<1>4. CASE UNCHANGED <<stored, last>>
  BY <1>1, <1>4 DEF CurrentNext
<1> QED
  BY <1>2, <1>3, <1>4
     DEF SequencerNext, SequencerStep, Load, ReserveExhausted, StoreFails, FailureSeen, CallReserve,
         CallReconcile, SequencerCrash, store_vars

(* A number that was or will be returned is behind the stored next one,     *)
(* whatever crashes: durable before it is used.                             *)
THEOREM ReservedIsDurableHolds == ASSUME SingleObject PROVE SequencerSpec => []ReservedIsDurable
<1>1. SequencerInv => ReservedIsDurable
  BY DEF SequencerInv, Monotone, ReservedIsDurable
<1> QED BY <1>1, InvHolds, PTL

(* No call works on a stale load.                                           *)
THEOREM LoadIsFreshHolds == ASSUME SingleObject PROVE SequencerSpec => []LoadIsFresh
<1>1. SequencerInv => LoadIsFresh
  BY DEF SequencerInv, Monotone, SlotHeld, LoadIsFresh
<1> QED BY <1>1, InvHolds, PTL

(* A sequence number is never reused: one sequencer object implements the   *)
(* abstract ticket issuer, for every number of callers, every floor and     *)
(* wire range and any number of crashes.                                    *)
THEOREM NeverReusedHolds == ASSUME SingleObject PROVE SequencerSpec => NeverReused
<1>1. SequencerInit => Ticket!Init
  BY DEF SequencerInit, Ticket!Init
<1>2. SequencerInv /\ [SequencerNext]_store_vars => [Ticket!Issue]_<<last, count>>
  <2> SUFFICES ASSUME SequencerInv, SequencerNext PROVE Ticket!Issue \/ UNCHANGED <<last, count>>
    BY DEF store_vars
  <2>1. ASSUME NEW u \in Users, ReserveReturns(u) PROVE Ticket!Issue
    <3>1. /\ last' = call[u].current /\ count' = count + 1
          /\ last < call[u].current /\ call[u].current < CurrentNext
      BY <2>1 DEF ReserveReturns, SequencerInv, Monotone
    <3>2. call[u].current \in 0..(MaxSafe - 1)
      BY <3>1, NextInRange, SequencerAssumption
         DEF SequencerAssumption, SequencerInv, SequencerTypeOK, Call
    <3> QED BY <3>1, <3>2 DEF Ticket!Issue
  <2> QED
    BY <2>1
       DEF SequencerNext, SequencerStep, Load, PersistReserve, ReserveExhausted, Reconcile,
           StoreFails, FailureSeen, CallReserve, CallReconcile, SequencerCrash
<1> QED BY <1>1, <1>2, InvHolds, PTL DEF SequencerSpec, NeverReused, Ticket!Spec


-----------------------------------------------------------------------------
(* Any number of objects: who is waited for.                                *)

(* A slot that is taken is held by a call that will release it in its next  *)
(* steps, and only a reserve stores without releasing.                      *)
SlotsAreInUse ==
  /\ Called
  /\ \A o \in Objects : slot[o] # Free =>
       call[slot[o]].pc \in {"loaded", "stored"} /\ call[slot[o]].object = o
  /\ \A u \in Users : call[u].pc = "stored" => call[u].op = "reserve"

LEMMA SlotsAreInUseInit == SequencerInit => SlotsAreInUse
BY DEF SequencerInit, SlotsAreInUse, Called, IdleCall

LEMMA SlotsAreInUseStep ==
  ASSUME SequencerTypeOK, SlotsAreInUse, [SequencerNext]_store_vars
  PROVE  SlotsAreInUse'
<1> USE SequencerAssumption DEF SequencerAssumption, SlotsAreInUse, Called
<1>0. /\ call \in [Users -> Call] /\ slot \in [Objects -> Users \cup {Free}]
  BY DEF SequencerTypeOK
<1>1. ASSUME NEW u \in Users, Load(u) PROVE SlotsAreInUse'
  BY <1>0, <1>1 DEF Load, Call
<1>2. ASSUME NEW u \in Users, PersistReserve(u) PROVE SlotsAreInUse'
  BY <1>0, <1>2 DEF PersistReserve, Call
<1>3. ASSUME NEW u \in Users, ReserveExhausted(u) \/ StoreFails(u) PROVE SlotsAreInUse'
  BY <1>0, <1>3 DEF ReserveExhausted, StoreFails, Release, Call
<1>4. ASSUME NEW u \in Users, ReserveReturns(u) \/ Reconcile(u) PROVE SlotsAreInUse'
  BY <1>0, <1>4 DEF ReserveReturns, Reconcile, Release, Call, IdleCall
<1>5. ASSUME NEW u \in Users, FailureSeen(u) PROVE SlotsAreInUse'
  BY <1>0, <1>5 DEF FailureSeen, Call, IdleCall
<1>6. ASSUME NEW u \in Users, NEW o \in Objects,
             CallReserve(u, o) \/ \E a \in 0..MaxSafe : CallReconcile(u, o, a)
      PROVE  SlotsAreInUse'
  <2>1. call[u].pc = "idle" /\ slot' = slot
    BY <1>6 DEF CallReserve, CallReconcile
  <2>2. call'[u].pc = "waiting" /\ call'[u].object = o
    <3>1. CASE CallReserve(u, o)
      BY <1>0, <3>1 DEF CallReserve, IdleCall
    <3>2. ASSUME NEW a \in 0..MaxSafe, CallReconcile(u, o, a)
          PROVE  call'[u].pc = "waiting" /\ call'[u].object = o
      BY <1>0, <3>2 DEF CallReconcile, IdleCall
    <3> QED BY <1>6, <3>1, <3>2
  <2>3. \A v \in Users \ {u} : call'[v] = call[v]
    BY <1>0, <1>6 DEF CallReserve, CallReconcile
  <2> QED BY <1>0, <2>1, <2>2, <2>3
<1>7. CASE SequencerCrash
  BY <1>7 DEF SequencerCrash, IdleCall
<1>8. CASE UNCHANGED store_vars
  BY <1>8 DEF store_vars
<1> QED
  BY <1>1, <1>2, <1>3, <1>4, <1>5, <1>6, <1>7, <1>8 DEF SequencerNext, SequencerStep
==============================================================================
