------------------------- MODULE LiveDeskServiceProofs -------------------------
(***************************************************************************)
(* Proofs about LiveDeskService, for any number of commands in progress:   *)
(* the gate follows the policy, publishing stands on the stored flag, and  *)
(* a pause survives a crash.                                               *)
(***************************************************************************)
EXTENDS LiveDeskService, TLAPS

On == config.server # Nothing /\ config.enabled

(* What is paused stays off, and only pause and unpair pause.              *)
PausedIsOff ==
  \A c \in Calls : calls[c].paused =>
    /\ ~On
    /\ calls[c].op \in {"disable", "unpair"}
    /\ calls[c].pc \in {"shutdown", "stopping", "forget", "remove", "clear", "drop"}

(* One shutdown at a time holds the coordinator disabled.                  *)
StoppingIsOne ==
  /\ coordinator.stopping => coordinator.state = "disabled"
  /\ \A c \in Calls : At(c, "stopping") => coordinator.stopping
  /\ \A c, d \in Calls : At(c, "stopping") /\ At(d, "stopping") => c = d

(* Publishing with the flag off is a pause on its way to the shutdown, or  *)
(* leaked; without a connection it is leaked.                              *)
PauseOnItsWay ==
  coordinator.state = "publishing" /\ ~On =>
    \/ history.leaked
    \/ config.server # Nothing /\ \E c \in Calls : calls[c].paused /\ At(c, "shutdown")

(* Only a pause or an unpair stores the disable.                           *)
DisableIsPause ==
  \A c \in Calls : At(c, "disable") => calls[c].op \in {"disable", "unpair"}

PauseInv == PausedIsOff /\ DisableIsPause /\ StoppingIsOne /\ PauseOnItsWay

-----------------------------------------------------------------------------

LEMMA TypeInit == Init => TypeOK
BY LiveDeskAssumption
   DEF LiveDeskAssumption, Init, TypeOK, Call, IdleCall, Basis, Projections, Ops, Pcs

(* The ways a step moves its call keep the calls' types.                   *)
LEMMA MovesTyped ==
  ASSUME TypeOK, NEW c \in Calls
  PROVE  /\ \A pc \in Pcs : Goto(c, pc) => calls' \in [Calls -> Call]
         /\ Return(c) => calls' \in [Calls -> Call]
         /\ \A pc \in Pcs : Restate(c, pc) => calls' \in [Calls -> Call]
         /\ AfterShutdown(c) => calls' \in [Calls -> Call]
<1>0. calls \in [Calls -> Call] /\ calls[c] \in Call
  BY DEF TypeOK
<1>1. ASSUME NEW pc \in Pcs, Goto(c, pc) PROVE calls' \in [Calls -> Call]
  BY <1>0, <1>1 DEF Goto, Call
<1>2. ASSUME Return(c) PROVE calls' \in [Calls -> Call]
  <2>1. IdleCall \in Call
    BY DEF IdleCall, Call, Ops, Pcs, Projections
  <2> QED BY <1>0, <1>2, <2>1 DEF Return
<1>3. ASSUME NEW pc \in Pcs, Restate(c, pc) PROVE calls' \in [Calls -> Call]
  <2>1. [IdleCall EXCEPT !.op = calls[c].op, !.pc = pc] \in Call
    BY <1>0 DEF IdleCall, Call, Projections
  <2> QED BY <1>0, <1>3, <2>1 DEF Restate
<1>4. ASSUME AfterShutdown(c) PROVE calls' \in [Calls -> Call]
  BY <1>1, <1>2, <1>4 DEF AfterShutdown, Pcs
<1> QED BY <1>1, <1>2, <1>3, <1>4

LEMMA CommandTyped ==
  ASSUME TypeOK, NEW c \in Calls, Command(c) PROVE TypeOK'
<1>0. calls \in [Calls -> Call] /\ calls[c] \in Call
  BY DEF TypeOK
<1>1. CASE Click(c)
  <2>1. preview \in Basis
    BY <1>1 DEF Click, TypeOK
  <2>2. calls' \in [Calls -> Call]
    BY <1>0, <1>1, <2>1 DEF Click, Call, Basis, Ops, Pcs
  <2> QED BY <1>1, <2>2 DEF Click, TypeOK
<1>2. ASSUME NEW policy \in Policies, ChangePolicy(c, policy) PROVE TypeOK'
  <2>1. calls' \in [Calls -> Call]
    BY <1>0, <1>2 DEF ChangePolicy, Call, Ops, Pcs
  <2> QED BY <1>2, <2>1 DEF ChangePolicy, TypeOK
<1>3. ASSUME NEW op \in Ops, NEW pc \in Pcs, Begin(c, op, pc) PROVE TypeOK'
  <2>1. calls' \in [Calls -> Call]
    BY <1>0, <1>3 DEF Begin, Call
  <2> QED BY <1>3, <2>1 DEF Begin, TypeOK
<1> QED BY <1>1, <1>2, <1>3 DEF Command, Ops, Pcs

LEMMA StepTyped ==
  ASSUME TypeOK, NEW c \in Calls, Step(c) PROVE TypeOK'
<1>0. calls \in [Calls -> Call] /\ calls[c] \in Call
  BY DEF TypeOK
<1>a. \A policy \in Policies, s \in Screens : Projection(policy, s) \in Projections
  BY DEF Projection, Projections
<1>b. Projection(config.policy, screen) \in Projections
  BY <1>a DEF TypeOK
<1>c. \A b \in BOOLEAN : SetEnabled(b) =>
        config' \in [server : Servers \cup {Nothing}, enabled : BOOLEAN, policy : Policies]
  BY DEF SetEnabled, TypeOK
<1>d. history \in [leaked : BOOLEAN, basis : Basis \cup {Nothing}]
      /\ Disowned \in [leaked : BOOLEAN, basis : Basis \cup {Nothing}]
  BY DEF Disowned, Running, TypeOK
<1>1. CASE UpdateFails(c)
  BY <1>1, MovesTyped DEF UpdateFails, TypeOK
<1>2. CASE Recapture(c) \/ CaptureFresh(c)
  <2>1. calls' \in [Calls -> Call]
    BY <1>0, <1>b, <1>2 DEF Recapture, CaptureFresh, Call, Pcs
  <2> QED BY <1>2, <2>1 DEF Recapture, CaptureFresh, TypeOK
<1>3. CASE Record(c)
  <2> DEFINE basis == [policy |-> gate.fingerprint, projection |-> calls[c].capture]
  <2>1. basis \in Basis
    BY <1>0 DEF TypeOK, Basis, Call
  <2>2. calls' \in [Calls -> Call]
    BY <1>0, <1>3, <2>1 DEF Record, Call, Pcs
  <2> QED BY <1>3, <2>1, <2>2 DEF Record, TypeOK
<1>4. CASE Expose(c)
  BY <1>0, <1>4, MovesTyped DEF Expose, TypeOK, Call
<1>5. CASE ReadPreview(c)
  <2>1. preview \in Basis \cup {Nothing}
    BY DEF TypeOK
  <2>2. calls' = [calls EXCEPT ![c].pc = "fingerprint", ![c].candidate = preview]
        => calls' = [calls EXCEPT ![c] =
                       [calls[c] EXCEPT !.pc = "fingerprint", !.candidate = preview]]
    BY <1>0
  <2>3. [calls[c] EXCEPT !.pc = "fingerprint", !.candidate = preview] \in Call
    BY <1>0, <2>1 DEF Call, Pcs
  <2>4. At(c, "clicked") /\ ~Return(c) => calls' \in [Calls -> Call]
    BY <1>0, <1>5, <2>2, <2>3 DEF ReadPreview
  <2> QED BY <1>5, <2>4, MovesTyped DEF ReadPreview, TypeOK
<1>6. CASE ReadFingerprint(c)
  <2>1. calls[c].candidate # Nothing /\ calls[c].ui = gate.fingerprint
        /\ calls' = [calls EXCEPT ![c].pc = "capture1", ![c].candidate.policy = calls[c].ui]
        => calls' \in [Calls -> Call]
    <3> SUFFICES ASSUME calls[c].candidate # Nothing, calls[c].ui = gate.fingerprint,
                        calls' = [calls EXCEPT ![c].pc = "capture1",
                                               ![c].candidate.policy = calls[c].ui]
                 PROVE  calls' \in [Calls -> Call]
      OBVIOUS
    <3>1. calls[c].candidate \in Basis /\ calls[c].ui \in Policies
      BY <1>0 DEF Call, TypeOK
    <3>2. [calls[c].candidate EXCEPT !.policy = calls[c].ui] \in Basis
      BY <3>1 DEF Basis
    <3>3. calls' = [calls EXCEPT ![c] = [calls[c] EXCEPT
                      !.pc = "capture1",
                      !.candidate = [calls[c].candidate EXCEPT !.policy = calls[c].ui]]]
      BY <1>0
    <3>4. [calls[c] EXCEPT !.pc = "capture1",
             !.candidate = [calls[c].candidate EXCEPT !.policy = calls[c].ui]] \in Call
      BY <1>0, <3>2 DEF Call, Pcs
    <3> QED BY <1>0, <3>3, <3>4
  <2> QED BY <1>6, <2>1, MovesTyped DEF ReadFingerprint, TypeOK, Pcs
<1>7. CASE Validation1(c)
  BY <1>7, MovesTyped DEF Validation1, TypeOK, Pcs
<1>8. CASE PersistEnable(c)
  <2>1. calls' \in [Calls -> Call]
    BY <1>0, <1>8 DEF PersistEnable, Call, Pcs
  <2>2. history' \in [leaked : BOOLEAN, basis : Basis \cup {Nothing}]
    BY <1>0, <1>d, <1>8 DEF PersistEnable, Call
  <2> QED BY <1>8, <1>c, <2>1, <2>2 DEF PersistEnable, TypeOK
<1>9. CASE ReadPolicy(c)
  BY <1>9, MovesTyped DEF ReadPolicy, TypeOK, Pcs
<1>10. CASE Validation2(c)
  BY <1>10, MovesTyped DEF Validation2, TypeOK, Pcs
<1>11. CASE Rollback(c)
  BY <1>11, <1>c, <1>d, MovesTyped DEF Rollback, TypeOK, Pcs
<1>12. CASE StartCoordinator(c)
  BY <1>12, MovesTyped DEF StartCoordinator, TypeOK
<1>13. CASE PersistDisable(c)
  <2>1. calls' = [calls EXCEPT ![c].pc = "shutdown", ![c].paused = TRUE]
        => calls' = [calls EXCEPT ![c] = [calls[c] EXCEPT !.pc = "shutdown", !.paused = TRUE]]
    BY <1>0
  <2>2. [calls[c] EXCEPT !.pc = "shutdown", !.paused = TRUE] \in Call
    BY <1>0 DEF Call, Pcs
  <2>3. calls' \in [Calls -> Call]
    BY <1>0, <1>13, <2>1, <2>2, MovesTyped DEF PersistDisable
  <2> QED BY <1>13, <1>c, <1>d, <2>3 DEF PersistDisable, TypeOK
<1>14. CASE Shutdown(c)
  <2>1. calls' \in [Calls -> Call]
    BY <1>14, MovesTyped DEF Shutdown, Pcs
  <2>2. history' \in [leaked : BOOLEAN, basis : Basis \cup {Nothing}]
    BY <1>14, <1>d DEF Shutdown
  <2>3. coordinator' \in {coordinator, [state |-> "disabled", stopping |-> TRUE]}
    BY <1>14 DEF Shutdown
  <2> DEFINE Coordinators == [state : {"disabled", "connecting", "publishing", "suspended"},
                              stopping : BOOLEAN]
  <2>6. coordinator \in Coordinators
    BY DEF TypeOK
  <2>7. [state |-> "disabled", stopping |-> TRUE] \in Coordinators
    OBVIOUS
  <2>4. coordinator' \in Coordinators
    BY <2>3, <2>6, <2>7
  <2>5. UNCHANGED <<config, gate, preview, screen>>
    BY <1>14 DEF Shutdown
  <2> QED BY <2>1, <2>2, <2>4, <2>5 DEF TypeOK
<1>15. CASE ShutdownReturns(c)
  BY <1>15, MovesTyped DEF ShutdownReturns, TypeOK
<1>16. CASE ReplaceConnection(c)
  <2>1. calls' \in [Calls -> Call]
    BY <1>16, MovesTyped DEF ReplaceConnection, Pcs
  <2> QED BY <1>16, <1>d, <2>1 DEF ReplaceConnection, TypeOK
<1>17. CASE RemoveSequence(c)
  BY <1>17, MovesTyped DEF RemoveSequence, TypeOK, Pcs
<1>18. CASE RemoveConnection(c)
  <2>1. calls' \in [Calls -> Call]
    BY <1>18, MovesTyped DEF RemoveConnection, Pcs
  <2> QED BY <1>18, <1>d, <2>1 DEF RemoveConnection, TypeOK
<1>19. CASE ClearGate(c)
  BY <1>19, MovesTyped DEF ClearGate, TypeOK, Pcs
<1>20. CASE DropPreview(c)
  BY <1>20, MovesTyped DEF DropPreview, TypeOK
<1>21. CASE PolicyDidChange(c)
  <2>1. calls' \in [Calls -> Call]
    BY <1>21, MovesTyped DEF PolicyDidChange, Pcs
  <2> QED BY <1>21, <2>1 DEF PolicyDidChange, TypeOK
<1> QED
  BY Step(c), <1>1, <1>2, <1>3, <1>4, <1>5, <1>6, <1>7, <1>8, <1>9, <1>10, <1>11, <1>12, <1>13,
     <1>14, <1>15, <1>16, <1>17, <1>18, <1>19, <1>20, <1>21 DEF Step

LEMMA TypeStep == TypeOK /\ [Next]_vars => TypeOK'
<1> SUFFICES ASSUME TypeOK, [Next]_vars PROVE TypeOK'
  OBVIOUS
<1>1. CASE Negotiate \/ Renegotiate \/ SleepOrLock \/ WakeOrUnlock
  BY <1>1 DEF Negotiate, Renegotiate, SleepOrLock, WakeOrUnlock, TypeOK
<1>2. CASE ScreenChanges
  BY <1>2 DEF ScreenChanges, TypeOK
<1>3. CASE Restart
  <2>1. calls' \in [Calls -> Call]
    BY <1>3 DEF Restart, Call, IdleCall, Ops, Pcs, Projections
  <2> QED BY <1>3, <2>1 DEF Restart, TypeOK
<1>4. CASE UNCHANGED vars
  BY <1>4 DEF vars, TypeOK
<1> QED BY <1>1, <1>2, <1>3, <1>4, CommandTyped, StepTyped DEF Next

(* State keeps its types, for any number of commands.                      *)
THEOREM TypeCorrect == Spec => []TypeOK
BY TypeInit, TypeStep, PTL DEF Spec

-----------------------------------------------------------------------------
(* A step of a call, seen from outside: what its op, pc and pause become.  *)

Stays(d) ==
  calls'[d].op = calls[d].op /\ calls'[d].pc = calls[d].pc /\ calls'[d].paused = calls[d].paused

Becomes(c, op, pc, paused) ==
  /\ calls'[c].op = op /\ calls'[c].pc = pc /\ calls'[c].paused = paused
  /\ \A d \in Calls \ {c} : Stays(d)

LEMMA MovesBecome ==
  ASSUME TypeOK, NEW c \in Calls
  PROVE  /\ \A pc \in Pcs : Goto(c, pc) => Becomes(c, calls[c].op, pc, calls[c].paused)
         /\ Return(c) => Becomes(c, "none", "idle", FALSE)
         /\ \A pc \in Pcs : Restate(c, pc) => Becomes(c, calls[c].op, pc, FALSE)
<1>0. calls \in [Calls -> Call] /\ calls[c] \in Call
  BY DEF TypeOK
<1>1. ASSUME NEW pc \in Pcs, Goto(c, pc) PROVE Becomes(c, calls[c].op, pc, calls[c].paused)
  BY <1>0, <1>1 DEF Goto, Becomes, Stays, Call
<1>2. ASSUME Return(c) PROVE Becomes(c, "none", "idle", FALSE)
  BY <1>0, <1>2 DEF Return, Becomes, Stays, IdleCall
<1>3. ASSUME NEW pc \in Pcs, Restate(c, pc) PROVE Becomes(c, calls[c].op, pc, FALSE)
  BY <1>0, <1>3 DEF Restate, Becomes, Stays, IdleCall
<1> QED BY <1>1, <1>2, <1>3

(* The steps of preview and consent that only read.                        *)
Reads(c) ==
  \/ UpdateFails(c) \/ Recapture(c) \/ Record(c) \/ Expose(c) \/ ReadPreview(c)
  \/ ReadFingerprint(c) \/ CaptureFresh(c) \/ Validation1(c) \/ ReadPolicy(c) \/ Validation2(c)

ReadingPcs ==
  {"idle", "record", "expose", "fingerprint", "capture1", "recapture", "check1", "policy2",
   "enable", "check2", "rollback", "start"}

LEMMA ReadsBecome ==
  ASSUME TypeOK, PausedIsOff, NEW c \in Calls, Reads(c)
  PROVE  /\ config' = config /\ coordinator' = coordinator /\ history'.leaked = history.leaked
         /\ calls[c].pc \notin {"shutdown", "stopping", "notify"}
         /\ \E op \in Ops, pc \in ReadingPcs : Becomes(c, op, pc, FALSE)
<1>0. calls \in [Calls -> Call] /\ calls[c] \in Call /\ calls[c].op \in Ops
  BY DEF TypeOK, Call
<1>1. CASE UpdateFails(c)
  BY <1>1, MovesBecome DEF UpdateFails, Ops, ReadingPcs
<1>2. CASE Expose(c)
  BY <1>2, MovesBecome DEF Expose, At, Ops, ReadingPcs
<1>3. CASE Recapture(c)
  <2>1. Becomes(c, calls[c].op, "record", calls[c].paused)
    BY <1>0, <1>3 DEF Recapture, Becomes, Stays, Call
  <2> QED BY <1>0, <1>3, <2>1 DEF Recapture, At, PausedIsOff, Call, ReadingPcs
<1>4. CASE Record(c)
  <2>1. Becomes(c, calls[c].op, "expose", calls[c].paused)
    BY <1>0, <1>4 DEF Record, Becomes, Stays, Call
  <2> QED BY <1>0, <1>4, <2>1 DEF Record, At, PausedIsOff, Call, ReadingPcs
<1>5. CASE ReadPreview(c)
  <2>1. Becomes(c, calls[c].op, "fingerprint", calls[c].paused)
        \/ Becomes(c, "none", "idle", FALSE)
    BY <1>0, <1>5, MovesBecome DEF ReadPreview, Becomes, Stays, Call
  <2> QED BY <1>0, <1>5, <2>1 DEF ReadPreview, At, PausedIsOff, Call, Ops, ReadingPcs
<1>6. CASE ReadFingerprint(c)
  <2>1. Becomes(c, calls[c].op, "capture1", calls[c].paused)
        \/ Becomes(c, calls[c].op, "recapture", FALSE)
    <3>1. CASE Restate(c, "recapture")
      BY <3>1, MovesBecome DEF Pcs
    <3>2. CASE calls' = [calls EXCEPT ![c].pc = "capture1", ![c].candidate.policy = calls[c].ui]
      BY <1>0, <3>2 DEF Becomes, Stays, Call
    <3> QED BY <1>6, <3>1, <3>2 DEF ReadFingerprint
  <2> QED BY <1>0, <1>6, <2>1 DEF ReadFingerprint, At, PausedIsOff, Call, ReadingPcs
<1>7. CASE CaptureFresh(c)
  <2>1. \E pc \in {"check1", "policy2"} : Becomes(c, calls[c].op, pc, calls[c].paused)
    BY <1>0, <1>7 DEF CaptureFresh, Becomes, Stays, Call
  <2> QED BY <1>0, <1>7, <2>1 DEF CaptureFresh, PausedIsOff, Call, ReadingPcs
<1>8. CASE Validation1(c)
  <2>1. Becomes(c, calls[c].op, "enable", calls[c].paused)
        \/ Becomes(c, calls[c].op, "recapture", FALSE)
    BY <1>8, MovesBecome DEF Validation1, Pcs
  <2> QED BY <1>0, <1>8, <2>1 DEF Validation1, At, PausedIsOff, Call, ReadingPcs
<1>9. CASE ReadPolicy(c)
  <2>1. Becomes(c, calls[c].op, "check2", calls[c].paused)
        \/ Becomes(c, calls[c].op, "rollback", FALSE)
    BY <1>9, MovesBecome DEF ReadPolicy, Pcs
  <2> QED BY <1>0, <1>9, <2>1 DEF ReadPolicy, At, PausedIsOff, Call, ReadingPcs
<1>10. CASE Validation2(c)
  <2>1. Becomes(c, calls[c].op, "start", calls[c].paused)
        \/ Becomes(c, calls[c].op, "rollback", FALSE)
    BY <1>10, MovesBecome DEF Validation2, Pcs
  <2>2. history'.leaked = history.leaked
    BY <1>10 DEF Validation2, TypeOK
  <2> QED BY <1>0, <1>10, <2>1, <2>2 DEF Validation2, At, PausedIsOff, Call, ReadingPcs
<1> QED
  BY Reads(c), <1>1, <1>2, <1>3, <1>4, <1>5, <1>6, <1>7, <1>8, <1>9, <1>10 DEF Reads

-----------------------------------------------------------------------------
(* The pause. *)

PausedPcs == {"shutdown", "stopping", "forget", "remove", "clear", "drop"}

LEMMA PauseInit == Init => PauseInv
BY LiveDeskAssumption
   DEF Init, PauseInv, PausedIsOff, DisableIsPause, StoppingIsOne, PauseOnItsWay, At, IdleCall, On

(* A step that leaves the flag and the coordinator alone, and its call     *)
(* outside of a shutdown, keeps the pause.                                 *)
LEMMA QuietKeepsPause ==
  ASSUME TypeOK, PauseInv, NEW c \in Calls, NEW op, NEW pc, NEW paused,
         Becomes(c, op, pc, paused), pc \notin {"shutdown", "stopping", "disable"},
         calls[c].pc # "shutdown" \/ coordinator.state = "disabled",
         paused => calls[c].paused /\ op = calls[c].op /\ pc \in PausedPcs,
         On' = On, config'.server = config.server, coordinator' = coordinator,
         history'.leaked = history.leaked
  PROVE  PauseInv'
<1>1. PausedIsOff' /\ DisableIsPause'
  BY DEF PauseInv, PausedIsOff, DisableIsPause, Becomes, Stays, PausedPcs, At
<1>2. StoppingIsOne'
  BY DEF PauseInv, StoppingIsOne, Becomes, Stays, At
<1>3. PauseOnItsWay'
  BY DEF PauseInv, PauseOnItsWay, Becomes, Stays, At
<1> QED BY <1>1, <1>2, <1>3 DEF PauseInv

LEMMA CommandKeepsPause ==
  ASSUME TypeOK, PauseInv, NEW c \in Calls, Command(c) PROVE PauseInv'
<1>0. calls \in [Calls -> Call] /\ calls[c] \in Call
  BY DEF TypeOK
<1>1. At(c, "idle") /\ ~calls[c].paused /\ coordinator' = coordinator /\ history' = history
  BY DEF Command, Begin, Click, ChangePolicy, At, PauseInv, PausedIsOff
<1>2. On' = On /\ config'.server = config.server
  BY DEF Command, Begin, Click, ChangePolicy, On, TypeOK
<1>3. \E op \in Ops, pc \in Pcs \ {"stopping"} :
        Becomes(c, op, pc, FALSE) /\ (pc = "disable" => op \in {"disable", "unpair"})
  <2>1. CASE Click(c)
    <3>1. Becomes(c, "confirm", "clicked", FALSE)
      BY <1>0, <1>1, <2>1 DEF Click, Becomes, Stays, Call
    <3>2. "confirm" \in Ops /\ "clicked" \in Pcs \ {"stopping"} /\ "clicked" # "disable"
      BY DEF Ops, Pcs
    <3> QED BY <3>1, <3>2
  <2>2. ASSUME NEW policy \in Policies, ChangePolicy(c, policy)
        PROVE  Becomes(c, "policy", "notify", FALSE)
    BY <1>0, <1>1, <2>2 DEF ChangePolicy, Becomes, Stays, Call
  <2>3. ASSUME NEW op \in Ops, NEW pc \in Pcs, Begin(c, op, pc)
        PROVE  Becomes(c, op, pc, FALSE)
    BY <1>0, <1>1, <2>3 DEF Begin, Becomes, Stays, Call
  <2>4. /\ {"policy", "pair", "preview", "disable", "unpair"} \subseteq Ops
        /\ {"notify", "shutdown", "recapture", "disable"} \subseteq Pcs \ {"stopping"}
    BY DEF Ops, Pcs
  <2>5. Becomes(c, "policy", "notify", FALSE) \/ Becomes(c, "pair", "shutdown", FALSE)
        \/ Becomes(c, "preview", "recapture", FALSE) \/ Becomes(c, "disable", "disable", FALSE)
        \/ Becomes(c, "unpair", "disable", FALSE) \/ Click(c)
    BY <2>2, <2>3, <2>4 DEF Command
  <2> QED BY <2>1, <2>4, <2>5
<1>4. PausedIsOff' /\ DisableIsPause'
  BY <1>2, <1>3 DEF PauseInv, PausedIsOff, DisableIsPause, Becomes, Stays, At
<1>5. StoppingIsOne'
  BY <1>1, <1>3 DEF PauseInv, StoppingIsOne, Becomes, Stays, At
<1>6. PauseOnItsWay'
  BY <1>1, <1>2, <1>3 DEF PauseInv, PauseOnItsWay, Becomes, Stays, At
<1> QED BY <1>4, <1>5, <1>6 DEF PauseInv

LEMMA StepKeepsPause ==
  ASSUME TypeOK, PauseInv, NEW c \in Calls, Step(c) PROVE PauseInv'
<1>0. calls \in [Calls -> Call] /\ calls[c] \in Call /\ history.leaked \in BOOLEAN
      /\ config.enabled \in BOOLEAN
  BY DEF TypeOK
<1>1. CASE Reads(c)
  <2>1. PICK op \in Ops, pc \in ReadingPcs : Becomes(c, op, pc, FALSE)
    BY <1>1, ReadsBecome DEF PauseInv
  <2> QED
    BY <1>1, <2>1, ReadsBecome, QuietKeepsPause DEF PauseInv, ReadingPcs, On
<1>2. CASE PersistEnable(c)
  <2>1. ~calls[c].paused
    BY <1>2 DEF PersistEnable, At, PauseInv, PausedIsOff
  <2>2. \A d \in Calls : ~calls'[d].paused
    BY <1>0, <1>2, <2>1 DEF PersistEnable, Call
  <2>3. \A d \in Calls : calls'[d].pc = "stopping" => calls[d].pc = "stopping"
    BY <1>0, <1>2 DEF PersistEnable, TypeOK, Call
  <2>4. history'.leaked = history.leaked /\ coordinator' = coordinator
    BY <1>2 DEF PersistEnable, TypeOK
  <2>5. config'.server = config.server /\ (config.server # Nothing => On')
    BY <1>2 DEF PersistEnable, SetEnabled, TypeOK, On
  <2>6. StoppingIsOne'
    BY <2>3, <2>4 DEF PauseInv, StoppingIsOne, At
  <2>7. PauseOnItsWay'
    BY <2>4, <2>5 DEF PauseInv, PauseOnItsWay, On
  <2>8. DisableIsPause'
    BY <1>0, <1>2 DEF PersistEnable, PauseInv, DisableIsPause, At, TypeOK, Call
  <2> QED BY <2>2, <2>6, <2>7, <2>8 DEF PauseInv, PausedIsOff
<1>3. ASSUME Rollback(c) \/ ReplaceConnection(c) \/ RemoveConnection(c) PROVE PauseInv'
  <2>1. ~On' /\ coordinator' = coordinator
    BY <1>3 DEF Rollback, ReplaceConnection, RemoveConnection, SetEnabled, On, TypeOK
  <2>2. history.leaked \/ Running => history'.leaked
    <3>1. history' = Disowned
      BY <1>3 DEF Rollback, ReplaceConnection, RemoveConnection
    <3>2. Disowned.leaked <=> (history.leaked \/ Running)
      BY DEF Disowned
    <3> QED BY <3>1, <3>2
  <2>3. calls[c].pc \in {"rollback", "replace", "remove"}
    BY <1>3 DEF Rollback, ReplaceConnection, RemoveConnection, At
  <2>4. Becomes(c, calls[c].op, "recapture", FALSE)
        \/ Becomes(c, calls[c].op, "clear", calls[c].paused)
    BY <1>3, MovesBecome DEF Rollback, ReplaceConnection, RemoveConnection, Pcs
  <2>5. PausedIsOff' /\ DisableIsPause'
    BY <2>1, <2>4 DEF PauseInv, PausedIsOff, DisableIsPause, Becomes, Stays, At
  <2>6. StoppingIsOne'
    BY <2>1, <2>4 DEF PauseInv, StoppingIsOne, Becomes, Stays, At
  <2>7. PauseOnItsWay'
    BY <2>1, <2>2 DEF PauseOnItsWay, Running
  <2> QED BY <2>5, <2>6, <2>7 DEF PauseInv
<1>4. CASE StartCoordinator(c)
  <2>1. Becomes(c, "none", "idle", FALSE) /\ calls[c].pc = "start"
    BY <1>4, MovesBecome DEF StartCoordinator, At
  <2>2. /\ UNCHANGED <<config, history>>
        /\ \/ coordinator' = coordinator
           \/ /\ coordinator'.state = "connecting"
              /\ ~coordinator.stopping /\ ~coordinator'.stopping
    <3>1. CASE coordinator.stopping
      BY <1>4, <3>1 DEF StartCoordinator
    <3>2. CASE ~coordinator.stopping
      BY <1>4, <3>2 DEF StartCoordinator, TypeOK
    <3> QED BY <3>1, <3>2
  <2>3. PausedIsOff' /\ DisableIsPause'
    BY <2>1, <2>2 DEF PauseInv, PausedIsOff, DisableIsPause, Becomes, Stays, On, At
  <2>4. StoppingIsOne'
    BY <2>1, <2>2 DEF PauseInv, StoppingIsOne, Becomes, Stays, At
  <2>5. PauseOnItsWay'
    BY <2>1, <2>2 DEF PauseInv, PauseOnItsWay, Becomes, Stays, At, On
  <2> QED BY <2>3, <2>4, <2>5 DEF PauseInv
<1>5. CASE PersistDisable(c)
  <2>1. CASE calls[c].op = "unpair" /\ config.server = Nothing
    <3>1. Becomes(c, "none", "idle", FALSE) /\ UNCHANGED <<config, history, coordinator>>
          /\ calls[c].pc = "disable"
      BY <1>5, <2>1, MovesBecome DEF PersistDisable, At
    <3> QED BY <3>1, QuietKeepsPause DEF On
  <2>2. CASE ~(calls[c].op = "unpair" /\ config.server = Nothing)
    <3>0. calls' = [calls EXCEPT ![c] = [calls[c] EXCEPT !.pc = "shutdown", !.paused = TRUE]]
      BY <1>0, <1>5, <2>2 DEF PersistDisable
    <3>1. Becomes(c, calls[c].op, "shutdown", TRUE) /\ calls[c].pc = "disable"
      BY <1>0, <1>5, <3>0 DEF PersistDisable, Becomes, Stays, Call, At
    <3>2. ~On' /\ config'.server = config.server /\ coordinator' = coordinator
          /\ history'.leaked = history.leaked
      BY <1>5, <2>2 DEF PersistDisable, SetEnabled, On, TypeOK
    <3>3. calls[c].op \in {"disable", "unpair"}
      BY <3>1 DEF PauseInv, DisableIsPause, At
    <3>4. PausedIsOff' /\ DisableIsPause'
      BY <3>1, <3>2, <3>3 DEF PauseInv, PausedIsOff, DisableIsPause, Becomes, Stays, At
    <3>5. StoppingIsOne'
      BY <3>1, <3>2 DEF PauseInv, StoppingIsOne, Becomes, Stays, At
    <3>6. PauseOnItsWay'
      BY <3>1, <3>2 DEF PauseInv, PauseOnItsWay, Becomes, Stays, At, On
    <3> QED BY <3>4, <3>5, <3>6 DEF PauseInv
  <2> QED BY <2>1, <2>2
<1>6. CASE Shutdown(c) /\ ~coordinator.stopping
  <2>1. Becomes(c, calls[c].op, "stopping", calls[c].paused) /\ calls[c].pc = "shutdown"
    BY <1>6, MovesBecome DEF Shutdown, At, Pcs
  <2>2. config' = config /\ coordinator' = [state |-> "disabled", stopping |-> TRUE]
    BY <1>6 DEF Shutdown
  <2>3. PausedIsOff' /\ DisableIsPause'
    BY <2>1, <2>2 DEF PauseInv, PausedIsOff, DisableIsPause, Becomes, Stays, On, At
  <2>4. StoppingIsOne'
    BY <1>6, <2>1, <2>2 DEF PauseInv, StoppingIsOne, Becomes, Stays, At
  <2>5. PauseOnItsWay'
    BY <2>2 DEF PauseOnItsWay
  <2> QED BY <2>3, <2>4, <2>5 DEF PauseInv
<1>7. AfterShutdown(c) /\ calls[c].pc \in {"shutdown", "stopping"} =>
        \E op, pc, paused : /\ Becomes(c, op, pc, paused)
                            /\ pc \notin {"shutdown", "stopping", "disable"}
                            /\ paused => calls[c].paused /\ op = calls[c].op /\ pc \in PausedPcs
  <2>1. CASE calls[c].op = "pair"
    <3>1. calls[c].paused = FALSE
      BY <1>0, <2>1 DEF PauseInv, PausedIsOff, Call
    <3>2. AfterShutdown(c) => Becomes(c, calls[c].op, "replace", calls[c].paused)
      BY <2>1, MovesBecome DEF AfterShutdown, Pcs
    <3> QED BY <3>1, <3>2
  <2>2. CASE calls[c].op = "unpair"
    <3>1. AfterShutdown(c) => Becomes(c, calls[c].op, "forget", calls[c].paused)
      BY <2>2, MovesBecome DEF AfterShutdown, Pcs
    <3> QED BY <3>1 DEF PausedPcs
  <2>3. CASE calls[c].op \notin {"pair", "unpair"}
    <3>1. AfterShutdown(c) => Becomes(c, "none", "idle", FALSE)
      BY <2>3, MovesBecome DEF AfterShutdown
    <3> QED BY <3>1
  <2> QED BY <2>1, <2>2, <2>3
<1>8. CASE Shutdown(c) /\ coordinator.stopping
  <2>1. AfterShutdown(c) /\ UNCHANGED <<config, coordinator, history>>
        /\ calls[c].pc = "shutdown" /\ coordinator.state = "disabled"
    BY <1>8 DEF Shutdown, At, PauseInv, StoppingIsOne
  <2> QED BY <2>1, <1>7, QuietKeepsPause DEF On
<1>9. CASE ShutdownReturns(c)
  <2>1. AfterShutdown(c) /\ UNCHANGED <<config, history>> /\ calls[c].pc = "stopping"
        /\ coordinator.state = "disabled" /\ coordinator' = [coordinator EXCEPT !.stopping = FALSE]
    BY <1>9 DEF ShutdownReturns, At, PauseInv, StoppingIsOne
  <2>2. coordinator'.state = "disabled" /\ ~coordinator'.stopping
    BY <2>1 DEF TypeOK
  <2>3. PICK op, pc, paused :
          /\ Becomes(c, op, pc, paused) /\ pc \notin {"shutdown", "stopping", "disable"}
          /\ paused => calls[c].paused /\ op = calls[c].op /\ pc \in PausedPcs
    BY <2>1, <1>7
  <2>4. PausedIsOff' /\ DisableIsPause'
    BY <2>1, <2>3 DEF PauseInv, PausedIsOff, DisableIsPause, Becomes, Stays, On, At, PausedPcs
  <2>5. \A d \in Calls : ~At(d, "stopping")'
    BY <2>1, <2>3 DEF PauseInv, StoppingIsOne, Becomes, Stays, At
  <2>6. StoppingIsOne' /\ PauseOnItsWay'
    BY <2>2, <2>5 DEF StoppingIsOne, PauseOnItsWay
  <2> QED BY <2>4, <2>6 DEF PauseInv
<1>10. CASE RemoveSequence(c) \/ ClearGate(c) \/ DropPreview(c) \/ PolicyDidChange(c)
  <2>1. UNCHANGED <<config, coordinator, history>>
        /\ calls[c].pc \in {"forget", "clear", "drop", "notify"}
    BY <1>10 DEF RemoveSequence, ClearGate, DropPreview, PolicyDidChange, At
  <2>2. Becomes(c, "none", "idle", FALSE)
        \/ \E pc \in {"remove", "drop"} : Becomes(c, calls[c].op, pc, calls[c].paused)
    BY <1>10, MovesBecome DEF RemoveSequence, ClearGate, DropPreview, PolicyDidChange, Pcs
  <2> QED BY <2>1, <2>2, QuietKeepsPause DEF On, PausedPcs
<1> QED
  BY Step(c), <1>1, <1>2, <1>3, <1>4, <1>5, <1>6, <1>8, <1>9, <1>10 DEF Step, Reads

LEMMA PauseStep == TypeOK /\ PauseInv /\ [Next]_vars => PauseInv'
<1> SUFFICES ASSUME TypeOK, PauseInv, [Next]_vars PROVE PauseInv'
  OBVIOUS
<1>1. CASE Negotiate \/ Renegotiate \/ SleepOrLock \/ WakeOrUnlock
  <2>1. UNCHANGED <<config, calls, history>> /\ coordinator'.stopping = coordinator.stopping
    BY <1>1 DEF Negotiate, Renegotiate, SleepOrLock, WakeOrUnlock, TypeOK
  <2>2. ~coordinator.stopping /\ (coordinator'.state = "publishing" => On)
    BY <1>1 DEF Negotiate, Renegotiate, SleepOrLock, WakeOrUnlock, TypeOK, On, PauseInv,
                StoppingIsOne
  <2> QED
    BY <2>1, <2>2
       DEF PauseInv, PausedIsOff, DisableIsPause, StoppingIsOne, PauseOnItsWay, At, On
<1>2. CASE ScreenChanges \/ UNCHANGED vars
  BY <1>2
     DEF ScreenChanges, vars, PauseInv, PausedIsOff, DisableIsPause, StoppingIsOne,
         PauseOnItsWay, At, On
<1>3. CASE Restart
  <2>1. \A c \in Calls : calls'[c] = IdleCall
    BY <1>3 DEF Restart
  <2>2. coordinator'.state # "publishing" /\ ~coordinator'.stopping
    BY <1>3 DEF Restart
  <2> QED
    BY <2>1, <2>2
       DEF PauseInv, PausedIsOff, DisableIsPause, StoppingIsOne, PauseOnItsWay, At, IdleCall
<1> QED BY <1>1, <1>2, <1>3, CommandKeepsPause, StepKeepsPause DEF Next

(* Publishing stands on the stored flag, a pause under way or a flag that  *)
(* was cleared behind the coordinator's back, for any number of commands.  *)
THEOREM PublishingIsEnabledHolds == Spec => []PublishingIsEnabled
<1>1. PauseInv => PublishingIsEnabled
  BY DEF PauseInv, PauseOnItsWay, PublishingIsEnabled, On
<1>2. Spec => []PauseInv
  BY TypeCorrect, PauseInit, PauseStep, PTL DEF Spec
<1> QED BY <1>1, <1>2, PTL

(* A crash in a pause never resumes: what is paused is off on disk.        *)
THEOREM PauseSurvivesCrashHolds == Spec => PauseSurvivesCrash
<1>1. PauseInv => [(Restart /\ \E c \in Calls : calls[c].paused)
                      => coordinator'.state = "disabled"]_vars
  BY DEF PauseInv, PausedIsOff, On, Restart
<1>2. Spec => []PauseInv
  BY TypeCorrect, PauseInit, PauseStep, PTL DEF Spec
<1> QED BY <1>1, <1>2, PTL DEF PauseSurvivesCrash

-----------------------------------------------------------------------------
(* The gate. *)

LEMMA GateInit == Init => GateFollowsPolicy
BY DEF Init, GateFollowsPolicy

(* A call that is to notify the gate stays there until it does.            *)
LEMMA NotifyStays ==
  ASSUME TypeOK, PauseInv, NEW c \in Calls, Step(c), ~PolicyDidChange(c)
  PROVE  /\ config'.policy = config.policy
         /\ \A d \in Calls : At(d, "notify") => At(d, "notify")'
<1>0. calls \in [Calls -> Call]
  BY DEF TypeOK
<1>1. CASE Reads(c)
  BY <1>1, ReadsBecome DEF PauseInv, Becomes, Stays, At
<1>2. CASE PersistEnable(c)
  <2>1. config'.policy = config.policy
    BY <1>2 DEF PersistEnable, SetEnabled, TypeOK
  <2> QED BY <1>0, <1>2, <2>1 DEF PersistEnable, At, Call
<1>3. CASE Rollback(c) \/ PersistDisable(c) \/ ReplaceConnection(c) \/ RemoveConnection(c)
  <2>1. config'.policy = config.policy
    BY <1>3 DEF Rollback, PersistDisable, ReplaceConnection, RemoveConnection, SetEnabled, TypeOK
  <2>2. ~At(c, "notify") /\ \A d \in Calls \ {c} : calls'[d] = calls[d]
    BY <1>0, <1>3 DEF Rollback, PersistDisable, ReplaceConnection, RemoveConnection, At, Goto,
                      Return, Restate
  <2> QED BY <2>1, <2>2 DEF At
<1>4. CASE StartCoordinator(c) \/ Shutdown(c) \/ ShutdownReturns(c) \/ RemoveSequence(c)
           \/ ClearGate(c) \/ DropPreview(c)
  <2>1. config' = config
    BY <1>4 DEF StartCoordinator, Shutdown, ShutdownReturns, RemoveSequence, ClearGate, DropPreview
  <2>2. ~At(c, "notify") /\ \A d \in Calls \ {c} : calls'[d] = calls[d]
    BY <1>0, <1>4 DEF StartCoordinator, Shutdown, ShutdownReturns, RemoveSequence, ClearGate,
                      DropPreview, AfterShutdown, At, Goto, Return
  <2> QED BY <2>1, <2>2 DEF At
<1> QED BY Step(c), ~PolicyDidChange(c), <1>1, <1>2, <1>3, <1>4 DEF Step, Reads

LEMMA GateStep == TypeOK /\ PauseInv /\ GateFollowsPolicy /\ [Next]_vars => GateFollowsPolicy'
<1> SUFFICES ASSUME TypeOK, PauseInv, GateFollowsPolicy, [Next]_vars PROVE GateFollowsPolicy'
  OBVIOUS
<1>0. calls \in [Calls -> Call]
  BY DEF TypeOK
<1>1. ASSUME NEW c \in Calls, Command(c) PROVE GateFollowsPolicy'
  <2>1. ASSUME NEW policy \in Policies, ChangePolicy(c, policy) PROVE GateFollowsPolicy'
    <3>1. At(c, "notify")' /\ gate' = gate
      BY <1>0, <2>1 DEF ChangePolicy, At, Call
    <3> QED BY <3>1 DEF GateFollowsPolicy
  <2>2. CASE ~\E policy \in Policies : ChangePolicy(c, policy)
    <3>1. UNCHANGED <<config, gate>> /\ At(c, "idle")
          /\ \A d \in Calls \ {c} : calls'[d] = calls[d]
      BY <1>0, <1>1, <2>2 DEF Command, Begin, Click, At
    <3> QED BY <3>1 DEF GateFollowsPolicy, At
  <2> QED BY <2>1, <2>2
<1>2. ASSUME NEW c \in Calls, Step(c) PROVE GateFollowsPolicy'
  <2>1. CASE PolicyDidChange(c)
    <3>1. config' = config /\ gate'.fingerprint = config.policy
      BY <2>1 DEF PolicyDidChange
    <3>2. gate' = gate \/ gate'.confirmation = Nothing
      BY <2>1 DEF PolicyDidChange
    <3> QED BY <3>1, <3>2 DEF GateFollowsPolicy
  <2>2. CASE Record(c)
    <3>1. gate'.fingerprint = gate.fingerprint
          /\ gate'.confirmation.policy = gate.fingerprint
      BY <2>2 DEF Record, TypeOK
    <3>2. ~PolicyDidChange(c)
      BY <2>2 DEF Record, PolicyDidChange, At
    <3> QED BY <1>2, <3>1, <3>2, NotifyStays DEF GateFollowsPolicy
  <2>3. CASE ClearGate(c)
    <3>1. gate'.fingerprint = gate.fingerprint /\ gate'.confirmation = Nothing
      BY <2>3 DEF ClearGate, TypeOK
    <3>2. ~PolicyDidChange(c)
      BY <2>3 DEF ClearGate, PolicyDidChange, At
    <3> QED BY <1>2, <3>1, <3>2, NotifyStays DEF GateFollowsPolicy
  <2>4. CASE ~PolicyDidChange(c) /\ ~Record(c) /\ ~ClearGate(c)
    <3>1. gate' = gate
      BY <1>2, <2>4
         DEF Step, UpdateFails, Recapture, Expose, ReadPreview, ReadFingerprint, CaptureFresh,
             Validation1, PersistEnable, ReadPolicy, Validation2, Rollback, StartCoordinator,
             PersistDisable, Shutdown, ShutdownReturns, ReplaceConnection, RemoveSequence,
             RemoveConnection, DropPreview
    <3> QED BY <1>2, <2>4, <3>1, NotifyStays DEF GateFollowsPolicy
  <2> QED BY <2>1, <2>2, <2>3, <2>4
<1>3. CASE Restart
  BY <1>3 DEF Restart, GateFollowsPolicy
<1>4. CASE Negotiate \/ Renegotiate \/ SleepOrLock \/ WakeOrUnlock \/ ScreenChanges
           \/ UNCHANGED vars
  <2>1. UNCHANGED <<config, gate, calls>>
    BY <1>4 DEF Negotiate, Renegotiate, SleepOrLock, WakeOrUnlock, ScreenChanges, vars
  <2> QED BY <2>1 DEF GateFollowsPolicy, At
<1> QED BY <1>1, <1>2, <1>3, <1>4 DEF Next

(* Consent is judged under the stored policy, and no confirmation outlives *)
(* the policy it was given under.                                          *)
THEOREM GateFollowsPolicyHolds == Spec => []GateFollowsPolicy
BY TypeCorrect, PauseInit, PauseStep, GateInit, GateStep, PTL DEF Spec

-----------------------------------------------------------------------------
(* The coordinator of this module is the desk that Coordinator implements.  *)

DeskSteps == Desk!Next \/ UNCHANGED Desk!desk

LEMMA SameDesk == UNCHANGED coordinator => DeskSteps
BY DEF DeskSteps, Desk!desk, DeskView

(* A command moves the coordinator by a start, a shutdown or its return.    *)
LEMMA CallMovesDesk ==
  ASSUME TypeOK, PauseInv, NEW c \in Calls, Command(c) \/ Step(c)
  PROVE  DeskSteps
<1>1. CASE Command(c)
  BY <1>1, SameDesk DEF Command, Begin, Click, ChangePolicy
<1>2. CASE StartCoordinator(c)
  <2>1. CASE coordinator.stopping
    BY <1>2, <2>1, SameDesk DEF StartCoordinator
  <2>2. CASE ~coordinator.stopping
    <3>1. coordinator'.state = "connecting" /\ coordinator'.stopping = coordinator.stopping
      BY <1>2, <2>2 DEF StartCoordinator, TypeOK
    <3> QED
      BY <2>2, <3>1
         DEF DeskSteps, DeskView, Desk!Next, Desk!Asked, Desk!Start, Desk!Becomes
  <2> QED BY <2>1, <2>2
<1>3. CASE Shutdown(c)
  <2>1. CASE coordinator.stopping
    BY <1>3, <2>1, SameDesk DEF Shutdown
  <2>2. CASE ~coordinator.stopping
    <3>1. coordinator'.state = "disabled" /\ coordinator'.stopping = TRUE
      BY <1>3, <2>2 DEF Shutdown
    <3> QED
      BY <2>2, <3>1 DEF DeskSteps, DeskView, Desk!Next, Desk!Asked, Desk!Shutdown
  <2> QED BY <2>1, <2>2
<1>4. CASE ShutdownReturns(c)
  <2>1. /\ coordinator.stopping /\ coordinator'.stopping = FALSE
        /\ coordinator'.state = coordinator.state
    BY <1>4 DEF ShutdownReturns, TypeOK, PauseInv, StoppingIsOne
  <2> QED
    BY <2>1 DEF DeskSteps, DeskView, Desk!Next, Desk!Asked, Desk!ShutdownReturns
<1>5. CASE Step(c) /\ UNCHANGED coordinator
  BY <1>5, SameDesk
<1> QED
  BY <1>1, <1>2, <1>3, <1>4, <1>5
     DEF Step, UpdateFails, Recapture, Record, Expose, ReadPreview, ReadFingerprint, CaptureFresh,
         Validation1, PersistEnable, ReadPolicy, Validation2, Rollback, PersistDisable,
         ReplaceConnection, RemoveSequence, RemoveConnection, ClearGate, DropPreview,
         PolicyDidChange

LEMMA DeskMovesItself ==
  ASSUME TypeOK, PauseInv
  PROVE  /\ Negotiate \/ Renegotiate => Desk!Unasked
         /\ SleepOrLock \/ WakeOrUnlock => DeskSteps
<1> USE DEF TypeOK, DeskView
<1>0. coordinator.state # "disabled" => ~coordinator.stopping
  BY DEF PauseInv, StoppingIsOne
<1>1. ASSUME Negotiate PROVE Desk!Unasked
  <2>1. /\ coordinator.state = "connecting" /\ coordinator'.state \in {"publishing", "disabled"}
        /\ coordinator'.stopping = coordinator.stopping
    BY <1>1 DEF Negotiate
  <2> QED BY <1>0, <2>1 DEF Desk!Unasked, Desk!Negotiated, Desk!Becomes
<1>2. ASSUME Renegotiate PROVE Desk!Unasked
  <2>1. /\ coordinator.state = "publishing" /\ coordinator'.state = "connecting"
        /\ coordinator'.stopping = coordinator.stopping
    BY <1>2 DEF Renegotiate
  <2> QED BY <1>0, <2>1 DEF Desk!Unasked, Desk!Retry, Desk!Becomes
<1>3. ASSUME SleepOrLock PROVE DeskSteps
  <2>1. /\ ~coordinator.stopping /\ coordinator'.state = "suspended"
        /\ coordinator'.stopping = coordinator.stopping
    BY <1>3 DEF SleepOrLock
  <2> QED BY <2>1 DEF DeskSteps, Desk!Next, Desk!Asked, Desk!Suspend, Desk!Becomes
<1>4. ASSUME WakeOrUnlock PROVE DeskSteps
  <2>1. /\ coordinator.state = "suspended" /\ coordinator'.state = "connecting"
        /\ coordinator'.stopping = coordinator.stopping
    BY <1>4 DEF WakeOrUnlock
  <2> QED BY <1>0, <2>1 DEF DeskSteps, Desk!Next, Desk!Resume, Desk!Becomes
<1> QED BY <1>1, <1>2, <1>3, <1>4

LEMMA RestartIsRestart == Restart => Desk!Restart
BY DEF Restart, DeskView, Desk!Restart

(* Through any number of overlapping commands, locks and wakes, the         *)
(* coordinator moves as Coordinator lets it; a crash alone starts it over.  *)
THEOREM MovesAsDeskHolds == Spec => MovesAsDesk
<1>1. Init => Desk!Init
  BY DEF Init, DeskView, Desk!Init
<1>2. TypeOK /\ PauseInv /\ [Next]_vars => Restart \/ DeskSteps
  <2> SUFFICES ASSUME TypeOK, PauseInv, [Next]_vars, ~Restart PROVE DeskSteps
    OBVIOUS
  <2>1. CASE Negotiate \/ Renegotiate
    BY <2>1, DeskMovesItself DEF DeskSteps, Desk!Next
  <2>2. CASE SleepOrLock \/ WakeOrUnlock
    BY <2>2, DeskMovesItself
  <2>3. CASE ScreenChanges \/ UNCHANGED vars
    BY <2>3, SameDesk DEF ScreenChanges, vars
  <2> QED BY <2>1, <2>2, <2>3, CallMovesDesk DEF Next
<1>3. TypeOK /\ PauseInv /\ [Next]_vars => [Desk!Next \/ Desk!Restart]_(Desk!desk)
  BY <1>2, RestartIsRestart DEF DeskSteps
<1>4. TypeOK /\ PauseInv /\ [Next]_vars =>
        /\ [~Restart => [Desk!Next]_(Desk!desk)]_vars
        /\ [Negotiate \/ Renegotiate => Desk!Unasked]_vars
  BY <1>2, DeskMovesItself DEF DeskSteps
<1>5. Spec => [](TypeOK /\ PauseInv)
  BY TypeInit, PauseInit, TypeStep, PauseStep, PTL DEF Spec
<1> QED BY <1>1, <1>3, <1>4, <1>5, PTL DEF Spec, MovesAsDesk, Desk!RestartingSpec

(* Nothing the coordinator may do by itself, or when the session sleeps or  *)
(* wakes, is missing here: such a step of the desk is a step of this        *)
(* module, at any point of any command. That a negotiation ends live just   *)
(* when the stored flag is on is what the gate of configure adds.           *)
THEOREM DeskIsFree ==
  ASSUME TypeOK, PauseInv,
         Desk!Unasked \/ Desk!Suspend \/ Desk!Resume,
         DeskView = "Connecting" => (DeskView' = "Live" => On) /\ (DeskView' = "Off" => ~On),
         coordinator' \in [state : {"disabled", "connecting", "publishing", "suspended"},
                           stopping : BOOLEAN],
         UNCHANGED <<config, gate, preview, screen, calls, history>>
  PROVE  [Next]_vars
<1> USE DEF TypeOK, DeskView
<1>1. CASE Desk!Suspend
  <2>1. /\ ~coordinator.stopping /\ coordinator'.state = "suspended"
        /\ coordinator'.stopping = coordinator.stopping
    BY <1>1 DEF Desk!Suspend, Desk!Becomes
  <2>2. coordinator' = [coordinator EXCEPT !.state = "suspended"]
    BY <2>1
  <2>3. coordinator.state = "suspended" => coordinator' = coordinator
    BY <2>2
  <2> QED BY <2>1, <2>2, <2>3 DEF SleepOrLock, Next, vars
<1>2. CASE Desk!Resume
  <2>1. /\ coordinator.state = "suspended" /\ coordinator'.state = "connecting"
        /\ coordinator'.stopping = coordinator.stopping
    BY <1>2 DEF Desk!Resume, Desk!Becomes
  <2>2. coordinator' = [coordinator EXCEPT !.state = "connecting"]
    BY <2>1
  <2> QED BY <2>1, <2>2 DEF WakeOrUnlock, Next
<1>3. CASE Desk!Negotiated
  <2>1. /\ coordinator.state = "connecting"
        /\ coordinator'.state = IF On THEN "publishing" ELSE "disabled"
        /\ coordinator'.stopping = coordinator.stopping
    BY <1>3 DEF Desk!Negotiated, Desk!Becomes
  <2>2. coordinator' = [coordinator EXCEPT !.state = IF On THEN "publishing" ELSE "disabled"]
    BY <2>1
  <2> QED BY <2>1, <2>2 DEF Negotiate, Next, On
<1>4. CASE Desk!Retry
  <2>1. /\ coordinator.state = "publishing" /\ coordinator'.state = "connecting"
        /\ coordinator'.stopping = coordinator.stopping
    BY <1>4 DEF Desk!Retry, Desk!Becomes
  <2>2. coordinator' = [coordinator EXCEPT !.state = "connecting"]
    BY <2>1
  <2> QED BY <2>1, <2>2 DEF Renegotiate, Next
<1> QED BY <1>1, <1>2, <1>3, <1>4 DEF Desk!Unasked

===============================================================================
