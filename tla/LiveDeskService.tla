---------------------------- MODULE LiveDeskService ----------------------------
(***************************************************************************)
(* The companion service (core/src/companion/service.rs): pairing, the     *)
(* consent boundary, pause and unpair over the configuration file, the     *)
(* consent gate, the recorded preview and the coordinator.                 *)
(*                                                                         *)
(* The commands are asynchronous and nothing serialises them: each is a    *)
(* call with a program counter, and every await or lock is a point where   *)
(* another call, a lock or wake of the session, or a crash can come.  The  *)
(* coordinator is reduced to the part of Coordinator that start, shutdown, *)
(* sleep, wake and the stored enable flag decide.                          *)
(***************************************************************************)
CONSTANTS
  Calls,         (* bound on commands in progress at the same time         *)
  Policies,      (* privacy configurations (fingerprints)                  *)
  Strict,        (* the policy that shares nothing                         *)
  Screens,       (* what is in the foreground and playing                  *)
  Servers,       (* sites that can be paired                               *)
  Nothing        (* no server, preview, confirmation or projection         *)

ASSUME LiveDeskAssumption ==
  /\ Strict \in Policies
  /\ Nothing \notin Screens \cup Servers \cup Policies

VARIABLES
  config,        (* config.json and its copy in memory                     *)
  gate,          (* ConsentGate                                            *)
  preview,       (* the recorded preview                                   *)
  screen,        (* what a capture would see                               *)
  coordinator,   (* the lifecycle of the coordinator                       *)
  calls,         (* the commands in progress                               *)
  history        (* for the properties: leaked, the flag was cleared under *)
                 (* a running coordinator that nothing then stopped; and   *)
                 (* basis, what an enable not validated twice stands on    *)

vars == <<config, gate, preview, screen, coordinator, calls, history>>

(* The sanitised projection of what a capture sees under a policy.         *)
Projection(policy, s) == IF policy = Strict THEN Nothing ELSE s
Projections == Screens \cup {Nothing}
Basis == [policy : Policies, projection : Projections]

Ops == {"none", "pair", "preview", "confirm", "disable", "unpair", "policy"}
Pcs == {"idle", "clicked", "fingerprint", "capture1", "check1", "enable", "capture2", "policy2",
        "check2", "rollback", "start", "disable", "shutdown", "stopping", "replace", "forget",
        "remove", "clear", "drop", "notify", "recapture", "record", "expose"}

Call == [op : Ops, pc : Pcs, ui : Policies \cup {Nothing}, seen : Projections,
         candidate : Basis \cup {Nothing}, capture : Projections, paused : BOOLEAN]
IdleCall == [op |-> "none", pc |-> "idle", ui |-> Nothing, seen |-> Nothing,
             candidate |-> Nothing, capture |-> Nothing, paused |-> FALSE]

TypeOK ==
  /\ config \in [server : Servers \cup {Nothing}, enabled : BOOLEAN, policy : Policies]
  /\ gate \in [fingerprint : Policies, confirmation : Basis \cup {Nothing}]
  /\ preview \in Basis \cup {Nothing}
  /\ screen \in Screens
  /\ coordinator \in [state : {"disabled", "connecting", "publishing", "suspended"},
                      stopping : BOOLEAN]
  /\ calls \in [Calls -> Call]
  /\ history \in [leaked : BOOLEAN, basis : Basis \cup {Nothing}]

Init ==
  /\ \E policy \in Policies :
       /\ config = [server |-> Nothing, enabled |-> FALSE, policy |-> policy]
       /\ gate = [fingerprint |-> policy, confirmation |-> Nothing]
  /\ preview = Nothing
  /\ screen \in Screens
  /\ coordinator = [state |-> "disabled", stopping |-> FALSE]
  /\ calls = [c \in Calls |-> IdleCall]
  /\ history = [leaked |-> FALSE, basis |-> Nothing]

Running == coordinator.state \in {"connecting", "publishing"}

-----------------------------------------------------------------------------
(* Steps of a call. *)

At(c, pc) == calls[c].pc = pc
Goto(c, pc) == calls' = [calls EXCEPT ![c].pc = pc]
Return(c) == calls' = [calls EXCEPT ![c] = IdleCall]
(* Nothing the call has read so far matters to its remaining steps.        *)
Restate(c, pc) == calls' = [calls EXCEPT ![c] = [IdleCall EXCEPT !.op = calls[c].op, !.pc = pc]]

Begin(c, op, pc) ==
  /\ At(c, "idle")
  /\ calls' = [calls EXCEPT ![c].op = op, ![c].pc = pc]
  /\ UNCHANGED <<config, gate, preview, screen, coordinator, history>>

(* update of the enable flag, when there is a connection.                  *)
SetEnabled(b) ==
  config' = IF config.server = Nothing THEN config ELSE [config EXCEPT !.enabled = b]

(* The flag is written FALSE by a call that no longer stops the coordinator. *)
Disowned == [leaked |-> history.leaked \/ Running, basis |-> Nothing]

(* A write of the configuration fails and the call returns `internal`.     *)
UpdateFails(c) ==
  /\ calls[c].pc \in {"enable", "rollback", "disable", "replace", "remove"}
  /\ Return(c)
  /\ UNCHANGED <<config, gate, preview, screen, coordinator, history>>

(* refresh_preview, the tail of every command that records a basis.        *)
Recapture(c) ==
  /\ At(c, "recapture")
  /\ calls' = [calls EXCEPT ![c].pc = "record", ![c].capture = Projection(config.policy, screen)]
  /\ UNCHANGED <<config, gate, preview, screen, coordinator, history>>

Record(c) ==
  /\ At(c, "record")
  /\ LET basis == [policy |-> gate.fingerprint, projection |-> calls[c].capture]
     IN /\ gate' = [gate EXCEPT !.confirmation = basis]
        /\ calls' = [calls EXCEPT ![c].pc = "expose", ![c].candidate = basis]
  /\ UNCHANGED <<config, preview, screen, coordinator, history>>

Expose(c) ==
  /\ At(c, "expose")
  /\ preview' = calls[c].candidate
  /\ Return(c)
  /\ UNCHANGED <<config, gate, screen, coordinator, history>>

-----------------------------------------------------------------------------
(* confirm_consent. The click carries the fingerprint of the preview on    *)
(* display; what the user saw is remembered for the properties only.       *)

Click(c) ==
  /\ At(c, "idle") /\ preview # Nothing
  /\ calls' = [calls EXCEPT ![c].op = "confirm", ![c].pc = "clicked", ![c].ui = preview.policy,
                            ![c].seen = preview.projection]
  /\ UNCHANGED <<config, gate, preview, screen, coordinator, history>>

ReadPreview(c) ==
  /\ At(c, "clicked")
  /\ IF config.server = Nothing THEN Return(c)
     ELSE calls' = [calls EXCEPT ![c].pc = "fingerprint", ![c].candidate = preview]
  /\ UNCHANGED <<config, gate, preview, screen, coordinator, history>>

(* The candidate binds the clicked fingerprint to the recorded projection. *)
ReadFingerprint(c) ==
  /\ At(c, "fingerprint")
  /\ IF calls[c].candidate # Nothing /\ calls[c].ui = gate.fingerprint
     THEN calls' = [calls EXCEPT ![c].pc = "capture1", ![c].candidate.policy = calls[c].ui]
     ELSE Restate(c, "recapture")
  /\ UNCHANGED <<config, gate, preview, screen, coordinator, history>>

CaptureFresh(c) ==
  /\ calls[c].pc \in {"capture1", "capture2"}
  /\ calls' = [calls EXCEPT ![c].pc = IF @ = "capture1" THEN "check1" ELSE "policy2",
                            ![c].capture = Projection(config.policy, screen)]
  /\ UNCHANGED <<config, gate, preview, screen, coordinator, history>>

Validates(c) ==
  /\ gate.confirmation = calls[c].candidate
  /\ calls[c].candidate.policy = gate.fingerprint
  /\ calls[c].candidate.projection = calls[c].capture

Validation1(c) ==
  /\ At(c, "check1")
  /\ IF Validates(c) THEN Goto(c, "enable") ELSE Restate(c, "recapture")
  /\ UNCHANGED <<config, gate, preview, screen, coordinator, history>>

(* The enable is on disk before the second validation. A pause in progress *)
(* is no longer the last word on the flag.                                 *)
PersistEnable(c) ==
  /\ At(c, "enable")
  /\ SetEnabled(TRUE)
  /\ calls' = [d \in Calls |-> IF d = c THEN [calls[d] EXCEPT !.pc = "capture2"]
                               ELSE [calls[d] EXCEPT !.paused = FALSE]]
  /\ history' = IF config.server = Nothing \/ config.enabled THEN history
                ELSE [history EXCEPT !.basis = calls[c].candidate]
  /\ UNCHANGED <<gate, preview, screen, coordinator>>

ReadPolicy(c) ==
  /\ At(c, "policy2")
  /\ IF config.policy = calls[c].ui THEN Goto(c, "check2") ELSE Restate(c, "rollback")
  /\ UNCHANGED <<config, gate, preview, screen, coordinator, history>>

Validation2(c) ==
  /\ At(c, "check2")
  /\ IF Validates(c)
     THEN Goto(c, "start") /\ history' = [history EXCEPT !.basis = Nothing]
     ELSE Restate(c, "rollback") /\ UNCHANGED history
  /\ UNCHANGED <<config, gate, preview, screen, coordinator>>

(* Rolls back the file, not a coordinator that runs.                       *)
Rollback(c) ==
  /\ At(c, "rollback")
  /\ SetEnabled(FALSE)
  /\ history' = Disowned
  /\ Restate(c, "recapture")
  /\ UNCHANGED <<gate, preview, screen, coordinator>>

StartCoordinator(c) ==
  /\ At(c, "start")
  /\ coordinator' = IF coordinator.stopping THEN coordinator
                    ELSE [coordinator EXCEPT !.state = "connecting"]
  /\ Return(c)
  /\ UNCHANGED <<config, gate, preview, screen, history>>

-----------------------------------------------------------------------------
(* pair, disable_live_desk, unpair. *)

(* Faulty variant: the pause is not written before the shutdown.            *)
PersistDisable_Later(c) ==
  /\ At(c, "disable")
  /\ calls' = [calls EXCEPT ![c].pc = "shutdown", ![c].paused = TRUE]
  /\ UNCHANGED <<config, gate, preview, screen, coordinator, history>>

(* An unpair without a connection returns at once.                         *)
PersistDisable(c) ==
  /\ At(c, "disable")
  /\ IF calls[c].op = "unpair" /\ config.server = Nothing
     THEN Return(c) /\ UNCHANGED <<config, history>>
     ELSE /\ SetEnabled(FALSE)
          /\ calls' = [calls EXCEPT ![c].pc = "shutdown", ![c].paused = TRUE]
          /\ history' = [history EXCEPT !.basis = Nothing]
  /\ UNCHANGED <<gate, preview, screen, coordinator>>

AfterShutdown(c) ==
  CASE calls[c].op = "pair" -> Goto(c, "replace")
    [] calls[c].op = "unpair" -> Goto(c, "forget")
    [] OTHER -> Return(c)
(* Faulty variant: an unpair leaves the coordinator in the facade's NotPaired. *)
Shutdown_NotPaired(c) ==
  /\ At(c, "shutdown") /\ ~coordinator.stopping
  /\ coordinator' = [state |-> IF calls[c].op = "unpair" THEN "notPaired" ELSE "disabled",
                     stopping |-> TRUE]
  /\ history' = [history EXCEPT !.leaked = FALSE]
  /\ Goto(c, "stopping")
  /\ UNCHANGED <<config, gate, preview, screen>>

Shutdown(c) ==
  /\ At(c, "shutdown")
  /\ IF coordinator.stopping
     THEN AfterShutdown(c) /\ UNCHANGED <<coordinator, history>>
     ELSE /\ coordinator' = [state |-> "disabled", stopping |-> TRUE]
          /\ history' = [history EXCEPT !.leaked = FALSE]
          /\ Goto(c, "stopping")
  /\ UNCHANGED <<config, gate, preview, screen>>

ShutdownReturns(c) ==
  /\ At(c, "stopping")
  /\ coordinator' = [coordinator EXCEPT !.stopping = FALSE]
  /\ AfterShutdown(c)
  /\ UNCHANGED <<config, gate, preview, screen, history>>

(* The token is stored and the connection replaced, disabled.              *)
ReplaceConnection(c) ==
  /\ At(c, "replace")
  /\ \E server \in Servers : config' = [config EXCEPT !.server = server, !.enabled = FALSE]
  /\ history' = Disowned
  /\ Restate(c, "recapture")
  /\ UNCHANGED <<gate, preview, screen, coordinator>>

(* The credential goes (best effort), then the sequence.                   *)
RemoveSequence(c) ==
  /\ At(c, "forget")
  /\ Goto(c, "remove") \/ Return(c)
  /\ UNCHANGED <<config, gate, preview, screen, coordinator, history>>

RemoveConnection(c) ==
  /\ At(c, "remove")
  /\ config' = [config EXCEPT !.server = Nothing, !.enabled = FALSE]
  /\ history' = Disowned
  /\ Goto(c, "clear")
  /\ UNCHANGED <<gate, preview, screen, coordinator>>

ClearGate(c) ==
  /\ At(c, "clear")
  /\ gate' = [gate EXCEPT !.confirmation = Nothing]
  /\ Goto(c, "drop")
  /\ UNCHANGED <<config, preview, screen, coordinator, history>>

DropPreview(c) ==
  /\ At(c, "drop")
  /\ preview' = Nothing
  /\ Return(c)
  /\ UNCHANGED <<config, gate, screen, coordinator, history>>

-----------------------------------------------------------------------------
(* A privacy command: config.update, then policy_maybe_changed. These      *)
(* commands run one after the other.                                       *)

ChangePolicy(c, policy) ==
  /\ At(c, "idle") /\ \A d \in Calls : calls[d].op # "policy"
  /\ config' = [config EXCEPT !.policy = policy]
  /\ calls' = [calls EXCEPT ![c].op = "policy", ![c].pc = "notify"]
  /\ UNCHANGED <<gate, preview, screen, coordinator, history>>

(* Faulty variant: the recorded confirmation survives the new policy.        *)
PolicyDidChange_KeepsConfirmation(c) ==
  /\ At(c, "notify")
  /\ gate' = [gate EXCEPT !.fingerprint = config.policy]
  /\ Goto(c, "drop")
  /\ UNCHANGED <<config, preview, screen, coordinator, history>>

PolicyDidChange(c) ==
  /\ At(c, "notify")
  /\ IF config.policy = gate.fingerprint
     THEN Return(c) /\ UNCHANGED gate
     ELSE /\ gate' = [fingerprint |-> config.policy, confirmation |-> Nothing]
          /\ Goto(c, "drop")
  /\ UNCHANGED <<config, preview, screen, coordinator, history>>

-----------------------------------------------------------------------------
(* The coordinator and the surroundings. *)

(* Faulty variant: a negotiation asks only for a connection.                 *)
Negotiate_AnyConnection ==
  /\ coordinator.state = "connecting"
  /\ coordinator' = [coordinator EXCEPT !.state = IF config.server # Nothing
                                                  THEN "publishing" ELSE "disabled"]
  /\ UNCHANGED <<config, gate, preview, screen, calls, history>>

(* A negotiation reads the stored flag (the entry gate of configure).      *)
Negotiate ==
  /\ coordinator.state = "connecting"
  /\ coordinator' = [coordinator EXCEPT !.state = IF config.server # Nothing /\ config.enabled
                                                  THEN "publishing" ELSE "disabled"]
  /\ UNCHANGED <<config, gate, preview, screen, calls, history>>

(* A retry, a rejected feature or a missed suspend.                        *)
Renegotiate ==
  /\ coordinator.state = "publishing"
  /\ coordinator' = [coordinator EXCEPT !.state = "connecting"]
  /\ UNCHANGED <<config, gate, preview, screen, calls, history>>

(* Faulty variant: a lock suspends the desk also while it is being shut    *)
(* down.                                                                   *)
SleepOrLock_WhileStopping ==
  /\ coordinator.state # "suspended"
  /\ coordinator' = [coordinator EXCEPT !.state = "suspended"]
  /\ UNCHANGED <<config, gate, preview, screen, calls, history>>

SleepOrLock ==
  /\ coordinator.state # "suspended" /\ ~coordinator.stopping
  /\ coordinator' = [coordinator EXCEPT !.state = "suspended"]
  /\ UNCHANGED <<config, gate, preview, screen, calls, history>>

WakeOrUnlock ==
  /\ coordinator.state = "suspended"
  /\ coordinator' = [coordinator EXCEPT !.state = "connecting"]
  /\ UNCHANGED <<config, gate, preview, screen, calls, history>>

ScreenChanges ==
  /\ screen' \in Screens \ {screen}
  /\ UNCHANGED <<config, gate, preview, coordinator, calls, history>>

(* The process dies and starts again: only the file survives, and          *)
(* CompanionService::start resumes an enabled desk.                        *)
Restart ==
  /\ gate' = [fingerprint |-> config.policy, confirmation |-> Nothing]
  /\ preview' = Nothing
  /\ coordinator' = [state |-> IF config.server # Nothing /\ config.enabled
                               THEN "connecting" ELSE "disabled",
                     stopping |-> FALSE]
  /\ calls' = [c \in Calls |-> IdleCall]
  /\ history' = [history EXCEPT !.leaked = FALSE]
  /\ UNCHANGED <<config, screen>>

Command(c) ==
  \/ Begin(c, "pair", "shutdown") \/ Begin(c, "preview", "recapture") \/ Click(c)
  \/ Begin(c, "disable", "disable") \/ Begin(c, "unpair", "disable")
  \/ \E policy \in Policies : ChangePolicy(c, policy)

Step(c) ==
  \/ UpdateFails(c) \/ Recapture(c) \/ Record(c) \/ Expose(c)
  \/ ReadPreview(c) \/ ReadFingerprint(c) \/ CaptureFresh(c) \/ Validation1(c)
  \/ PersistEnable(c) \/ ReadPolicy(c) \/ Validation2(c) \/ Rollback(c) \/ StartCoordinator(c)
  \/ PersistDisable(c) \/ Shutdown(c) \/ ShutdownReturns(c) \/ ReplaceConnection(c)
  \/ RemoveSequence(c) \/ RemoveConnection(c) \/ ClearGate(c) \/ DropPreview(c)
  \/ PolicyDidChange(c)

Next ==
  \/ \E c \in Calls : Command(c) \/ Step(c)
  \/ Negotiate \/ Renegotiate \/ SleepOrLock \/ WakeOrUnlock \/ ScreenChanges \/ Restart

Spec == Init /\ [][Next]_vars

-----------------------------------------------------------------------------
(* Properties *)

(* service.rs "a crash mid-way must never resume publishing": when the     *)
(* process dies at any point of a pause or an unpair after its write, and  *)
(* no later consent wrote the flag again, the next start stays disabled.   *)
PauseSurvivesCrash ==
  [][(Restart /\ \E c \in Calls : calls[c].paused)
       => coordinator'.state = "disabled"]_vars

(* Publishing stands on the stored flag: while the coordinator publishes,  *)
(* either the connection is enabled, or the pause that cleared the flag is *)
(* still on its way to the shutdown, or a call cleared the flag under a    *)
(* coordinator restarted behind its back (rollback, pair, unpair).         *)
PublishingIsEnabled ==
  coordinator.state = "publishing" /\ ~(config.server # Nothing /\ config.enabled)
    => history.leaked \/ \E c \in Calls : calls[c].paused

(* The gate judges consent under the stored policy as soon as the privacy  *)
(* command has notified it, and a recorded confirmation never outlives the *)
(* policy it was given under (README: a privacy change invalidates it).    *)
GateFollowsPolicy ==
  /\ config.policy = gate.fingerprint \/ \E c \in Calls : At(c, "notify")
  /\ gate.confirmation # Nothing => gate.confirmation.policy = gate.fingerprint

(* service.rs "a stale write can never start publishing": no step starts   *)
(* publishing on an enable that still awaits its second validation when    *)
(* what is captured now differs from the basis of that enable.             *)
StaleWriteNeverStarts ==
  [][(coordinator.state # "publishing" /\ coordinator'.state = "publishing")
       => \/ history.basis = Nothing
          \/ history.basis = [policy |-> config.policy,
                              projection |-> Projection(config.policy, screen)]]_vars

(* consent_gate.rs: consent binds the exact projection the user saw. A     *)
(* call that goes on to start the coordinator confirmed what was on        *)
(* display at the click.                                                   *)
ConfirmedWhatWasSeen ==
  \A c \in Calls : At(c, "start") => calls[c].candidate.projection = calls[c].seen

(* service.rs "Replacing an existing pairing: stop the old lifecycle        *)
(* first": when pair has replaced the connection, nothing is published any *)
(* more under the one it replaced. An enable that still awaits its second  *)
(* validation is left out, being the matter of StaleWriteNeverStarts.      *)
ReplacedIsStopped ==
  [][\A c \in Calls :
       (/\ calls[c].op = "pair" /\ At(c, "replace") /\ calls'[c].pc = "recapture"
        /\ history.basis = Nothing)
       => coordinator'.state # "publishing"]_vars

-----------------------------------------------------------------------------
(* The reduced coordinator is the desk that Coordinator implements.        *)

DeskView ==
  CASE coordinator.state = "disabled" -> "Off"
    [] coordinator.state = "connecting" -> "Connecting"
    [] coordinator.state = "publishing" -> "Live"
    [] OTHER -> "Suspended"

Desk == INSTANCE DeskLifecycle WITH lifecycle <- DeskView, stopping <- coordinator.stopping,
                                    Retried <- {"Live"}

(* No command, overlapping with any other, moves the coordinator in a way  *)
(* the coordinator does not have, and what it does here by itself it does  *)
(* there. Only a crash starts it over.                                     *)
MovesAsDesk ==
  /\ Desk!RestartingSpec
  /\ [][~Restart => [Desk!Next]_(Desk!desk)]_vars
  /\ [][Negotiate \/ Renegotiate => Desk!Unasked]_vars

=============================================================================
