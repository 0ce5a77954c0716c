--------------------------- MODULE CoordinatorProofs ---------------------------
(***************************************************************************)
(* Proofs about Coordinator for any number of generations, loops, wake     *)
(* tasks and connections.  The inductive invariant is Inductive, the       *)
(* conjunction of TypeOK, SingleFlight and the parts named below.          *)
(***************************************************************************)
EXTENDS Coordinator, TLAPS

Negotiating == {"entry", "gated", "token", "capabilities"}
Publishing == {"Active", "Degraded"}
Retrying == {"Active", "Degraded", "ServerFeatureUnavailable"}

LoopRecord == [pc : LoopPcs, gen : MaybeGen, client : MaybeGen, wait : BOOLEAN,
               session : MaybeGen]

-----------------------------------------------------------------------------
(* Type correctness. *)

LEMMA Generations ==
  /\ None \in MaybeGen
  /\ \A g \in Gens : g \in MaybeGen /\ g # None
  /\ \A g \in MaybeGen : g < MaxGeneration => g + 1 \in Gens
  /\ \A g \in MaybeGen : g # None => g \in Gens
BY CoordinatorAssumption DEF CoordinatorAssumption, MaybeGen, Gens, None

LEMMA StartLockedType ==
  ASSUME TypeOK, StartLocked
  PROVE  /\ generation' \in MaybeGen /\ state' \in States
         /\ heartbeat_task' \in MaybeGen /\ reconnect_task' \in MaybeGen
         /\ refresh_requested' \in BOOLEAN /\ media_session' \in MaybeGen
         /\ configures' \in [Gens -> [pc : ConfigurePcs, conn : Connections \cup {Off}]]
<1>1. CASE stopping
  BY <1>1 DEF StartLocked, TypeOK
<1>2. CASE ~stopping
  <2>1. generation + 1 \in Gens /\ generation + 1 \in MaybeGen
    BY <1>2, Generations DEF StartLocked, BeginNewGeneration, TypeOK
  <2>2. /\ generation' \in MaybeGen /\ state' \in States
        /\ heartbeat_task' \in MaybeGen /\ reconnect_task' \in MaybeGen
        /\ refresh_requested' \in BOOLEAN /\ media_session' \in MaybeGen
    BY <1>2, <2>1, Generations DEF StartLocked, BeginNewGeneration, States
  <2>3. configures' \in [Gens -> [pc : ConfigurePcs, conn : Connections \cup {Off}]]
    BY <1>2, <2>1 DEF StartLocked, TypeOK, ConfigurePcs
  <2> QED BY <2>2, <2>3
<1> QED BY <1>1, <1>2

LEMMA TriggerRefreshType ==
  ASSUME TypeOK, NEW g \in MaybeGen, TriggerRefresh(g)
  PROVE  /\ refresh_requested' \in BOOLEAN /\ refresh_loop_running' \in BOOLEAN
         /\ loops' \in [LoopIds -> LoopRecord]
<1>1. NewLoop(g) \in LoopRecord
  BY Generations DEF NewLoop, IdleLoop, LoopRecord, LoopPcs
<1>2. loops' \in [LoopIds -> LoopRecord]
  BY <1>1 DEF TriggerRefresh, SpawnLoop, TypeOK, LoopRecord
<1> QED BY <1>2 DEF TriggerRefresh, TypeOK

(* One step per public call, per task segment and per timer.                *)
LEMMA TypeCall == TypeOK /\ Call => TypeOK'
<1> SUFFICES ASSUME TypeOK, Call PROVE TypeOK'
  OBVIOUS
<1>1. CASE Start
  BY <1>1, StartLockedType DEF Start, TypeOK
<1>2. CASE RequestFreshSnapshot
  BY <1>2, TriggerRefreshType, Generations DEF RequestFreshSnapshot, TypeOK, LoopRecord
<1>3. CASE HandleSleepOrLock
  <2>1. CASE state = "Suspended" \/ stopping
    BY <1>3, <2>1 DEF HandleSleepOrLock, TypeOK
  <2>2. CASE ~(state = "Suspended" \/ stopping)
    <3>1. generation + 1 \in MaybeGen /\ generation + 1 # None
      BY <1>3, <2>2, Generations DEF HandleSleepOrLock, BeginNewGeneration, TypeOK
    <3>2. [pc |-> "joined", client |-> client] \in [pc : ClearPcs, client : MaybeGen]
      BY DEF ClearPcs, TypeOK
    <3>3. /\ clears' \in [Gens -> [pc : ClearPcs, client : MaybeGen]]
          /\ cleanup_task' \in MaybeGen
      BY <1>3, <2>2, <3>1, <3>2 DEF HandleSleepOrLock, SpawnClear, TypeOK
    <3> QED
      BY <1>3, <2>2, <3>1, <3>3, Generations
         DEF HandleSleepOrLock, BeginNewGeneration, TypeOK, States
  <2> QED BY <2>1, <2>2
<1>4. CASE HandleWakeOrUnlock
  <2>1. [pc |-> "joining", pending |-> cleanup_task] \in [pc : {"idle", "joining"}, pending : MaybeGen]
    BY DEF TypeOK
  <2>2. wakes' \in [WakeIds -> [pc : {"idle", "joining"}, pending : MaybeGen]]
    BY <1>4, <2>1 DEF HandleWakeOrUnlock, TypeOK
  <2> QED BY <1>4, <2>2, Generations DEF HandleWakeOrUnlock, TypeOK
<1>5. ASSUME NEW removed \in BOOLEAN, Shutdown(removed) PROVE TypeOK'
  BY <1>5, Generations DEF Shutdown, BeginNewGeneration, TypeOK, States, ClosingPcs
<1>6. CASE ShutdownReturnsAtOnce
  BY <1>6 DEF ShutdownReturnsAtOnce, TypeOK, inner
<1>7. CASE ShutdownJoined
  <2>1. /\ UNCHANGED <<inner, configures, ticks, retries, loops, wakes, discard_due,
                       media_session, asleep, gap>>
        /\ \E pc \in {"clear", "final"} : closing' = [closing EXCEPT !.pc = pc]
    BY <1>7 DEF ShutdownJoined
  <2>2. closing' \in [pc : ClosingPcs, client : MaybeGen, suspended : BOOLEAN,
                     pending : MaybeGen, removed : BOOLEAN]
    BY <2>1 DEF TypeOK, ClosingPcs
  <2>3. clears' \in [Gens -> [pc : ClearPcs, client : MaybeGen]]
    <3>1. [pc |-> "joined", client |-> closing.client] \in [pc : ClearPcs, client : MaybeGen]
      BY DEF TypeOK, ClearPcs
    <3> QED BY <1>7, <3>1 DEF ShutdownJoined, SpawnClear, TypeOK
  <2> QED BY <2>1, <2>2, <2>3 DEF TypeOK, inner
<1>8. CASE ShutdownFinal
  BY <1>8, Generations DEF ShutdownFinal, IdleClosing, TypeOK, ClosingPcs
<1>9. CASE DiscardAuthority
  BY <1>9, Generations DEF DiscardAuthority, TypeOK
<1> QED BY <1>1, <1>2, <1>3, <1>4, <1>5, <1>6, <1>7, <1>8, <1>9 DEF Call

LEMMA TypeConfigure == ASSUME TypeOK, NEW g \in Gens, Configure(g) PROVE TypeOK'
<1> USE DEF TypeOK, ConfigureUnchanged, ConfigurePcs, States
<1>1. CASE ConfigureStale(g)
  BY <1>1 DEF ConfigureStale, ConfigureReturns
<1>2. ASSUME NEW conn \in Connections \cup {Off}, ConfigureEntry(g, conn) PROVE TypeOK'
  BY <1>2 DEF ConfigureEntry
<1>3. CASE ConfigureGated(g)
  BY <1>3 DEF ConfigureGated, ConfigureReturns
<1>4. CASE ConfigureHasToken(g)
  BY <1>4 DEF ConfigureHasToken, ConfigureMoves
<1>5. CASE ConfigureInvalidUrl(g)
  BY <1>5 DEF ConfigureInvalidUrl, ConfigureMoves
<1>6. ASSUME NEW from \in {"token", "capabilities"},
             NEW s \in {"Degraded", "ServerFeatureUnavailable"}, ConfigureRetries(g, from, s)
      PROVE  TypeOK'
  <2>1. configures' = [configures EXCEPT ![g] = [pc |-> "done", conn |-> Off]]
    BY <1>6 DEF ConfigureRetries, ConfigureReturns
  <2>2. state' \in States /\ reconnect_task' \in MaybeGen
    BY <1>6, Generations DEF ConfigureRetries, ScheduleRetry
  <2> QED BY <1>6, <2>1, <2>2 DEF ConfigureRetries
<1>7. CASE ConfigureUpdateRequired(g)
  BY <1>7 DEF ConfigureUpdateRequired, ConfigureReturns
<1>8. CASE ConfigureAvailable(g)
  <2>1. configures' = [configures EXCEPT ![g].pc = "done"] /\ TriggerRefresh(g)
    BY <1>8 DEF ConfigureAvailable, ConfigureMoves
  <2>2. registry' \in MaybeGen /\ client' \in MaybeGen /\ heartbeat_task' \in MaybeGen
        /\ state' \in States
    BY <1>8, Generations DEF ConfigureAvailable, Resolve
  <2>3. /\ loops' \in [LoopIds -> LoopRecord]
        /\ refresh_requested' \in BOOLEAN /\ refresh_loop_running' \in BOOLEAN
    BY <2>1, TriggerRefreshType, Generations
  <2>4. configures' \in [Gens -> [pc : ConfigurePcs, conn : Connections \cup {Off}]]
    BY <2>1
  <2>5. UNCHANGED <<generation, stopping, reconnect_task, cleanup_task, last_send, ticks,
                    retries, clears, wakes, closing, discard_due, media_session, asleep, gap>>
    BY <1>8 DEF ConfigureAvailable
  <2> QED BY <2>2, <2>3, <2>4, <2>5 DEF LoopRecord
<1> QED BY <1>1, <1>2, <1>3, <1>4, <1>5, <1>6, <1>7, <1>8 DEF Configure

LEMMA TypeTimer == ASSUME TypeOK, NEW g \in Gens, Timer(g) PROVE TypeOK'
<1> USE DEF TypeOK
<1>1. CASE HeartbeatFires(g)
  BY <1>1 DEF HeartbeatFires, inner
<1>2. CASE HeartbeatTick(g)
  BY <1>2, TriggerRefreshType, Generations DEF HeartbeatTick, LoopRecord
<1>3. CASE ReconnectFires(g)
  BY <1>3, Generations DEF ReconnectFires
<1>4. CASE Reconnect(g)
  BY <1>4, StartLockedType DEF Reconnect
<1>5. CASE ClearJoinEnds(g)
  BY <1>5 DEF ClearJoinEnds, ClearPcs, inner
<1> QED BY <1>1, <1>2, <1>3, <1>4, <1>5 DEF Timer

LEMMA TypeLoop == ASSUME TypeOK, NEW l \in LoopIds, Loop(l) PROVE TypeOK'
<1>0. /\ IdleLoop \in LoopRecord /\ loops[l] \in LoopRecord
      /\ NewLoop(loops[l].gen) \in LoopRecord
  <2>1. loops[l] \in LoopRecord
    BY DEF TypeOK, LoopRecord
  <2>2. IdleLoop \in LoopRecord
    BY Generations DEF IdleLoop, LoopRecord, LoopPcs
  <2>3. loops[l].gen \in MaybeGen
    BY <2>1 DEF LoopRecord
  <2>4. NewLoop(loops[l].gen) \in LoopRecord
    BY <2>2, <2>3 DEF NewLoop, LoopRecord, LoopPcs
  <2> QED BY <2>1, <2>2, <2>4
<1>e. ExitLoop(l) => loops' \in [LoopIds -> LoopRecord] /\ refresh_loop_running' \in BOOLEAN
  <2> SUFFICES ASSUME ExitLoop(l)
               PROVE  loops' \in [LoopIds -> LoopRecord] /\ refresh_loop_running' \in BOOLEAN
    OBVIOUS
  <2>1. loops \in [LoopIds -> LoopRecord]
    BY DEF TypeOK, LoopRecord
  <2> QED BY <1>0, <2>1 DEF ExitLoop
<1> USE DEF TypeOK, LoopUnchanged, LoopPcs, States
<1>1. CASE LoopStale(l)
  BY <1>1, <1>e DEF LoopStale, LoopRecord
<1>2. CASE LoopHead(l)
  <2>1. CASE refresh_requested
    <3>1. [loops[l] EXCEPT !.pc = "throttle", !.wait = (last_send = "recent")] \in LoopRecord
      BY <1>0 DEF LoopRecord
    <3>2. loops' = [loops EXCEPT ![l] = [loops[l] EXCEPT !.pc = "throttle",
                                                         !.wait = (last_send = "recent")]]
      BY <1>2, <2>1 DEF LoopHead
    <3>3. loops' \in [LoopIds -> LoopRecord]
      BY <3>1, <3>2 DEF LoopRecord
    <3>4. refresh_requested' \in BOOLEAN /\ UNCHANGED refresh_loop_running
      BY <1>2, <2>1 DEF LoopHead
    <3> QED BY <1>2, <3>3, <3>4 DEF LoopHead, LoopRecord
  <2>2. CASE ~refresh_requested
    <3>1. ExitLoop(l) /\ UNCHANGED refresh_requested
      BY <1>2, <2>2 DEF LoopHead
    <3>2. loops' \in [LoopIds -> LoopRecord] /\ refresh_loop_running' \in BOOLEAN
      BY <1>0, <3>1 DEF ExitLoop, LoopRecord
    <3> QED BY <1>2, <3>1, <3>2 DEF LoopHead, LoopRecord
  <2> QED BY <2>1, <2>2
<1>3. CASE LoopSend(l)
  <2>1. CASE client = None
    <3>1. ExitLoop(l) /\ UNCHANGED <<last_send, gap>>
      BY <1>3, <2>1 DEF LoopSend
    <3>2. loops' \in [LoopIds -> LoopRecord] /\ refresh_loop_running' \in BOOLEAN
      BY <1>0, <3>1 DEF ExitLoop, LoopRecord
    <3> QED BY <1>3, <3>1, <3>2 DEF LoopSend, LoopRecord
  <2>2. CASE client # None
    <3>1. [loops[l] EXCEPT !.pc = "capture", !.client = client] \in LoopRecord
      BY <1>0 DEF LoopRecord
    <3>2. loops' = [loops EXCEPT ![l] = [loops[l] EXCEPT !.pc = "capture", !.client = client]]
      BY <1>3, <2>2 DEF LoopSend
    <3>3. loops' \in [LoopIds -> LoopRecord]
      BY <3>1, <3>2 DEF LoopRecord
    <3> QED BY <1>3, <2>2, <3>3 DEF LoopSend, LoopRecord
  <2> QED BY <2>1, <2>2
<1>4. CASE LoopCapture(l)
  <2>0. PICK session \in {None, generation, media_session} :
          /\ Capture(session)
          /\ loops' = [loops EXCEPT ![l].pc = "captured", ![l].session = session]
    BY <1>4 DEF LoopCapture
  <2>1. session \in MaybeGen /\ media_session' \in MaybeGen
    BY <2>0, Generations DEF Capture
  <2>2. loops' \in [LoopIds -> LoopRecord]
    BY <1>0, <2>0, <2>1 DEF LoopRecord
  <2> QED BY <1>4, <2>1, <2>2 DEF LoopCapture, LoopRecord
<1>5. CASE LoopCaptured(l)
  BY <1>5, <1>0 DEF LoopCaptured, LoopRecord
<1>6. CASE LoopPublished(l)
  BY <1>6, <1>0 DEF LoopPublished, LoopRecord
<1>7. CASE LoopRenegotiates(l)
  BY <1>7, <1>0, StartLockedType, Generations DEF LoopRenegotiates, ExitLoop, LoopRecord
<1>8. CASE LoopFailed(l)
  BY <1>8, <1>0 DEF LoopFailed, ExitLoop, ScheduleRetry, LoopRecord
<1> QED BY <1>1, <1>2, <1>3, <1>4, <1>5, <1>6, <1>7, <1>8 DEF Loop

(* The coordinator never leaves its types.                                  *)
LEMMA TypeStep == TypeOK /\ [Next]_vars => TypeOK'
<1> SUFFICES ASSUME TypeOK, [Next]_vars PROVE TypeOK'
  OBVIOUS
<1>1. ASSUME NEW w \in WakeIds, WakeTask(w) PROVE TypeOK'
  BY <1>1, StartLockedType, Generations DEF WakeTask, IdleWake, TypeOK
<1>2. CASE IntervalElapses
  BY <1>2 DEF IntervalElapses, tasks, TypeOK
<1>3. CASE PreviewCapture
  BY <1>3, Generations DEF PreviewCapture, Capture, inner, tasks, TypeOK
<1>4. CASE UNCHANGED vars
  BY <1>4 DEF vars, inner, tasks, TypeOK
<1> QED
  BY <1>1, <1>2, <1>3, <1>4, TypeCall, TypeConfigure, TypeTimer, TypeLoop DEF Next

LEMMA TypeInit == Init => TypeOK
<1> SUFFICES ASSUME Init PROVE TypeOK
  OBVIOUS
<1>1. IdleLoop \in LoopRecord
  BY Generations DEF IdleLoop, LoopRecord, LoopPcs
<1>2. [pc |-> "none", conn |-> Off] \in [pc : ConfigurePcs, conn : Connections \cup {Off}]
  BY DEF ConfigurePcs
<1>3. [pc |-> "none", client |-> None] \in [pc : ClearPcs, client : MaybeGen]
  BY Generations DEF ClearPcs
<1>4. IdleWake \in [pc : {"idle", "joining"}, pending : MaybeGen]
  BY Generations DEF IdleWake
<1>5. IdleClosing \in [pc : ClosingPcs, client : MaybeGen, suspended : BOOLEAN,
                       pending : MaybeGen, removed : BOOLEAN]
  BY Generations DEF IdleClosing, ClosingPcs
<1>6. generation \in MaybeGen
  BY Generations DEF Init, None
<1> QED
  BY <1>1, <1>2, <1>3, <1>4, <1>5, <1>6, Generations DEF Init, TypeOK, States, LoopRecord

(* Type correctness, for every number of generations, loops and wakes.      *)
THEOREM TypeCorrect == Spec => []TypeOK
BY TypeInit, TypeStep, PTL DEF Spec

-----------------------------------------------------------------------------
(* The parts of the inductive invariant.                                    *)

(* Everything that names a generation names the current or an older one,    *)
(* and what is current is in the state it belongs to: this is what lets a   *)
(* bare generation comparison decide whether a task may still act.          *)
CurrentTasks ==
  /\ \A g \in Gens : configures[g].pc # "none" => g <= generation
  /\ \A g \in Gens : g = generation /\ configures[g].pc \in Negotiating => state = "Connecting"
  /\ \A g \in ticks \cup retries : g <= generation
  /\ generation \in ticks => state \in Publishing
  /\ generation \in retries => state \in Retrying
  /\ \A l \in LoopIds : Live(l) => loops[l].gen <= generation
  /\ \A l \in LoopIds : Live(l) /\ loops[l].gen = generation => state \in Publishing

Lifecycle == QuietOutsidePublishing /\ CurrentTasks

(* The tracker holds a session of the current generation or none, and so    *)
(* does what a current loop has captured.                                   *)
Session ==
  /\ media_session \in {None, generation}
  /\ \A l \in LoopIds : loops[l].pc \in {"captured", "publish"} /\ IsCurrent(loops[l].gen)
                           => loops[l].session \in {None, generation}

(* The clients and authorities in use come from finished negotiations, so   *)
(* the connection they were made for does not change any more.              *)
Authority ==
  /\ AuthorityOfClient
  /\ client # None => configures[client].pc = "done"
  /\ registry # None => configures[registry].pc = "done"

(* The clock knows of every recent send, and a loop that found nothing to   *)
(* wait for is right until it sends: no other loop can send before it.      *)
Spacing ==
  /\ gap = "recent" => last_send = "recent"
  /\ \A l \in LoopIds : loops[l].pc = "throttle" /\ ~loops[l].wait => last_send = "past"

(* The inductive invariant behind the safety theorems.                      *)
Inductive ==
  TypeOK /\ SingleFlight /\ Lifecycle /\ Recoverable /\ Session /\ Authority /\ Spacing

-----------------------------------------------------------------------------
(* Single flight: each way a step can touch the loops.                      *)

LEMMA SpawnsOne ==
  ASSUME TypeOK, SingleFlight, NEW g \in MaybeGen, TriggerRefresh(g)
  PROVE  SingleFlight'
<1>1. CASE refresh_loop_running
  BY <1>1 DEF TriggerRefresh, SingleFlight, Live
<1>2. CASE ~refresh_loop_running
  <2>1. PICK l \in LoopIds : /\ loops' = [loops EXCEPT ![l] = NewLoop(g)]
                             /\ refresh_loop_running' = TRUE
    BY <1>2 DEF TriggerRefresh, SpawnLoop
  <2>2. \A m \in LoopIds : loops'[m].pc # "idle" <=> m = l
    BY <1>2, <2>1 DEF SingleFlight, Live, TypeOK, NewLoop, IdleLoop
  <2> QED BY <2>1, <2>2 DEF SingleFlight, Live
<1> QED BY <1>1, <1>2 DEF TypeOK

LEMMA ExitsLast ==
  ASSUME TypeOK, SingleFlight, NEW l \in LoopIds, Live(l), ExitLoop(l)
  PROVE  SingleFlight'
<1>1. \A m \in LoopIds : loops'[m].pc = "idle"
  BY DEF ExitLoop, SingleFlight, Live, TypeOK, IdleLoop
<1> QED BY <1>1 DEF ExitLoop, SingleFlight, Live

LEMMA GoesOn ==
  ASSUME TypeOK, SingleFlight, NEW l \in LoopIds, Live(l),
         loops'[l].pc # "idle", \A m \in LoopIds \ {l} : loops'[m] = loops[m],
         UNCHANGED refresh_loop_running
  PROVE  SingleFlight'
<1>1. \A m \in LoopIds : loops'[m].pc # "idle" <=> loops[m].pc # "idle"
  BY DEF Live
<1> QED BY <1>1 DEF SingleFlight, Live

LEMMA FlightLoop == ASSUME TypeOK, SingleFlight, NEW l \in LoopIds, Loop(l) PROVE SingleFlight'
<1>0. Live(l)
  BY DEF Loop, LoopStale, LoopHead, LoopSend, LoopCapture, LoopCaptured, LoopPublished,
         LoopRenegotiates, LoopFailed, Live
<1>1. CASE LoopStale(l) \/ LoopRenegotiates(l) \/ LoopFailed(l)
  BY <1>0, <1>1, ExitsLast DEF LoopStale, LoopRenegotiates, LoopFailed
<1>2. CASE LoopHead(l)
  <2>1. CASE refresh_requested
    BY <1>0, <1>2, <2>1, GoesOn DEF LoopHead, TypeOK
  <2>2. CASE ~refresh_requested
    BY <1>0, <1>2, <2>2, ExitsLast DEF LoopHead
  <2> QED BY <2>1, <2>2
<1>3. CASE LoopSend(l)
  <2>1. CASE client # None
    BY <1>0, <1>3, <2>1, GoesOn DEF LoopSend, TypeOK
  <2>2. CASE client = None
    BY <1>0, <1>3, <2>2, ExitsLast DEF LoopSend
  <2> QED BY <2>1, <2>2
<1>4. CASE LoopCapture(l)
  BY <1>0, <1>4, GoesOn DEF LoopCapture, TypeOK
<1>5. CASE LoopCaptured(l)
  BY <1>0, <1>5, GoesOn DEF LoopCaptured, LoopUnchanged, TypeOK
<1>6. CASE LoopPublished(l)
  <2>1. NewLoop(loops[l].gen).pc # "idle"
    BY DEF NewLoop, IdleLoop
  <2> QED BY <1>0, <1>6, <2>1, GoesOn DEF LoopPublished, TypeOK
<1> QED BY <1>1, <1>2, <1>3, <1>4, <1>5, <1>6 DEF Loop

LEMMA FlightStep == TypeOK /\ SingleFlight /\ [Next]_vars => SingleFlight'
<1> SUFFICES ASSUME TypeOK, SingleFlight, [Next]_vars PROVE SingleFlight'
  OBVIOUS
<1>1. CASE UNCHANGED <<refresh_loop_running, loops>>
  BY <1>1 DEF SingleFlight, Live
<1>2. ASSUME NEW g \in MaybeGen, TriggerRefresh(g) PROVE SingleFlight'
  BY <1>2, SpawnsOne
<1>3. CASE Call
  <2>1. CASE RequestFreshSnapshot
    BY <2>1, <1>2 DEF RequestFreshSnapshot, TypeOK
  <2>2. CASE ~RequestFreshSnapshot
    BY <1>1, <1>3, <2>2
       DEF Call, Start, HandleSleepOrLock, HandleWakeOrUnlock, Shutdown,
           ShutdownReturnsAtOnce, ShutdownJoined, ShutdownFinal, DiscardAuthority, inner
  <2> QED BY <2>1, <2>2
<1>4. ASSUME NEW g \in Gens, Configure(g) PROVE SingleFlight'
  <2>1. CASE ConfigureAvailable(g)
    BY <2>1, <1>2, <1>4, Generations DEF ConfigureAvailable
  <2>2. CASE ~ConfigureAvailable(g)
    BY <1>1, <1>4, <2>2
       DEF Configure, ConfigureStale, ConfigureEntry, ConfigureGated, ConfigureHasToken,
           ConfigureInvalidUrl, ConfigureRetries, ConfigureUpdateRequired, ConfigureUnchanged
  <2> QED BY <2>1, <2>2
<1>5. ASSUME NEW g \in Gens, Timer(g) PROVE SingleFlight'
  <2>1. CASE HeartbeatTick(g)
    BY <2>1, <1>1, <1>2, <1>5, Generations DEF HeartbeatTick
  <2>2. CASE ~HeartbeatTick(g)
    BY <1>1, <1>5, <2>2
       DEF Timer, HeartbeatFires, ReconnectFires, Reconnect, ClearJoinEnds, inner
  <2> QED BY <2>1, <2>2
<1>6. ASSUME NEW w \in WakeIds, WakeTask(w) PROVE SingleFlight'
  BY <1>1, <1>6 DEF WakeTask
<1>7. CASE IntervalElapses \/ PreviewCapture \/ UNCHANGED vars
  BY <1>1, <1>7 DEF IntervalElapses, PreviewCapture, vars, inner, tasks
<1> QED BY <1>3, <1>4, <1>5, <1>6, <1>7, FlightLoop DEF Next

LEMMA FlightInit == Init => SingleFlight
BY DEF Init, SingleFlight, Live, IdleLoop

(* Single flight: at most one refresh loop is alive, across all generations, *)
(* and refresh_loop_running says whether there is one.                      *)
THEOREM SingleFlightHolds == Spec => []SingleFlight
BY TypeInit, TypeStep, FlightInit, FlightStep, PTL DEF Spec

-----------------------------------------------------------------------------
(* The lifecycle: every step either begins a generation, in which nothing   *)
(* is current yet, or stays in one.                                         *)

LEMMA GenerationOrder ==
  /\ \A g \in MaybeGen : ~(g + 1 <= g) /\ ~(g + 1 = g)
  /\ \A g, h \in MaybeGen : h <= g => h <= g + 1 /\ h # g + 1
  /\ \A g \in MaybeGen : g <= g
BY CoordinatorAssumption DEF CoordinatorAssumption, MaybeGen

LEMMA NewGeneration ==
  ASSUME TypeOK, Lifecycle, NEW s \in {"Connecting", "Suspended", "Disabled"},
         BeginNewGeneration(s), stopping' => s = "Disabled",
         UNCHANGED <<ticks>>, retries' \subseteq retries,
         \A l \in LoopIds : loops'[l] = loops[l] \/ loops'[l].pc = "idle",
         \/ UNCHANGED configures
         \/ /\ s = "Connecting"
            /\ configures' = [configures EXCEPT ![generation + 1].pc = "entry"]
  PROVE  Lifecycle'
<1>1. /\ generation \in MaybeGen /\ generation + 1 \in Gens
      /\ generation' = generation + 1 /\ state' = s
      /\ heartbeat_task' = None /\ reconnect_task' = None /\ refresh_requested' = FALSE
  BY Generations DEF BeginNewGeneration, TypeOK
<1>2. QuietOutsidePublishing'
  BY <1>1 DEF QuietOutsidePublishing
<1>3. \A g \in Gens : configures'[g].pc # "none" => g <= generation'
  BY <1>1, Generations, GenerationOrder DEF Lifecycle, CurrentTasks, TypeOK
<1>4. \A g \in Gens : g = generation' /\ configures'[g].pc \in Negotiating => state' = "Connecting"
  <2>1. configures[generation + 1].pc = "none"
    BY <1>1, GenerationOrder DEF Lifecycle, CurrentTasks
  <2> QED BY <1>1, <2>1 DEF Negotiating
<1>5. \A g \in ticks' \cup retries' : g <= generation' /\ g # generation'
  BY <1>1, Generations, GenerationOrder DEF Lifecycle, CurrentTasks, TypeOK
<1>6. \A l \in LoopIds : loops'[l].pc # "idle" =>
                            loops'[l].gen <= generation' /\ loops'[l].gen # generation'
  BY <1>1, GenerationOrder DEF Lifecycle, CurrentTasks, TypeOK, Live
<1> QED
  BY <1>2, <1>3, <1>4, <1>5, <1>6 DEF Lifecycle, CurrentTasks, Live

(* A start does what a new generation does, or nothing.                     *)
LEMMA LifecycleStart ==
  ASSUME TypeOK, Lifecycle, StartLocked, UNCHANGED stopping,
         UNCHANGED <<ticks>>, retries' \subseteq retries,
         \A l \in LoopIds : loops'[l] = loops[l] \/ loops'[l].pc = "idle"
  PROVE  Lifecycle'
<1>1. CASE stopping
  BY <1>1 DEF StartLocked, Lifecycle, CurrentTasks, QuietOutsidePublishing, Live
<1>2. CASE ~stopping
  BY <1>2, NewGeneration DEF StartLocked
<1> QED BY <1>1, <1>2

(* A triggered refresh in a publishing state.                               *)
LEMMA LifecycleTrigger ==
  ASSUME TypeOK, Lifecycle, NEW g \in MaybeGen, g = generation, TriggerRefresh(g),
         state' \in Publishing, state \in Publishing \cup {"Connecting"},
         ~stopping, UNCHANGED <<generation, stopping>>,
         ticks' \subseteq ticks, UNCHANGED retries,
         heartbeat_task' \in {heartbeat_task, generation}, UNCHANGED reconnect_task,
         \A h \in Gens : configures'[h].pc # "none" => configures[h].pc # "none",
         \A h \in Gens : h = generation => configures'[h].pc \notin Negotiating
  PROVE  Lifecycle'
<1>1. QuietOutsidePublishing'
  BY DEF QuietOutsidePublishing, Lifecycle, Publishing
<1>2. \A l \in LoopIds : loops'[l].pc # "idle" => loops'[l].gen <= generation
  <2>1. \A l \in LoopIds : loops'[l] = loops[l] \/ loops'[l].gen = g
    <3>1. NewLoop(g).gen = g
      BY DEF NewLoop, IdleLoop
    <3> QED BY <3>1 DEF TriggerRefresh, SpawnLoop, TypeOK
  <2> QED BY <2>1, GenerationOrder DEF Lifecycle, CurrentTasks, Live, TypeOK
<1> QED
  BY <1>1, <1>2 DEF Lifecycle, CurrentTasks, Live, Publishing, Retrying

LEMMA LifecycleCall == TypeOK /\ Lifecycle /\ Call => Lifecycle'
<1> SUFFICES ASSUME TypeOK, Lifecycle, Call PROVE Lifecycle'
  OBVIOUS
<1>1. CASE Start
  BY <1>1, LifecycleStart DEF Start
<1>2. CASE RequestFreshSnapshot
  BY <1>2, LifecycleTrigger
     DEF RequestFreshSnapshot, TypeOK, Lifecycle, CurrentTasks, QuietOutsidePublishing,
         Publishing
<1>3. CASE HandleSleepOrLock
  <2>1. CASE state = "Suspended" \/ stopping
    BY <1>3, <2>1
       DEF HandleSleepOrLock, Lifecycle, CurrentTasks, QuietOutsidePublishing, Live
  <2>2. CASE ~(state = "Suspended" \/ stopping)
    BY <1>3, <2>2, NewGeneration DEF HandleSleepOrLock
  <2> QED BY <2>1, <2>2
<1>4. ASSUME NEW removed \in BOOLEAN, Shutdown(removed) PROVE Lifecycle'
  BY <1>4, NewGeneration DEF Shutdown
<1>5. CASE HandleWakeOrUnlock \/ ShutdownReturnsAtOnce \/ ShutdownJoined \/ DiscardAuthority
  BY <1>5 DEF HandleWakeOrUnlock, ShutdownReturnsAtOnce, ShutdownJoined, DiscardAuthority, inner,
              Lifecycle, CurrentTasks, QuietOutsidePublishing, Live
<1>6. CASE ShutdownFinal
  BY <1>6 DEF ShutdownFinal, Lifecycle, CurrentTasks, QuietOutsidePublishing, Live
<1> QED BY <1>1, <1>2, <1>3, <1>4, <1>5, <1>6 DEF Call

LEMMA LifecycleConfigure ==
  ASSUME TypeOK, Lifecycle, NEW g \in Gens, Configure(g) PROVE Lifecycle'
<1>1. CASE ConfigureStale(g)
  BY <1>1 DEF ConfigureStale, ConfigureReturns, ConfigureUnchanged, IsCurrent, TypeOK, Negotiating,
              Lifecycle, CurrentTasks, QuietOutsidePublishing, Live
<1>2. CASE ~ConfigureStale(g)
  <2>1. g = generation /\ configures[g].pc \in Negotiating
    BY <1>2 DEF Configure, ConfigureEntry, ConfigureGated, ConfigureHasToken,
       ConfigureInvalidUrl, ConfigureRetries, ConfigureUpdateRequired, ConfigureAvailable,
       ConfigureMoves, ConfigureReturns, IsCurrent, Negotiating
  <2>2. /\ state = "Connecting" /\ ~stopping /\ generation # None
        /\ heartbeat_task = None /\ reconnect_task = None /\ refresh_requested = FALSE
        /\ generation \notin ticks /\ generation \notin retries
        /\ \A l \in LoopIds : Live(l) => loops[l].gen # generation
    BY <2>1, Generations
       DEF TypeOK, Lifecycle, CurrentTasks, QuietOutsidePublishing, Publishing, Retrying
  <2>3. ASSUME NEW conn \in Connections \cup {Off}, ConfigureEntry(g, conn) PROVE Lifecycle'
    BY <2>1, <2>2, <2>3 DEF ConfigureEntry, ConfigureUnchanged, TypeOK, Negotiating,
       Lifecycle, CurrentTasks, QuietOutsidePublishing, Live
  <2>4. CASE ConfigureHasToken(g)
    BY <2>1, <2>2, <2>4 DEF ConfigureHasToken, ConfigureMoves, ConfigureUnchanged, TypeOK,
       Negotiating, Lifecycle, CurrentTasks, QuietOutsidePublishing, Live
  <2>5. CASE ConfigureGated(g) \/ ConfigureInvalidUrl(g) \/ ConfigureUpdateRequired(g)
    <3>1. /\ configures'[g].pc \in {"done", "invalid_url"}
          /\ \A h \in Gens \ {g} : configures'[h] = configures[h]
          /\ UNCHANGED <<generation, stopping, refresh_requested, heartbeat_task,
                         reconnect_task, ticks, retries, loops>>
      BY <2>5 DEF ConfigureGated, ConfigureInvalidUrl, ConfigureUpdateRequired,
                  ConfigureMoves, ConfigureReturns, ConfigureUnchanged, TypeOK
    <3> QED
      BY <2>1, <2>2, <3>1
         DEF TypeOK, Negotiating, Lifecycle, CurrentTasks, QuietOutsidePublishing, Live
  <2>6. ASSUME NEW from \in {"token", "capabilities"},
               NEW s \in {"Degraded", "ServerFeatureUnavailable"}, ConfigureRetries(g, from, s)
        PROVE  Lifecycle'
    BY <2>1, <2>2, <2>6
       DEF ConfigureRetries, ScheduleRetry, ConfigureReturns, ConfigureUnchanged, TypeOK,
           Negotiating, Lifecycle, CurrentTasks, QuietOutsidePublishing, Live
  <2>7. CASE ConfigureAvailable(g)
    <3>1. /\ configures' = [configures EXCEPT ![g].pc = "done"]
          /\ TriggerRefresh(g) /\ state' = "Active" /\ heartbeat_task' = g
          /\ UNCHANGED <<generation, stopping, reconnect_task, ticks, retries>>
      BY <2>7 DEF ConfigureAvailable, ConfigureMoves
    <3>2. /\ \A h \in Gens : configures'[h].pc # "none" => configures[h].pc # "none"
          /\ configures'[g].pc \notin Negotiating
      BY <2>1, <3>1 DEF TypeOK, Negotiating
    <3> QED
      BY <2>1, <2>2, <3>1, <3>2, Generations, LifecycleTrigger DEF Publishing
  <2> QED BY <1>2, <2>3, <2>4, <2>5, <2>6, <2>7 DEF Configure
<1> QED BY <1>1, <1>2

LEMMA LifecycleTimer == ASSUME TypeOK, Lifecycle, NEW g \in Gens, Timer(g) PROVE Lifecycle'
<1>1. CASE HeartbeatFires(g)
  BY <1>1, Generations, GenerationOrder
     DEF HeartbeatFires, inner, TypeOK, Lifecycle, CurrentTasks, QuietOutsidePublishing,
         Publishing, Live
<1>2. CASE HeartbeatTick(g)
  <2>1. CASE IsCurrent(g)
    BY <1>2, <2>1, Generations, LifecycleTrigger
       DEF HeartbeatTick, IsCurrent, Lifecycle, CurrentTasks, QuietOutsidePublishing,
           Publishing, Negotiating, TypeOK
  <2>2. CASE ~IsCurrent(g)
    BY <1>2, <2>2
       DEF HeartbeatTick, Lifecycle, CurrentTasks, QuietOutsidePublishing, Live
  <2> QED BY <2>1, <2>2
<1>3. CASE ReconnectFires(g)
  BY <1>3, Generations, GenerationOrder
     DEF ReconnectFires, TypeOK, Lifecycle, CurrentTasks, QuietOutsidePublishing, Retrying, Live
<1>4. CASE Reconnect(g)
  <2>1. CASE IsCurrent(g) /\ ~stopping
    BY <1>4, <2>1, LifecycleStart DEF Reconnect
  <2>2. CASE ~(IsCurrent(g) /\ ~stopping)
    BY <1>4, <2>2 DEF Reconnect, Lifecycle, CurrentTasks, QuietOutsidePublishing, Live
  <2> QED BY <2>1, <2>2
<1>5. CASE ClearJoinEnds(g)
  BY <1>5 DEF ClearJoinEnds, inner, Lifecycle, CurrentTasks, QuietOutsidePublishing, Live
<1> QED BY <1>1, <1>2, <1>3, <1>4, <1>5 DEF Timer

LEMMA LifecycleLoop == ASSUME TypeOK, Lifecycle, NEW l \in LoopIds, Loop(l) PROVE Lifecycle'
<1>0. Live(l)
  BY DEF Loop, LoopStale, LoopHead, LoopSend, LoopCapture, LoopCaptured, LoopPublished,
         LoopRenegotiates, LoopFailed, Live
<1>1. CASE LoopRenegotiates(l)
  <2>1. \A m \in LoopIds : loops'[m] = loops[m] \/ loops'[m].pc = "idle"
    BY <1>1 DEF LoopRenegotiates, ExitLoop, TypeOK, IdleLoop
  <2> QED BY <1>1, <2>1, LifecycleStart DEF LoopRenegotiates, LoopUnchanged
<1>2. CASE ~LoopRenegotiates(l)
  <2>1. /\ UNCHANGED <<generation, stopping, configures, ticks, retries, heartbeat_task>>
        /\ refresh_requested' = FALSE \/ refresh_requested' = refresh_requested
    BY <1>2 DEF Loop, LoopStale, LoopHead, LoopSend, LoopCapture, LoopCaptured, LoopPublished,
       LoopFailed, LoopUnchanged
  <2>2. \A m \in LoopIds : /\ loops'[m].pc # "idle" => loops[m].pc # "idle"
                           /\ loops'[m].pc # "idle" => loops'[m].gen = loops[m].gen
    <3>0. ASSUME ExitLoop(l)
          PROVE  \A m \in LoopIds : loops'[m].pc # "idle" => loops'[m] = loops[m]
      BY <3>0 DEF ExitLoop, IdleLoop, TypeOK
    <3>1. CASE LoopHead(l)
      <4>1. CASE refresh_requested
        BY <1>0, <3>1, <4>1 DEF LoopHead, TypeOK, Live
      <4>2. CASE ~refresh_requested
        BY <1>0, <3>0, <3>1, <4>2 DEF LoopHead
      <4> QED BY <4>1, <4>2
    <3>2. CASE LoopSend(l)
      <4>1. \/ ExitLoop(l)
            \/ \E pc \in LoopPcs, c \in MaybeGen :
                 loops' = [loops EXCEPT ![l].pc = pc, ![l].client = c]
        BY <3>2 DEF LoopSend, TypeOK, LoopPcs
      <4>2. CASE ExitLoop(l)
        BY <3>0, <4>2
      <4>3. ASSUME NEW pc \in LoopPcs, NEW c \in MaybeGen,
                   loops' = [loops EXCEPT ![l].pc = pc, ![l].client = c]
            PROVE  \A m \in LoopIds : loops'[m].pc # "idle" => /\ loops[m].pc # "idle"
                                                             /\ loops'[m].gen = loops[m].gen
        BY <1>0, <4>3 DEF TypeOK, Live
      <4> QED BY <4>1, <4>2, <4>3
    <3>3. CASE LoopStale(l) \/ LoopFailed(l)
      BY <1>0, <3>0, <3>3 DEF LoopStale, LoopFailed
    <3>4. CASE LoopCapture(l) \/ LoopCaptured(l)
      <4>1. CASE LoopCapture(l)
        <5>1. PICK session :
                loops' = [loops EXCEPT ![l].pc = "captured", ![l].session = session]
          BY <4>1 DEF LoopCapture
        <5> QED BY <1>0, <5>1 DEF TypeOK, Live
      <4>2. CASE LoopCaptured(l)
        BY <1>0, <4>2 DEF LoopCaptured, TypeOK, Live
      <4> QED BY <3>4, <4>1, <4>2
    <3>5. CASE LoopPublished(l)
      BY <1>0, <3>5 DEF LoopPublished, NewLoop, IdleLoop, TypeOK, Live
    <3> QED BY <1>2, <3>1, <3>2, <3>3, <3>4, <3>5 DEF Loop
  <2>5. /\ \A m \in LoopIds : loops'[m].pc # "idle" => loops'[m].gen <= generation
        /\ \A m \in LoopIds : loops'[m].pc # "idle" /\ loops'[m].gen = generation
                                 => state \in Publishing
    <3> SUFFICES ASSUME NEW m \in LoopIds, loops'[m].pc # "idle"
                 PROVE  /\ loops'[m].gen <= generation
                        /\ loops'[m].gen = generation => state \in Publishing
      OBVIOUS
    <3>1. loops[m].pc # "idle" /\ loops'[m].gen = loops[m].gen
      BY <2>2
    <3>2. /\ loops[m].gen <= generation
          /\ loops[m].gen = generation => state \in Publishing
      BY <3>1 DEF Lifecycle, CurrentTasks, Live
    <3> QED BY <3>1, <3>2
  <2>3. CASE UNCHANGED <<state, reconnect_task>>
    <3>1. QuietOutsidePublishing'
      BY <2>1, <2>3 DEF Lifecycle, QuietOutsidePublishing
    <3>2. CurrentTasks'
      BY <2>1, <2>5, <2>3 DEF Lifecycle, CurrentTasks, Live
    <3> QED BY <3>1, <3>2 DEF Lifecycle
  <2>4. CASE LoopPublished(l) \/ LoopFailed(l)
    <3>1. state \in Publishing /\ ~stopping
      BY <1>0, <2>4 DEF LoopPublished, LoopFailed, IsCurrent, Lifecycle, CurrentTasks,
         QuietOutsidePublishing, Publishing
    <3>2. state' \in Publishing /\ reconnect_task' \in {reconnect_task, generation}
      BY <2>4 DEF LoopPublished, LoopFailed, IsCurrent, ScheduleRetry, Publishing
    <3>3. QuietOutsidePublishing'
      BY <2>1, <3>1, <3>2 DEF Lifecycle, QuietOutsidePublishing, Publishing
    <3>4. \A g \in Gens : ~(g = generation /\ configures[g].pc \in Negotiating)
      BY <3>1 DEF Lifecycle, CurrentTasks, Publishing
    <3>5. CurrentTasks'
      BY <2>1, <2>5, <3>2, <3>4 DEF Lifecycle, CurrentTasks, Live, Publishing, Retrying
    <3> QED BY <3>3, <3>5 DEF Lifecycle
  <2> QED
    BY <1>2, <2>3, <2>4
       DEF Loop, LoopStale, LoopHead, LoopSend, LoopCapture, LoopCaptured, LoopUnchanged
<1> QED BY <1>1, <1>2

LEMMA LifecycleStep == TypeOK /\ Lifecycle /\ [Next]_vars => Lifecycle'
<1> SUFFICES ASSUME TypeOK, Lifecycle, [Next]_vars PROVE Lifecycle'
  OBVIOUS
<1>1. ASSUME NEW w \in WakeIds, WakeTask(w) PROVE Lifecycle'
  <2>1. CASE state = "Suspended"
    BY <1>1, <2>1, LifecycleStart DEF WakeTask
  <2>2. CASE state # "Suspended"
    BY <1>1, <2>2 DEF WakeTask, Lifecycle, CurrentTasks, QuietOutsidePublishing, Live
  <2> QED BY <2>1, <2>2
<1>2. CASE IntervalElapses \/ PreviewCapture \/ UNCHANGED vars
  BY <1>2 DEF IntervalElapses, PreviewCapture, vars, inner, tasks,
              Lifecycle, CurrentTasks, QuietOutsidePublishing, Live
<1> QED
  BY <1>1, <1>2, LifecycleCall, LifecycleConfigure, LifecycleTimer, LifecycleLoop DEF Next

LEMMA LifecycleInit == Init => Lifecycle
BY Generations
   DEF Init, Lifecycle, CurrentTasks, QuietOutsidePublishing, Live, IdleLoop, Negotiating

(* No timer is armed and no publish is requested outside the publishing     *)
(* states, and a stopping coordinator is disabled.                          *)
THEOREM QuietHolds == Spec => []QuietOutsidePublishing
<1>1. TypeOK /\ Lifecycle /\ [Next]_vars => TypeOK' /\ Lifecycle'
  BY TypeStep, LifecycleStep
<1>2. Lifecycle => QuietOutsidePublishing
  BY DEF Lifecycle
<1> QED BY <1>1, <1>2, TypeInit, LifecycleInit, PTL DEF Spec

-----------------------------------------------------------------------------
(* No dead end.                                                             *)

LEMMA RecoverableNewGeneration ==
  ASSUME TypeOK, NEW s \in {"Connecting", "Suspended", "Disabled"},
         BeginNewGeneration(s),
         s = "Connecting" => configures' = [configures EXCEPT ![generation + 1].pc = "entry"]
  PROVE  Recoverable'
<1>1. generation' = generation + 1 /\ generation + 1 \in Gens /\ state' = s
  BY Generations DEF BeginNewGeneration, TypeOK
<1>2. s = "Connecting" => configures'[generation'].pc = "entry"
  BY <1>1 DEF TypeOK
<1> QED BY <1>1, <1>2 DEF Recoverable

LEMMA RecoverableStart ==
  ASSUME TypeOK, Recoverable, StartLocked,
         ~stopping \/ UNCHANGED retries
  PROVE  Recoverable'
<1>1. CASE stopping
  BY <1>1 DEF StartLocked, Recoverable, Armed
<1>2. CASE ~stopping
  BY <1>2, RecoverableNewGeneration DEF StartLocked
<1> QED BY <1>1, <1>2

LEMMA RecoverableConfigure ==
  ASSUME TypeOK, Recoverable, NEW g \in Gens, Configure(g) PROVE Recoverable'
<1>1. CASE ConfigureStale(g)
  BY <1>1
     DEF ConfigureStale, ConfigureReturns, ConfigureUnchanged, IsCurrent, Recoverable, Armed, TypeOK
<1>2. CASE \E conn \in Connections \cup {Off} : ConfigureEntry(g, conn)
  BY <1>2 DEF ConfigureEntry, ConfigureUnchanged, IsCurrent, Recoverable, Armed, TypeOK
<1>3. CASE ConfigureGated(g) \/ ConfigureUpdateRequired(g)
  BY <1>3 DEF ConfigureGated, ConfigureUpdateRequired, ConfigureUnchanged, Recoverable, Armed
<1>4. CASE ConfigureHasToken(g)
  BY <1>4 DEF ConfigureHasToken, ConfigureMoves, ConfigureUnchanged, IsCurrent, Recoverable,
              Armed, TypeOK
<1>5. CASE ConfigureInvalidUrl(g)
  BY <1>5 DEF ConfigureInvalidUrl, ConfigureMoves, ConfigureUnchanged, IsCurrent, Recoverable,
              TypeOK
<1>6. ASSUME NEW from \in {"token", "capabilities"},
             NEW s \in {"Degraded", "ServerFeatureUnavailable"}, ConfigureRetries(g, from, s)
      PROVE  Recoverable'
  BY <1>6 DEF ConfigureRetries, ScheduleRetry, ConfigureUnchanged, IsCurrent, Recoverable, Armed
<1>7. CASE ConfigureAvailable(g)
  BY <1>7 DEF ConfigureAvailable, IsCurrent, Recoverable, Armed
<1> QED BY <1>1, <1>2, <1>3, <1>4, <1>5, <1>6, <1>7 DEF Configure

LEMMA RecoverableCall == TypeOK /\ Recoverable /\ Call => Recoverable'
<1> SUFFICES ASSUME TypeOK, Recoverable, Call PROVE Recoverable'
  OBVIOUS
<1>1. CASE UNCHANGED <<generation, state, heartbeat_task, reconnect_task, retries, configures>>
  BY <1>1 DEF Recoverable, Armed
<1>2. CASE Start
  BY <1>2, RecoverableStart DEF Start
<1>3. CASE HandleSleepOrLock
  <2>1. CASE state = "Suspended" \/ stopping
    BY <1>1, <1>3, <2>1 DEF HandleSleepOrLock
  <2>2. CASE ~(state = "Suspended" \/ stopping)
    BY <1>3, <2>2, RecoverableNewGeneration DEF HandleSleepOrLock
  <2> QED BY <2>1, <2>2
<1>4. ASSUME NEW removed \in BOOLEAN, Shutdown(removed) PROVE Recoverable'
  BY <1>4, RecoverableNewGeneration DEF Shutdown
<1> QED
  BY <1>1, <1>2, <1>3, <1>4
     DEF Call, RequestFreshSnapshot, HandleWakeOrUnlock, ShutdownReturnsAtOnce, ShutdownJoined,
         ShutdownFinal, DiscardAuthority, inner

LEMMA RecoverableTimer ==
  ASSUME TypeOK, Lifecycle, Recoverable, NEW g \in Gens, Timer(g) PROVE Recoverable'
<1>1. CASE HeartbeatFires(g) \/ HeartbeatTick(g) \/ ClearJoinEnds(g)
  BY <1>1 DEF HeartbeatFires, HeartbeatTick, ClearJoinEnds, inner, Recoverable, Armed
<1>2. CASE ReconnectFires(g)
  BY <1>2, Generations DEF ReconnectFires, Recoverable, Armed
<1>3. CASE Reconnect(g)
  <2>1. CASE IsCurrent(g) /\ ~stopping
    BY <1>3, <2>1, RecoverableStart DEF Reconnect
  <2>2. CASE ~IsCurrent(g)
    BY <1>3, <2>2 DEF Reconnect, IsCurrent, Recoverable, Armed
  <2>3. CASE stopping
    <3>1. state = "Disabled" /\ state' = state
      BY <1>3, <2>3 DEF Reconnect, Lifecycle, QuietOutsidePublishing
    <3> QED BY <3>1 DEF Recoverable
  <2> QED BY <2>1, <2>2, <2>3
<1> QED BY <1>1, <1>2, <1>3 DEF Timer

LEMMA RecoverableLoop ==
  ASSUME TypeOK, Lifecycle, Recoverable, NEW l \in LoopIds, Loop(l) PROVE Recoverable'
<1>1. CASE LoopRenegotiates(l)
  BY <1>1, RecoverableStart DEF LoopRenegotiates, LoopUnchanged
<1>2. CASE LoopPublished(l)
  <2>1. state \in Publishing
    BY <1>2 DEF LoopPublished, IsCurrent, Lifecycle, CurrentTasks, Live
  <2> QED BY <1>2, <2>1 DEF LoopPublished, LoopUnchanged, Recoverable, Armed, Publishing
<1>3. CASE LoopFailed(l)
  BY <1>3 DEF LoopFailed, IsCurrent, ScheduleRetry, Recoverable, Armed
<1>4. CASE LoopStale(l) \/ LoopHead(l) \/ LoopSend(l) \/ LoopCapture(l) \/ LoopCaptured(l)
  BY <1>4 DEF LoopStale, LoopHead, LoopSend, LoopCapture, LoopCaptured, LoopUnchanged,
     Recoverable, Armed
<1> QED BY <1>1, <1>2, <1>3, <1>4 DEF Loop

LEMMA RecoverableStep == TypeOK /\ Lifecycle /\ Recoverable /\ [Next]_vars => Recoverable'
<1> SUFFICES ASSUME TypeOK, Lifecycle, Recoverable, [Next]_vars PROVE Recoverable'
  OBVIOUS
<1>1. ASSUME NEW w \in WakeIds, WakeTask(w) PROVE Recoverable'
  <2>1. CASE state = "Suspended"
    BY <1>1, <2>1, RecoverableStart DEF WakeTask
  <2>2. CASE state # "Suspended"
    BY <1>1, <2>2 DEF WakeTask, Recoverable, Armed
  <2> QED BY <2>1, <2>2
<1>2. CASE IntervalElapses \/ PreviewCapture \/ UNCHANGED vars
  BY <1>2 DEF IntervalElapses, PreviewCapture, vars, inner, tasks, Recoverable, Armed
<1> QED
  BY <1>1, <1>2, RecoverableCall, RecoverableConfigure, RecoverableTimer, RecoverableLoop
     DEF Next

(* A connecting coordinator is negotiating and an active, degraded or       *)
(* feature-less one has a timer, except after an invalid stored URL.        *)
THEOREM RecoverableHolds == Spec => []Recoverable
<1>1. Init => Recoverable
  BY DEF Init, Recoverable
<1>2. TypeOK /\ Lifecycle /\ Recoverable /\ [Next]_vars => TypeOK' /\ Lifecycle' /\ Recoverable'
  BY TypeStep, LifecycleStep, RecoverableStep
<1> QED BY <1>1, <1>2, TypeInit, LifecycleInit, PTL DEF Spec

-----------------------------------------------------------------------------
(* Media sessions.                                                          *)

LEMMA SessionNewGeneration ==
  ASSUME TypeOK, Lifecycle, NEW s, BeginNewGeneration(s),
         \A l \in LoopIds : loops'[l] = loops[l] \/ loops'[l].pc = "idle"
  PROVE  Session'
<1>1. generation' = generation + 1 /\ media_session' = None /\ generation \in MaybeGen
  BY DEF BeginNewGeneration, TypeOK
<1>2. \A l \in LoopIds : loops'[l].pc # "idle" => loops'[l].gen # generation'
  BY <1>1, GenerationOrder DEF Lifecycle, CurrentTasks, Live, TypeOK
<1> QED BY <1>1, <1>2 DEF Session, IsCurrent

LEMMA SessionSame ==
  ASSUME TypeOK, Lifecycle, Session, UNCHANGED generation,
         media_session' \in {None, generation},
         \A l \in LoopIds : \/ loops'[l] = loops[l]
                            \/ loops'[l].pc \notin {"captured", "publish"}
  PROVE  Session'
BY DEF Session, IsCurrent

LEMMA SessionTrigger ==
  ASSUME TypeOK, Lifecycle, Session, NEW g, TriggerRefresh(g),
         UNCHANGED <<generation, media_session>>
  PROVE  Session'
<1>1. NewLoop(g).pc = "head"
  BY DEF NewLoop, IdleLoop
<1>2. \A l \in LoopIds : loops'[l] = loops[l] \/ loops'[l].pc = "head"
  BY <1>1 DEF TriggerRefresh, SpawnLoop, TypeOK
<1> QED BY <1>2, SessionSame DEF Session

LEMMA SessionStart ==
  ASSUME TypeOK, Lifecycle, Session, StartLocked,
         \A l \in LoopIds : loops'[l] = loops[l] \/ loops'[l].pc = "idle"
  PROVE  Session'
<1>1. CASE stopping
  BY <1>1, SessionSame DEF StartLocked, Session
<1>2. CASE ~stopping
  BY <1>2, SessionNewGeneration DEF StartLocked
<1> QED BY <1>1, <1>2

LEMMA SessionLoop ==
  ASSUME TypeOK, Lifecycle, Session, NEW l \in LoopIds, Loop(l) PROVE Session'
<1>0. ASSUME ExitLoop(l)
      PROVE  \A m \in LoopIds : loops'[m] = loops[m] \/ loops'[m].pc = "idle"
  BY <1>0 DEF ExitLoop, IdleLoop, TypeOK
<1>1. CASE LoopRenegotiates(l)
  BY <1>0, <1>1, SessionStart DEF LoopRenegotiates
<1>2. CASE LoopStale(l) \/ LoopFailed(l)
  BY <1>0, <1>2, SessionSame DEF LoopStale, LoopFailed, Session
<1>3. CASE LoopHead(l)
  <2>1. \A m \in LoopIds : \/ loops'[m] = loops[m]
                           \/ loops'[m].pc \notin {"captured", "publish"}
    <3>1. CASE refresh_requested
      BY <1>3, <3>1 DEF LoopHead, TypeOK
    <3>2. CASE ~refresh_requested
      BY <1>0, <1>3, <3>2 DEF LoopHead
    <3> QED BY <3>1, <3>2
  <2> QED BY <1>3, <2>1, SessionSame DEF LoopHead, Session
<1>4. CASE LoopSend(l)
  <2>1. \A m \in LoopIds : \/ loops'[m] = loops[m]
                           \/ loops'[m].pc \notin {"captured", "publish"}
    <3>1. CASE client # None
      BY <1>4, <3>1 DEF LoopSend, TypeOK
    <3>2. CASE client = None
      BY <1>0, <1>4, <3>2 DEF LoopSend
    <3> QED BY <3>1, <3>2
  <2> QED BY <1>4, <2>1, SessionSame DEF LoopSend, Session
<1>5. CASE LoopCapture(l)
  <2>1. PICK session :
          /\ Capture(session)
          /\ loops' = [loops EXCEPT ![l].pc = "captured", ![l].session = session]
    BY <1>5 DEF LoopCapture
  <2>2. media_session' \in {None, generation} /\ session \in {None, generation}
    BY <2>1 DEF Capture, Session
  <2>3. loops'[l].session = session /\ \A m \in LoopIds \ {l} : loops'[m] = loops[m]
    BY <2>1 DEF TypeOK
  <2> QED BY <1>5, <2>2, <2>3 DEF LoopCapture, Session, IsCurrent
<1>6. CASE LoopCaptured(l)
  <2>1. /\ loops'[l].session = loops[l].session /\ loops[l].pc = "captured"
        /\ loops'[l].gen = loops[l].gen
        /\ \A m \in LoopIds \ {l} : loops'[m] = loops[m]
    BY <1>6 DEF LoopCaptured, TypeOK
  <2> QED BY <1>6, <2>1 DEF LoopCaptured, Session, IsCurrent
<1>7. CASE LoopPublished(l)
  <2>1. NewLoop(loops[l].gen).pc = "head"
    BY DEF NewLoop, IdleLoop
  <2>2. \A m \in LoopIds : loops'[m] = loops[m] \/ loops'[m].pc = "head"
    BY <1>7, <2>1 DEF LoopPublished, TypeOK
  <2> QED BY <1>7, <2>2, SessionSame DEF LoopPublished, Session
<1> QED BY <1>1, <1>2, <1>3, <1>4, <1>5, <1>6, <1>7 DEF Loop

LEMMA SessionStep == TypeOK /\ Lifecycle /\ Session /\ [Next]_vars => Session'
<1> SUFFICES ASSUME TypeOK, Lifecycle, Session, [Next]_vars PROVE Session'
  OBVIOUS
<1>1. CASE UNCHANGED <<generation, media_session, loops>>
  BY <1>1 DEF Session, IsCurrent
<1>2. CASE Call
  <2>1. CASE Start
    BY <2>1, SessionStart DEF Start
  <2>2. CASE RequestFreshSnapshot
    BY <2>2, SessionTrigger DEF RequestFreshSnapshot
  <2>3. CASE HandleSleepOrLock
    <3>1. CASE state = "Suspended" \/ stopping
      BY <1>1, <2>3, <3>1 DEF HandleSleepOrLock
    <3>2. CASE ~(state = "Suspended" \/ stopping)
      BY <2>3, <3>2, SessionNewGeneration DEF HandleSleepOrLock
    <3> QED BY <3>1, <3>2
  <2>4. ASSUME NEW removed \in BOOLEAN, Shutdown(removed) PROVE Session'
    BY <2>4, SessionNewGeneration DEF Shutdown
  <2> QED
    BY <1>1, <1>2, <2>1, <2>2, <2>3, <2>4
       DEF Call, HandleWakeOrUnlock, ShutdownReturnsAtOnce, ShutdownJoined, ShutdownFinal,
           DiscardAuthority, inner
<1>3. ASSUME NEW g \in Gens, Configure(g) PROVE Session'
  <2>1. CASE ConfigureAvailable(g)
    BY <2>1, SessionTrigger DEF ConfigureAvailable
  <2>2. CASE ~ConfigureAvailable(g)
    BY <1>1, <1>3, <2>2
       DEF Configure, ConfigureStale, ConfigureEntry, ConfigureGated, ConfigureHasToken,
           ConfigureInvalidUrl, ConfigureRetries, ConfigureUpdateRequired, ConfigureUnchanged
  <2> QED BY <2>1, <2>2
<1>4. ASSUME NEW g \in Gens, Timer(g) PROVE Session'
  <2>1. CASE HeartbeatTick(g) /\ IsCurrent(g)
    BY <2>1, SessionTrigger DEF HeartbeatTick
  <2>2. CASE Reconnect(g) /\ IsCurrent(g) /\ ~stopping
    BY <2>2, SessionStart DEF Reconnect
  <2> QED
    BY <1>1, <1>4, <2>1, <2>2
       DEF Timer, HeartbeatFires, HeartbeatTick, ReconnectFires, Reconnect, ClearJoinEnds, inner
<1>5. ASSUME NEW w \in WakeIds, WakeTask(w) PROVE Session'
  <2>1. CASE state = "Suspended"
    BY <1>5, <2>1, SessionStart DEF WakeTask
  <2>2. CASE state # "Suspended"
    BY <1>1, <1>5, <2>2 DEF WakeTask
  <2> QED BY <2>1, <2>2
<1>6. CASE PreviewCapture
  <2>1. media_session' \in {None, generation} /\ UNCHANGED <<generation, loops>>
    BY <1>6 DEF PreviewCapture, Capture, Session, inner, tasks
  <2> QED BY <2>1, SessionSame
<1>7. CASE IntervalElapses \/ UNCHANGED vars
  BY <1>1, <1>7 DEF IntervalElapses, vars, inner, tasks
<1> QED BY <1>2, <1>3, <1>4, <1>5, <1>6, <1>7, SessionLoop DEF Next

(* A current loop publishes a session id minted in its own generation.      *)
THEOREM SessionHolds == Spec => []SessionWithinGeneration
<1>1. Init => Session
  BY DEF Init, Session, IdleLoop
<1>2. TypeOK /\ Lifecycle /\ Session /\ [Next]_vars => TypeOK' /\ Lifecycle' /\ Session'
  BY TypeStep, LifecycleStep, SessionStep
<1>3. Session => SessionWithinGeneration
  <2> SUFFICES ASSUME Session, NEW l \in LoopIds, loops[l].pc = "publish", IsCurrent(loops[l].gen)
               PROVE  loops[l].session \in {None, generation}
    BY DEF SessionWithinGeneration
  <2> QED BY DEF Session
<1> QED BY <1>1, <1>2, <1>3, TypeInit, LifecycleInit, PTL DEF Spec

-----------------------------------------------------------------------------
(* The authority of the client.                                             *)

LEMMA AuthoritySame ==
  ASSUME TypeOK, Authority, UNCHANGED <<client, registry>>,
         \A g \in Gens : configures[g].pc = "done" =>
                           configures'[g].pc = "done" /\ configures'[g].conn = configures[g].conn
  PROVE  Authority'
BY Generations DEF Authority, AuthorityOfClient, TypeOK

LEMMA AuthorityStart ==
  ASSUME TypeOK, Lifecycle, Authority, StartLocked, UNCHANGED <<client, registry>>
  PROVE  Authority'
<1>1. CASE stopping
  BY <1>1, AuthoritySame DEF StartLocked
<1>2. CASE ~stopping
  <2>1. generation \in MaybeGen /\ generation + 1 \in Gens
    BY <1>2, Generations DEF StartLocked, BeginNewGeneration, TypeOK
  <2>2. configures[generation + 1].pc = "none"
    BY <2>1, GenerationOrder DEF Lifecycle, CurrentTasks
  <2>3. configures' = [configures EXCEPT ![generation + 1].pc = "entry"]
    BY <1>2 DEF StartLocked
  <2> QED BY <2>1, <2>2, <2>3, AuthoritySame DEF TypeOK
<1> QED BY <1>1, <1>2

LEMMA AuthorityConfigure ==
  ASSUME TypeOK, Authority, NEW g \in Gens, Configure(g) PROVE Authority'
<1>1. configures[g].pc # "done" /\ \A h \in Gens \ {g} : configures'[h] = configures[h]
  BY DEF Configure, ConfigureStale, ConfigureEntry, ConfigureGated, ConfigureHasToken,
     ConfigureInvalidUrl, ConfigureRetries, ConfigureUpdateRequired, ConfigureAvailable,
     ConfigureMoves, ConfigureReturns, TypeOK
<1>2. CASE UNCHANGED <<client, registry>>
  BY <1>1, <1>2, AuthoritySame
<1>3. CASE ConfigureAvailable(g)
  <2>1. /\ client' = g /\ registry' = Resolve(g)
        /\ configures'[g].pc = "done" /\ configures'[g].conn = configures[g].conn
    BY <1>3 DEF ConfigureAvailable, ConfigureMoves, TypeOK
  <2>2. CASE registry # None /\ configures[registry].conn = configures[g].conn
    <3>1. registry' = registry /\ registry \in Gens /\ registry # g
      BY <1>1, <2>1, <2>2, Generations DEF Resolve, Authority, TypeOK
    <3>2. configures'[registry] = configures[registry]
      BY <1>1, <3>1
    <3>3. g # None
      BY Generations
    <3> QED BY <2>1, <2>2, <3>1, <3>2, <3>3 DEF Authority, AuthorityOfClient
  <2>3. CASE ~(registry # None /\ configures[registry].conn = configures[g].conn)
    <3>1. registry' = g /\ g # None
      BY <2>1, <2>3, Generations DEF Resolve
    <3> QED BY <2>1, <3>1 DEF Authority, AuthorityOfClient
  <2> QED BY <2>2, <2>3
<1> QED
  BY <1>2, <1>3
     DEF Configure, ConfigureStale, ConfigureEntry, ConfigureGated, ConfigureHasToken,
         ConfigureInvalidUrl, ConfigureRetries, ConfigureUpdateRequired

LEMMA AuthorityStep == TypeOK /\ Lifecycle /\ Authority /\ [Next]_vars => Authority'
<1> SUFFICES ASSUME TypeOK, Lifecycle, Authority, [Next]_vars PROVE Authority'
  OBVIOUS
<1>1. CASE UNCHANGED <<client, registry, configures>>
  BY <1>1, AuthoritySame
<1>2. ASSUME client' = None, registry' \in {None, registry}, UNCHANGED configures
      PROVE  Authority'
  BY <1>2 DEF Authority, AuthorityOfClient
<1>3. CASE Call
  <2>1. CASE Start
    BY <2>1, AuthorityStart DEF Start
  <2>2. CASE ShutdownFinal \/ DiscardAuthority
    BY <1>2, <2>2 DEF ShutdownFinal, DiscardAuthority
  <2>3. CASE ~(Start \/ ShutdownFinal \/ DiscardAuthority)
    BY <1>1, <1>3, <2>3
       DEF Call, RequestFreshSnapshot, HandleSleepOrLock, HandleWakeOrUnlock, Shutdown,
           ShutdownReturnsAtOnce, ShutdownJoined, inner
  <2> QED BY <2>1, <2>2, <2>3
<1>4. ASSUME NEW g \in Gens, Timer(g) PROVE Authority'
  <2>1. CASE Reconnect(g) /\ IsCurrent(g) /\ ~stopping
    BY <2>1, AuthorityStart DEF Reconnect
  <2> QED
    BY <1>1, <1>4, <2>1
       DEF Timer, HeartbeatFires, HeartbeatTick, ReconnectFires, Reconnect, ClearJoinEnds, inner
<1>5. ASSUME NEW l \in LoopIds, Loop(l) PROVE Authority'
  <2>1. CASE LoopRenegotiates(l)
    <3>1. client' = None /\ registry' = None
      BY <2>1 DEF LoopRenegotiates
    <3> QED BY <3>1 DEF Authority, AuthorityOfClient
  <2> QED
    BY <1>1, <1>5, <2>1
       DEF Loop, LoopStale, LoopHead, LoopSend, LoopCapture, LoopCaptured, LoopPublished,
           LoopFailed
<1>6. ASSUME NEW w \in WakeIds, WakeTask(w) PROVE Authority'
  <2>1. CASE state = "Suspended"
    BY <1>6, <2>1, AuthorityStart DEF WakeTask
  <2>2. CASE state # "Suspended"
    BY <1>1, <1>6, <2>2 DEF WakeTask
  <2> QED BY <2>1, <2>2
<1>7. CASE IntervalElapses \/ PreviewCapture \/ UNCHANGED vars
  BY <1>1, <1>7 DEF IntervalElapses, PreviewCapture, vars, inner, tasks
<1> QED BY <1>3, <1>4, <1>5, <1>6, <1>7, AuthorityConfigure DEF Next

(* A client always belongs to the authority in the registry, for the same   *)
(* connection.                                                              *)
THEOREM AuthorityHolds == Spec => []AuthorityOfClient
<1>1. Init => Authority
  BY DEF Init, Authority, AuthorityOfClient
<1>2. TypeOK /\ Lifecycle /\ Authority /\ [Next]_vars => TypeOK' /\ Lifecycle' /\ Authority'
  BY TypeStep, LifecycleStep, AuthorityStep
<1>3. Authority => AuthorityOfClient
  BY DEF Authority
<1> QED BY <1>1, <1>2, <1>3, TypeInit, LifecycleInit, PTL DEF Spec

-----------------------------------------------------------------------------
(* The send interval.                                                       *)

LEMMA SpacingSame ==
  ASSUME TypeOK, Spacing, UNCHANGED <<gap, last_send>>,
         \A l \in LoopIds : loops'[l] = loops[l] \/ loops'[l].pc # "throttle"
  PROVE  Spacing'
BY DEF Spacing

LEMMA SpacingTrigger ==
  ASSUME TypeOK, Spacing, NEW g, TriggerRefresh(g), UNCHANGED <<gap, last_send>>
  PROVE  Spacing'
<1>1. NewLoop(g).pc = "head"
  BY DEF NewLoop, IdleLoop
<1>2. \A l \in LoopIds : loops'[l] = loops[l] \/ loops'[l].pc = "head"
  BY <1>1 DEF TriggerRefresh, SpawnLoop, TypeOK
<1> QED BY <1>2, SpacingSame

LEMMA SpacingLoop ==
  ASSUME TypeOK, SingleFlight, Spacing, NEW l \in LoopIds, Loop(l) PROVE Spacing'
<1>0. ASSUME ExitLoop(l)
      PROVE  \A m \in LoopIds : loops'[m] = loops[m] \/ loops'[m].pc = "idle"
  BY <1>0 DEF ExitLoop, IdleLoop, TypeOK
<1>1. CASE LoopRenegotiates(l) \/ LoopStale(l) \/ LoopFailed(l)
  BY <1>0, <1>1, SpacingSame DEF LoopRenegotiates, LoopStale, LoopFailed
<1>2. CASE LoopHead(l)
  <2>1. CASE refresh_requested
    <3>1. /\ loops'[l].wait = (last_send = "recent")
          /\ \A m \in LoopIds \ {l} : loops'[m] = loops[m]
      BY <1>2, <2>1 DEF LoopHead, TypeOK
    <3>2. last_send \in {"recent", "past"} /\ UNCHANGED <<gap, last_send>>
      BY <1>2 DEF LoopHead, TypeOK
    <3> QED BY <3>1, <3>2 DEF Spacing
  <2>2. CASE ~refresh_requested
    BY <1>0, <1>2, <2>2, SpacingSame DEF LoopHead
  <2> QED BY <2>1, <2>2
<1>3. CASE LoopSend(l)
  <2>1. CASE client = None
    BY <1>0, <1>3, <2>1, SpacingSame DEF LoopSend
  <2>2. CASE client # None
    <3>1. loops'[l].pc = "capture" /\ \A m \in LoopIds \ {l} : loops'[m] = loops[m]
      BY <1>3, <2>2 DEF LoopSend, TypeOK
    <3>2. \A m \in LoopIds \ {l} : loops[m].pc = "idle"
      BY <1>3 DEF LoopSend, SingleFlight, Live
    <3>3. gap' = "recent" /\ last_send' = "recent"
      BY <1>3, <2>2 DEF LoopSend
    <3> QED BY <3>1, <3>2, <3>3 DEF Spacing
  <2> QED BY <2>1, <2>2
<1>4. CASE LoopCapture(l) \/ LoopCaptured(l) \/ LoopPublished(l)
  <2>1. NewLoop(loops[l].gen).pc = "head"
    BY DEF NewLoop, IdleLoop
  <2>2. loops'[l].pc # "throttle" /\ \A m \in LoopIds \ {l} : loops'[m] = loops[m]
    <3>1. CASE LoopCapture(l)
      <4>1. PICK session :
              loops' = [loops EXCEPT ![l].pc = "captured", ![l].session = session]
        BY <3>1 DEF LoopCapture
      <4> QED BY <4>1 DEF TypeOK
    <3>2. CASE LoopCaptured(l)
      BY <3>2 DEF LoopCaptured, TypeOK
    <3>3. CASE LoopPublished(l)
      BY <2>1, <3>3 DEF LoopPublished, TypeOK
    <3> QED BY <1>4, <3>1, <3>2, <3>3
  <2> QED BY <1>4, <2>2, SpacingSame DEF LoopCapture, LoopCaptured, LoopPublished
<1> QED BY <1>1, <1>2, <1>3, <1>4 DEF Loop

LEMMA SpacingStep == TypeOK /\ SingleFlight /\ Spacing /\ [Next]_vars => Spacing'
<1> SUFFICES ASSUME TypeOK, SingleFlight, Spacing, [Next]_vars PROVE Spacing'
  OBVIOUS
<1>1. CASE UNCHANGED <<gap, last_send, loops>>
  BY <1>1, SpacingSame
<1>2. CASE Call
  <2>1. CASE RequestFreshSnapshot
    BY <2>1, SpacingTrigger DEF RequestFreshSnapshot
  <2> QED
    BY <1>1, <1>2, <2>1
       DEF Call, Start, HandleSleepOrLock, HandleWakeOrUnlock, Shutdown, ShutdownReturnsAtOnce,
           ShutdownJoined, ShutdownFinal, DiscardAuthority, inner
<1>3. ASSUME NEW g \in Gens, Configure(g) PROVE Spacing'
  <2>1. CASE ConfigureAvailable(g)
    BY <2>1, SpacingTrigger DEF ConfigureAvailable
  <2> QED
    BY <1>1, <1>3, <2>1
       DEF Configure, ConfigureStale, ConfigureEntry, ConfigureGated, ConfigureHasToken,
           ConfigureInvalidUrl, ConfigureRetries, ConfigureUpdateRequired, ConfigureUnchanged
<1>4. ASSUME NEW g \in Gens, Timer(g) PROVE Spacing'
  <2>1. CASE HeartbeatTick(g) /\ IsCurrent(g)
    BY <2>1, SpacingTrigger DEF HeartbeatTick
  <2> QED
    BY <1>1, <1>4, <2>1
       DEF Timer, HeartbeatFires, HeartbeatTick, ReconnectFires, Reconnect, ClearJoinEnds, inner
<1>5. CASE IntervalElapses
  BY <1>5 DEF IntervalElapses, tasks, Spacing
<1>6. CASE (\E w \in WakeIds : WakeTask(w)) \/ PreviewCapture \/ UNCHANGED vars
  BY <1>1, <1>6 DEF WakeTask, PreviewCapture, vars, inner, tasks
<1> QED BY <1>2, <1>3, <1>4, <1>5, <1>6, SpacingLoop DEF Next

(* Only a send moves a loop from the throttle to the capture.               *)
LEMMA OnlySends ==
  ASSUME TypeOK, [Next]_vars, NEW l \in LoopIds,
         loops[l].pc = "throttle", loops'[l].pc = "capture"
  PROVE  LoopSend(l)
<1>0. loops'[l] # loops[l]
  OBVIOUS
<1>1. ASSUME NEW g, TriggerRefresh(g) PROVE FALSE
  <2>1. NewLoop(g).pc = "head"
    BY DEF NewLoop, IdleLoop
  <2> QED BY <1>0, <1>1, <2>1 DEF TriggerRefresh, SpawnLoop, TypeOK
<1>2. ~Call
  BY <1>0, <1>1
     DEF Call, RequestFreshSnapshot, Start, HandleSleepOrLock, HandleWakeOrUnlock, Shutdown,
         ShutdownReturnsAtOnce, ShutdownJoined, ShutdownFinal, DiscardAuthority, inner
<1>3. ASSUME NEW g \in Gens, Configure(g) PROVE FALSE
  BY <1>0, <1>1, <1>3
     DEF Configure, ConfigureStale, ConfigureEntry, ConfigureGated, ConfigureHasToken,
         ConfigureInvalidUrl, ConfigureRetries, ConfigureUpdateRequired, ConfigureAvailable,
         ConfigureUnchanged
<1>4. ASSUME NEW g \in Gens, Timer(g) PROVE FALSE
  BY <1>0, <1>1, <1>4
     DEF Timer, HeartbeatFires, HeartbeatTick, ReconnectFires, Reconnect, ClearJoinEnds, inner
<1>5. ~((\E w \in WakeIds : WakeTask(w)) \/ IntervalElapses \/ PreviewCapture \/ UNCHANGED vars)
  BY <1>0 DEF WakeTask, IntervalElapses, PreviewCapture, vars, inner, tasks
<1>6. PICK m \in LoopIds : Loop(m)
  BY <1>2, <1>3, <1>4, <1>5 DEF Next
<1>7. NewLoop(loops[m].gen).pc = "head" /\ IdleLoop.pc = "idle"
  BY DEF NewLoop, IdleLoop
<1>8. m = l
  <2>1. SUFFICES ASSUME m # l PROVE loops'[l] = loops[l]
    BY <1>0
  <2> QED
    BY <1>6, <2>1
       DEF Loop, LoopStale, LoopHead, LoopSend, LoopCapture, LoopCaptured, LoopPublished,
           LoopRenegotiates, LoopFailed, ExitLoop, TypeOK
<1>9. ~(LoopStale(l) \/ LoopRenegotiates(l) \/ LoopFailed(l))
  BY <1>7 DEF LoopStale, LoopRenegotiates, LoopFailed, ExitLoop, TypeOK
<1>10. ~(LoopHead(l) \/ LoopCapture(l) \/ LoopCaptured(l) \/ LoopPublished(l))
  BY DEF LoopHead, LoopCapture, LoopCaptured, LoopPublished
<1> QED BY <1>6, <1>8, <1>9, <1>10 DEF Loop

(* Sends start at least the minimum interval apart, across generations.     *)
THEOREM SendSpacingHolds == Spec => SendSpacing
<1>1. Init => Spacing
  BY DEF Init, Spacing, IdleLoop
<1>2. TypeOK /\ SingleFlight /\ Spacing /\ [Next]_vars => TypeOK' /\ SingleFlight' /\ Spacing'
  BY TypeStep, FlightStep, SpacingStep
<1>3. TypeOK /\ Spacing /\ [Next]_vars =>
        [\A l \in LoopIds : loops[l].pc = "throttle" /\ loops'[l].pc = "capture"
                               => gap = "past"]_vars
  <2> SUFFICES ASSUME TypeOK, Spacing, [Next]_vars, NEW l \in LoopIds,
                      loops[l].pc = "throttle", loops'[l].pc = "capture"
               PROVE  gap = "past"
    OBVIOUS
  <2>1. LoopSend(l)
    BY OnlySends
  <2>2. loops[l].wait => last_send = "past"
    BY <2>1 DEF LoopSend
  <2>3. last_send = "past"
    BY <2>2 DEF Spacing
  <2> QED BY <2>3 DEF Spacing, TypeOK
<1> QED BY <1>1, <1>2, <1>3, TypeInit, FlightInit, PTL DEF Spec, SendSpacing

(* The whole invariant of the coordinator's lifecycle: it holds at the start *)
(* and every call, timer and task segment keeps it.                         *)
THEOREM InductiveHolds == Spec => []Inductive
<1>1. Init => Inductive
  <2>1. Init => Recoverable /\ Session /\ Authority /\ Spacing
    BY DEF Init, Recoverable, Session, Authority, AuthorityOfClient, Spacing, IdleLoop
  <2> QED BY <2>1, TypeInit, FlightInit, LifecycleInit DEF Inductive
<1>2. Inductive /\ [Next]_vars => Inductive'
  BY TypeStep, FlightStep, LifecycleStep, RecoverableStep, SessionStep, AuthorityStep,
     SpacingStep DEF Inductive
<1> QED BY <1>1, <1>2, PTL DEF Spec

-----------------------------------------------------------------------------
(* Suspension and shutdown.                                                 *)

LEMMA SuspendedStep ==
  ASSUME TypeOK, Lifecycle, [Next]_vars, state = "Suspended", state' # "Suspended"
  PROVE  generation' = generation + 1 /\ UNCHANGED <<ticks, retries, loops>>
<1>1. generation \notin retries /\ \A g \in Gens : g = generation =>
                                      configures[g].pc \notin Negotiating
  BY DEF Lifecycle, CurrentTasks, Retrying
<1>2. \A l \in LoopIds : Live(l) => loops[l].gen # generation
  BY DEF Lifecycle, CurrentTasks, Publishing
<1>3. CASE Call
  BY <1>3 DEF Call, Start, StartLocked, BeginNewGeneration, RequestFreshSnapshot,
     HandleSleepOrLock, HandleWakeOrUnlock, Shutdown, ShutdownReturnsAtOnce, ShutdownJoined,
     ShutdownFinal, DiscardAuthority, inner
<1>4. ASSUME NEW g \in Gens, Configure(g) PROVE FALSE
  BY <1>1, <1>4
     DEF Configure, ConfigureStale, ConfigureEntry, ConfigureGated, ConfigureHasToken,
         ConfigureInvalidUrl, ConfigureRetries, ConfigureUpdateRequired, ConfigureAvailable,
         ConfigureMoves, ConfigureReturns, IsCurrent, Negotiating
<1>5. ASSUME NEW g \in Gens, Timer(g) PROVE FALSE
  BY <1>1, <1>5
     DEF Timer, HeartbeatFires, HeartbeatTick, ReconnectFires, Reconnect, ClearJoinEnds,
         IsCurrent, inner
<1>6. ASSUME NEW l \in LoopIds, Loop(l) PROVE FALSE
  BY <1>2, <1>6
     DEF Loop, LoopStale, LoopHead, LoopSend, LoopCapture, LoopCaptured, LoopPublished,
         LoopRenegotiates, LoopFailed, IsCurrent, Live
<1>7. ASSUME NEW w \in WakeIds, WakeTask(w)
      PROVE  generation' = generation + 1 /\ UNCHANGED <<ticks, retries, loops>>
  BY <1>7 DEF WakeTask, StartLocked, BeginNewGeneration
<1>8. ~(IntervalElapses \/ PreviewCapture \/ UNCHANGED vars)
  BY DEF IntervalElapses, PreviewCapture, vars, inner, tasks
<1> QED BY <1>3, <1>4, <1>5, <1>6, <1>7, <1>8 DEF Next

(* No result, timer or loop of an older generation ends a suspension.       *)
THEOREM SuspensionHolds == Spec => SuspensionSticks
<1>1. TypeOK /\ Lifecycle /\ [Next]_vars => TypeOK' /\ Lifecycle'
  BY TypeStep, LifecycleStep
<1>2. TypeOK /\ Lifecycle /\ [Next]_vars =>
        [state = "Suspended" /\ state' # "Suspended" =>
           generation' = generation + 1 /\ UNCHANGED <<ticks, retries, loops>>]_vars
  BY SuspendedStep
<1> QED BY <1>1, <1>2, TypeInit, LifecycleInit, PTL DEF Spec, SuspensionSticks

LEMMA StoppingStep ==
  ASSUME TypeOK, Lifecycle, [Next]_vars, stopping
  PROVE  /\ generation' = generation
         /\ ~stopping' => /\ state' = "Disabled" /\ client' = None
                          /\ {heartbeat_task', reconnect_task'} = {None}
<1>1. /\ state = "Disabled" /\ heartbeat_task = None /\ reconnect_task = None
  BY DEF Lifecycle, QuietOutsidePublishing
<1>2. CASE ShutdownFinal
  BY <1>1, <1>2 DEF ShutdownFinal
<1>3. CASE Call /\ ~ShutdownFinal
  BY <1>3 DEF Call, Start, RequestFreshSnapshot, HandleSleepOrLock, HandleWakeOrUnlock, Shutdown,
     ShutdownReturnsAtOnce, ShutdownJoined, DiscardAuthority, inner
<1>4. ASSUME NEW g \in Gens, Configure(g) PROVE UNCHANGED <<generation, stopping>>
  BY <1>4
     DEF Configure, ConfigureStale, ConfigureEntry, ConfigureGated, ConfigureHasToken,
         ConfigureInvalidUrl, ConfigureRetries, ConfigureUpdateRequired, ConfigureAvailable,
         ConfigureUnchanged
<1>5. ASSUME NEW g \in Gens, Timer(g) PROVE UNCHANGED <<generation, stopping>>
  BY <1>5 DEF Timer, HeartbeatFires, HeartbeatTick, ReconnectFires, Reconnect, ClearJoinEnds, inner
<1>6. ASSUME NEW l \in LoopIds, Loop(l) PROVE UNCHANGED <<generation, stopping>>
  BY <1>6
     DEF Loop, LoopStale, LoopHead, LoopSend, LoopCapture, LoopCaptured, LoopPublished,
         LoopRenegotiates, LoopFailed, LoopUnchanged, StartLocked
<1>7. ASSUME NEW w \in WakeIds, WakeTask(w) PROVE UNCHANGED <<generation, stopping>>
  BY <1>7 DEF WakeTask, StartLocked
<1>8. CASE IntervalElapses \/ PreviewCapture \/ UNCHANGED vars
  BY <1>8 DEF IntervalElapses, PreviewCapture, vars, inner, tasks
<1> QED BY <1>2, <1>3, <1>4, <1>5, <1>6, <1>7, <1>8 DEF Next

(* A shutdown is alone with the lifecycle and leaves nothing armed.         *)
THEOREM ShutdownHolds == Spec => ShutdownIsExclusive
<1>1. TypeOK /\ Lifecycle /\ [Next]_vars => TypeOK' /\ Lifecycle'
  BY TypeStep, LifecycleStep
<1>2. TypeOK /\ Lifecycle /\ [Next]_vars =>
        [stopping => /\ generation' = generation
                     /\ ~stopping' => /\ state' = "Disabled" /\ client' = None
                                      /\ {heartbeat_task', reconnect_task'} = {None}]_vars
  BY StoppingStep
<1> QED BY <1>1, <1>2, TypeInit, LifecycleInit, PTL DEF Spec, ShutdownIsExclusive

-----------------------------------------------------------------------------
(* The coordinator is the desk that the service and the session events know. *)

Views == <<SessionView, ServiceView>>

LEMMA SameViews ==
  ASSUME UNCHANGED <<state, generation>>, configures'[generation] = configures[generation]
  PROVE  UNCHANGED Views
BY DEF Views, SessionView, ServiceView

LEMMA StartViews ==
  ASSUME TypeOK, ~stopping, StartLocked
  PROVE  SessionView' = "Connecting" /\ ServiceView' = "Connecting"
<1>1. generation' = generation + 1 /\ state' = "Connecting" /\ generation + 1 \in Gens
  BY Generations DEF StartLocked, BeginNewGeneration, TypeOK
<1>2. configures'[generation + 1].pc = "entry"
  BY <1>1 DEF StartLocked, TypeOK
<1> QED BY <1>1, <1>2 DEF SessionView, ServiceView

(* What the coordinator does by itself negotiates or retries.               *)
ByItself ==
  /\ ForSession!Unasked \/ UNCHANGED SessionView
  /\ ForService!Unasked \/ UNCHANGED ServiceView
  /\ UNCHANGED stopping

LEMMA NegotiationIsUnasked ==
  ASSUME TypeOK, Lifecycle, NEW g \in Gens, Configure(g)
  PROVE  ByItself
<1> USE DEF ConfigureUnchanged
<1>0. UNCHANGED <<stopping, generation>> /\ configures \in [Gens -> [pc : ConfigurePcs, conn : Connections \cup {Off}]]
  BY DEF Configure, ConfigureStale, ConfigureEntry, ConfigureGated, ConfigureHasToken,
         ConfigureInvalidUrl, ConfigureRetries, ConfigureUpdateRequired, ConfigureAvailable, TypeOK
<1>1. ASSUME IsCurrent(g), configures[g].pc \in Negotiating
      PROVE  state = "Connecting" /\ ~stopping /\ SessionView = "Connecting"
  BY <1>1 DEF Lifecycle, CurrentTasks, QuietOutsidePublishing, IsCurrent, SessionView, TypeOK
<1>2. CASE ConfigureStale(g)
  <2>1. configures'[generation] = configures[generation] /\ state' = state
    BY <1>0, <1>2 DEF ConfigureStale, ConfigureReturns, IsCurrent
  <2> QED BY <1>0, <2>1, SameViews DEF ByItself, Views
<1>3. ASSUME NEW conn \in Connections \cup {Off}, ConfigureEntry(g, conn) PROVE ByItself
  <2>1. /\ state = "Connecting" /\ state' = state /\ ~stopping
        /\ configures[generation].pc = "entry"
        /\ configures'[generation].pc \in {"gated", "token"}
    BY <1>0, <1>1, <1>3 DEF ConfigureEntry, Negotiating, IsCurrent
  <2>2. /\ ServiceView = "Connecting" /\ ServiceView' \in {"Live", "Off"}
        /\ SessionView' = SessionView
    BY <1>0, <2>1 DEF ServiceView, SessionView
  <2> QED
    BY <1>0, <2>1, <2>2 DEF ByItself, ForService!Unasked, ForService!Negotiated, ForService!Becomes
<1>4. CASE ConfigureGated(g)
  <2>1. /\ state = "Connecting" /\ state' = "Disabled" /\ ~stopping
        /\ configures[generation].pc = "gated" /\ SessionView = "Connecting"
    BY <1>0, <1>1, <1>4 DEF ConfigureGated, ConfigureReturns, Negotiating, IsCurrent
  <2>2. ServiceView = "Off" /\ ServiceView' = "Off" /\ SessionView' = "Off"
    BY <2>1 DEF ServiceView, SessionView
  <2> QED
    BY <1>0, <2>1, <2>2 DEF ByItself, ForSession!Unasked, ForSession!Negotiated, ForSession!Becomes
<1>5. CASE ConfigureHasToken(g)
  <2>1. /\ state = "Connecting" /\ state' = state
        /\ configures[generation].pc = "token" /\ configures'[generation].pc = "capabilities"
    BY <1>0, <1>1, <1>5 DEF ConfigureHasToken, ConfigureMoves, Negotiating, IsCurrent
  <2>2. UNCHANGED <<SessionView, ServiceView>>
    BY <1>0, <2>1 DEF ServiceView, SessionView
  <2> QED BY <1>0, <2>2 DEF ByItself
<1>6. ASSUME /\ IsCurrent(g) /\ configures[g].pc \in {"token", "capabilities"}
             /\ state' \in {"Active", "Degraded", "ServerFeatureUnavailable", "UpdateRequired"}
      PROVE  ByItself
  <2>1. /\ state = "Connecting" /\ ~stopping /\ SessionView = "Connecting"
        /\ configures[generation].pc \in {"token", "capabilities"}
    BY <1>1, <1>6 DEF Negotiating, IsCurrent
  <2>2. /\ ServiceView = "Live" /\ ServiceView' = "Live" /\ SessionView' \in {"Live", "Waiting", "Off"}
    BY <1>6, <2>1 DEF ServiceView, SessionView
  <2> QED
    BY <1>0, <2>1, <2>2 DEF ByItself, ForSession!Unasked, ForSession!Negotiated, ForSession!Becomes
<1>7. CASE ConfigureInvalidUrl(g)
  BY <1>6, <1>7 DEF ConfigureInvalidUrl, ConfigureMoves
<1>8. ASSUME NEW from \in {"token", "capabilities"},
             NEW s \in {"Degraded", "ServerFeatureUnavailable"}, ConfigureRetries(g, from, s)
      PROVE  ByItself
  BY <1>6, <1>8 DEF ConfigureRetries, ConfigureReturns
<1>9. CASE ConfigureUpdateRequired(g)
  BY <1>6, <1>9 DEF ConfigureUpdateRequired, ConfigureReturns
<1>10. CASE ConfigureAvailable(g)
  BY <1>6, <1>10 DEF ConfigureAvailable, ConfigureMoves
<1> QED BY <1>2, <1>3, <1>4, <1>5, <1>7, <1>8, <1>9, <1>10 DEF Configure

(* A retry, or a publish the site rejected, restarts the negotiation.       *)
LEMMA RestartIsRetry ==
  ASSUME TypeOK, Lifecycle, state \in Retrying, StartLocked, UNCHANGED stopping
  PROVE  ByItself
<1>1. ~stopping
  BY DEF Lifecycle, QuietOutsidePublishing, Retrying
<1>2. SessionView \in {"Live", "Waiting"} /\ ServiceView = "Live"
  BY DEF SessionView, ServiceView, Retrying
<1> QED
  BY <1>1, <1>2, StartViews
     DEF ByItself, ForSession!Unasked, ForSession!Retry, ForSession!Becomes,
         ForService!Unasked, ForService!Retry, ForService!Becomes

LEMMA SameIsByItself ==
  ASSUME UNCHANGED <<state, generation, configures, stopping>>
  PROVE  ByItself
BY SameViews DEF ByItself, Views

LEMMA TimerIsUnasked ==
  ASSUME TypeOK, Lifecycle, NEW g \in Gens, Timer(g)
  PROVE  ByItself
<1>1. CASE Reconnect(g) /\ IsCurrent(g) /\ ~stopping
  <2>1. state \in Retrying
    BY <1>1 DEF Reconnect, IsCurrent, Lifecycle, CurrentTasks
  <2> QED BY <1>1, <2>1, RestartIsRetry DEF Reconnect
<1>2. CASE Reconnect(g) /\ ~(IsCurrent(g) /\ ~stopping)
  BY <1>2, SameIsByItself DEF Reconnect
<1>3. CASE HeartbeatFires(g) \/ HeartbeatTick(g) \/ ReconnectFires(g) \/ ClearJoinEnds(g)
  BY <1>3, SameIsByItself DEF HeartbeatFires, HeartbeatTick, ReconnectFires, ClearJoinEnds, inner
<1> QED BY <1>1, <1>2, <1>3 DEF Timer

LEMMA LoopIsUnasked ==
  ASSUME TypeOK, Lifecycle, NEW l \in LoopIds, Loop(l)
  PROVE  ByItself
<1>1. CASE LoopStale(l) \/ LoopHead(l) \/ LoopSend(l) \/ LoopCapture(l) \/ LoopCaptured(l)
  BY <1>1, SameIsByItself
     DEF LoopStale, LoopHead, LoopSend, LoopCapture, LoopCaptured, LoopUnchanged
<1>2. ASSUME IsCurrent(loops[l].gen), loops[l].pc = "publish"
      PROVE  state \in Publishing
  BY <1>2 DEF IsCurrent, Live, Lifecycle, CurrentTasks
<1>3. CASE LoopPublished(l) \/ LoopFailed(l)
  <2>1. /\ state \in Publishing /\ state' \in Publishing
        /\ UNCHANGED <<generation, configures, stopping>>
    BY <1>2, <1>3 DEF LoopPublished, LoopFailed, LoopUnchanged, Publishing
  <2>2. UNCHANGED <<SessionView, ServiceView>>
    BY <2>1 DEF Publishing, SessionView, ServiceView
  <2> QED BY <2>1, <2>2 DEF ByItself
<1>4. CASE LoopRenegotiates(l)
  BY <1>2, <1>4, RestartIsRetry DEF LoopRenegotiates, LoopUnchanged, Publishing, Retrying
<1> QED BY <1>1, <1>3, <1>4 DEF Loop

(* One step of the coordinator, seen as one of the desk.                    *)
DeskStep ==
  /\ [ForSession!Next]_(ForSession!desk)
  /\ [ForService!Next]_(ForService!desk)

LEMMA ByItselfIsStep == ByItself => DeskStep
BY DEF ByItself, DeskStep, ForSession!Next, ForService!Next, ForSession!desk, ForService!desk

LEMMA StartIsStep ==
  ASSUME TypeOK, StartLocked, ~stopping, UNCHANGED stopping
  PROVE  DeskStep
BY StartViews
   DEF DeskStep, ForSession!Next, ForSession!Asked, ForSession!Start, ForSession!Becomes,
       ForService!Next, ForService!Asked, ForService!Start, ForService!Becomes

LEMMA CallIsStep ==
  ASSUME TypeOK, Lifecycle, Call
  PROVE  DeskStep
<1>1. CASE Start
  BY <1>1, StartIsStep DEF Start
<1>2. CASE HandleSleepOrLock
  <2>1. CASE state = "Suspended" \/ stopping
    BY <1>2, <2>1, SameIsByItself, ByItselfIsStep DEF HandleSleepOrLock
  <2>2. CASE ~(state = "Suspended" \/ stopping)
    <3>1. ~stopping /\ UNCHANGED stopping /\ state' = "Suspended"
      BY <1>2, <2>2 DEF HandleSleepOrLock, BeginNewGeneration
    <3>2. SessionView' = "Suspended" /\ ServiceView' = "Suspended"
      BY <3>1 DEF SessionView, ServiceView
    <3> QED
      BY <3>1, <3>2
         DEF DeskStep, ForSession!Next, ForSession!Asked, ForSession!Suspend, ForSession!Becomes,
             ForService!Next, ForService!Asked, ForService!Suspend, ForService!Becomes
  <2> QED BY <2>1, <2>2
<1>3. ASSUME NEW removed \in BOOLEAN, Shutdown(removed) PROVE DeskStep
  <2>1. ~stopping /\ stopping' = TRUE /\ state' = "Disabled"
    BY <1>3 DEF Shutdown, BeginNewGeneration
  <2>2. SessionView' = "Off" /\ ServiceView' = "Off"
    BY <2>1 DEF SessionView, ServiceView
  <2> QED
    BY <2>1, <2>2
       DEF DeskStep, ForSession!Next, ForSession!Asked, ForSession!Shutdown,
           ForService!Next, ForService!Asked, ForService!Shutdown
<1>4. CASE ShutdownFinal
  <2>1. UNCHANGED <<state, generation, configures>> /\ stopping' = FALSE /\ stopping \in BOOLEAN
    BY <1>4 DEF ShutdownFinal, TypeOK
  <2>2. UNCHANGED <<SessionView, ServiceView>>
    BY <2>1, SameViews DEF Views
  <2>3. CASE stopping
    BY <2>1, <2>2, <2>3
       DEF DeskStep, ForSession!Next, ForSession!Asked, ForSession!ShutdownReturns,
           ForService!Next, ForService!Asked, ForService!ShutdownReturns
  <2>4. CASE ~stopping
    BY <2>1, <2>4, SameIsByItself, ByItselfIsStep
  <2> QED BY <2>3, <2>4
<1>5. CASE \/ RequestFreshSnapshot \/ HandleWakeOrUnlock \/ ShutdownReturnsAtOnce
           \/ ShutdownJoined \/ DiscardAuthority
  <2>1. UNCHANGED <<state, generation, configures, stopping>>
    BY <1>5
       DEF RequestFreshSnapshot, HandleWakeOrUnlock, ShutdownReturnsAtOnce, ShutdownJoined,
           DiscardAuthority, inner
  <2> QED BY <2>1, SameIsByItself, ByItselfIsStep
<1> QED BY <1>1, <1>2, <1>3, <1>4, <1>5 DEF Call

LEMMA WakeIsStep ==
  ASSUME TypeOK, Lifecycle, NEW w \in WakeIds, WakeTask(w)
  PROVE  DeskStep
<1>1. CASE state = "Suspended"
  <2>1. ~stopping /\ StartLocked /\ UNCHANGED stopping
    BY <1>1 DEF WakeTask, Lifecycle, QuietOutsidePublishing
  <2> QED BY <2>1, StartIsStep
<1>2. CASE state # "Suspended"
  BY <1>2, SameIsByItself, ByItselfIsStep DEF WakeTask
<1> QED BY <1>1, <1>2

LEMMA EveryStepIsDesk ==
  ASSUME TypeOK, Lifecycle, [Next]_vars
  PROVE  DeskStep /\ (ActsByItself => ByItself)
<1>1. ActsByItself => ByItself
  BY NegotiationIsUnasked, TimerIsUnasked, LoopIsUnasked DEF ActsByItself
<1>2. CASE ActsByItself
  BY <1>1, <1>2, ByItselfIsStep
<1>3. CASE Call
  BY <1>1, <1>3, CallIsStep
<1>4. CASE \E w \in WakeIds : WakeTask(w)
  BY <1>1, <1>4, WakeIsStep
<1>5. CASE IntervalElapses \/ PreviewCapture \/ UNCHANGED vars
  BY <1>5, SameIsByItself, ByItselfIsStep
     DEF IntervalElapses, PreviewCapture, vars, inner, tasks
<1> QED BY <1>1, <1>2, <1>3, <1>4, <1>5 DEF Next, ActsByItself

(* Whoever sees the coordinator as a desk that starts, is suspended,        *)
(* resumed and shut down sees it right, and only those calls and its own    *)
(* negotiations and retries move it.                                        *)
THEOREM ActsAsDeskHolds == Spec => ActsAsDesk
<1>1. Init => ForSession!Init /\ ForService!Init
  BY DEF Init, ForSession!Init, ForService!Init, SessionView, ServiceView
<1>2. TypeOK /\ Lifecycle /\ [Next]_vars => TypeOK' /\ Lifecycle'
  BY TypeStep, LifecycleStep
<1>3. TypeOK /\ Lifecycle /\ [Next]_vars => DeskStep
  BY EveryStepIsDesk
<1>4. TypeOK /\ Lifecycle /\ [Next]_vars =>
        [(SessionView' # SessionView \/ ServiceView' # ServiceView) /\ ActsByItself =>
           /\ ForSession!Unasked \/ UNCHANGED SessionView
           /\ ForService!Unasked \/ UNCHANGED ServiceView]_vars
  BY EveryStepIsDesk DEF ByItself
<1> QED
  BY <1>1, <1>2, <1>3, <1>4, TypeInit, LifecycleInit, PTL
     DEF Spec, ActsAsDesk, DeskStep, ForSession!Spec, ForService!Spec

==============================================================================
