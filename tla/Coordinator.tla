----------------------------- MODULE Coordinator -----------------------------
(***************************************************************************)
(* The Live Desk coordinator (core/src/companion/coordinator.rs): one      *)
(* mutex-protected record (Inner) and the asynchronous tasks that share    *)
(* it.  A task is atomic between two points where it can be descheduled,   *)
(* that is per locked segment; every await is a point where any other      *)
(* public call or task may run.                                            *)
(*                                                                         *)
(* A generation number identifies the lifecycle a task was spawned for.    *)
(* `abort` only kills a timer that still sleeps: one that has woken and    *)
(* waits for the mutex runs on, which is why ticks and fired retries are   *)
(* state of their own.                                                     *)
(***************************************************************************)
EXTENDS Naturals, FiniteSets

CONSTANTS
  MaxGeneration,   (* bound on the number of lifecycles of one run          *)
  LoopIds,         (* slots for refresh-loop tasks, live ones and stale ones *)
  WakeIds,         (* bound on wake tasks alive at the same time            *)
  Connections,     (* (baseUrl, deviceId) pairs that can be paired          *)
  Off              (* "no connection, or live_desk_enabled is false"        *)

ASSUME CoordinatorAssumption ==
  /\ MaxGeneration \in Nat
  /\ Off \notin Connections

VARIABLES
  (* The fields of Inner. Timers and clients are named by the generation   *)
  (* that created them, 0 is None. registry is the generation whose        *)
  (* configure built the current authority (its sequencer).                *)
  generation, state, stopping, refresh_requested, refresh_loop_running,
  heartbeat_task, reconnect_task, cleanup_task, last_send, client, registry,
  (* Tasks. *)
  configures,      (* the configure task of every generation               *)
  ticks,           (* heartbeats that woke and wait for the mutex          *)
  retries,         (* reconnect timers that woke and wait for the mutex    *)
  loops,           (* refresh loops                                        *)
  clears,          (* clear requests, by the generation that spawned them  *)
  wakes,           (* wake tasks                                           *)
  closing,         (* the shutdown call that holds `stopping`              *)
  discard_due,     (* a pair or unpair call that will discard the authority *)
  (* Surroundings. *)
  media_session,   (* the media tracker's session id, 0 is none            *)
  asleep,          (* the deduplicated lock/sleep flag of the event source *)
  gap              (* real time since the last send start                  *)

inner == <<generation, state, stopping, refresh_requested, refresh_loop_running,
           heartbeat_task, reconnect_task, cleanup_task, last_send, client, registry>>
tasks == <<configures, ticks, retries, loops, clears, wakes, closing, discard_due>>
vars == <<inner, tasks, media_session, asleep, gap>>

None == 0
Gens == 1..MaxGeneration
MaybeGen == 0..MaxGeneration

States == {"Disabled", "Connecting", "Active", "Degraded", "Suspended",
           "UpdateRequired", "ServerFeatureUnavailable"}

(* "invalid_url" is the end of a configure that found the stored URL       *)
(* unusable (T4), the one degraded state with no timer.                    *)
ConfigurePcs == {"none", "entry", "gated", "token", "capabilities", "done", "invalid_url"}
LoopPcs == {"idle", "head", "throttle", "capture", "captured", "publish"}
ClearPcs == {"none", "joined", "over"}
ClosingPcs == {"idle", "join", "clear", "final"}

IdleLoop == [pc |-> "idle", gen |-> None, client |-> None, wait |-> FALSE, session |-> None]
NewLoop(g) == [IdleLoop EXCEPT !.pc = "head", !.gen = g]
IdleWake == [pc |-> "idle", pending |-> None]
IdleClosing == [pc |-> "idle", client |-> None, suspended |-> FALSE,
                pending |-> None, removed |-> FALSE]

TypeOK ==
  /\ generation \in MaybeGen
  /\ state \in States
  /\ stopping \in BOOLEAN /\ refresh_requested \in BOOLEAN /\ refresh_loop_running \in BOOLEAN
  /\ heartbeat_task \in MaybeGen /\ reconnect_task \in MaybeGen /\ cleanup_task \in MaybeGen
  /\ client \in MaybeGen /\ registry \in MaybeGen /\ media_session \in MaybeGen
  /\ last_send \in {"recent", "past"} /\ gap \in {"recent", "past"}
  /\ discard_due \in BOOLEAN /\ asleep \in BOOLEAN
  /\ configures \in [Gens -> [pc : ConfigurePcs, conn : Connections \cup {Off}]]
  /\ ticks \subseteq Gens /\ retries \subseteq Gens
  /\ loops \in [LoopIds -> [pc : LoopPcs, gen : MaybeGen, client : MaybeGen,
                            wait : BOOLEAN, session : MaybeGen]]
  /\ clears \in [Gens -> [pc : ClearPcs, client : MaybeGen]]
  /\ wakes \in [WakeIds -> [pc : {"idle", "joining"}, pending : MaybeGen]]
  /\ closing \in [pc : ClosingPcs, client : MaybeGen, suspended : BOOLEAN,
                  pending : MaybeGen, removed : BOOLEAN]

Init ==
  /\ generation = 0 /\ state = "Disabled" /\ stopping = FALSE
  /\ refresh_requested = FALSE /\ refresh_loop_running = FALSE
  /\ heartbeat_task = None /\ reconnect_task = None /\ cleanup_task = None
  /\ last_send = "past" /\ client = None /\ registry = None
  /\ configures = [g \in Gens |-> [pc |-> "none", conn |-> Off]]
  /\ ticks = {} /\ retries = {}
  /\ loops = [l \in LoopIds |-> IdleLoop]
  /\ clears = [g \in Gens |-> [pc |-> "none", client |-> None]]
  /\ wakes = [w \in WakeIds |-> IdleWake]
  /\ closing = IdleClosing /\ discard_due = FALSE
  /\ media_session = None /\ asleep = FALSE /\ gap = "past"

-----------------------------------------------------------------------------
(* Locked helpers. *)

IsCurrent(g) == g = generation

(* Faulty variants (named <operator>_<fault>) stand before the operator    *)
(* they deviate from; no specification uses them, PROJECT.json names the   *)
(* property each of them breaks.                                           *)
BeginNewGeneration_KeepsHeartbeat(s) ==
  /\ generation < MaxGeneration
  /\ generation' = generation + 1
  /\ reconnect_task' = None /\ UNCHANGED heartbeat_task
  /\ refresh_requested' = FALSE /\ media_session' = None
  /\ state' = s

BeginNewGeneration_KeepsSession(s) ==
  /\ generation < MaxGeneration
  /\ generation' = generation + 1
  /\ heartbeat_task' = None /\ reconnect_task' = None
  /\ refresh_requested' = FALSE /\ UNCHANGED media_session
  /\ state' = s

BeginNewGeneration(s) ==
  /\ generation < MaxGeneration
  /\ generation' = generation + 1
  /\ heartbeat_task' = None
  /\ reconnect_task' = None
  /\ refresh_requested' = FALSE
  /\ media_session' = None
  /\ state' = s

(* A new Connecting generation and its configure task; nothing while a     *)
(* shutdown is in flight.                                                  *)
StartLocked ==
  IF stopping
  THEN UNCHANGED <<generation, heartbeat_task, reconnect_task, refresh_requested,
                   media_session, state, configures>>
  ELSE /\ BeginNewGeneration("Connecting")
       /\ configures' = [configures EXCEPT ![generation + 1].pc = "entry"]

(* A timer still armed is aborted and its whole sleep starts again. Sleeps *)
(* have no duration here, so the state is the same; that the timer may be  *)
(* put off again and again is in its fairness (RetryTimer).                *)
ScheduleRetry(g) == reconnect_task' = g

SpawnLoop(g) ==
  \E l \in LoopIds : /\ loops[l].pc = "idle"
                     /\ loops' = [loops EXCEPT ![l] = NewLoop(g)]

TriggerRefresh_PerRequest(g) ==
  /\ refresh_requested' = TRUE
  /\ refresh_loop_running' = TRUE
  /\ IF refresh_requested THEN UNCHANGED loops ELSE SpawnLoop(g)

TriggerRefresh(g) ==
  /\ refresh_requested' = TRUE
  /\ refresh_loop_running' = TRUE
  /\ IF refresh_loop_running THEN UNCHANGED loops ELSE SpawnLoop(g)

SpawnClear(g, c) == clears' = [clears EXCEPT ![g] = [pc |-> "joined", client |-> c]]
Joined(g) == g # None => clears[g].pc # "joined"

-----------------------------------------------------------------------------
(* Public calls. *)

Start ==
  /\ ~stopping
  /\ StartLocked
  /\ UNCHANGED <<stopping, refresh_loop_running, cleanup_task, last_send, client, registry,
                 ticks, retries, loops, clears, wakes, closing, discard_due, asleep, gap>>

RequestFreshSnapshot ==
  /\ state \in {"Active", "Degraded"}
  /\ TriggerRefresh(generation)
  /\ UNCHANGED <<generation, state, stopping, heartbeat_task, reconnect_task, cleanup_task,
                 last_send, client, registry, configures, ticks, retries, clears, wakes,
                 closing, discard_due, media_session, asleep, gap>>

HandleSleepOrLock_WhileStopping ==
  /\ ~asleep /\ asleep' = TRUE
  /\ state # "Suspended"
  /\ BeginNewGeneration("Suspended")
  /\ IF client = None
     THEN UNCHANGED <<clears, cleanup_task>>
     ELSE SpawnClear(generation + 1, client) /\ cleanup_task' = generation + 1
  /\ UNCHANGED <<stopping, refresh_loop_running, last_send, client, registry,
                 configures, ticks, retries, loops, wakes, closing, discard_due, gap>>

HandleSleepOrLock ==
  /\ ~asleep
  /\ asleep' = TRUE
  /\ IF state = "Suspended" \/ stopping
     THEN UNCHANGED <<generation, heartbeat_task, reconnect_task, refresh_requested,
                      media_session, state, clears, cleanup_task>>
     ELSE /\ BeginNewGeneration("Suspended")
          /\ IF client = None
             THEN UNCHANGED <<clears, cleanup_task>>
             ELSE /\ SpawnClear(generation + 1, client)
                  /\ cleanup_task' = generation + 1
  /\ UNCHANGED <<stopping, refresh_loop_running, last_send, client, registry,
                 configures, ticks, retries, loops, wakes, closing, discard_due, gap>>

HandleWakeOrUnlock_OnlyAfterClear ==
  /\ asleep /\ asleep' = FALSE
  /\ IF state # "Suspended" \/ cleanup_task = None
     THEN UNCHANGED <<cleanup_task, wakes>>
     ELSE /\ cleanup_task' = None
          /\ \E w \in WakeIds :
               /\ wakes[w].pc = "idle"
               /\ wakes' = [wakes EXCEPT ![w] = [pc |-> "joining", pending |-> cleanup_task]]
  /\ UNCHANGED <<generation, state, stopping, refresh_requested, refresh_loop_running,
                 heartbeat_task, reconnect_task, last_send, client, registry, configures,
                 ticks, retries, loops, clears, closing, discard_due, media_session, gap>>

HandleWakeOrUnlock ==
  /\ asleep
  /\ asleep' = FALSE
  /\ IF state # "Suspended"
     THEN UNCHANGED <<cleanup_task, wakes>>
     ELSE /\ cleanup_task' = None
          /\ \E w \in WakeIds :
               /\ wakes[w].pc = "idle"
               /\ wakes' = [wakes EXCEPT ![w] = [pc |-> "joining", pending |-> cleanup_task]]
  /\ UNCHANGED <<generation, state, stopping, refresh_requested, refresh_loop_running,
                 heartbeat_task, reconnect_task, last_send, client, registry, configures,
                 ticks, retries, loops, clears, closing, discard_due, media_session, gap>>

(* The last segment of the task spawned by a wake, after its join.         *)
WakeTask(w) ==
  /\ wakes[w].pc = "joining" /\ Joined(wakes[w].pending)
  /\ wakes' = [wakes EXCEPT ![w] = IdleWake]
  /\ IF state # "Suspended"
     THEN UNCHANGED <<generation, heartbeat_task, reconnect_task, refresh_requested,
                      media_session, state, configures>>
     ELSE StartLocked
  /\ UNCHANGED <<stopping, refresh_loop_running, cleanup_task, last_send, client, registry,
                 ticks, retries, loops, clears, closing, discard_due, asleep, gap>>

(* removed: the caller is pair or unpair, which discards the authority     *)
(* once this call has returned.                                            *)
Shutdown(removed) ==
  /\ ~stopping
  /\ stopping' = TRUE
  /\ BeginNewGeneration("Disabled")
  /\ closing' = [pc |-> "join", client |-> client, suspended |-> state = "Suspended",
                 pending |-> cleanup_task, removed |-> removed]
  /\ cleanup_task' = None
  /\ UNCHANGED <<refresh_loop_running, last_send, client, registry, configures, ticks,
                 retries, loops, clears, wakes, discard_due, asleep, gap>>

(* A pair or unpair that meets a shutdown in flight returns at once.       *)
ShutdownReturnsAtOnce ==
  /\ stopping /\ ~discard_due
  /\ discard_due' = TRUE
  /\ UNCHANGED <<inner, configures, ticks, retries, loops, clears, wakes, closing,
                 media_session, asleep, gap>>

ShutdownJoined ==
  /\ closing.pc = "join" /\ Joined(closing.pending)
  /\ IF closing.suspended \/ closing.client = None
     THEN /\ closing' = [closing EXCEPT !.pc = "final"]
          /\ UNCHANGED clears
     ELSE /\ closing' = [closing EXCEPT !.pc = "clear"]
          /\ SpawnClear(generation, closing.client)
  /\ UNCHANGED <<inner, configures, ticks, retries, loops, wakes, discard_due,
                 media_session, asleep, gap>>

ShutdownFinal_StaysStopping ==
  /\ \/ closing.pc = "final"
     \/ closing.pc = "clear" /\ Joined(generation)
  /\ client' = None
  /\ closing' = IdleClosing
  /\ discard_due' = (discard_due \/ closing.removed)
  /\ UNCHANGED <<generation, state, stopping, refresh_requested, refresh_loop_running,
                 heartbeat_task, reconnect_task, cleanup_task, last_send, registry, configures,
                 ticks, retries, loops, clears, wakes, media_session, asleep, gap>>

ShutdownFinal ==
  /\ \/ closing.pc = "final"
     \/ closing.pc = "clear" /\ Joined(generation)
  /\ client' = None
  /\ stopping' = FALSE
  /\ closing' = IdleClosing
  /\ discard_due' = (discard_due \/ closing.removed)
  /\ UNCHANGED <<generation, state, refresh_requested, refresh_loop_running, heartbeat_task,
                 reconnect_task, cleanup_task, last_send, registry, configures, ticks,
                 retries, loops, clears, wakes, media_session, asleep, gap>>

DiscardAuthority ==
  /\ discard_due
  /\ discard_due' = FALSE
  /\ registry' = None
  /\ client' = None
  /\ UNCHANGED <<generation, state, stopping, refresh_requested, refresh_loop_running,
                 heartbeat_task, reconnect_task, cleanup_task, last_send, configures, ticks,
                 retries, loops, clears, wakes, closing, media_session, asleep, gap>>

-----------------------------------------------------------------------------
(* configure: one negotiation attempt, segment by segment (T2..T9).        *)

ConfigureMoves(g, from, to) ==
  /\ configures[g].pc = from
  /\ configures' = [configures EXCEPT ![g].pc = to]

(* The task returns without a client; the connection it read is forgotten.  *)
ConfigureReturns(g, from) ==
  /\ configures[g].pc = from
  /\ configures' = [configures EXCEPT ![g] = [pc |-> "done", conn |-> Off]]

ConfigureUnchanged ==
  UNCHANGED <<generation, stopping, cleanup_task, last_send, refresh_loop_running,
              ticks, retries, loops, clears, wakes, closing, discard_due,
              media_session, asleep, gap>>

ConfigureStale(g) ==
  /\ ~IsCurrent(g)
  /\ \E pc \in {"entry", "gated", "token", "capabilities"} : ConfigureReturns(g, pc)
  /\ ConfigureUnchanged
  /\ UNCHANGED <<state, refresh_requested, heartbeat_task, reconnect_task, client, registry>>

(* The entry check and the read of the stored connection.                  *)
ConfigureEntry(g, conn) ==
  /\ IsCurrent(g) /\ configures[g].pc = "entry"
  /\ configures' = [configures EXCEPT ![g] =
                      [pc |-> IF conn = Off THEN "gated" ELSE "token", conn |-> conn]]
  /\ ConfigureUnchanged
  /\ UNCHANGED <<state, refresh_requested, heartbeat_task, reconnect_task, client, registry>>

ConfigureGated_Silent(g) ==
  /\ IsCurrent(g) /\ ConfigureReturns(g, "gated")
  /\ ConfigureUnchanged
  /\ UNCHANGED <<state, refresh_requested, heartbeat_task, reconnect_task, client, registry>>

ConfigureGated_NotPaired(g) ==
  /\ IsCurrent(g) /\ ConfigureReturns(g, "gated")
  /\ state' = "NotPaired"
  /\ ConfigureUnchanged
  /\ UNCHANGED <<refresh_requested, heartbeat_task, reconnect_task, client, registry>>

ConfigureGated(g) ==
  /\ IsCurrent(g) /\ ConfigureReturns(g, "gated")
  /\ state' = "Disabled"
  /\ ConfigureUnchanged
  /\ UNCHANGED <<refresh_requested, heartbeat_task, reconnect_task, client, registry>>

ConfigureHasToken(g) ==
  /\ IsCurrent(g) /\ ConfigureMoves(g, "token", "capabilities")
  /\ ConfigureUnchanged
  /\ UNCHANGED <<state, refresh_requested, heartbeat_task, reconnect_task, client, registry>>

ConfigureInvalidUrl(g) ==
  /\ IsCurrent(g) /\ ConfigureMoves(g, "token", "invalid_url")
  /\ state' = "Degraded"
  /\ ConfigureUnchanged
  /\ UNCHANGED <<refresh_requested, heartbeat_task, reconnect_task, client, registry>>

ConfigureRetries_NoTimer(g, from, s) ==
  /\ IsCurrent(g) /\ ConfigureReturns(g, from)
  /\ state' = s
  /\ ConfigureUnchanged
  /\ UNCHANGED <<refresh_requested, heartbeat_task, reconnect_task, client, registry>>

(* No token (T3), capabilities unreachable (T5), unavailable (T7) or       *)
(* invalid (T8): a state with a retry timer.                               *)
ConfigureRetries(g, from, s) ==
  /\ IsCurrent(g) /\ ConfigureReturns(g, from)
  /\ state' = s
  /\ ScheduleRetry(g)
  /\ ConfigureUnchanged
  /\ UNCHANGED <<refresh_requested, heartbeat_task, client, registry>>

ConfigureUpdateRequired(g) ==
  /\ IsCurrent(g) /\ ConfigureReturns(g, "capabilities")
  /\ state' = "UpdateRequired"
  /\ ConfigureUnchanged
  /\ UNCHANGED <<refresh_requested, heartbeat_task, reconnect_task, client, registry>>

Resolve_IgnoresKey(g) == IF registry # None THEN registry ELSE g

(* AuthorityRegistry.resolve: the authority survives under the same key.   *)
Resolve(g) ==
  IF registry # None /\ configures[registry].conn = configures[g].conn THEN registry ELSE g

ConfigureAvailable(g) ==
  /\ IsCurrent(g) /\ ConfigureMoves(g, "capabilities", "done")
  /\ registry' = Resolve(g)
  /\ client' = g
  /\ state' = "Active"
  /\ heartbeat_task' = g
  /\ TriggerRefresh(g)
  /\ UNCHANGED <<generation, stopping, reconnect_task, cleanup_task, last_send, ticks,
                 retries, clears, wakes, closing, discard_due, media_session, asleep, gap>>

Configure(g) ==
  \/ ConfigureStale(g)
  \/ \E conn \in Connections \cup {Off} : ConfigureEntry(g, conn)
  \/ ConfigureGated(g)
  \/ ConfigureHasToken(g)
  \/ ConfigureInvalidUrl(g)
  \/ ConfigureRetries(g, "token", "Degraded")
  \/ \E s \in {"Degraded", "ServerFeatureUnavailable"} : ConfigureRetries(g, "capabilities", s)
  \/ ConfigureUpdateRequired(g)
  \/ ConfigureAvailable(g)

-----------------------------------------------------------------------------
(* Timers. *)

HeartbeatFires_Once(g) ==
  /\ heartbeat_task = g /\ g \notin ticks
  /\ heartbeat_task' = None
  /\ ticks' = ticks \cup {g}
  /\ UNCHANGED <<generation, state, stopping, refresh_requested, refresh_loop_running,
                 reconnect_task, cleanup_task, last_send, client, registry, configures,
                 retries, loops, clears, wakes, closing, discard_due, media_session, asleep, gap>>

HeartbeatFires(g) ==
  /\ heartbeat_task = g /\ g \notin ticks
  /\ ticks' = ticks \cup {g}
  /\ UNCHANGED <<inner, configures, retries, loops, clears, wakes, closing, discard_due,
                 media_session, asleep, gap>>

HeartbeatTick(g) ==
  /\ g \in ticks
  /\ ticks' = ticks \ {g}
  /\ IF IsCurrent(g) THEN TriggerRefresh(g)
     ELSE UNCHANGED <<refresh_requested, refresh_loop_running, loops>>
  /\ UNCHANGED <<generation, state, stopping, heartbeat_task, reconnect_task, cleanup_task,
                 last_send, client, registry, configures, retries, clears, wakes, closing,
                 discard_due, media_session, asleep, gap>>

(* The task handle stays in Inner after the timer fired; a fired handle    *)
(* aborts nothing, so it is None here.                                     *)
ReconnectFires(g) ==
  /\ reconnect_task = g
  /\ reconnect_task' = None
  /\ retries' = retries \cup {g}
  /\ UNCHANGED <<generation, state, stopping, refresh_requested, refresh_loop_running,
                 heartbeat_task, cleanup_task, last_send, client, registry, configures,
                 ticks, loops, clears, wakes, closing, discard_due, media_session, asleep, gap>>

Reconnect_OnlyDegraded(g) ==
  /\ g \in retries
  /\ retries' = retries \ {g}
  /\ IF IsCurrent(g) /\ state = "Degraded" THEN StartLocked
     ELSE UNCHANGED <<generation, heartbeat_task, reconnect_task, refresh_requested,
                      media_session, state, configures>>
  /\ UNCHANGED <<stopping, refresh_loop_running, cleanup_task, last_send, client, registry,
                 ticks, loops, clears, wakes, closing, discard_due, asleep, gap>>

Reconnect(g) ==
  /\ g \in retries
  /\ retries' = retries \ {g}
  /\ IF IsCurrent(g) /\ ~stopping THEN StartLocked
     ELSE UNCHANGED <<generation, heartbeat_task, reconnect_task, refresh_requested,
                      media_session, state, configures>>
  /\ UNCHANGED <<stopping, refresh_loop_running, cleanup_task, last_send, client, registry,
                 ticks, loops, clears, wakes, closing, discard_due, asleep, gap>>

(* The minimum send interval elapses, on the clock and in real time.       *)
IntervalElapses ==
  /\ gap = "recent"
  /\ gap' = "past" /\ last_send' = "past"
  /\ UNCHANGED <<generation, state, stopping, refresh_requested, refresh_loop_running,
                 heartbeat_task, reconnect_task, cleanup_task, client, registry,
                 tasks, media_session, asleep>>

(* The bounded join of a clear ends: the request completed or the bound     *)
(* expired. The request itself is never aborted; what it still does after  *)
(* its bound is the business of PresenceClient.                            *)
ClearJoinEnds(g) ==
  /\ clears[g].pc = "joined"
  /\ clears' = [clears EXCEPT ![g].pc = "over"]
  /\ UNCHANGED <<inner, configures, ticks, retries, loops, wakes, closing, discard_due,
                 media_session, asleep, gap>>

-----------------------------------------------------------------------------
(* run_refresh_loop, one action per locked segment.                        *)

LoopUnchanged ==
  UNCHANGED <<stopping, cleanup_task, ticks, retries, clears, wakes, closing, discard_due, asleep>>

ExitLoop(l) ==
  /\ refresh_loop_running' = FALSE
  /\ loops' = [loops EXCEPT ![l] = IdleLoop]

(* The segment finds its generation superseded.                            *)
LoopStale(l) ==
  /\ loops[l].pc \in {"head", "throttle", "captured", "publish"} /\ ~IsCurrent(loops[l].gen)
  /\ loops[l].pc = "throttle" /\ loops[l].wait => last_send = "past"
  /\ ExitLoop(l)
  /\ LoopUnchanged
  /\ UNCHANGED <<generation, state, refresh_requested, heartbeat_task, reconnect_task,
                 last_send, client, registry, configures, media_session, gap>>

LoopHead(l) ==
  /\ loops[l].pc = "head" /\ IsCurrent(loops[l].gen)
  /\ IF refresh_requested
     THEN /\ refresh_requested' = FALSE
          /\ loops' = [loops EXCEPT ![l].pc = "throttle", ![l].wait = (last_send = "recent")]
          /\ UNCHANGED refresh_loop_running
     ELSE ExitLoop(l) /\ UNCHANGED refresh_requested
  /\ LoopUnchanged
  /\ UNCHANGED <<generation, state, heartbeat_task, reconnect_task, last_send, client,
                 registry, configures, media_session, gap>>

LoopSend_Unstamped(l) ==
  /\ loops[l].pc = "throttle" /\ IsCurrent(loops[l].gen)
  /\ loops[l].wait => last_send = "past"
  /\ client # None
  /\ gap' = "recent"
  /\ loops' = [loops EXCEPT ![l].pc = "capture", ![l].client = client]
  /\ LoopUnchanged
  /\ UNCHANGED <<generation, state, refresh_requested, refresh_loop_running, heartbeat_task,
                 reconnect_task, last_send, client, registry, configures, media_session>>

(* After the throttle sleep: the client is taken and the send is stamped.  *)
LoopSend(l) ==
  /\ loops[l].pc = "throttle" /\ IsCurrent(loops[l].gen)
  /\ loops[l].wait => last_send = "past"
  /\ IF client = None
     THEN ExitLoop(l) /\ UNCHANGED <<last_send, gap>>
     ELSE /\ last_send' = "recent" /\ gap' = "recent"
          /\ loops' = [loops EXCEPT ![l].pc = "capture", ![l].client = client]
          /\ UNCHANGED refresh_loop_running
  /\ LoopUnchanged
  /\ UNCHANGED <<generation, state, refresh_requested, heartbeat_task, reconnect_task, client,
                 registry, configures, media_session>>

(* What one capture does to the tracker and the session id it delivers:    *)
(* media is delivered under the continued or a newly minted id (named by   *)
(* the generation that minted it), absent or hidden media resets the       *)
(* tracker, and a capture that was not asked for media leaves it alone.    *)
Capture(session) ==
  \/ /\ media_session' = IF media_session = None THEN generation ELSE media_session
     /\ session = media_session'
  \/ media_session' = None /\ session = None
  \/ UNCHANGED media_session /\ session = None

(* The capture runs outside the lock.                                      *)
LoopCapture(l) ==
  /\ loops[l].pc = "capture"
  /\ \E session \in {None, generation, media_session} :
       /\ Capture(session)
       /\ loops' = [loops EXCEPT ![l].pc = "captured", ![l].session = session]
  /\ LoopUnchanged
  /\ UNCHANGED <<generation, state, refresh_requested, refresh_loop_running, heartbeat_task,
                 reconnect_task, last_send, client, registry, configures, gap>>

(* The service captures for the consent preview through the same tracker.  *)
PreviewCapture ==
  /\ \E session \in {None, generation, media_session} : Capture(session)
  /\ UNCHANGED <<inner, tasks, asleep, gap>>

LoopCaptured(l) ==
  /\ loops[l].pc = "captured" /\ IsCurrent(loops[l].gen)
  /\ loops' = [loops EXCEPT ![l].pc = "publish"]
  /\ LoopUnchanged
  /\ UNCHANGED <<generation, state, refresh_requested, refresh_loop_running, heartbeat_task,
                 reconnect_task, last_send, client, registry, configures, media_session, gap>>

LoopPublished(l) ==
  /\ loops[l].pc = "publish" /\ IsCurrent(loops[l].gen)
  /\ state' = "Active"
  /\ loops' = [loops EXCEPT ![l] = NewLoop(loops[l].gen)]
  /\ LoopUnchanged
  /\ UNCHANGED <<generation, refresh_requested, refresh_loop_running, heartbeat_task,
                 reconnect_task, last_send, client, registry, configures, media_session, gap>>

(* Schema or feature rejected: the authority ends, negotiation restarts.   *)
LoopRenegotiates(l) ==
  /\ loops[l].pc = "publish" /\ IsCurrent(loops[l].gen)
  /\ registry' = None /\ client' = None
  /\ ExitLoop(l)
  /\ StartLocked
  /\ LoopUnchanged
  /\ UNCHANGED <<last_send, gap>>

LoopFailed_AnyGeneration(l) ==
  /\ loops[l].pc = "publish"
  /\ state' = "Degraded"
  /\ ScheduleRetry(loops[l].gen)
  /\ ExitLoop(l)
  /\ LoopUnchanged
  /\ UNCHANGED <<generation, refresh_requested, heartbeat_task, last_send, client, registry,
                 configures, media_session, gap>>

LoopFailed(l) ==
  /\ loops[l].pc = "publish" /\ IsCurrent(loops[l].gen)
  /\ state' = "Degraded"
  /\ ScheduleRetry(loops[l].gen)
  /\ ExitLoop(l)
  /\ LoopUnchanged
  /\ UNCHANGED <<generation, refresh_requested, heartbeat_task, last_send, client, registry,
                 configures, media_session, gap>>

Loop(l) ==
  \/ LoopStale(l) \/ LoopHead(l) \/ LoopSend(l) \/ LoopCapture(l) \/ LoopCaptured(l)
  \/ LoopPublished(l) \/ LoopRenegotiates(l) \/ LoopFailed(l)

-----------------------------------------------------------------------------
Call ==
  \/ Start \/ RequestFreshSnapshot \/ HandleSleepOrLock \/ HandleWakeOrUnlock
  \/ \E removed \in BOOLEAN : Shutdown(removed)
  \/ ShutdownReturnsAtOnce \/ ShutdownJoined \/ ShutdownFinal \/ DiscardAuthority

Timer(g) ==
  \/ HeartbeatFires(g) \/ HeartbeatTick(g) \/ ReconnectFires(g) \/ Reconnect(g)
  \/ ClearJoinEnds(g)

Next ==
  \/ Call
  \/ \E g \in Gens : Configure(g) \/ Timer(g)
  \/ \E l \in LoopIds : Loop(l)
  \/ \E w \in WakeIds : WakeTask(w)
  \/ IntervalElapses \/ PreviewCapture

Spec == Init /\ [][Next]_vars

-----------------------------------------------------------------------------
(* The lifecycle as others see it. *)

(* Session and power events: what publishes is live, what only waits for   *)
(* its retry is waiting, what has nothing to do is off.                    *)
SessionView ==
  CASE state \in {"Active", "Degraded"} -> "Live"
    [] state \in {"Connecting", "Suspended"} -> state
    [] state = "ServerFeatureUnavailable" -> "Waiting"
    [] OTHER -> "Off"

ForSession == INSTANCE DeskLifecycle WITH lifecycle <- SessionView, Retried <- {"Live", "Waiting"}

(* The service: what matters is the read of the stored connection at the   *)
(* gate. Behind it a lifecycle publishes, or may, until it ends.           *)
ServiceView ==
  CASE state = "Disabled" -> "Off"
    [] state = "Suspended" -> "Suspended"
    [] state = "Connecting" /\ configures[generation].pc = "gated" -> "Off"
    [] state = "Connecting" /\ configures[generation].pc = "entry" -> "Connecting"
    [] OTHER -> "Live"

ForService == INSTANCE DeskLifecycle WITH lifecycle <- ServiceView, Retried <- {"Live"}

-----------------------------------------------------------------------------
(* Properties. *)

Live(l) == loops[l].pc # "idle"

(* At most one refresh loop is alive across all generations, and the flag  *)
(* refresh_loop_running says exactly whether there is one: every exit path *)
(* resets it and no trigger spawns a second loop beside a stale one.       *)
SingleFlight ==
  /\ \A l, m \in LoopIds : Live(l) /\ Live(m) => l = m
  /\ refresh_loop_running <=> \E l \in LoopIds : Live(l)

(* Timers and refresh requests exist only for the current generation and   *)
(* only in the states that publish or wait for a retry: a suspended,       *)
(* disabled, connecting or stopping coordinator has nothing armed.         *)
QuietOutsidePublishing ==
  /\ {heartbeat_task, reconnect_task} \subseteq {None, generation}
  /\ heartbeat_task # None \/ refresh_requested => state \in {"Active", "Degraded"}
  /\ reconnect_task # None => state \in {"Active", "Degraded", "ServerFeatureUnavailable"}
  /\ stopping => state = "Disabled"

Armed == \/ generation \in {heartbeat_task, reconnect_task}
         \/ generation \in retries

(* No dead end: a connecting coordinator has its configure task, and an    *)
(* active or degraded one, or one waiting for a server feature, has a      *)
(* timer that publishes or negotiates again. The only exception is the     *)
(* invalid stored URL (T4).                                                *)
Recoverable ==
  /\ state = "Connecting" =>
       configures[generation].pc \in {"entry", "gated", "token", "capabilities"}
  /\ state \in {"Active", "Degraded", "ServerFeatureUnavailable"} =>
       Armed \/ configures[generation].pc = "invalid_url"

(* Session ids do not survive a generation boundary: what a loop is about  *)
(* to publish carries an id minted in its own generation, even when a      *)
(* stale capture touched the tracker after the reset.                      *)
SessionWithinGeneration ==
  \A l \in LoopIds : loops[l].pc = "publish" /\ IsCurrent(loops[l].gen)
                        => loops[l].session \in {None, generation}

(* The authority a client was built from is the registry's, for the same   *)
(* connection: discarding one discards the other.                          *)
AuthorityOfClient ==
  client # None => /\ registry # None
                   /\ configures[registry].conn = configures[client].conn

(* No timer, loop or configure result takes the coordinator out of         *)
(* Suspended: that takes a public call or a wake task, in a new generation. *)
SuspensionSticks ==
  [][state = "Suspended" /\ state' # "Suspended" =>
       generation' = generation + 1 /\ UNCHANGED <<ticks, retries, loops>>]_vars

ActsByItself ==
  (\E g \in Gens : Configure(g) \/ Timer(g)) \/ (\E l \in LoopIds : Loop(l))

(* To the service and to the session events the coordinator is the desk    *)
(* they know: it implements their lifecycle under either view, and what    *)
(* its negotiations, timers and loops do by themselves is to negotiate or  *)
(* to retry. None of them suspends or stops the desk, takes it out of its  *)
(* suspension or moves it during a shutdown.                               *)
ActsAsDesk ==
  /\ ForSession!Spec /\ ForService!Spec
  /\ [][(SessionView' # SessionView \/ ServiceView' # ServiceView) /\ ActsByItself =>
          /\ ForSession!Unasked \/ UNCHANGED SessionView
          /\ ForService!Unasked \/ UNCHANGED ServiceView]_vars

(* Two sends start at least the minimum interval apart, also when a new    *)
(* generation began in between.                                            *)
SendSpacing ==
  [][\A l \in LoopIds : loops[l].pc = "throttle" /\ loops'[l].pc = "capture"
                          => gap = "past"]_vars

(* While one call shuts down no other call or task moves the lifecycle,    *)
(* and when it returns nothing is armed and no client is left.             *)
ShutdownIsExclusive ==
  [][stopping => /\ generation' = generation
                 /\ ~stopping' => /\ state' = "Disabled" /\ client' = None
                                  /\ {heartbeat_task', reconnect_task'} = {None}]_vars

(* "set refresh_requested and ensure exactly one refresh loop runs": while *)
(* active, a requested publish has a running loop to serve it.             *)
RequestIsServed == state = "Active" /\ refresh_requested => refresh_loop_running

(* "Wake JOINS the bounded race before restarting negotiation": when a     *)
(* wake task restarts, no clear is still within its bound.                 *)
WakeJoinsClear ==
  [][wakes' # wakes /\ state = "Suspended" /\ state' = "Connecting" =>
       \A g \in Gens : clears[g].pc # "joined"]_vars

(* Fairness: the runtime polls every ready task, sleeps end, and each      *)
(* request and capture ends (both carry timeouts). No fairness on calls.   *)
(* Of the retry timer it is only assumed that it fires unless it is        *)
(* restarted for ever: each failed publish of its generation restarts it,  *)
(* and the heartbeat, never the longer sleep of the two, goes on publishing *)
(* while the generation is degraded.                                       *)
RetryTimer(g) == ReconnectFires(g) \/ \E l \in LoopIds : loops[l].gen = g /\ LoopFailed(l)

Fairness ==
  /\ \A g \in Gens : /\ WF_vars(Configure(g)) /\ WF_vars(ClearJoinEnds(g))
                      /\ WF_vars(HeartbeatFires(g)) /\ WF_vars(HeartbeatTick(g))
                      /\ WF_vars(RetryTimer(g)) /\ WF_vars(Reconnect(g))
  /\ \A l \in LoopIds : WF_vars(Loop(l))
  /\ \A w \in WakeIds : WF_vars(WakeTask(w))
  /\ WF_vars(ShutdownJoined) /\ WF_vars(ShutdownFinal) /\ WF_vars(IntervalElapses)

FairSpec == Spec /\ Fairness

Attempts == \E l \in LoopIds : loops[l].pc = "publish" /\ IsCurrent(loops[l].gen)

(* What nothing takes up again: the invalid stored URL (T4), and at the    *)
(* bound a generation without the client and heartbeat of its own.         *)
LeftAlone ==
  \/ configures[generation].pc = "invalid_url"
  \/ generation = MaxGeneration /\ (configures[generation].conn = Off \/ client = None)

(* An active coordinator publishes again and again as long as it has its   *)
(* client, even when its first trigger met a stale loop and was lost.      *)
ActivePublishes == []<>(state # "Active" \/ client = None \/ LeftAlone \/ Attempts)

(* Negotiation always comes to a result.                                   *)
NegotiationSettles ==
  \A g \in Gens : []<>(state # "Connecting" \/ generation # g)

(* "recovery = retry timer + heartbeat": one that is degraded or waits for *)
(* a feature negotiates again, or goes on trying to publish.               *)
DegradedTriesAgain ==
  []<>(state \notin {"Degraded", "ServerFeatureUnavailable"} \/ LeftAlone \/ Attempts)

(* Suspension ends after the wake event, unless the session sleeps again.  *)
WakeResumes ==
  []<>(state # "Suspended" \/ asleep \/ generation = MaxGeneration)

(* Every shutdown returns, whatever the clear request does.                *)
ShutdownReturns == []<>~stopping
==============================================================================
