# Yohaku Companion for Windows: a verification project

TLA+ models of the program's Rust core (`src/packages/app/src-tauri/core`) and of the
parts of its shell and page that drive it, the TLC runs that check them, and TLAPS proofs
about them. The source is the reference: every definition is translated from it, and
`PROJECT.json` names the lines (`map`), the runs, the hazards and the theorems.

Paths below are relative to `src/packages/app/src-tauri/core/src/` unless they start with
`shell/` (`src/packages/app/src-tauri/src/`) or `page/` (`src/packages/app/src/`).

## 1. The system

The program publishes a sanitised picture of what the user does (the foreground
application, the music playing) to the user's own site, as a *presence* with a lease that
the site drops when it is not renewed. Its parts:

| Part | State | Operations | Correct when |
|---|---|---|---|
| **Live Desk coordinator** `companion/coordinator.rs`, `companion/authority.rs` | one mutex-protected record: lifecycle state, generation, timers, refresh flags, client, authority; spawned tasks | start, external trigger, sleep/lock, wake/unlock, shutdown, discard authority; negotiation, refresh loop, heartbeat, retry, clear and wake tasks | one refresh loop at a time; no effect of a task whose generation is over; every failure has a retry; send interval kept; the client belongs to the current authority |
| **Sequencer and its store** `protocol/sequencer.rs`, `store/sequence.rs` | a slot (async mutex) per sequencer object, `sequence.json` | reserve, reconcile, remove | a number is never handed out twice, through failures, crashes and restarts |
| **Presence client** `companion/presence_client.rs`, `companion/errors.rs` | a FIFO send slot | publish, clear: reserve, send, one identical retry, reconcile | requests numbered in slot order, durable before the send, applied at most once; what the server accepted is learnt |
| **Companion service** `companion/service.rs`, `companion/consent_gate.rs`, `shell/commands.rs` | consent gate, recorded preview, the stored configuration | pair, preview, confirm, pause, unpair, policy change, start at boot | nothing is published that was not confirmed under the policy in force; a pause survives a crash |
| **Configuration store** `store/config.rs` | `config.json` and its copy in memory | get, update, load | an update is on disk or has failed |
| **Capture service and media tracker** `privacy/capture_service.rs`, `privacy/media_session_tracker.rs` | the media session identity | capture for delivery, reset of continuity | a session id never crosses a reset; settings tightened during a read are obeyed |
| **Privacy policy** `privacy/{evaluator,sanitize,fingerprint,model}.rs` | none | evaluate, sanitise, fingerprint | fail closed; equal policies have equal fingerprints |
| **Capability negotiation** `protocol/capabilities.rs` | none | parse and compare versions, negotiate limits | limits within the server's and the client's bounds |
| **Wire mapping** `protocol/{dto_mapper,types,wire}.rs`, `model.rs` | none | snapshot to request, lease clamp, envelopes | what the policy lets through can be sent; the lease covers the heartbeats |
| **HTTP client, error classes** `companion/{http_client,errors}.rs` | none | bounded execute, answer matrix, request id echo, retry and renegotiation classes | an answer is believed only if it is the server's answer to this request |
| **Pairing claim** `companion/pairing.rs` | none | capabilities, claim, validation | the code is used up only once a credential store works |
| **Credential stores** `store/{credentials,dpapi_store,keyring_store}.rs` | the tokens, in one of two backends; the choice is memoised and pinned in the configuration | select, get, set, delete | no crash or failure leaves a pairing without its token |
| **Foreground watcher** `capture/foreground.rs` | last key and info, debounce generation, resolver cache, poll thread | start, stop, poll, deliver, current | a foreground that lasts is delivered, under its resolved name; stop returns |
| **Media provider** `capture/media.rs` | session subscription and its lock, stopped flag, last key, event channel | construct, follow sessions, semantic change, read, stop | the handlers are on the current session; none is left after stop |
| **Session events** `capture/system_events.rs` | deduplication flag, dispatcher queue | lock, unlock, suspend, resume, start, stop | listeners fire alternately and in order |
| **Suspend detector** `runtime/suspend_detector.rs` | sample thread, epoch | start, stop, sample | one callback per gap, none after the stop |
| **Shell** `shell/{state,lib}.rs` | wiring | init, bounded shutdown at exit | |
| **Page and tray** `page/**` | rendering | consent click, 3 s preview refresh | the click confirms what is displayed |
| Logger, shared TypeScript types, release scripts | none that others read | | |

**How they interact.** The watcher, the media provider, the session events and the suspend
detector call the coordinator from their own threads. The service's commands are
asynchronous calls of the page, and *nothing serialises them*: pause, unpair, pair and
confirm may overlap at every await. The coordinator reads the configuration and the
credential when it negotiates, builds a presence client over the sequencer of the
authority registry, and its refresh loop captures and publishes. Sequencer objects outlive
clients (that is the registry's purpose) and die with `discard_authority`.

**What is hard.** Every await ends a critical section, so state read before it may be
stale after it; tasks are invalidated by comparing generation numbers, not joined; `abort`
cannot stop a timer that has already woken; request outcomes are ambiguous; the process may
die at any point, and the exit gives the shutdown two seconds. `PROJECT.json` lists the
hazards one by one, at the line where each bites, with the property that covers it or the
module planned for it.

## 2. The modules

| Module | Models |
|---|---|
| `DeskLifecycle` | abstract: the coordinator as the service and the session events know it |
| `Coordinator` | the coordinator and the authority registry; implements `DeskLifecycle` under two views |
| `MCCoordinator` | its TLC instance |
| `CoordinatorProofs` | proofs about it |
| `TicketIssuer` | abstract: numbers are handed out in strictly increasing order |
| `Sequencer` | the sequencer over the file store; implements `TicketIssuer` |
| `SequencerProofs` | proofs about it |
| `PresenceClient` | the ordered writer: `Sequencer`, the send slots, the network and the server (external) |
| `PresenceClientProofs` | proofs about it, over those of the sequencer |
| `LiveDeskService` | the service: consent, pause, pair, unpair, policy, crash |
| `MCLiveDeskService` | its TLC instance |
| `LiveDeskServiceProofs` | proofs about `LiveDeskService` |
| `SessionEvents` | lock, sleep and power events, the suspend detector, boot and exit, over the coordinator's lifecycle |
| `PrivacyPolicy` | the policy: lookups, decisions, sanitiser, fingerprint, and the commands that edit it |
| `CaptureService` | overlapping captures and the media session tracker, over `PrivacyPolicy` |
| `MCCaptureService` | its TLC instance |
| `Exchange` | one publish against negotiated limits: capabilities, timeline, mapping, the matrix of answers, error classes |
| `SharingProofs` | proofs about `PrivacyPolicy`, `CaptureService` and `Exchange` |
| `MediaProvider` | the subscription of media sessions, the event task, stop |
| `ForegroundWatcher` | polls, debounce, name resolution, samples, start and stop |
| `Stores` | `config.json`, the credential backends, and pair and unpair across both |
| `StoresProofs` | proofs about it |
| `MCComponents` | the TLC instance of the components whose safety stands alone |
| `ComponentsProofs` | proofs about `MediaProvider`, and that `MCComponents` runs each component as its own proofs have it |
| `MCThreads` | the TLC instance of the components with liveness under the fairness of their threads |
| `ThreadsProofs` | proofs about `SessionEvents` and `ForegroundWatcher`, and about `MCThreads` as of `MCComponents` |

In each, the definitions `<Operation>_<Fault>` are faulty variants: what the operation
would be with a plausible bug (a dropped guard, a swapped order, a missing reset). They are
in no specification. `PROJECT.json` pairs each checked property with the variant that
breaks it under the same configuration (`mutants`).

### Coordinator

State is `Inner` field by field, plus the tasks. An action is one locked segment: a task is
atomic from one await (or lock) to the next. Timers, clients and authorities are named by
the generation that made them. `ticks` and `retries` are timers that have woken and wait for the
mutex: an abort no longer reaches them, and the actions `HeartbeatTick` and `Reconnect`
recheck the generation exactly where the code does. `BeginNewGeneration`, `StartLocked`,
`ScheduleRetry`, `TriggerRefresh` and `SpawnClear` are the code's `*_locked` helpers and
are used by the actions as the code uses them. `Configure*` are the transitions T2 to T9,
`Loop*` the refresh loop with T12 to T14, and the public calls T1, T10, T16 to T18.

Abstracted: payloads; outcomes of token reads, capability requests and publishes (choices);
durations (a sleeping timer may fire at any time); the clock, reduced to whether the
interval since the last send has passed (`gap`, real, and `last_send`, as the loop
computes it). Wake events follow the alternating order the event source delivers
(`asleep`); a start may come at any time, as from the service or the suspend detector.

### DeskLifecycle

`LiveDeskService` and `SessionEvents` have the coordinator reduced to a lifecycle (`Off`,
`Connecting`, `Live`, `Suspended`, and `Waiting` for a retry) and to whether it is being shut
down. `DeskLifecycle` says how that may move: at a call from outside, at a wake, or by itself. It
ties the three modules together:

- `Coordinator` implements it under two views (`ActsAsDesk`). The session events (`SessionView`)
  see Active and Degraded as `Live`, ServerFeatureUnavailable as `Waiting` (a retry is armed), and
  Disabled and UpdateRequired as `Off`. For the service (`ServiceView`) what counts is the read of
  the stored flag: a lifecycle is `Connecting` before its configure task has read it, `Off` once
  that read has gated it off or it is disabled, and `Live` behind the gate, whatever the
  negotiation then comes to. The property also says that what negotiations, timers and refresh
  loops do by themselves is to negotiate or to retry, never what only a call or a wake may do;
- the other two move their desk only as it allows (`MovesAsDesk` in each), the service also
  by `Restart`; and what it may do by itself is free to happen in the service's model
  (`DeskIsFree`), so nothing is proved there because the desk was kept from moving.

The two do not see the same retries: `Retried` is `Live` for the service, which counts a
degraded lifecycle as one that may publish, and also `Waiting` for the session events, for which
a negotiation that found no feature waits for its retry. An `Off` desk negotiates only when it
is started. A gap callback's late start is in `SessionEvents`
only; `LiveDeskService` has it as the renegotiation of a desk that publishes.

### TicketIssuer, Sequencer, PresenceClient

`Sequencer` is `reserve` and `reconcile` by their awaits: taking the slot, loading, storing,
returning. The store can fail, in which case nothing is consumed. A file that is lost or corrupt
reads as empty and falls back to the pairing's number. `Objects` are sequencer objects, each with
its slot; the registry keeps one per device (except after a pair that fails once it has discarded
the authority, a listed hazard), and the runs have one. A crash drops slots and calls, not the
file. The real 2^53 - 1 is `MaxSafe`.

`PresenceClient` extends it: each mutation is a user of the sequencer; it queues at its client's
slot, reserves, sends, sees an answer, a protocol error or an ambiguous failure,
reconciles, retries once with the same bytes, and releases the slot on every path. The
server is external: it applies a number above the last accepted one, and repeats the answer
for the same number. Copies stay on the wire and may arrive late, after
their sender gave up or died. A mutation that was given no number has -1.

### LiveDeskService

Each command is a call with a program counter; a step is the code between two awaits or
locks. `confirm_consent` has its two captures, two validations, the write between them and
the rollback. Configurations, captures and previews are abstract: a policy maps a screen to
a projection, and the strictest one shares nothing. Configuration writes may fail. The
coordinator is reduced to what the service can observe and what `configure`'s entry gate
decides: start is ignored while stopping, shutdown disables and ignores a second call, a
negotiation reads the stored flag, lock and wake move it as in `Coordinator`. `Restart` is
a crash, or an exit cut by its budget, followed by the next start. `history` and the call
fields `seen` and `paused` serve the properties only.

### SessionEvents

`Lock`, `Unlock`, `Sleep`, `Wake` and `ClockSteps` are Windows (external): they post messages
to the hidden window or, for a sleep, may not. While `asleep`, no thread of the program
moves. `WindowProc` is one message through `transition` with its deduplication,
`Dispatch` one event through the dispatcher thread to the listeners the shell registered.
The sampling thread takes a sample (`last_tick` moves first, so a gap is seen once), then
runs the callback in the two steps its two locks make it (`CallbackReads`,
`CallbackStarts`). The main thread is `init` (event source, which may fail; detector;
service) and the exit (`StopDetector`, `JoinDetector`, then the desk and the event source
within a budget that may run out anywhere). Both listeners and the callback act on the
coordinator reduced to its lifecycle: a start is ignored while stopping, a wake task is
spawned for every wake event that finds it suspended. `Live` stands for Active and
Degraded, `Waiting` for ServerFeatureUnavailable, from which a retry negotiates again, and
`Off` for what only a start leaves. `told` and `lapsed` serve the
properties.

Of the clock only whether it went over the threshold since `last_tick` is kept; a clock set
*back* during a sleep, which hides the gap, is left out, and `GapIsRepaired` does not claim
anything for it. A suspended desk is not the detector's business: after a delivered suspend
and an unattended wake (`PBT_APMRESUMEAUTOMATIC`, unmapped) the desk stays suspended until
the next unlock or resume, which `SuspendedIsWoken` says will fire.

### PrivacyPolicy, CaptureService

`PrivacyPolicy` has the evaluator and the sanitiser as operators over a configuration: the
first rule of a normalised appId, the first mapping of a type, overrides over defaults, the
fallbacks between alias, mapping and name, and what is left of a capture. `NormalOf` maps a
spelling to what lookups compare; `Blank` is a text that normalises to absent.
`Fingerprint` is what two configurations must share to hash alike: a stable sort keeps the
order among entries with one key and no other. Every command that edits the policy is an
action. The rules are stored as a set put in one order (`SetToSeq`): the code sorts them by
appId, there is one per appId, and no lookup depends on the order of different ones.
`PolicyAssumption` says what a stored policy is: typed, its rules keyed by normalised appIds,
one each, as `upsert_rule` leaves them. A file edited by hand may hold two rules for one appId;
lookups then take the first, and nothing is claimed of it.

`CaptureService` is `capture_for_delivery` by its awaits and locks. Captures overlap (the
refresh loop's and the preview's), the policy is edited between any two steps, and the
tracker, the only shared state, is reset by the coordinator at any time. `in_force` collects
the policies since the media answer, `closed` the ids that were ended: both are history.
The properties judge by `Says`, a restatement of the page's rules that uses none of the
lookups.

### Exchange

The stages of one publish. `NegotiatePresence` decides as the code does, in its order, over
versions whose identifiers are numbers, their ranks in the order of precedence; `Negotiated`
derives lease, heartbeat and interval, in thirds of a second and in milliseconds so that the
divisions stay exact. `Playback` is the timeline as read from Windows, extrapolated, normalised
and limited; `MapRequest` is `make_presence_request` with each of its rejections. Then the server
reacts and either its answer arrives (`AnswerArrives`) or something else does (`AnswerIsLost`):
nothing, a gateway's page, another request's answer. `Execute` is the matrix of `execute` in its
order, `AttemptEnds` the retry and the reconciliation. The server and the network are external.
Nothing relates the rate to the lease: an offer of one request a minute with leases of ten seconds
is accepted, and its presence lapses between sends; `SharedIsSendable` promises of the lease only
that it covers the heartbeats.

### MediaProvider

Windows switches sessions and changes what they play at any time, and calls the handlers that are
registered. The event task is cut at its awaits and, since stop runs on another thread, at the
subscription's lock and every read of the stopped flag. `failed` is history: the registrations and
reads that failed and that the code does not make again until the next event. A read whose request
for the session fails is folded into "no session" (`capture/media.rs:308-312`): that outcome is
compared and signalled like any other, and `QuietIsCurrent` excuses it as a failed read. The
channel is a set: every event makes the task look at the sessions afresh.

### ForegroundWatcher

`last_key`, `last_info` and the debounce as in the code, except that counters are replaced by
what they are compared for: bumping the debounce generation empties `timers`, a poll loop's
epoch is its thread. `ListenersRun` is separate from `TimerWakes` because the generation is
checked under no lock that the calls hold. `current()` (the capture service) samples and
stores in two steps; its store may come after a later poll's. A resolver that finds a
description polls by itself, whether or not the watcher still runs.

### Stores

`UpdateBegins`, `WriteSyncs`, `WriteRenames` and `UpdateReturns` are `ConfigStore::update` with
`atomic_write_json`, under `update_lock`; `WriteFails` is any error before the rename.
`CrashAndLoad` may come between any two steps of anything. Commands are pair and unpair at
their awaits, each failure included: the probe of the backends with its pin, the claim,
the token, the connection; the disable, the token, the sequence entry, the connection. The
server never issues one device twice. `Partial` is a file that is only half written: no
action of the specification writes it, the faulty variant that writes in place does.
The dpapi backend keeps all tokens in one file, which a set reads and writes again, and a read
that fails is taken for an empty file (`RewritesCredentials`); its probe is such a set, whatever the
probe then comes to. `dropped` is history: the devices whose token such a write lost.
`PairingSurvivesCrash` excepts them and nothing else but an unpair.
What `LiveDeskService` has of these commands (the coordinator, the flag, the gate) is left
to it.

### MCComponents and MCThreads

Each chooses one component per behaviour and leaves the others in an initial state, so
its states are the sum of theirs. `PresenceClient` is in both: its safety with three
mutations and symmetry in `MCComponents`, its liveness with two in `MCThreads`.

## 3. The runs

| Run | Instance | Shows |
|---|---|---|
| `coordinator` | 3 generations, 2 loops, 1 wake, 2 connections | single flight, quiet timers outside publishing, no dead end, media sessions within a generation, client and registry of one connection, send spacing, exclusive shutdown, in every interleaving |
| `coordinator_live` | 3 generations, 2 wakes, 1 loop, 1 connection, fairness | negotiations settle, an active desk goes on publishing, a degraded one negotiates again or goes on trying, wakes resume, shutdowns return; the lifecycle moves as `DeskLifecycle` does |
| `coordinator_lost_trigger` | 2 generations | *violation*: see below |
| `coordinator_unjoined_wake` | 3 generations, 2 wakes | *violation*: see below |
| `components` | sequencer: 3 calls, 1 object, numbers to 4, 1 crash | implements `TicketIssuer` |
| | writer: 3 mutations (2 with a crash), 2 clients over 1 sequencer, the server new or 2 ahead | durable before sent, slot order, applied once and in order, answers learnt |
| | media: 2 sessions, 1 content | a task with nothing to do is on the current session; stop leaves no handler and no task |
| | capture: 2 captures, 2 session ids, 1 edit, a program under two spellings with a rule | tightening during a read applies; ended sessions do not come back |
| | exchange: 972 offers, 8 timelines, 3 media, any answer | what is shared fits the limits; what an attempt concludes is true of the server |
| | stores: 2 commands, 2 devices, any number of crashes | a crash leaves the configuration before or after an update, and a pairing with its token, failed reads of the credentials apart |
| `threads` | writer: 2 mutations, fairness | every mutation ends |
| | session: 2 messages, 2 queued events, 2 wake tasks, fairness | listeners hear alternately what the flag says; a suspended desk is always woken; no gap callback survives into the exit's shutdown; a sleep nobody announced is repaired |
| | watcher: 2 windows of 1 program, 2 poll threads, fairness | a foreground that lasts is delivered and served under its resolved name; stop returns |
| `session_detector_race` | the session events of `threads` | *violation*: see below |
| `policy_fingerprint` | 3 edits, 2 mapping lists, 3 rule edits | *violation*: see below |
| `live_desk` | 2 commands at a time, 2 policies, 2 screens, any number of crashes | publishing stands on the stored flag, the gate follows the policy, a pause survives a crash, the desk moves only as the coordinator does |
| `live_desk_stale_write`, `live_desk_seen`, `live_desk_pairing` | the same; for the last 1 command at a time | *violations*: see below |

**Bounds.** Three generations are an old one with stale tasks, the current one and a successor; a
race in the coordinator is between a task of one generation and the begin of the next, and the
third lets the successor be superseded while both predecessors' tasks are alive. Two loop slots
are enough because single flight holds (a third is never asked for, and the proof has no such
bound). Two wake tasks are what it takes for one to take the clear the other waits for, which the
violation run shows; the properties of `coordinator` do not depend on their number, and the proof
has no bound on it. `coordinator_live` (`LiveSpec`) has the three generations and the two wakes
too: a wake that joins a clear, two wakes over one clear, and a generation with a predecessor's
loop still alive, before the last generation, after which the bound stops the model. To have them
it leaves out what the liveness does not depend on: a second loop slot (single flight, which is
proved, never uses one), the session ids (no guard reads them), a re-pairing, and starts of a desk
that is not disabled, which would only end the generation early. `ActsAsDesk` is about single
steps; its theorem has no bound. Numbers to 4 reach the exhaustion with three reservations. Two
commands in progress give every pair; the second may be the same command. A second crash of the
sequencer would repeat the first: it leaves only the file. With a crash the writer sees two
mutations (`MaxWithCrash`): one whose request is still on the wire, or whose store went through,
when the process dies, and one that comes after. Two queued messages or events hold every adjacent
pair, which is what the deduplication and the order depend on; longer queues only repeat them. Two
media sessions are the old and the new one; two captures are an overlap, two session ids one that
ended and its successor, and one edit falls into any gap between two steps of both. The offers put
lease bounds, heartbeat and the 90 s asked for on every side of each other, in an invalid order
too; `MaxElapsed` (6 h in the code) is 5 s with a frame on it and one below, `MaxWireSeconds`
(2^53 - 1 ms) is beyond every frame, which `ExchangeAssumption` states: no session of Windows
plays for 285 000 years. Two commands over two devices are a pairing and its successor, with an
unpair of either at any point. Two poll threads are the one that is being joined and the one a
start made meanwhile. Deadlock is not checked where bounds or the end of all mutations stop the
model; it is in `live_desk`, where some step is always possible.

**Fairness.** `coordinator_live` assumes weak fairness of every spawned task's steps, of timers
and of the interval's end: the runtime polls ready tasks, sleeps end, and every request, token
read and capture carries a timeout, so its step is eventually taken, with any outcome. Public
calls have none. The retry timer is the exception: each failed publish aborts it and starts it
again (`companion/coordinator.rs:360-363`, `703-711`), and the heartbeat, at most as long, goes on
publishing while degraded. So of the timer it is only assumed that it fires or is restarted
(`RetryTimer`), and `DegradedTriesAgain` promises that a degraded desk negotiates again *or* goes
on trying to publish. `threads` assumes the same of a mutation's own steps; requests time out, the
network promises nothing. Of the session events it assumes that the sampling thread, the start and
an exit that has begun go on while the machine is awake: the first waits at most 5 s, the last has
a budget. Of the foreground watcher: poll, resolver and debounce threads run, sleeps end, a join
whose thread has ended returns. It assumes nothing of Windows, of the user, of commands, captures
or negotiations, nor of who calls start and stop.

**Where the code and its comments differ.** Seven runs state a promise of the source's own
comments and find a behaviour that breaks it (`findings` quotes them):

- `RequestIsServed`: a trigger that meets a refresh loop of an old generation is lost when that
  loop leaves. `ActivePublishes`, which holds, shows why it heals: the next heartbeat publishes.
- `WakeJoinsClear`: of two wake events the second finds no clear to join and restarts
  the negotiation while the clear is still within its bound.
- `StaleWriteNeverStarts`: the enable is stored before the second validation, so a crash or a
  wake in between starts publishing on a basis that has drifted.
- `ConfirmedWhatWasSeen`: the click carries the policy fingerprint only; the projection
  confirmed is that of the latest preview, which the refresh may have replaced.
- `ReplacedIsStopped`: pair stops the old lifecycle but, unlike pause and unpair, does not store
  the disable before. A lock and a wake between the shutdown and the update negotiate under the
  old connection, still enabled, and the desk goes on publishing under it when pair has replaced
  it. The run has one command at a time: an enabled pairing is paired again, nothing else.
- `DetectorSparesSuspended`: the gap callback reads the state and starts under two locks; a
  lock or sleep dispatched in between is undone, although the detector is said to
  renegotiate from Active and Degraded only.
- `FingerprintTellsPolicies`: two mappings of one program under different spellings, swapped in
  one save, keep the fingerprint and change the name that is shared, because the fingerprint
  sorts by the raw spelling and the lookup takes the first normalised match.

Others met while modelling, which no run states:

- `companion/errors.rs:63-66` and `75-79` promise that a bare 5xx is always retried and that a 426
  without a decodable envelope renegotiates. A body of another schema version, or with an
  invalid request id, that has an error code decodes as a *pairing* envelope
  (`companion/http_client.rs:274-279`), and that kind is neither retried nor renegotiated.
  `BelievedIsTrue` therefore excepts it.
- `store/credentials.rs:43-44` says the pin keeps a later probe from orphaning the token. One
  failed probe at a start selects the other backend and `shell/state.rs:121-160` pins that:
  the token stays in the first, and an unpair deletes in the second. `PairingSurvivesCrash` asks
  for the token in *a* backend. In the dpapi backend a probe may lose the token altogether: like any
  set it writes the credentials file again, and after a failed read without the other tokens
  (`store/dpapi_store.rs:252-255`, `store/config.rs:105-108`).
- `companion/coordinator.rs` counts on the retry timer and the heartbeat for recovery. As long as
  the heartbeat's publishes fail, each restarts the timer before it ends, so a degraded desk whose
  site answers with errors may never renegotiate; a publish that succeeds recovers it.
- `companion/coordinator.rs:9-10` says a generation invalidates all in-flight work. It is checked
  (669-676) before the publish waits for the client's send slot, so one that is queued behind a
  clear still goes out; and the clear of a sleep that was abandoned at its bound (235) can be
  overtaken by a publish after the wake. The lease ends what was published.
- The repository's README says a window title needs both the switch and a rule. A default of
  `share` for window titles does without the rule (`privacy/evaluator.rs:40-47`).
- `store/config.rs:260-261` allows re-entrant updates from a change listener; the listeners run
  with `update_lock` held.
- `capture/foreground.rs:524-525` says stop cancels any pending delivery; a debounce thread past
  its check, and a resolver that polls by itself afterwards, still deliver. That is why
  `ForegroundWatcher` has no counterpart of `StopLeavesNothing`.
- An unpair that dies between the token and the connection leaves a connection that consent can
  enable and that has no token; a pair over an existing connection leaves the token and the
  sequence entry of the one it replaces.

## 4. The proofs

`CoordinatorProofs` proves, for any number of generations, loops, wakes and connections
(assumed: the bound is a natural number and "no connection" is not one), that `Inductive`
is an invariant (`InductiveHolds`), and from it or its parts the properties of the
`coordinator` run. None of those properties is inductive by
itself; the parts that make them so are

- `CurrentTasks`: whatever names a generation names the current or an older one, and what
  names the current one finds the coordinator in a state that task belongs to. This is the
  reason a bare comparison of generation numbers is enough to disarm a task that could not
  be aborted;
- `Session`: the tracker's session is none or of the current generation, and so is what a
  current loop carries;
- `Authority`: clients and authorities in use come from finished negotiations, so the
  connection they stand for no longer changes;
- `Spacing`: a recent send is known to `last_send`, and a loop that found nothing to wait for is
  right until it sends, because single flight keeps any other from sending first.

Each is preserved action by action; a lemma per helper (`StartLocked`, `TriggerRefresh`, a new
generation) is cited wherever an action uses the helper. From the same invariant follow
`SuspensionHolds`, which is not run (only a start in a new generation leaves Suspended, so no
stale task does), and `ActsAsDeskHolds`: each action is a step of `DeskLifecycle`, or none, under
both views. `CurrentTasks` is what that takes: a negotiation of the current generation finds the
coordinator connecting, a woken timer finds it in a state that publishes or retries, and one of an
older generation returns without a trace.

`SequencerProofs` proves types for any number of objects and, assuming `SingleObject`, that
numbers are durable before they are returned, that loads are fresh, and that `Sequencer`
implements `TicketIssuer` (`NeverReusedHolds`). The invariant says a slot has one holder,
which is the only call past the wait, and that a number not yet returned lies between the
last one returned and the file's. The assumption is what the authority registry provides:
a slot belongs to an object, and two objects would both load before either stores.

`StoresProofs` proves, for any number of commands, devices and crashes (assumed: what the file can
be besides a configuration is not one), that a crash never leaves a part of an update or, unless a
write after a failed read dropped it, a pairing without its token (`PairingSurvives`). By itself
that is not inductive: it says nothing of what a command or an update in progress is about to
write. `StoresInv` adds that

- a pair that is about to store its connection has stored the token, unless an unpair of that
  device has begun (`TokenBeforeConnection`), and an update in progress belongs to a command
  that waits for it (`UpdateHasCommand`), which therefore moves nothing meanwhile;
- only an unpair deletes a token, and only that of a device whose unpair has begun; what else is
  lost is in `dropped` (`UnpairsAreKnown`, with what each step of a command has found out,
  `Known`);
- the connection in memory and the one being written each have a token, are being unpaired or were
  dropped (`ConnectionsHaveTokens`), and what would be loaded from the file is one of the two
  (`FileIsConsistent`).

A lemma per action shows it is preserved; `CommandChanges` and `GotoIs` carry what the steps
that only move a command have in common.

`LiveDeskServiceProofs` proves types, `PublishingIsEnabled`, `PauseSurvivesCrash` and
`GateFollowsPolicy` for any number of concurrent commands, policies and contents, crashes and
failing writes included (assumed: "nothing" is no policy, site or screen, and the policy that
shares nothing is one of the policies).
`PublishingIsEnabled` alone does not say which call will end the publishing; `PauseInv` does:

- a call that has paused keeps the flag off until it returns, and only a disable or an unpair
  pauses (`PausedIsOff`, `DisableIsPause`);
- one shutdown at a time holds the coordinator disabled (`StoppingIsOne`), so that a pause
  that finds another one under way may return at once;
- publishing with the flag off has such a call in front of its shutdown, unless the flag was
  cleared behind the coordinator's back; without a connection only the latter is left
  (`PauseOnItsWay`).

`MovesAsDeskHolds`, there and in `ThreadsProofs`, is the other end of `ActsAsDeskHolds`: no call,
callback or crash moves the reduced coordinator as the coordinator could not. `DeskIsFree` is the
converse for the service: from any state with the invariant, whatever `DeskLifecycle` does
unasked, at a sleep or at a wake is a step of `LiveDeskService` that leaves the commands alone.
What it adds to the lifecycle is the gate: a negotiation goes live just when the stored flag is
on.

`ThreadsProofs` proves of the session events types, `FlagIsTold`, `SuspendedIsWoken` and
`DetectorIsGone` for any bounds on messages, events and wake tasks (positive ones). The invariant
restates the alternation along the channel by its neighbours and its last event (`FlagInv`), says
that a shutdown under way keeps the desk off (`StoppingIsOff`: no wake task or command suspends or
starts it meanwhile), and that the sampling thread stays gone from the join to the end.

`ComponentsProofs` proves `StopLeavesNothing` and `QuietIsCurrent` of the media provider for any
sessions and contents ("none" is not one). `StopInv` ties the lock to the subscription that is
being made under it and `stop`'s steps to what they have already undone; `QuietInv` says, at every
step of the event task, what is still owed to it when it is behind: an event in the channel, or a
step that will look at the session again. Of the foreground watcher `ThreadsProofs`, for any
windows, programs and threads, proves what its two liveness properties rest on: a change that was
not told is pending (`ChangeIsPending`: a debounce thread has it, or it is being told), and with
no stop under way the only poll thread is that of the last start (`OneLoopPolls`, from
`ThreadsAreJoined`: every poll thread is one that a stop joins or will join).

`PresenceClientProofs` is about any number of mutations, clients, copies and crashes (assumed: a
client has its sequencer object, and "no client" is not one).
`WriterIsSequencer` maps every step of the writer to a step of the sequencer or none (the
variables are the same, so the refinement is the identity): types, freshness and `NeverReused`
carry over. On top of it

- the send slots are queues: of mutations of their client, none twice, and only the head is past
  the wait (`SlotsAreQueues`);
- a copy carries the number of its mutation, what was applied is accepted, and what is applied
  grows (`AppliedInv`). That is all `AppliedOnceInOrder` takes: it needs *no* assumption
  on the sequencer objects, for the server compares numbers whoever gave them;
- with `SingleObject`, every number given is at most the last one returned, and above those of the
  client's mutations that have ended (`NumberInv`), hence `DurableBeforeSend` and
  `SequencesFollowQueue`. `NumbersAreDistinct`, that no two mutations share a number, is
  stated besides: without it the server would take one for the repetition of the other;
- with it too, a reconcile that runs is the mutation's own and for the answer it got
  (`CallIsOwn`), and an answer is within the range of numbers, hence `AnswerIsLearnt`.

Two theorems there carry `MutationEnds` as far as the prover goes, with no assumption on the
sequencer objects. `NeverStuckHolds`: while a mutation is unfinished, one of them is ready to take
a step of its own. The waits go from a mutation to the head of its client's slot, from its call to
the holder of the sequencer's slot, and end there: a holder waits for nobody, which takes that a
slot is held only by a call that is past the wait (`SlotsAreInUse`) and that an unfinished
mutation is still in its queue (`QueuedWaits`). `StepsRunOutHolds`: every step of a mutation's own
lowers its rank `StepsLeft`, at most 12, and no other step raises it. `Ready` spells out the
guards of `Progress`, and TLC finds it equal to `ENABLED Progress` in every state of the writer
with two mutations and a crash; that a ready task is polled is the fairness that stays with TLC.

`ComponentsProofs` and `ThreadsProofs` end with the composed runs. A behaviour of `MCComponents`
or `MCThreads` is one of each component's own specification (`EachIsItself`), so what the theorems
say of the components holds there; with the theorems on types this gives `ComponentsTypeOK` and
`ThreadsTypeOK` for any values of the constants. Where `MCComponents` runs the sequencer alone,
the client above it stays idle, and the sequencer's theorems are what applies.

`SharingProofs` first takes the lookups apart: a least position exists, so a lookup finds an
entry or its default, and with one rule per appId the entry it finds is what `Says` says, for
any spelling. Every edit keeps the rules keyed (`PolicyStep`). `CaptureInv` then says, step by
step of a capture, that what it has filtered was filtered under a policy it has seen in force
(`CapturesFiltered`), and that ended sessions are those before the current one
(`SessionsEnd`); `TightenedApplies` and `ClosedSessionsStayClosed` follow, for any policies,
edits and overlapping captures.

Of `Exchange` it shows `BelievedIsTrue`, from two lemmas that read the matrix of answers: what the
server says is taken for what it is, and nothing else is taken for the server's word and is
retried unless the request was not passed on. `BelievedInv` adds that the request was applied just
when the number accepted last is its own, and that it is not applied before the second attempt's
begin unless the first is answered. `SharedIsSendable` rests on what holds of a configuration that
negotiated (the lease is in the server's range, so the mapper's clamp leaves it, no shorter than
three heartbeats; the interval is rounded up) and of a capture the sanitiser made (text in normal
form stays present, the timeline fits the wire): `SendableInv`. It holds for any policy, read anew
at every capture. Assumed (`ExchangeAssumption`): limits are integers, as the decoder makes them,
with no bound but what `limits_are_valid` checks; and frames fit the wire. The code computes lease
and heartbeat in `f64`, which is exact for every whole number of seconds up to 2^53; larger limits
are out of the model.

**Model-checked only:** liveness (`coordinator_live`, and in `threads` `GapIsRepaired`,
`MutationEnds`, `ForegroundIsHeard`, `StopReturns`; the prover does no liveness under fairness),
and the violations, whose counterexamples are TLC's. Every other property of the runs has its
theorem.

## 5. The plan

Done, most important first: the coordinator; the ordered writer (sequencer, client); the
consent boundary; the session and power events; the policy and the captures under it; the
exchange with the server; the media provider and the foreground watcher; the stores; the
lifecycle that links the coordinator to the service and to the session events. Left is the
other link, from the coordinator to the writer:

- `LiveDesk`: the coordinator's publish and clear tasks as mutations of `PresenceClient`, with the
  service's registry: a publish queued behind a clear, a clear abandoned at its bound,
  reconciles after unpair, two sequencer objects after a failed pair. Abstract specification:
  the presence a site shows is that of the last lifecycle that published, or none. Those are
  hazards that no property covers yet.

### Not modelled

- Logger, release scripts, type declarations: no state that another part reads.
- Encryption and the credential file's format (`store/dpapi_store.rs`), the keyring: system APIs
  behind `set`, `get` and `delete`, which are modelled by what they may do.
- Wire dates, number formats and field names (`protocol/{types,wire}.rs`): serialisation without
  state.
- The base URL's validation, headers and timeouts of the HTTP client: a timeout is a lost answer.
- Change listeners of the configuration and the choice of the data directory: nothing modelled
  depends on them. The `.bak` copy of a damaged file is written and never read.
- The page, the tray and the updater beyond what `LiveDeskService` has: they hold no protocol state.
- The wall clock set back: it makes the coordinator's wait longer and hides a gap from the
  detector; both are told in `Coordinator` and `SessionEvents`' sections and hazards.
