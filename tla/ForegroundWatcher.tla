--------------------------- MODULE ForegroundWatcher ---------------------------
(***************************************************************************)
(* The foreground watcher (core/src/capture/foreground.rs): a poll thread  *)
(* per start, debounced delivery of changes, display names resolved in the *)
(* background, samples by the capture service, start and stop.             *)
(*                                                                         *)
(* Counters are replaced by what they are compared for.  A poll loop's     *)
(* epoch is the thread it was given to.  A debounce timer that wakes in a  *)
(* later generation does nothing, so bumping the generation drops it.      *)
(***************************************************************************)
EXTENDS Naturals

CONSTANTS
  Views,      (* (appId, title) pairs of windows that can be named         *)
  Apps,       (* executables                                               *)
  AppOf,      (* the executable of each window                             *)
  Hidden,     (* the foreground has no window or its path cannot be read   *)
  Unset,      (* no key: nothing seen since construction or the last stop  *)
  Loops,      (* threads available to poll loops                           *)
  Idle        (* no thread                                                 *)

ASSUME WatcherAssumption ==
  /\ AppOf \in [Views -> Apps]
  /\ Hidden \notin Views /\ Unset \notin Views \cup {Hidden} /\ Idle \notin Loops \cup Apps

VARIABLES
  foreground,     (* what Windows shows                                   *)
  last_key, last_info,
  timers,         (* what the debounce threads of this generation deliver  *)
  delivering,     (* past the generation check, listeners not called yet   *)
  heard,          (* the delivery of last_key has run                      *)
  loop,           (* poll threads                                          *)
  polling,        (* PollControl.running                                   *)
  epoch,          (* the thread of the last start                          *)
  join,           (* PollControl.join                                      *)
  stop_call,      (* a call of stop and the thread it joins                *)
  cache,          (* display names                                         *)
  resolver,       (* their background resolution: exists while pending     *)
  seen            (* what current() sampled and has not stored yet         *)

watch_state == <<last_key, last_info, timers, heard>>
control == <<loop, polling, epoch, join, stop_call>>
names == <<cache, resolver>>
watcher_vars == <<foreground, watch_state, delivering, control, names, seen>>

Names == {"stem", "description"}
Info == [window : Views, name : Names]
NoInfo == [window |-> Hidden, name |-> "stem"]
Samples == Info \cup {NoInfo}
NotSampled == [window |-> Unset, name |-> "stem"]

WatcherTypeOK ==
  /\ foreground \in Views \cup {Hidden}
  /\ last_key \in Views \cup {Hidden, Unset} /\ last_info \in Samples
  /\ timers \subseteq Views \cup {Hidden}
  /\ delivering \subseteq Views \cup {Hidden} /\ heard \in BOOLEAN
  /\ loop \in [Loops -> {"none", "polling", "sleeping"}]
  /\ polling \in BOOLEAN /\ epoch \in Loops \cup {Idle} /\ join \in Loops \cup {Idle}
  /\ stop_call \in [pc : {"none", "joining"}, thread : Loops \cup {Idle}]
  /\ cache \in [Apps -> Names \cup {"missing"}]
  /\ resolver \in [Apps -> {"none", "querying", "polling"}]
  /\ seen \in Samples \cup {NotSampled}

WatcherInit ==
  /\ foreground \in Views \cup {Hidden}
  /\ last_key = Unset /\ last_info = NoInfo
  /\ timers = {} /\ delivering = {} /\ heard = FALSE
  /\ loop = [l \in Loops |-> "none"] /\ polling = FALSE /\ epoch = Idle /\ join = Idle
  /\ stop_call = [pc |-> "none", thread |-> Idle]
  /\ cache = [a \in Apps |-> "missing"] /\ resolver = [a \in Apps |-> "none"]
  /\ seen = NotSampled

(* The user changes window; a program may be elevated or have no window.   *)
Switch ==
  /\ \E w \in Views \cup {Hidden} : foreground' = w /\ w # foreground
  /\ UNCHANGED <<watch_state, delivering, control, names, seen>>

-----------------------------------------------------------------------------
(* Sampling. A sample that names no program falls back to last_info when   *)
(* it is stored. Looking a name up and asking for its resolution are one   *)
(* step here; the gap between the two locks costs a second query at most.  *)

DisplayName(app) == IF cache[app] = "missing" THEN "stem" ELSE cache[app]

Sampled ==
  IF foreground = Hidden THEN NoInfo
  ELSE [window |-> foreground, name |-> DisplayName(AppOf[foreground])]

(* A miss asks for the resolution of the name, once.                       *)
Asked ==
  [a \in Apps |-> IF /\ foreground # Hidden /\ a = AppOf[foreground]
                      /\ cache[a] = "missing" /\ resolver[a] = "none"
                  THEN "querying" ELSE resolver[a]]

Stored(sample) == IF sample = NoInfo THEN last_info ELSE sample

(* The change key is the window: the display name is not part of it.       *)
ChangeKey(info) == info.window

RegisterChange(info) ==
  IF ChangeKey(info) = last_key
  THEN UNCHANGED <<last_key, timers, heard>>
  ELSE /\ last_key' = ChangeKey(info) /\ heard' = FALSE
       /\ timers' = {ChangeKey(info)}

(* A poll pass, by a poll loop or by a resolver. poll_pass serialises the *)
(* passes; a switch that falls into one may as well come after it.         *)
PollPass ==
  /\ last_info' = Stored(Sampled)
  /\ RegisterChange(Stored(Sampled))

(* current(), called by the capture service from a task of its own. What   *)
(* it sampled may be stored after a later poll's.                          *)
CurrentSamples ==
  /\ seen = NotSampled
  /\ seen' = Sampled /\ resolver' = Asked
  /\ UNCHANGED <<foreground, watch_state, delivering, control, cache>>

CurrentReturns ==
  /\ seen # NotSampled
  /\ last_info' = Stored(seen)
  /\ seen' = NotSampled
  /\ UNCHANGED <<foreground, last_key, timers, heard, delivering, control, names>>

-----------------------------------------------------------------------------
(* Delivery. *)

(* 500 ms after the change; the check and the calls are under no lock. One *)
(* delivery at a time is between them (the others wait: a bound).          *)
TimerWakes ==
  /\ delivering = {}
  /\ \E key \in timers : timers' = timers \ {key} /\ delivering' = {key}
  /\ UNCHANGED <<foreground, last_key, last_info, heard, control, names, seen>>

ListenersRun ==
  /\ delivering # {}
  /\ delivering' = {} /\ heard' = (heard \/ last_key \in delivering)
  /\ UNCHANGED <<foreground, last_key, last_info, timers, control, names, seen>>

-----------------------------------------------------------------------------
(* Resolution. Only a description that lands is worth a new poll. *)

ResolverQueries(app) ==
  /\ resolver[app] = "querying"
  /\ \/ /\ cache' = [cache EXCEPT ![app] = "description"]
        /\ resolver' = [resolver EXCEPT ![app] = "polling"]
     \/ /\ cache' = [cache EXCEPT ![app] = "stem"]
        /\ resolver' = [resolver EXCEPT ![app] = "none"]
  /\ UNCHANGED <<foreground, watch_state, delivering, control, seen>>

(* on_resolved, before the pending mark is removed.                        *)
ResolverPolls(app) ==
  /\ resolver[app] = "polling"
  /\ PollPass
  /\ resolver' = [Asked EXCEPT ![app] = "none"]
  /\ UNCHANGED <<foreground, delivering, control, cache, seen>>

-----------------------------------------------------------------------------
(* The poll loop, start and stop. *)

Start ==
  /\ join = Idle
  /\ \E l \in Loops :
       /\ loop[l] = "none" /\ stop_call.thread # l
       /\ loop' = [loop EXCEPT ![l] = "polling"] /\ epoch' = l /\ join' = l
  /\ polling' = TRUE
  /\ UNCHANGED <<foreground, watch_state, delivering, stop_call, names, seen>>

LoopPolls(l) ==
  /\ loop[l] = "polling"
  /\ PollPass /\ resolver' = Asked
  /\ loop' = [loop EXCEPT ![l] = "sleeping"]
  /\ UNCHANGED <<foreground, delivering, polling, epoch, join, stop_call, cache, seen>>

(* Faulty variants (named <operator>_<fault>): see PROJECT.json.           *)
LoopWakes_NoEpoch(l) ==
  /\ loop[l] = "sleeping"
  /\ loop' = [loop EXCEPT ![l] = IF polling THEN "polling" ELSE "none"]
  /\ UNCHANGED <<foreground, watch_state, delivering, polling, epoch, join, stop_call,
                 names, seen>>

(* Woken by its deadline or by stop.                                       *)
LoopWakes(l) ==
  /\ loop[l] = "sleeping"
  /\ loop' = [loop EXCEPT ![l] = IF polling /\ epoch = l THEN "polling" ELSE "none"]
  /\ UNCHANGED <<foreground, watch_state, delivering, polling, epoch, join, stop_call,
                 names, seen>>

Stop ==
  /\ stop_call.pc = "none"
  /\ polling' = FALSE
  /\ stop_call' = [pc |-> "joining", thread |-> join] /\ join' = Idle
  /\ UNCHANGED <<foreground, watch_state, delivering, loop, epoch, names, seen>>

StopEnds_KeepsKey ==
  /\ stop_call.pc = "joining"
  /\ stop_call.thread \in {l \in Loops : loop[l] = "none"} \cup {Idle}
  /\ timers' = {}
  /\ stop_call' = [pc |-> "none", thread |-> Idle]
  /\ UNCHANGED <<foreground, last_key, last_info, heard, delivering, loop, polling, epoch, join,
                 names, seen>>

(* The joined thread has ended; the pending delivery is cancelled and the  *)
(* key forgotten, the last info kept.                                      *)
StopEnds ==
  /\ stop_call.pc = "joining"
  /\ stop_call.thread \in {l \in Loops : loop[l] = "none"} \cup {Idle}
  /\ timers' = {} /\ last_key' = Unset
  /\ stop_call' = [pc |-> "none", thread |-> Idle]
  /\ UNCHANGED <<foreground, last_info, heard, delivering, loop, polling, epoch, join,
                 names, seen>>

PollThread(l) == LoopPolls(l) \/ LoopWakes(l)
ResolverThread(app) == ResolverQueries(app) \/ ResolverPolls(app)

WatcherNext ==
  \/ Switch \/ CurrentSamples \/ CurrentReturns
  \/ TimerWakes \/ ListenersRun
  \/ \E app \in Apps : ResolverThread(app)
  \/ \E l \in Loops : PollThread(l)
  \/ Start \/ Stop \/ StopEnds

WatcherSpec == WatcherInit /\ [][WatcherNext]_watcher_vars

(* Threads run and sleeps end; nothing is assumed of the user, of the      *)
(* captures or of who calls start and stop.                                *)
WatcherFairness ==
  /\ \A l \in Loops : WF_watcher_vars(PollThread(l))
  /\ \A app \in Apps : WF_watcher_vars(ResolverThread(app))
  /\ WF_watcher_vars(TimerWakes) /\ WF_watcher_vars(ListenersRun)
  /\ WF_watcher_vars(StopEnds)

WatcherFairSpec == WatcherSpec /\ WatcherFairness

-----------------------------------------------------------------------------
(* Properties. *)

Watching == polling /\ stop_call.pc = "none"

(* While the watcher runs, a foreground that lasts is delivered, and       *)
(* current() comes to serve it under its resolved name: debounce,          *)
(* cancellation, a stop or restart at any point, and the resolver's own    *)
(* poll lose no change.                                                    *)
ForegroundIsHeard ==
  \A w \in Views :
    []<>(\/ ~Watching \/ foreground # w
         \/ last_key = w /\ heard /\ last_info = [window |-> w, name |-> DisplayName(AppOf[w])])

(* stop() returns although a start may come while it joins the old loop    *)
(* (the epoch's purpose).                                                  *)
StopReturns == []<>(stop_call.pc = "none")
=============================================================================
