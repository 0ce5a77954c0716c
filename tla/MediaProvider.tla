----------------------------- MODULE MediaProvider -----------------------------
(***************************************************************************)
(* The media provider (core/src/capture/media.rs): which media session its *)
(* handlers are on, the event task that follows the sessions and tells the *)
(* listeners of semantic changes, and stop.                                *)
(*                                                                         *)
(* The media sessions are Windows' and change at any time.  Handlers only  *)
(* send to the task's channel; as every event makes the task look at the   *)
(* sessions afresh, two of a kind in the channel are one, and the order of *)
(* the two kinds is left open (they come from different threads).          *)
(***************************************************************************)
CONSTANTS
  Sessions, Contents,   (* media sessions; semantic keys of what they play *)
  NoSession, NoKey      (* no current session; nothing worth a key         *)

ASSUME MediaAssumption == NoSession \notin Sessions /\ NoKey \notin Contents

VARIABLES
  current, content,     (* Windows: the current session, what each plays   *)
  attached,             (* Windows: sessions the handlers are registered on *)
  watched,              (* Windows: the manager's handler is registered    *)
  provider,             (* how far construction and stop have come         *)
  stopped,
  events,               (* the channel                                     *)
  task,                 (* the event task                                  *)
  subscription, locked_by,   (* session_subscription and its lock          *)
  last_semantic_key,
  signalled,            (* the key of the last change the listeners were told *)
  failed                (* attempts that failed and were not made again    *)

windows_media == <<current, content, attached, watched>>
media_vars == <<windows_media, provider, stopped, events, task, subscription, locked_by,
                last_semantic_key, signalled, failed>>

Keys == Contents \cup {NoKey}
KeyOf(s) == IF s = NoSession THEN NoKey ELSE content[s]

TaskPcs == {"none", "waiting", "resubscribe", "attaching", "read", "reading", "compare",
            "calling", "ended"}
AtAwait == {"waiting", "reading"}

MediaTypeOK ==
  /\ current \in Sessions \cup {NoSession} /\ content \in [Sessions -> Keys]
  /\ attached \subseteq Sessions /\ watched \in BOOLEAN
  /\ provider \in {"none", "up", "unavailable", "stopping", "unwatched", "detached", "gone"}
  /\ stopped \in BOOLEAN
  /\ events \subseteq {"SessionChanged", "SessionPropsChanged"}
  /\ task \in [pc : TaskPcs, session : Sessions \cup {NoSession}, key : Keys]
  /\ subscription \in Sessions \cup {NoSession} /\ locked_by \in {"none", "task"}
  /\ last_semantic_key \in Keys /\ signalled \in Keys
  /\ failed \subseteq {"subscribe", "read"}

MediaInit ==
  /\ current \in Sessions \cup {NoSession} /\ content \in [Sessions -> Keys]
  /\ attached = {} /\ watched = FALSE
  /\ provider = "none" /\ stopped = FALSE /\ events = {}
  /\ task = [pc |-> "none", session |-> NoSession, key |-> NoKey]
  /\ subscription = NoSession /\ locked_by = "none"
  /\ last_semantic_key = NoKey /\ signalled = NoKey /\ failed = {}

Notify(on, event) == events' = IF on THEN events \cup {event} ELSE events

(* Windows makes another session current; a session plays something else.  *)
SessionSwitches ==
  /\ \E s \in Sessions \cup {NoSession} : s # current /\ current' = s
  /\ Notify(watched, "SessionChanged")
  /\ UNCHANGED <<content, attached, watched, provider, stopped, task, subscription, locked_by,
                 last_semantic_key, signalled, failed>>

SessionPlays ==
  /\ \E s \in Sessions, k \in Keys :
       /\ k # content[s] /\ content' = [content EXCEPT ![s] = k]
       /\ Notify(s \in attached, "SessionPropsChanged")
  /\ UNCHANGED <<current, attached, watched, provider, stopped, task, subscription, locked_by,
                 last_semantic_key, signalled, failed>>

-----------------------------------------------------------------------------
(* Construction: the manager may be unavailable. The first event is the    *)
(* constructor's own.                                                      *)
New ==
  /\ provider = "none"
  /\ \/ /\ provider' = "up" /\ watched' = TRUE
        /\ task' = [task EXCEPT !.pc = "waiting"] /\ events' = {"SessionChanged"}
     \/ provider' = "unavailable" /\ UNCHANGED <<watched, task, events>>
  /\ UNCHANGED <<current, content, attached, stopped, subscription, locked_by,
                 last_semantic_key, signalled, failed>>

(* The event task. A segment between awaits is cut where it takes a lock   *)
(* or reads the stopped flag, since stop runs on another thread.           *)
Receive ==
  /\ task.pc = "waiting"
  /\ \E e \in events :
       /\ events' = events \ {e}
       /\ task' = [task EXCEPT !.pc = IF stopped THEN "ended"
                                      ELSE IF e = "SessionChanged" THEN "resubscribe" ELSE "read"]
  /\ UNCHANGED <<windows_media, provider, stopped, subscription, locked_by,
                 last_semantic_key, signalled, failed>>

Detach == attached' = attached \ {subscription}

(* Faulty variants (named <operator>_<fault>): see PROJECT.json.           *)
Resubscribe_IgnoresStop ==
  /\ task.pc = "resubscribe"
  /\ Detach /\ subscription' = NoSession
  /\ IF current = NoSession
     THEN /\ task' = [task EXCEPT !.pc = "read"] /\ failed' = failed \ {"subscribe"}
          /\ UNCHANGED locked_by
     ELSE /\ task' = [task EXCEPT !.pc = "attaching", !.session = current]
          /\ locked_by' = "task" /\ UNCHANGED failed
  /\ UNCHANGED <<current, content, watched, provider, stopped, events,
                 last_semantic_key, signalled>>

(* Under the subscription lock: leave the old session, give up when        *)
(* stopped, look which session is current now (which may fail).            *)
Resubscribe ==
  /\ task.pc = "resubscribe"
  /\ Detach /\ subscription' = NoSession
  /\ \/ /\ stopped \/ current = NoSession
        /\ task' = [task EXCEPT !.pc = "read"] /\ failed' = failed \ {"subscribe"}
        /\ UNCHANGED locked_by
     \/ /\ ~stopped /\ current # NoSession
        /\ task' = [task EXCEPT !.pc = "attaching", !.session = current]
        /\ locked_by' = "task" /\ UNCHANGED failed
     \/ /\ ~stopped
        /\ task' = [task EXCEPT !.pc = "read"] /\ failed' = failed \cup {"subscribe"}
        /\ UNCHANGED locked_by
  /\ UNCHANGED <<current, content, watched, provider, stopped, events,
                 last_semantic_key, signalled>>

Attach_NoReevaluation ==
  /\ task.pc = "attaching"
  /\ attached' = attached \cup {task.session} /\ subscription' = task.session
  /\ failed' = failed \ {"subscribe"}
  /\ locked_by' = "none"
  /\ task' = [task EXCEPT !.pc = "waiting", !.session = NoSession]
  /\ UNCHANGED <<current, content, watched, provider, stopped, events,
                 last_semantic_key, signalled>>

(* Both handlers or none: a partial registration is rolled back.           *)
Attach ==
  /\ task.pc = "attaching"
  /\ \/ /\ attached' = attached \cup {task.session} /\ subscription' = task.session
        /\ failed' = failed \ {"subscribe"}
     \/ failed' = failed \cup {"subscribe"} /\ UNCHANGED <<attached, subscription>>
  /\ locked_by' = "none"
  /\ task' = [task EXCEPT !.pc = "read", !.session = NoSession]
  /\ UNCHANGED <<current, content, watched, provider, stopped, events,
                 last_semantic_key, signalled>>

(* The read asks for the current session, then for what it plays.          *)
ReadBegins ==
  /\ task.pc = "read"
  /\ task' = [task EXCEPT !.pc = "reading", !.session = current]
  /\ UNCHANGED <<windows_media, provider, stopped, events, subscription, locked_by,
                 last_semantic_key, signalled, failed>>

(* An error or the timeout is swallowed: no key, no event, no retry. An    *)
(* error of the request for the session itself reads as no session, whose  *)
(* key is compared like any other.                                         *)
ReadEnds ==
  /\ task.pc = "reading"
  /\ \/ /\ task' = [pc |-> "compare", session |-> NoSession, key |-> KeyOf(task.session)]
        /\ failed' = failed \ {"read"}
     \/ /\ task' = [pc |-> "compare", session |-> NoSession, key |-> NoKey]
        /\ failed' = failed \cup {"read"}
     \/ /\ task' = [pc |-> "waiting", session |-> NoSession, key |-> NoKey]
        /\ failed' = failed \cup {"read"}
  /\ UNCHANGED <<windows_media, provider, stopped, events, subscription, locked_by,
                 last_semantic_key, signalled>>

Compare ==
  /\ task.pc = "compare"
  /\ last_semantic_key' = task.key
  /\ task' = IF task.key # last_semantic_key /\ ~stopped THEN [task EXCEPT !.pc = "calling"]
             ELSE [task EXCEPT !.pc = "waiting", !.key = NoKey]
  /\ UNCHANGED <<windows_media, provider, stopped, events, subscription, locked_by,
                 signalled, failed>>

CallbacksRun ==
  /\ task.pc = "calling"
  /\ signalled' = task.key
  /\ task' = [task EXCEPT !.pc = "waiting", !.key = NoKey]
  /\ UNCHANGED <<windows_media, provider, stopped, events, subscription, locked_by,
                 last_semantic_key, failed>>

-----------------------------------------------------------------------------
(* stop, by the first call; another returns at once. *)

StopBegins ==
  /\ provider = "up"
  /\ provider' = "stopping" /\ stopped' = TRUE
  /\ UNCHANGED <<windows_media, events, task, subscription, locked_by,
                 last_semantic_key, signalled, failed>>

StopUnwatches ==
  /\ provider = "stopping"
  /\ provider' = "unwatched" /\ watched' = FALSE
  /\ UNCHANGED <<current, content, attached, stopped, events, task, subscription, locked_by,
                 last_semantic_key, signalled, failed>>

StopDetaches ==
  /\ provider = "unwatched" /\ locked_by = "none"
  /\ provider' = "detached"
  /\ Detach /\ subscription' = NoSession
  /\ UNCHANGED <<current, content, watched, stopped, events, task, locked_by,
                 last_semantic_key, signalled, failed>>

(* The abort ends the task at an await; the join waits for that.           *)
StopAborts ==
  /\ provider = "detached" /\ task.pc \in AtAwait \cup {"ended"}
  /\ provider' = "gone"
  /\ task' = [pc |-> "ended", session |-> NoSession, key |-> NoKey]
  /\ UNCHANGED <<windows_media, stopped, events, subscription, locked_by,
                 last_semantic_key, signalled, failed>>

MediaNext ==
  \/ SessionSwitches \/ SessionPlays
  \/ New \/ Receive \/ Resubscribe \/ Attach \/ ReadBegins \/ ReadEnds \/ Compare \/ CallbacksRun
  \/ StopBegins \/ StopUnwatches \/ StopDetaches \/ StopAborts

MediaSpec == MediaInit /\ [][MediaNext]_media_vars

-----------------------------------------------------------------------------
(* Properties. *)

(* Whatever the order of switches, content changes and notifications, a    *)
(* task with nothing left to do has its handlers on the current session    *)
(* and has told the listeners of what it plays, unless the last            *)
(* registration or read failed.                                            *)
QuietIsCurrent ==
  provider = "up" /\ task.pc = "waiting" /\ events = {} =>
    /\ "subscribe" \in failed \/ subscription = current
    /\ failed = {} => last_semantic_key = KeyOf(current) /\ signalled = last_semantic_key

(* A concurrent stop never leaves freshly added handlers behind, and when  *)
(* it has returned the event task is over, so no event fires any more.     *)
StopLeavesNothing ==
  /\ attached \subseteq {subscription}
  /\ provider = "gone" => attached = {} /\ ~watched /\ task.pc = "ended"
=============================================================================
