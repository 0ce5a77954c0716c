--------------------------- MODULE ComponentsProofs ---------------------------
(***************************************************************************)
(* Proofs about the components of MCComponents.  MediaProvider, for any    *)
(* number of media sessions: what stop leaves, and that a task with        *)
(* nothing to do is up to date.  Both follow what is still under way: a    *)
(* subscription that is being made under its lock, and an event or a read  *)
(* that will look at the sessions again.  At the end, that side by side    *)
(* the components behave as each does alone.                               *)
(***************************************************************************)
EXTENDS MCComponents, PresenceClientProofs, SharingProofs, StoresProofs

-----------------------------------------------------------------------------
(* What stop leaves. *)

(* Handlers are on the subscribed session only, and a new one is           *)
(* subscribed under the lock, with none subscribed before.                 *)
SubscriptionIsExact ==
  /\ attached = {subscription} \ {NoSession}
  /\ locked_by = "task" <=> task.pc = "attaching"
  /\ task.pc = "attaching" => subscription = NoSession /\ task.session \in Sessions

StopHasCome ==
  /\ stopped <=> provider \in {"stopping", "unwatched", "detached", "gone"}
  /\ provider \in {"none", "unavailable", "unwatched", "detached", "gone"} => ~watched
  /\ provider \in {"detached", "gone"} => subscription = NoSession /\ task.pc # "attaching"
  /\ provider = "gone" => task.pc = "ended"
  /\ provider \in {"none", "unavailable"} => task.pc = "none"
  /\ provider = "up" => watched /\ task.pc \notin {"none", "ended"}

StopInv == MediaTypeOK /\ SubscriptionIsExact /\ StopHasCome

LEMMA StopInit == MediaInit => StopInv
<1> SUFFICES ASSUME MediaInit PROVE StopInv
  OBVIOUS
<1>1. MediaTypeOK
  BY DEF MediaInit, MediaTypeOK, TaskPcs, Keys
<1>2. SubscriptionIsExact
  BY DEF MediaInit, SubscriptionIsExact
<1>3. StopHasCome
  BY DEF MediaInit, StopHasCome
<1> QED BY <1>1, <1>2, <1>3 DEF StopInv

LEMMA StopStep == StopInv /\ [MediaNext]_media_vars => StopInv'
<1> SUFFICES ASSUME StopInv, [MediaNext]_media_vars PROVE StopInv'
  OBVIOUS
<1> USE MediaAssumption
    DEF MediaAssumption, StopInv, MediaTypeOK, SubscriptionIsExact, StopHasCome, TaskPcs,
        windows_media
<1>1. CASE SessionSwitches
  BY <1>1 DEF SessionSwitches, Notify
<1>2. CASE SessionPlays
  BY <1>2 DEF SessionPlays, Notify, Keys
<1>3. CASE New
  <2>1. MediaTypeOK'
    BY <1>3 DEF New
  <2>2. SubscriptionIsExact'
    BY <1>3 DEF New
  <2>3. StopHasCome'
    BY <1>3 DEF New
  <2> QED BY <2>1, <2>2, <2>3
<1>4. CASE Receive
  BY <1>4 DEF Receive
<1>5. CASE Resubscribe
  BY <1>5 DEF Resubscribe, Detach
<1>6. CASE Attach
  BY <1>6 DEF Attach
<1>7. CASE ReadBegins
  BY <1>7 DEF ReadBegins
<1>8. CASE ReadEnds
  <2>1. KeyOf(task.session) \in Keys
    BY DEF KeyOf, Keys
  <2> NoSession \in Sessions \cup {NoSession} /\ NoKey \in Keys
    BY DEF Keys
  <2>4. task' \in [pc : TaskPcs, session : Sessions \cup {NoSession}, key : Keys]
    BY <1>8, <2>1 DEF ReadEnds
  <2>2. MediaTypeOK'
    BY <1>8, <2>4 DEF ReadEnds
  <2>3. SubscriptionIsExact' /\ StopHasCome'
    BY <1>8, <2>1 DEF ReadEnds
  <2> QED BY <2>2, <2>3
<1>9. CASE Compare
  BY <1>9 DEF Compare, Keys
<1>10. CASE CallbacksRun
  BY <1>10 DEF CallbacksRun, Keys
<1>11. CASE StopBegins
  BY <1>11 DEF StopBegins
<1>12. CASE StopUnwatches
  BY <1>12 DEF StopUnwatches
<1>13. CASE StopDetaches
  BY <1>13 DEF StopDetaches, Detach
<1>14. CASE StopAborts
  BY <1>14 DEF StopAborts, Keys, AtAwait
<1>15. CASE UNCHANGED media_vars
  BY <1>15 DEF media_vars
<1> QED
  BY <1>1, <1>2, <1>3, <1>4, <1>5, <1>6, <1>7, <1>8, <1>9, <1>10, <1>11, <1>12, <1>13, <1>14,
     <1>15 DEF MediaNext

(* The invariant of the subscription and of stop, with the types.          *)
LEMMA StopInvHolds == MediaSpec => []StopInv
BY StopInit, StopStep, PTL DEF MediaSpec

(* The state of the media provider keeps its types.                        *)
THEOREM MediaTypeCorrect == MediaSpec => []MediaTypeOK
<1>1. StopInv => MediaTypeOK
  BY DEF StopInv
<1> QED BY <1>1, StopInvHolds, PTL

(* A stop, also one concurrent to a switch, leaves no handler and no task. *)
THEOREM StopLeavesNothingHolds == MediaSpec => []StopLeavesNothing
<1>1. StopInv => StopLeavesNothing
  BY DEF StopInv, MediaTypeOK, SubscriptionIsExact, StopHasCome, StopLeavesNothing
<1> QED BY <1>1, StopInvHolds, PTL

-----------------------------------------------------------------------------
(* What a quiet task knows. *)

(* Another look at the sessions is owed.                                   *)
SwitchPending == "SessionChanged" \in events \/ task.pc = "resubscribe"
LookPending == SwitchPending \/ "SessionPropsChanged" \in events

(* The subscription, also one that is being made, is on the current        *)
(* session unless a switch is still to be seen or the last one failed.     *)
FollowsSession ==
  \/ SwitchPending
  \/ IF task.pc = "attaching" THEN task.session = current
     ELSE subscription = current \/ "subscribe" \in failed

(* What the task has read is what the current session plays.               *)
FollowsContent ==
  /\ task.pc = "reading" => task.session = current \/ SwitchPending \/ "subscribe" \in failed
  /\ task.pc \in {"compare", "calling"} =>
       task.key = KeyOf(current) \/ LookPending \/ failed # {}
  /\ task.pc = "waiting" =>
       last_semantic_key = KeyOf(current) \/ LookPending \/ failed # {}
  /\ IF task.pc = "calling" THEN last_semantic_key = task.key
     ELSE signalled = last_semantic_key

QuietInv ==
  /\ provider = "none" => signalled = last_semantic_key
  /\ provider = "up" => FollowsSession /\ FollowsContent

LEMMA QuietInit == MediaInit => QuietInv
BY DEF MediaInit, QuietInv

LEMMA QuietStep == StopInv /\ QuietInv /\ [MediaNext]_media_vars => QuietInv'
<1>0. StopInv /\ QuietInv /\ [MediaNext]_media_vars /\ (provider = "none")'
        => (signalled = last_semantic_key)'
  BY DEF QuietInv, StopInv, StopHasCome, MediaNext, media_vars, windows_media, New, SessionSwitches,
         SessionPlays, Receive, Resubscribe, Attach, ReadBegins, ReadEnds, Compare, CallbacksRun,
         StopBegins, StopUnwatches, StopDetaches, StopAborts
<1> SUFFICES ASSUME StopInv, QuietInv, [MediaNext]_media_vars, (provider = "up")'
             PROVE  FollowsSession' /\ FollowsContent'
  BY <1>0 DEF QuietInv
<1> USE MediaAssumption
    DEF MediaAssumption, StopInv, MediaTypeOK, SubscriptionIsExact, StopHasCome, TaskPcs,
        windows_media, QuietInv, SwitchPending, LookPending, FollowsSession, FollowsContent
<1>1. CASE SessionSwitches
  BY <1>1 DEF SessionSwitches, Notify
<1>2. CASE SessionPlays
  <2>1. PICK s \in Sessions, k \in Keys :
          /\ content' = [content EXCEPT ![s] = k]
          /\ Notify(s \in attached, "SessionPropsChanged")
    BY <1>2 DEF SessionPlays
  <2>2. UNCHANGED <<current, subscription, task, failed, last_semantic_key, signalled, provider>>
    BY <1>2 DEF SessionPlays
  <2>3. FollowsSession'
    BY <2>1, <2>2 DEF Notify
  <2>4. KeyOf(current)' = KeyOf(current) \/ s = current
    BY <2>1, <2>2 DEF KeyOf
  <2>5. FollowsContent'
    BY <2>1, <2>2, <2>4 DEF Notify
  <2> QED BY <2>3, <2>5
<1>3. CASE New
  <2>1. FollowsSession'
    BY <1>3 DEF New
  <2>2. FollowsContent'
    BY <1>3 DEF New, KeyOf
  <2> QED BY <2>1, <2>2
<1>4. CASE Receive
  BY <1>4 DEF Receive
<1>5. CASE Resubscribe
  BY <1>5 DEF Resubscribe, Detach
<1>6. CASE Attach
  <2>0. task'.pc = "read" /\ events' = events /\ current' = current
    BY <1>6 DEF Attach
  <2>3. subscription' = task.session /\ failed' = failed \ {"subscribe"} => FollowsSession'
    BY <1>6, <2>0 DEF Attach
  <2>4. failed' = failed \cup {"subscribe"} => FollowsSession'
    BY <2>0
  <2>1. FollowsSession'
    BY <1>6, <2>3, <2>4 DEF Attach
  <2>2. FollowsContent'
    BY <1>6 DEF Attach, KeyOf
  <2> QED BY <2>1, <2>2
<1>7. CASE ReadBegins
  BY <1>7 DEF ReadBegins
<1>8. CASE ReadEnds
  BY <1>8 DEF ReadEnds, KeyOf
<1>9. CASE Compare
  <2>1. FollowsSession'
    BY <1>9 DEF Compare
  <2>2. FollowsContent'
    BY <1>9 DEF Compare, KeyOf
  <2> QED BY <2>1, <2>2
<1>10. CASE CallbacksRun
  <2>1. FollowsSession'
    BY <1>10 DEF CallbacksRun
  <2>2. FollowsContent'
    BY <1>10 DEF CallbacksRun, KeyOf
  <2> QED BY <2>1, <2>2
<1>11. CASE StopBegins \/ StopUnwatches \/ StopDetaches \/ StopAborts
  BY <1>11 DEF StopBegins, StopUnwatches, StopDetaches, StopAborts
<1>12. CASE UNCHANGED media_vars
  BY <1>12 DEF media_vars, KeyOf
<1> QED
  BY <1>1, <1>2, <1>3, <1>4, <1>5, <1>6, <1>7, <1>8, <1>9, <1>10, <1>11, <1>12 DEF MediaNext

(* A task that waits for an event knows the current session and has told   *)
(* the listeners what it plays, unless its last attempt failed.            *)
THEOREM QuietIsCurrentHolds == MediaSpec => []QuietIsCurrent
<1>1. StopInv /\ QuietInv => QuietIsCurrent
  BY DEF StopInv, StopHasCome, QuietInv, FollowsSession, FollowsContent, SwitchPending,
         LookPending, QuietIsCurrent
<1>2. MediaSpec => []QuietInv
  BY QuietInit, QuietStep, StopInvHolds, PTL DEF MediaSpec
<1> QED BY <1>1, <1>2, StopInvHolds, PTL

-----------------------------------------------------------------------------
(* Side by side. *)

(* The writer's state besides its sequencer, while the sequencer is alone. *)
ClientIsIdle ==
  /\ mutation = [u \in Users |-> IdleMutation]
  /\ send_slot = [c \in Clients |-> <<>>]
  /\ wire = {} /\ applied = <<>>
  /\ reply = [u \in Users |-> NoReply]
  /\ accepted \in 0..(MaxSafe - 2)

(* What is checked of the components side by side is what the theorems are *)
(* about: a behaviour of the whole is one of each component, and of the    *)
(* presence client or, below it, of the sequencer called freely.           *)
THEOREM EachIsItself ==
  Spec => /\ MediaSpec /\ CaptureSpec /\ ExchangeSpec /\ StoresSpec
          /\ ClientSpec \/ (SequencerSpec /\ []ClientIsIdle)
<1> USE DEF MediaAlone, CaptureAlone, ExchangeAlone, StoresAlone, WriterAlone, SequencerAlone
<1> DEFINE whole == <<component, writer_vars, media_vars, policy_vars, capture_vars,
                      exchange_vars, stores_vars>>
<1> DEFINE alone == component = "sequencer"
<1>1. Init => /\ MediaInit /\ CaptureInit /\ ExchangeInit /\ StoresInit /\ ClientInit
              /\ SequencerInit /\ ClientIsIdle
  BY DEF Init, ClientInit, ClientIsIdle
<1>2. [Next]_whole => [MediaNext]_media_vars
  BY DEF Next
<1>3. [Next]_whole => [CaptureNext]_<<policy_vars, capture_vars>>
  BY DEF Next
<1>4. [Next]_whole => [ExchangeNext]_exchange_vars
  BY DEF Next
<1>5. [Next]_whole => [StoresNext]_stores_vars
  BY DEF Next
<1>6. [Next]_whole /\ ~alone => [ClientNext]_writer_vars /\ ~alone'
  BY DEF Next
<1>7. [Next]_whole /\ alone
        => [SequencerNext]_store_vars /\ UNCHANGED client_vars /\ alone'
  BY DEF Next, writer_vars
<1>8. ClientIsIdle /\ UNCHANGED client_vars => ClientIsIdle'
  BY DEF ClientIsIdle, client_vars
<1> HIDE DEF alone
<1> QED
  BY <1>1, <1>2, <1>3, <1>4, <1>5, <1>6, <1>7, <1>8, PTL
     DEF Spec, MediaSpec, CaptureSpec, ExchangeSpec, StoresSpec, ClientSpec, SequencerSpec

(* Every component keeps its types, whichever of them runs.                *)
THEOREM ComponentsTypeCorrect == Spec => []ComponentsTypeOK
<1>1. SequencerTypeOK /\ ClientIsIdle => ClientTypeOK
  BY SequencerAssumption
     DEF SequencerAssumption, ClientIsIdle, ClientTypeOK, Mutation, IdleMutation, NoReply
<1>2. ClientTypeOK /\ MediaTypeOK /\ CaptureTypeOK /\ ExchangeTypeOK /\ StoresTypeOK => ComponentsTypeOK
  BY DEF ComponentsTypeOK
<1> QED
  BY <1>1, <1>2, EachIsItself, ClientTypeCorrect, SequencerTypeCorrect, MediaTypeCorrect,
     CaptureTypeCorrect, ExchangeTypeCorrect, StoresTypeCorrect, PTL
===============================================================================
