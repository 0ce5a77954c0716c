---------------------------- MODULE CaptureService ----------------------------
(***************************************************************************)
(* CaptureService.capture_for_delivery (core/src/privacy/capture_service.rs) *)
(* with the media session tracker, while the policy is edited.  Captures   *)
(* are calls of the refresh loop and of the preview; the await on the      *)
(* media provider is where one lets the others run, and the edits are the  *)
(* commands' own threads.                                                  *)
(***************************************************************************)
EXTENDS PrivacyPolicy

CONSTANTS
  Captures,           (* captures at the same time                         *)
  MaxSessions         (* bound on session ids                              *)

ASSUME CaptureAssumption == MaxSessions \in Nat

VARIABLES
  capture,            (* per call                                          *)
  tracker,            (* MediaSessionTracker.current                       *)
  minted,             (* session ids minted so far                         *)
  closed,             (* history: ids of sessions that a capture ended     *)
  in_force            (* history, per call: policies since the media answer *)

capture_vars == <<capture, tracker, minted, closed, in_force>>

NoIdentity == [identity |-> NoMedia, session |-> 0]
IdleCapture == [pc |-> "idle", raw |-> NoMedia, media |-> NoMedia, session |-> 0,
                info |-> Nothing, application |-> Nothing]

CaptureTypeOK ==
  /\ privacy \in Policy /\ RulesAreKeyed(privacy) /\ edits \in 0..MaxEdits
  /\ \A c \in Captures :
       /\ capture[c].pc \in {"idle", "reading", "filtering", "session", "application", "done"}
       /\ capture[c].raw \in Medias \cup {NoMedia} /\ capture[c].session \in 0..MaxSessions
       /\ capture[c].media.title \in Texts \cup {Absent}
       /\ capture[c].application.title \in Texts \cup {Absent}
       /\ in_force[c] \subseteq Policy
  /\ minted \in 0..MaxSessions /\ closed \subseteq 1..MaxSessions
  /\ tracker.session \in 0..minted

CaptureInit ==
  /\ PolicyInit
  /\ capture = [c \in Captures |-> IdleCapture]
  /\ tracker = NoIdentity /\ minted = 0 /\ closed = {}
  /\ in_force = [c \in Captures |-> {}]

(* The end of continuity: every id so far is history.                      *)
ResetTracker == tracker' = NoIdentity
EndSessions == closed' = 1..minted

(* The provider is there and sources.media is on: its snapshot is awaited. *)
CaptureBegins(c) ==
  /\ capture[c].pc = "idle"
  /\ \E include_media, provider \in BOOLEAN :
       \/ /\ include_media /\ provider /\ privacy.sources.media
          /\ capture' = [capture EXCEPT ![c].pc = "reading"]
          /\ UNCHANGED <<tracker, closed>>
       \/ /\ include_media /\ ~(provider /\ privacy.sources.media)
          /\ capture' = [capture EXCEPT ![c].pc = "application"]
          /\ ResetTracker /\ EndSessions
       \/ /\ ~include_media
          /\ capture' = [capture EXCEPT ![c].pc = "application"]
          /\ UNCHANGED <<tracker, closed>>
  /\ in_force' = [in_force EXCEPT ![c] = {privacy}]
  /\ UNCHANGED <<policy_vars, minted>>

(* An answer, or none within the timeout.                                  *)
MediaAnswers(c) ==
  /\ capture[c].pc = "reading"
  /\ \E raw \in Medias \cup {NoMedia} :
       capture' = [capture EXCEPT ![c].pc = "filtering", ![c].raw = raw]
  /\ in_force' = [in_force EXCEPT ![c] = {privacy}]
  /\ UNCHANGED <<policy_vars, tracker, minted, closed>>

(* The policy is read again after the await.                               *)
FilterMedia(c) ==
  /\ capture[c].pc = "filtering"
  /\ capture' = [capture EXCEPT ![c].pc = "session",
                                ![c].media = MediaPresence(privacy, capture[c].raw)]
  /\ UNCHANGED <<policy_vars, tracker, minted, closed, in_force>>

SessionOf_KeepsPaused(media) ==
  IF media = NoMedia THEN UNCHANGED <<tracker, minted>>
  ELSE IF tracker.session # 0 /\ tracker.identity = media THEN UNCHANGED <<tracker, minted>>
  ELSE /\ minted < MaxSessions /\ minted' = minted + 1
       /\ tracker' = [identity |-> media, session |-> minted']

(* The tracker keeps the id of the same sanitised media and mints one for  *)
(* another; media that is not shared ends the session.                     *)
SessionOf(media) ==
  IF media = NoMedia THEN ResetTracker /\ UNCHANGED minted
  ELSE IF tracker.session # 0 /\ tracker.identity = media THEN UNCHANGED <<tracker, minted>>
  ELSE /\ minted < MaxSessions /\ minted' = minted + 1
       /\ tracker' = [identity |-> media, session |-> minted']

TakeSession(c) ==
  /\ capture[c].pc = "session"
  /\ SessionOf(capture[c].media)
  /\ closed' = IF capture[c].media = NoMedia THEN 1..minted ELSE closed
  /\ capture' = [capture EXCEPT ![c].pc = "application",
                                ![c].session = IF capture[c].media = NoMedia THEN 0
                                               ELSE tracker'.session]
  /\ UNCHANGED <<policy_vars, in_force>>

(* The application, under the policy as it is by then.                     *)
CaptureApplication(c) ==
  /\ capture[c].pc = "application"
  /\ \E info \in Foregrounds \cup {Nothing} :
       capture' = [capture EXCEPT ![c].pc = "done", ![c].info = info,
                                  ![c].application = ApplicationPresence(privacy, info)]
  /\ UNCHANGED <<policy_vars, tracker, minted, closed, in_force>>

(* The caller takes the snapshot.                                          *)
CaptureReturns(c) ==
  /\ capture[c].pc = "done"
  /\ capture' = [capture EXCEPT ![c] = IdleCapture]
  /\ in_force' = [in_force EXCEPT ![c] = {}]
  /\ UNCHANGED <<policy_vars, tracker, minted, closed>>

(* reset_media_continuity, by the coordinator at a new generation.         *)
ResetContinuity ==
  /\ tracker # NoIdentity
  /\ ResetTracker /\ EndSessions
  /\ UNCHANGED <<policy_vars, capture, minted, in_force>>

PolicyEdited ==
  /\ PolicyNext
  /\ in_force' = [c \in Captures |-> IF capture[c].pc \in {"idle", "done"} THEN in_force[c]
                                     ELSE in_force[c] \cup {privacy'}]
  /\ UNCHANGED <<capture, tracker, minted, closed>>

CaptureNext ==
  \/ PolicyEdited \/ ResetContinuity
  \/ \E c \in Captures :
       CaptureBegins(c) \/ MediaAnswers(c) \/ FilterMedia(c) \/ TakeSession(c)
       \/ CaptureApplication(c) \/ CaptureReturns(c)

CaptureSpec == CaptureInit /\ [][CaptureNext]_<<policy_vars, capture_vars>>

-----------------------------------------------------------------------------
(* Properties. *)

(* What the page's rules say, rule by rule: an appId has one rule at most. *)
Says(policy, id, field, value) ==
  \/ \E i \in DOMAIN policy.rules :
       policy.rules[i].app_id = NormalOf[id] /\ policy.rules[i][field] = value
  \/ /\ policy.defaults[field] = value
     /\ \A i \in DOMAIN policy.rules :
          policy.rules[i].app_id = NormalOf[id] => policy.rules[i][field] = "inherit"

PermitsMedia(policy, raw) ==
  /\ policy.sources.media /\ raw.playing
  /\ policy.ignore_null_artist => NormalText(raw.artist) # Absent
  /\ raw.app_id # Absent => Says(policy, raw.app_id, "media", "share")

PermitsApplication(policy, info, shown) ==
  /\ policy.sources.application /\ Says(policy, info.app_id, "application", "share")
  /\ shown.title # Absent => /\ policy.share_window_titles
                             /\ Says(policy, info.app_id, "window_title", "share")

(* A policy tightened while the media was awaited applies to both sources: *)
(* what a capture shares is permitted by a policy in force after the       *)
(* answer, not by the one it started under.                                *)
TightenedApplies ==
  \A c \in Captures : capture[c].pc = "done" =>
    /\ capture[c].media # NoMedia =>
         \E p \in in_force[c] : PermitsMedia(p, capture[c].raw)
    /\ capture[c].application # Nothing =>
         \E p \in in_force[c] : PermitsApplication(p, capture[c].info, capture[c].application)

(* Media that was paused, hidden or dropped, or a new generation, ends the *)
(* session: no later capture carries its id, also when captures overlap.   *)
ClosedSessionsStayClosed ==
  [][\A c \in Captures :
       capture'[c].session # capture[c].session /\ capture'[c].session # 0
         => capture'[c].session \notin closed]_capture_vars

(* The fingerprint stands for the policy: an edit that leaves it as it is  *)
(* (and so the user's confirmation) leaves what is shared of any screen.   *)
FingerprintTellsPolicies ==
  [][Fingerprint(privacy') = Fingerprint(privacy) =>
       /\ \A info \in Foregrounds :
            ApplicationPresence(privacy', info) = ApplicationPresence(privacy, info)
       /\ \A raw \in Medias : MediaPresence(privacy', raw) = MediaPresence(privacy, raw)]_privacy
=============================================================================
