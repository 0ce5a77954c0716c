------------------------------- MODULE Exchange -------------------------------
(***************************************************************************)
(* One publish against the server's limits: the capabilities are           *)
(* negotiated (core/src/protocol/capabilities.rs), a capture is sanitised  *)
(* and mapped to a request (core/src/protocol/dto_mapper.rs, wire.rs), and *)
(* what comes back is judged (core/src/companion/http_client.rs and        *)
(* errors.rs).  PresenceClient has the order of publishes and their        *)
(* sequence numbers; here is what one says and what its answer is worth.   *)
(*                                                                         *)
(* Times are whole seconds, Unknown for none.  A version identifier is its *)
(* rank in the precedence order (numeric ones below textual ones).  Text   *)
(* that exceeds a limit is cut and stays present.                          *)
(***************************************************************************)
EXTENDS PrivacyPolicy, Integers

CONSTANTS
  Offers,           (* capabilities the server may announce               *)
  Malformed,        (* a version that does not parse                      *)
  ClientVersion,    (* PROTOCOL_CLIENT_VERSION                            *)
  Frames,           (* timelines of the media session                     *)
  MaxElapsed,       (* extrapolation ends here (6 h)                      *)
  MaxWireSeconds    (* 2^53 - 1 milliseconds                              *)

Unknown == -1

Limits == [payload : Int, requests_per_minute : Int, lease_min : Int, lease_max : Int,
           heartbeat : Int, skew : Int]

ASSUME ExchangeAssumption ==
  /\ Offers # {} /\ MaxElapsed \in Nat /\ MaxWireSeconds \in Nat
  /\ \A o \in Offers : o.limits \in Limits /\ o.media_timeline \in BOOLEAN
  /\ Frames \subseteq [duration : Int, position : Int, elapsed : Int]
  /\ \A f \in Frames : f.duration <= MaxWireSeconds /\ f.position + MaxElapsed <= MaxWireSeconds

VARIABLES
  stage,            (* how far the publish has come                       *)
  configuration,    (* what was negotiated                                *)
  snapshot,         (* the sanitised capture                              *)
  request,          (* the mapped request                                 *)
  attempt,
  outcome, learnt,  (* of the last attempt; accepted number reconciled    *)
  server            (* what the server knows of this request              *)

exchange_vars == <<stage, configuration, snapshot, request, attempt, outcome, learnt, server>>

-----------------------------------------------------------------------------
(* Negotiation. *)

(* Lexicographic order; a proper prefix comes first.                       *)
Precedes(s, t) ==
  \E i \in DOMAIN t : /\ i <= Len(s) + 1 /\ SubSeq(s, 1, i - 1) = SubSeq(t, 1, i - 1)
                      /\ Len(s) < i \/ s[i] < t[i]

(* A release is above its pre-releases.                                    *)
Older(v, w) ==
  \/ Precedes(v.core, w.core)
  \/ v.core = w.core /\ v.pre # <<>> /\ (w.pre = <<>> \/ Precedes(v.pre, w.pre))

(* Faulty variants (named <operator>_<fault>): see PROJECT.json.           *)
LimitsAreValid_LeasesUnordered(l) ==
  /\ l.payload > 0 /\ l.requests_per_minute > 0 /\ l.lease_min > 0
  /\ l.lease_min <= l.heartbeat /\ l.skew >= 0

LimitsAreValid(l) ==
  /\ l.payload > 0 /\ l.requests_per_minute > 0 /\ l.lease_min > 0
  /\ l.lease_min <= l.lease_max
  /\ l.heartbeat \in l.lease_min..l.lease_max
  /\ l.skew >= 0

NegotiatePresence(offer) ==
  IF \/ offer.minimum = Malformed \/ ~LimitsAreValid(offer.limits)
     \/ \E v \in offer.presence_schemas \cup offer.moment_schemas : v <= 0
  THEN "InvalidCapabilities"
  ELSE IF Older(ClientVersion, offer.minimum) THEN "ClientUpdateRequired"
  ELSE IF 2 \notin offer.presence_schemas THEN "SchemaUnsupported"
  ELSE IF ~offer.live_desk THEN "FeatureUnavailable" ELSE "Available"

InRange(value, low, high) == Min({Max({value, low}), high})

(* Heartbeats in thirds of a second, the send interval in milliseconds.    *)
Negotiated(offer) ==
  LET l == offer.limits
      lease == InRange(90, l.lease_min, l.lease_max)
  IN [limits |-> l, include_media |-> offer.media_timeline, requested_lease |-> lease,
      heartbeat_thirds |-> Min({3 * l.heartbeat, Max({lease, 3})}),
      interval |-> (60000 + l.requests_per_minute - 1) \div l.requests_per_minute]

-----------------------------------------------------------------------------
(* The timeline of what is captured: [duration, position, elapsed]. *)

Limited(position, duration) ==
  IF position # Unknown /\ duration # Unknown /\ position > duration THEN duration ELSE position

SnapshotDuration(frame) == IF frame.duration > 0 THEN frame.duration ELSE Unknown

(* The wall clock since the session's own update moves the position.       *)
ExtrapolatedPosition(frame) ==
  IF frame.position < 0 THEN Unknown
  ELSE LET elapsed == IF frame.elapsed \in 1..(MaxElapsed - 1) THEN frame.elapsed ELSE 0
       IN Limited(frame.position + elapsed, SnapshotDuration(frame))

NormalizedSeconds(seconds) == IF seconds >= 0 THEN seconds ELSE Unknown

(* Only what plays is captured, at rate 1.                                 *)
Playback(frame) ==
  LET duration == NormalizedSeconds(SnapshotDuration(frame))
  IN [duration |-> duration,
      position |-> Limited(NormalizedSeconds(ExtrapolatedPosition(frame)), duration), rate |-> 1]

Silence == [duration |-> Unknown, position |-> Unknown, rate |-> 0]

-----------------------------------------------------------------------------
(* Mapping. *)

(* Cut to its limit, then trimmed: the cut text is in normal form's place. *)
BoundedText(text) == NormalText(text)

WireSeconds(seconds) == seconds = Unknown \/ seconds \in 0..MaxWireSeconds

MapsApplication(app) == app # Nothing => BoundedText(app.name) # Absent

MapsMedia(media, playback) ==
  media # NoMedia => /\ BoundedText(media.title) # Absent \/ BoundedText(media.artist) # Absent
                     /\ playback.rate \in 1..4
                     /\ WireSeconds(playback.duration) /\ WireSeconds(playback.position)

MakePresenceRequest(shot, config, size) ==
  [application |-> shot.application, media |-> shot.media,
   duration |-> shot.playback.duration,
   position |-> Limited(shot.playback.position, shot.playback.duration),
   idle |-> shot.application = Nothing /\ shot.media = NoMedia,
   ttl |-> InRange(config.requested_lease, config.limits.lease_min, config.limits.lease_max),
   size |-> size]

-----------------------------------------------------------------------------
(* Answers: [status, shape, version, id, accepted, retryable, renegotiate]; *)
(* shape is nothing, text (no JSON), code ({error: {code}} and no more),   *)
(* error (an error envelope) or mutation; version is that of its schema,   *)
(* id that of its meta, none when it is no UUID or ULID.                   *)

NoAnswer == [status |-> 0, shape |-> "nothing", version |-> "ours", id |-> "none",
             accepted |-> Unknown, retryable |-> FALSE, renegotiate |-> FALSE]
Ok(r) == r.status = 200

IsValidWireIdentifier(id) == id # "none"
RefineResponseMeta(r) == r.version = "ours" /\ IsValidWireIdentifier(r.id)

DecodeMutationResponse(r) == r.shape = "mutation" /\ RefineResponseMeta(r)
DecodeErrorEnvelope(r) == r.shape = "error" /\ RefineResponseMeta(r)
DecodePairingErrorEnvelope(r) == r.shape \in {"error", "code"}

CheckRequestIdEcho_Any(r, kind) == kind
CheckRequestIdEcho(r, kind) == IF r.id = "own" THEN kind ELSE "RequestIdMismatch"

(* What http_client's execute makes of an attempt's answer.                *)
Execute(r) ==
  CASE r.status = 0 -> "Network"
    [] r.status # 0 /\ r.shape = "nothing" -> "EmptyResponse"
    [] Ok(r) /\ r.shape # "nothing" ->
         IF DecodeMutationResponse(r) THEN CheckRequestIdEcho(r, "Answer") ELSE "Decode"
    [] OTHER ->
         IF DecodeErrorEnvelope(r) THEN CheckRequestIdEcho(r, "Server")
         ELSE IF DecodePairingErrorEnvelope(r) THEN "PairingServer" ELSE "HttpStatus"

IsSafeForRetry(kind, r) ==
  \/ kind \in {"Network", "EmptyResponse", "Decode", "RequestIdMismatch"}
  \/ kind = "Server" /\ r.status \in 500..599 /\ r.retryable
  \/ kind = "HttpStatus" /\ r.status \in 500..599

NeedsRenegotiation(kind, r) ==
  \/ kind = "Server" /\ r.renegotiate
  \/ kind = "HttpStatus" /\ r.status = 426

AcceptedSequenceOf(kind, r) == IF kind \in {"Answer", "Server"} THEN r.accepted ELSE Unknown

-----------------------------------------------------------------------------
(* The publish. Numbers: its own is 1; a server that is ahead has 2. *)

NoSnapshot == [application |-> Nothing, media |-> NoMedia, playback |-> Silence]
NoRequest == [application |-> Nothing, media |-> NoMedia, duration |-> Unknown,
              position |-> Unknown, idle |-> TRUE, ttl |-> 0, size |-> 0]
NoConfiguration == [requested_lease |-> 0]

Stages == {"offline", "ready", "captured", "unmappable", "mapped", "sent", "ended", "rejected"}
Outcomes == {"none", "PayloadTooLarge", "Network", "EmptyResponse", "Decode", "RequestIdMismatch",
             "Answer", "Server", "PairingServer", "HttpStatus"}

ExchangeTypeOK ==
  /\ stage \in Stages /\ outcome \in Outcomes /\ attempt \in 0..2
  /\ configuration.requested_lease \in Nat
  /\ request.size \in 0..2 /\ request.ttl \in Nat
  /\ snapshot.media.title \in Texts \cup {Absent}
  /\ learnt \in {Unknown, 1, 2}
  /\ server \in [applied : BOOLEAN, refused : BOOLEAN, accepted : {0, 1, 2}]

ExchangeInit ==
  /\ stage = "offline" /\ configuration = NoConfiguration
  /\ snapshot = NoSnapshot /\ request = NoRequest
  /\ attempt = 0 /\ outcome = "none" /\ learnt = Unknown
  /\ server = [applied |-> FALSE, refused |-> FALSE, accepted |-> 0]

(* T6 to T9: only Available makes a client.                                *)
Negotiate ==
  /\ stage = "offline"
  /\ \E offer \in Offers : /\ NegotiatePresence(offer) = "Available"
                           /\ configuration' = Negotiated(offer)
  /\ stage' = "ready"
  /\ UNCHANGED <<snapshot, request, attempt, outcome, learnt, server>>

CaptureForDelivery ==
  /\ stage = "ready"
  /\ \E raw \in Medias \cup {NoMedia}, info \in Foregrounds \cup {Nothing}, frame \in Frames :
       LET media == IF configuration.include_media THEN MediaPresence(privacy, raw) ELSE NoMedia
       IN snapshot' = [application |-> ApplicationPresence(privacy, info), media |-> media,
                       playback |-> IF media = NoMedia THEN Silence ELSE Playback(frame)]
  /\ stage' = "captured"
  /\ UNCHANGED <<configuration, request, attempt, outcome, learnt, server>>

(* The body's size is only known once it is encoded.                       *)
MapRequest ==
  /\ stage = "captured"
  /\ IF MapsApplication(snapshot.application) /\ MapsMedia(snapshot.media, snapshot.playback)
     THEN /\ stage' = "mapped"
          /\ \E size \in 1..2 : request' = MakePresenceRequest(snapshot, configuration, size)
     ELSE stage' = "unmappable" /\ UNCHANGED request
  /\ snapshot' = NoSnapshot
  /\ UNCHANGED <<configuration, attempt, outcome, learnt, server>>

(* The cap is checked before any network I/O.                              *)
SendRequest ==
  /\ stage = "mapped"
  /\ IF request.size > configuration.limits.payload
     THEN stage' = "ended" /\ outcome' = "PayloadTooLarge" /\ UNCHANGED <<attempt, server>>
     ELSE /\ stage' = "sent" /\ attempt' = 1 /\ UNCHANGED outcome
          /\ \E n \in {0, 2} : server' = [server EXCEPT !.accepted = n]
  /\ UNCHANGED <<configuration, snapshot, request, learnt>>

(* The server: applies the request (again: the same answer), or refuses    *)
(* it, always when it is ahead. Pairs of its new state and its answer.     *)
Reactions(before) ==
  (IF before.accepted = 2 THEN {}
   ELSE {<<[before EXCEPT !.applied = TRUE, !.accepted = 1],
           [NoAnswer EXCEPT !.status = 200, !.shape = "mutation", !.id = "own", !.accepted = 1]>>})
  \cup
  (IF before.applied THEN {}
   ELSE {[before EXCEPT !.refused = TRUE]} \X
        [status : {409, 426, 503}, shape : {"error"}, version : {"ours", "theirs"}, id : {"own"},
         accepted : IF before.accepted = 2 THEN {2} ELSE {Unknown},
         retryable : BOOLEAN, renegotiate : BOOLEAN])

(* What is delivered instead: nothing, a gateway's page, another request's *)
(* answer; a gateway that answers 4xx has not passed the request on.       *)
Disturbances(before, after) ==
  {NoAnswer}
  \cup {[NoAnswer EXCEPT !.status = status, !.shape = shape] :
          status \in {200, 502}, shape \in {"nothing", "text"}}
  \cup [status : {200, 503}, shape : {"mutation", "error"}, version : {"ours"},
        id : {"foreign", "none"}, accepted : {2}, retryable : {FALSE}, renegotiate : BOOLEAN]
  \cup (IF before.applied \/ after # before THEN {}
        ELSE {[NoAnswer EXCEPT !.status = status, !.shape = shape] :
               status \in {403, 426}, shape \in {"text", "code"}})

(* An attempt ends: what it says is reconciled, then it is retried, once.  *)
AttemptEnds(after, r) ==
  LET kind == Execute(r)
      said == AcceptedSequenceOf(kind, r)
      retry == attempt = 1 /\ IsSafeForRetry(kind, r)
  IN /\ server' = after /\ outcome' = kind
     /\ learnt' = IF said = Unknown THEN learnt ELSE said
     /\ attempt' = IF retry THEN 2 ELSE attempt
     /\ stage' = IF retry THEN "sent"
                 ELSE IF NeedsRenegotiation(kind, r) THEN "rejected" ELSE "ended"
     /\ UNCHANGED <<configuration, snapshot, request>>

AnswerArrives ==
  stage = "sent" /\ \E reaction \in Reactions(server) : AttemptEnds(reaction[1], reaction[2])

AnswerIsLost ==
  /\ stage = "sent"
  /\ \E after \in {server} \cup {reaction[1] : reaction \in Reactions(server)} :
       \E r \in Disturbances(server, after) : AttemptEnds(after, r)

(* T12 to T14: an answer or a failure keeps the client for the next        *)
(* publish, a rejection negotiates anew.                                   *)
PublishSettles ==
  /\ stage \in {"ended", "rejected"}
  /\ IF stage = "rejected" THEN stage' = "offline" /\ configuration' = NoConfiguration
     ELSE stage' = "ready" /\ UNCHANGED configuration
  /\ request' = NoRequest /\ attempt' = 0 /\ outcome' = "none" /\ learnt' = Unknown
  /\ server' = [applied |-> FALSE, refused |-> FALSE, accepted |-> 0]
  /\ UNCHANGED snapshot

ExchangeNext ==
  \/ Negotiate \/ CaptureForDelivery \/ MapRequest \/ SendRequest
  \/ AnswerArrives \/ AnswerIsLost \/ PublishSettles

ExchangeSpec == ExchangeInit /\ [][ExchangeNext]_exchange_vars

-----------------------------------------------------------------------------

(* Whatever limits an offer that negotiates has and whatever the policy    *)
(* lets through of the desktop, the capture maps to a request: nothing     *)
(* the sanitiser keeps is refused by the mapper. The request keeps to the  *)
(* limits: its lease is one the server takes and covers three heartbeats    *)
(* (of a second at least), the sends stay within the rate, the position within the     *)
(* duration, and there is no media where the server has no timeline.       *)
SharedIsSendable ==
  /\ stage # "unmappable"
  /\ stage \in {"mapped", "sent"} =>
       LET limits == configuration.limits IN
       /\ request.ttl \in limits.lease_min..limits.lease_max
       /\ configuration.heartbeat_thirds <= Max({request.ttl, 3})
       /\ configuration.interval * limits.requests_per_minute >= 60000
       /\ request.position # Unknown /\ request.duration # Unknown
             => request.position <= request.duration
       /\ request.media # NoMedia =>
            /\ configuration.include_media
            /\ {request.media.title, request.media.artist} # {Absent}

(* What a publish concludes is true of the server, whatever the network    *)
(* delivered: a success means this request was applied, a refusal that the *)
(* server refused it, a reconciled number is the server's own; and one     *)
(* given up at its first attempt was not applied: what is ambiguous is     *)
(* sent again. Excepted is an error body that only reads as a pairing      *)
(* rejection: see the README.                                              *)
BelievedIsTrue ==
  /\ outcome = "Answer" => server.applied
  /\ outcome = "Server" => server.refused
  /\ learnt # Unknown => learnt = server.accepted
  /\ /\ stage \in {"ended", "rejected"} /\ attempt = 1
     /\ outcome \notin {"Answer", "PairingServer"}
     => ~server.applied
===============================================================================
