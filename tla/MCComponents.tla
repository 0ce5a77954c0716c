----------------------------- MODULE MCComponents -----------------------------
(* Components that share no state, side by side: a behaviour is one of the  *)
(* component chosen at its start; the others stay in an initial state.      *)
(* Their safety, with symmetry.                                             *)
EXTENDS PresenceClient, MediaProvider, MCCaptureService, Exchange, Stores

CONSTANT s1
MCSequencerOf == [c \in Clients |-> s1]

(* Leases around the 90 s that are asked for, out of order in some offers. *)
MCClientVersion == [core |-> <<1, 8, 3>>, pre |-> <<>>]
MCOffers ==
  [minimum : {Malformed, [core |-> <<1, 8, 3>>, pre |-> <<1>>],
              [core |-> <<1, 9, 0>>, pre |-> <<>>]},
   presence_schemas : {{1, 2}, {1}, {0, 2}}, moment_schemas : {{1}},
   live_desk : BOOLEAN, media_timeline : BOOLEAN,
   limits : [payload : {1}, requests_per_minute : {7}, lease_min : {0, 1, 120},
             lease_max : {2, 60, 180}, heartbeat : {1, 60, 120}, skew : {0}]]
MCFrames ==
  {[duration |-> d, position |-> p, elapsed |-> e] : d \in {0, 10}, p \in {-1, 8}, e \in {1, 5}}

VARIABLE component

Init ==
  /\ component \in {"sequencer", "writer", "media", "capture", "exchange", "stores"}
  /\ ClientInit /\ MediaInit /\ CaptureInit /\ ExchangeInit /\ StoresInit
  /\ accepted \in IF component = "writer" THEN {0, 2} ELSE {0}
  /\ component = "media" \/ current = NoSession
  /\ component = "media" \/ content = [s \in Sessions |-> NoKey]

SequencerAlone ==
  /\ component = "sequencer" /\ SequencerNext
  /\ UNCHANGED <<component, client_vars, media_vars, policy_vars, capture_vars, exchange_vars,
                 stores_vars>>
(* Bound: with a crash, the presence client sees this many mutations.      *)
MaxWithCrash == 2
Submitted == {u \in Users : mutation[u].pc # "idle"}

WriterAlone ==
  /\ component = "writer" /\ ClientNext
  /\ crashes' = 0 \/ Cardinality(Submitted') <= MaxWithCrash
  /\ UNCHANGED <<component, media_vars, policy_vars, capture_vars, exchange_vars,
                 stores_vars>>
MediaAlone ==
  /\ component = "media" /\ MediaNext
  /\ UNCHANGED <<component, writer_vars, policy_vars, capture_vars, exchange_vars, stores_vars>>
CaptureAlone ==
  /\ component = "capture" /\ CaptureNext
  /\ UNCHANGED <<component, writer_vars, media_vars, exchange_vars, stores_vars>>
ExchangeAlone ==
  /\ component = "exchange" /\ ExchangeNext
  /\ UNCHANGED <<component, writer_vars, media_vars, policy_vars, capture_vars, stores_vars>>
StoresAlone ==
  /\ component = "stores" /\ StoresNext
  /\ UNCHANGED <<component, writer_vars, media_vars, policy_vars, capture_vars, exchange_vars>>

Next == SequencerAlone \/ WriterAlone \/ MediaAlone \/ CaptureAlone \/ ExchangeAlone
        \/ StoresAlone

Spec ==
  Init /\ [][Next]_<<component, writer_vars, media_vars, policy_vars, capture_vars,
                      exchange_vars, stores_vars>>

(* Commands are the same model values as Clients.                           *)
Symmetry == Permutations(Users) \cup Permutations(Clients)

(* Each component's state keeps its types.                                 *)
ComponentsTypeOK == ClientTypeOK /\ MediaTypeOK /\ CaptureTypeOK /\ ExchangeTypeOK /\ StoresTypeOK
===============================================================================
