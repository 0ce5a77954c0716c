----------------------------- MODULE SharingProofs -----------------------------
(***************************************************************************)
(* Proofs about what is shared: the lookups of the policy, CaptureService  *)
(* while the policy is edited, and Exchange, for any policies, texts,      *)
(* captures, offers and timelines.                                         *)
(***************************************************************************)
EXTENDS CaptureService, Exchange, FunctionTheorems, FiniteSetTheorems, TLAPS

(* A set of positions has a least one.                                     *)
LEMMA LeastExists ==
  ASSUME NEW S \in SUBSET Nat, S # {}
  PROVE  \E i \in S : \A j \in S : i <= j
<1> DEFINE Less == {p \in Nat \X Nat : p[1] < p[2]}
<1>1. IsWellFoundedOn(Less, Nat)
  BY NatLessThanWellFounded DEF OpToRel
<1>2. \E x \in S : \A y \in S : ~(<<y, x>> \in Less)
  BY <1>1, WFMin
<1>3. \A x, y \in Nat : y < x => <<y, x>> \in Less
  OBVIOUS
<1> HIDE DEF Less
<1>4. PICK x \in S : \A y \in S : ~(<<y, x>> \in Less)
  BY <1>2
<1>5. ASSUME NEW y \in S PROVE x <= y
  <2>1. x \in Nat /\ y \in Nat /\ ~(y < x)
    BY <1>3, <1>4
  <2> QED BY <2>1
<1> QED BY <1>5

(* What a lookup finds is an entry of the list, or the default.            *)
LEMMA FirstIsAt ==
  ASSUME NEW seq, NEW positions \in SUBSET Nat, NEW default
  PROVE  IF positions = {} THEN FirstAt(seq, positions, default) = default
         ELSE \E i \in positions : FirstAt(seq, positions, default) = seq[i]
BY LeastExists DEF FirstAt

LEMMA FindRuleIs ==
  ASSUME NEW policy, policy.rules \in Seq(Rule), NEW id
  PROVE  IF RulesFor(policy, id) = {} THEN FindRule(policy, id) = NoRule
         ELSE \E i \in RulesFor(policy, id) : FindRule(policy, id) = policy.rules[i]
<1>1. RulesFor(policy, id) \in SUBSET Nat
  BY DEF RulesFor
<1> QED BY <1>1, FirstIsAt DEF FindRule

LEMMA ApplyMappingTyped ==
  ASSUME NEW policy, policy.mappings \in Seq(Mapping), NEW type, NEW from
  PROVE  ApplyMapping(policy, type, from) \in Texts \cup {Absent}
<1> DEFINE matching == {i \in DOMAIN policy.mappings :
                          /\ policy.mappings[i].type = type
                          /\ NormalOf[policy.mappings[i].from] = NormalOf[from]}
<1>1. matching \in SUBSET Nat /\ \A i \in matching : policy.mappings[i] \in Mapping
  OBVIOUS
<1>2. ApplyMapping(policy, type, from) = FirstAt(policy.mappings, matching, [to |-> Absent]).to
  BY DEF ApplyMapping
<1> HIDE DEF matching
<1>3. CASE matching = {}
  BY <1>1, <1>2, <1>3, FirstIsAt
<1>4. CASE matching # {}
  BY <1>1, <1>2, <1>4, FirstIsAt DEF Mapping
<1> QED BY <1>3, <1>4

-----------------------------------------------------------------------------
(* What is shared is text. *)

SharedTexts == Texts \cup {Absent}
SharedApplication == [name : SharedTexts, title : SharedTexts]
SharedMedia == [player : SharedTexts \cup Ids, title : SharedTexts, artist : SharedTexts]

LEMMA NormalTextTyped ==
  ASSUME NEW text \in CapturedTexts PROVE NormalText(text) \in SharedTexts
BY DEF CapturedTexts, SharedTexts, NormalText

LEMMA AliasTyped ==
  ASSUME NEW policy \in Policy, NEW id
  PROVE  NormalText(FindRule(policy, id).alias) \in SharedTexts
<1>1. policy.rules \in Seq(Rule)
  BY DEF Policy
<1>2. FindRule(policy, id) \in Rule \/ FindRule(policy, id) = NoRule
  BY <1>1, FindRuleIs DEF RulesFor
<1>3. FindRule(policy, id).alias \in CapturedTexts
  BY <1>2 DEF Rule, NoRule, CapturedTexts
<1> QED BY <1>3, NormalTextTyped

LEMMA ApplicationTyped ==
  ASSUME NEW policy \in Policy, NEW info \in Foregrounds \cup {Nothing}
  PROVE  ApplicationPresence(policy, info) \in SharedApplication
<1>0. Nothing \in SharedApplication
  BY DEF Nothing, SharedApplication, SharedTexts
<1>1. SUFFICES ASSUME info \in Foregrounds
               PROVE  SanitizeApplication(policy, info) \in SharedApplication
  BY <1>0 DEF ApplicationPresence
<1>2. NormalText(info.name) \in SharedTexts /\ NormalText(info.title) \in SharedTexts
  BY <1>1, PolicyAssumption, NormalTextTyped DEF PolicyAssumption, Foreground
<1> DEFINE mapped == NormalText(ApplyMapping(policy, "process_name", info.app_id))
           alias == ProcessDecision(policy, info.app_id).alias
           name == OrElse(alias, OrElse(mapped, NormalText(info.name)))
           title == IF /\ ProcessDecision(policy, info.app_id).shares_window_title
                       /\ policy.share_window_titles
                    THEN NormalText(info.title) ELSE Absent
<1>3. mapped \in SharedTexts
  <2>1. policy.mappings \in Seq(Mapping)
    BY DEF Policy
  <2> QED BY <2>1, ApplyMappingTyped, NormalTextTyped DEF CapturedTexts
<1>4. alias \in SharedTexts
  BY AliasTyped DEF ProcessDecision, SharedTexts
<1>5. name \in SharedTexts /\ title \in SharedTexts
  BY <1>2, <1>3, <1>4 DEF OrElse, SharedTexts
<1>6. SanitizeApplication(policy, info) \in {Nothing, [name |-> name, title |-> title]}
  BY DEF SanitizeApplication
<1> HIDE DEF name, title
<1> QED BY <1>0, <1>5, <1>6 DEF SharedApplication

LEMMA MediaTyped ==
  ASSUME NEW policy \in Policy, NEW raw \in Medias \cup {NoMedia}
  PROVE  MediaPresence(policy, raw) \in SharedMedia
<1>0. NoMedia \in SharedMedia
  BY DEF NoMedia, SharedMedia, SharedTexts
<1>1. SUFFICES ASSUME raw \in Medias PROVE SanitizeMedia(policy, raw) \in SharedMedia
  BY <1>0 DEF MediaPresence
<1> DEFINE title == NormalText(raw.title)
           artist == NormalText(raw.artist)
           alias == MediaDecision(policy, raw).alias
           mapped == NormalText(MappedPlayer(policy, raw.player))
           player == OrElse(alias, OrElse(mapped, raw.player))
<1>2. title \in SharedTexts /\ artist \in SharedTexts /\ raw.player \in SharedTexts \cup Ids
  BY <1>1, PolicyAssumption, NormalTextTyped DEF PolicyAssumption, Media, SharedTexts
<1>3. alias \in SharedTexts
  <2>1. /\ \A id : NormalText(FindRule(policy, id).alias) \in SharedTexts
        /\ NormalText(NoRule.alias) \in SharedTexts /\ Absent \in SharedTexts
    BY AliasTyped DEF NoRule, SharedTexts, NormalText
  <2> QED BY <2>1 DEF MediaDecision, FindRuleByPlayerName
<1>4. mapped \in SharedTexts
  <2>1. policy.mappings \in Seq(Mapping)
    BY DEF Policy
  <2>2. MappedPlayer(policy, raw.player) \in SharedTexts
    BY <2>1, ApplyMappingTyped DEF MappedPlayer, OrElse, SharedTexts
  <2> QED BY <2>2, NormalTextTyped DEF CapturedTexts, SharedTexts
<1>5. player \in SharedTexts \cup Ids
  BY <1>2, <1>3, <1>4 DEF OrElse
<1>6. SanitizeMedia(policy, raw)
        \in {NoMedia, [player |-> player, title |-> title, artist |-> artist]}
  BY DEF SanitizeMedia
<1> HIDE DEF player, title, artist
<1> QED BY <1>0, <1>2, <1>5, <1>6 DEF SharedMedia

-----------------------------------------------------------------------------
(* The policy keeps its type, and one rule per appId, whatever the page    *)
(* sends.                                                                  *)

PolicyOK(policy) == policy \in Policy /\ RulesAreKeyed(policy)

LEMMA SetToSeqIs ==
  ASSUME NEW S, IsFiniteSet(S)
  PROVE  /\ SetToSeq(S) \in Seq(S)
         /\ \A i, j \in DOMAIN SetToSeq(S) : SetToSeq(S)[i] = SetToSeq(S)[j] => i = j
<1>1. Cardinality(S) \in Nat /\ Bijection(1..Cardinality(S), S) # {}
  BY FS_CardinalityType DEF ExistsBijection
<1>2. \E f \in [1..Cardinality(S) -> S] : IsInjective(f)
  BY <1>1 DEF Bijection, Injection
<1>3. SetToSeq(S) \in [1..Cardinality(S) -> S] /\ IsInjective(SetToSeq(S))
  BY <1>2 DEF SetToSeq
<1> QED BY <1>1, <1>3 DEF IsInjective

LEMMA RulesFinite == ASSUME NEW seq \in Seq(Rule) PROVE IsFiniteSet(Range(seq))
<1>1. seq \in Seq(Range(seq))
  BY DEF Range
<1>2. \A x \in Range(seq) : \E n \in 1..Len(seq) : seq[n] = x
  BY DEF Range
<1> QED BY <1>1, <1>2 DEF IsFiniteSet

LEMMA StoredRulesKept ==
  ASSUME PolicyOK(privacy), NEW rules \in SUBSET Rule, IsFiniteSet(rules),
         \A r \in rules : NormalOf[r.app_id] = r.app_id,
         \A r, q \in rules : r.app_id = q.app_id => r = q
  PROVE  PolicyOK([privacy EXCEPT !.rules = SetToSeq(rules)])
<1> DEFINE seq == SetToSeq(rules)
           policy == [privacy EXCEPT !.rules = seq]
<1>1. /\ seq \in Seq(rules)
      /\ \A i, j \in DOMAIN seq : seq[i] = seq[j] => i = j
  BY SetToSeqIs
<1> HIDE DEF seq
<1>2. seq \in Seq(Rule) /\ \A i \in DOMAIN seq : seq[i] \in rules
  BY <1>1
<1>3. policy \in Policy /\ policy.rules = seq
  BY <1>2 DEF PolicyOK, Policy
<1>4. RulesAreKeyed(policy)
  BY <1>1, <1>2, <1>3 DEF RulesAreKeyed
<1> QED BY <1>3, <1>4 DEF PolicyOK, seq

LEMMA WithoutRuleIs ==
  ASSUME PolicyOK(privacy), NEW id
  PROVE  /\ WithoutRule(id) \in SUBSET Rule /\ IsFiniteSet(WithoutRule(id))
         /\ \A r \in WithoutRule(id) : NormalOf[r.app_id] = r.app_id /\ r.app_id # id
         /\ \A r, q \in WithoutRule(id) : r.app_id = q.app_id => r = q
<1>1. privacy.rules \in Seq(Rule)
  BY DEF PolicyOK, Policy
<1>2. WithoutRule(id) \subseteq Range(privacy.rules) /\ IsFiniteSet(Range(privacy.rules))
  BY <1>1, RulesFinite DEF WithoutRule
<1>3. IsFiniteSet(WithoutRule(id))
  BY <1>2, FS_Subset
<1>4. \A r \in WithoutRule(id) : r.app_id # id /\ \E i \in DOMAIN privacy.rules : r = privacy.rules[i]
  BY DEF WithoutRule, Range
<1>5. \A r \in WithoutRule(id) : r \in Rule
  BY <1>1, <1>4
<1> QED BY <1>3, <1>4, <1>5 DEF PolicyOK, RulesAreKeyed

LEMMA UpsertKeeps ==
  ASSUME PolicyOK(privacy), NEW rule \in Rule, UpsertRule(rule) PROVE PolicyOK(privacy')
<1> DEFINE normal == NormalizedRule(rule)
           others == WithoutRule(normal.app_id)
           rules == IF IsEmptyRule(normal) THEN others ELSE others \cup {normal}
<1>1. /\ normal \in Rule /\ NormalOf[normal.app_id] = normal.app_id
  BY PolicyAssumption DEF PolicyAssumption, NormalizedRule, NormalText, Rule
<1>2. /\ others \in SUBSET Rule /\ IsFiniteSet(others)
      /\ \A r \in others : NormalOf[r.app_id] = r.app_id /\ r.app_id # normal.app_id
      /\ \A r, q \in others : r.app_id = q.app_id => r = q
  BY WithoutRuleIs
<1>3. privacy' = [privacy EXCEPT !.rules = SetToSeq(rules)]
  BY DEF UpsertRule, StoreRules, Edit
<1>4. IsFiniteSet(others \cup {normal})
  BY <1>2, FS_AddElement
<1> HIDE DEF normal, others
<1>5. /\ rules \in SUBSET Rule /\ IsFiniteSet(rules)
      /\ \A r \in rules : NormalOf[r.app_id] = r.app_id
      /\ \A r, q \in rules : r.app_id = q.app_id => r = q
  BY <1>1, <1>2, <1>4
<1> HIDE DEF rules
<1> QED BY <1>3, <1>5, StoredRulesKept

LEMMA PolicyStep ==
  ASSUME PolicyOK(privacy), edits \in 0..MaxEdits, PolicyNext
  PROVE  PolicyOK(privacy') /\ edits' \in 0..MaxEdits
<1>1. edits' \in 0..MaxEdits
  <2>1. edits < MaxEdits /\ edits' = edits + 1
    BY Zenon
       DEF PolicyNext, SetSources, SetPrivacy, SetMappings, UpsertRule, DeleteRule, StoreRules, Edit
  <2> QED BY <2>1, PolicyAssumption DEF PolicyAssumption
<1>0. privacy \in Policy
  BY DEF PolicyOK
<1>2. ASSUME privacy' \in Policy, privacy'.rules = privacy.rules PROVE PolicyOK(privacy')
  BY <1>2 DEF PolicyOK, RulesAreKeyed
<1>3. CASE SetSources
  <2>1. PICK application \in BOOLEAN, media \in BOOLEAN :
          privacy' = [privacy EXCEPT !.sources = [application |-> application, media |-> media]]
    BY <1>3 DEF SetSources, Edit
  <2>2. privacy' \in Policy /\ privacy'.rules = privacy.rules
    BY <1>0, <2>1 DEF Policy
  <2> QED BY <1>1, <1>2, <2>2
<1>4. CASE SetPrivacy
  <2>1. ASSUME NEW field \in {"application", "window_title", "media"},
               NEW value \in {"share", "hide"},
               Edit([privacy EXCEPT !.defaults[field] = value])
        PROVE  PolicyOK(privacy')
    <3>1. privacy.defaults \in [application : {"share", "hide"}, window_title : {"share", "hide"},
                                media : {"share", "hide"}]
      BY DEF PolicyOK, Policy
    <3>2. [privacy.defaults EXCEPT ![field] = value]
            \in [application : {"share", "hide"}, window_title : {"share", "hide"},
                 media : {"share", "hide"}]
      BY <3>1
    <3>3. [privacy EXCEPT !.defaults[field] = value]
            = [privacy EXCEPT !.defaults = [privacy.defaults EXCEPT ![field] = value]]
      OBVIOUS
    <3>4. privacy' \in Policy /\ privacy'.rules = privacy.rules
      BY <1>0, <2>1, <3>2, <3>3 DEF Edit, Policy
    <3> QED BY <1>2, <3>4
  <2>2. ASSUME NEW value \in BOOLEAN,
               \/ Edit([privacy EXCEPT !.share_window_titles = value])
               \/ Edit([privacy EXCEPT !.ignore_null_artist = value])
        PROVE  PolicyOK(privacy')
    <3>1. /\ [privacy EXCEPT !.share_window_titles = value] \in Policy
          /\ [privacy EXCEPT !.share_window_titles = value].rules = privacy.rules
          /\ [privacy EXCEPT !.ignore_null_artist = value] \in Policy
          /\ [privacy EXCEPT !.ignore_null_artist = value].rules = privacy.rules
      BY <1>0 DEF Policy
    <3>2. privacy' \in Policy /\ privacy'.rules = privacy.rules
      BY <2>2, <3>1 DEF Edit
    <3> QED BY <1>2, <3>2
  <2> QED BY <1>1, <1>4, <2>1, <2>2 DEF SetPrivacy
<1>5. CASE SetMappings
  <2>1. PICK list \in MappingLists : Edit([privacy EXCEPT !.mappings = list])
    BY <1>5 DEF SetMappings
  <2>2. list \in Seq(Mapping)
    BY PolicyAssumption DEF PolicyAssumption
  <2>3. /\ [privacy EXCEPT !.mappings = list] \in Policy
        /\ [privacy EXCEPT !.mappings = list].rules = privacy.rules
    BY <1>0, <2>2 DEF Policy
  <2>4. privacy' \in Policy /\ privacy'.rules = privacy.rules
    BY <2>1, <2>3 DEF Edit
  <2> QED BY <1>1, <1>2, <2>4
<1>6. ASSUME NEW rule \in RuleEdits, UpsertRule(rule) PROVE PolicyOK(privacy')
  BY <1>6, UpsertKeeps, PolicyAssumption DEF PolicyAssumption
<1>7. ASSUME NEW id, DeleteRule(id) PROVE PolicyOK(privacy')
  <2>1. privacy' = [privacy EXCEPT !.rules = SetToSeq(WithoutRule(id))]
    BY <1>7 DEF DeleteRule, StoreRules, Edit
  <2> QED BY <2>1, WithoutRuleIs, StoredRulesKept
<1> QED BY <1>1, <1>3, <1>4, <1>5, <1>6, <1>7 DEF PolicyNext

LEMMA PolicyInitOK == PolicyInit => PolicyOK(privacy) /\ edits \in 0..MaxEdits
BY PolicyAssumption DEF PolicyAssumption, PolicyInit, PolicyOK

-----------------------------------------------------------------------------
(* Captures while the policy is edited. *)

PoliciesOK == {p \in Policy : RulesAreKeyed(p)}

Capture == [pc : {"idle", "reading", "filtering", "session", "application", "done"},
            raw : Medias \cup {NoMedia}, media : SharedMedia, session : 0..MaxSessions,
            info : Foregrounds \cup {Nothing}, application : SharedApplication]

(* What a call has so far was filtered by a policy that is in force for it, *)
(* and the one of now is among these until it is done.                     *)
FilteredInForce(call_of, policies) ==
  /\ call_of.pc = "idle" => call_of = IdleCapture
  /\ call_of.pc \notin {"idle", "done"} => privacy \in policies
  /\ call_of.pc \in {"session", "application", "done"} /\ call_of.media # NoMedia =>
       \E p \in policies : call_of.media = MediaPresence(p, call_of.raw)
  /\ call_of.pc = "done" =>
       \E p \in policies : call_of.application = ApplicationPresence(p, call_of.info)

(* Ids are minted upwards; what has ended is history of the tracker.       *)
SessionsEnd ==
  /\ minted \in 0..MaxSessions /\ closed \subseteq 1..minted
  /\ tracker \in [identity : SharedMedia, session : 0..minted]
  /\ tracker.session \notin closed

CapturesFiltered ==
  /\ PolicyOK(privacy) /\ edits \in 0..MaxEdits
  /\ capture \in [Captures -> Capture]
  /\ in_force \in [Captures -> SUBSET PoliciesOK]
  /\ \A c \in Captures : FilteredInForce(capture[c], in_force[c])

CaptureInv == CapturesFiltered /\ SessionsEnd

LEMMA Nothings ==
  /\ NoMedia \in SharedMedia /\ Nothing \in SharedApplication
  /\ IdleCapture \in Capture /\ NoIdentity \in [identity : SharedMedia, session : {0}]
<1>1. NoMedia \in SharedMedia /\ Nothing \in SharedApplication
  BY DEF NoMedia, SharedMedia, SharedTexts, Nothing, SharedApplication
<1>2. 0 \in 0..MaxSessions
  BY CaptureAssumption DEF CaptureAssumption
<1> QED BY <1>1, <1>2 DEF IdleCapture, Capture, NoIdentity

(* A call that moves on.                                                   *)
LEMMA CallMoves ==
  ASSUME CapturesFiltered, NEW c \in Captures, NEW r \in Capture, NEW policies \in SUBSET PoliciesOK,
         capture' = [capture EXCEPT ![c] = r], in_force' = [in_force EXCEPT ![c] = policies],
         FilteredInForce(r, policies), UNCHANGED policy_vars
  PROVE  CapturesFiltered'
<1>1. PolicyOK(privacy)' /\ (edits \in 0..MaxEdits)'
  BY DEF CapturesFiltered, policy_vars, PolicyOK, RulesAreKeyed
<1>2. capture' \in [Captures -> Capture] /\ in_force' \in [Captures -> SUBSET PoliciesOK]
  BY DEF CapturesFiltered
<1>3. \A d \in Captures : FilteredInForce(capture[d], in_force[d])'
  <2> TAKE d \in Captures
  <2>1. /\ capture'[d] = IF d = c THEN r ELSE capture[d]
        /\ in_force'[d] = IF d = c THEN policies ELSE in_force[d]
    BY DEF CapturesFiltered
  <2>2. FilteredInForce(capture'[d], in_force'[d])
    BY <2>1 DEF CapturesFiltered
  <2> QED BY <2>2 DEF FilteredInForce, policy_vars
<1> QED BY <1>1, <1>2, <1>3 DEF CapturesFiltered

LEMMA CallKeepsForce ==
  ASSUME CapturesFiltered, NEW c \in Captures, NEW r \in Capture,
         capture' = [capture EXCEPT ![c] = r], in_force' = in_force,
         FilteredInForce(r, in_force[c]), UNCHANGED policy_vars
  PROVE  CapturesFiltered'
<1>1. in_force[c] \in SUBSET PoliciesOK /\ in_force' = [in_force EXCEPT ![c] = in_force[c]]
  BY DEF CapturesFiltered
<1> QED BY <1>1, CallMoves

LEMMA CapturesFilteredStep ==
  ASSUME CapturesFiltered, SessionsEnd', [CaptureNext]_<<policy_vars, capture_vars>>
  PROVE  CapturesFiltered'
<1>0. /\ privacy \in PoliciesOK
      /\ \A c \in Captures : capture[c] \in Capture /\ FilteredInForce(capture[c], in_force[c])
  BY DEF CapturesFiltered, PolicyOK, PoliciesOK
<1>1. ASSUME NEW c \in Captures, CaptureBegins(c) PROVE CapturesFiltered'
  <2>1. PICK pc \in {"reading", "application"} :
          capture' = [capture EXCEPT ![c] = [capture[c] EXCEPT !.pc = pc]]
    BY <1>1 DEF CaptureBegins
  <2>2. capture[c] = IdleCapture
    BY <1>0, <1>1 DEF CaptureBegins, FilteredInForce
  <2> DEFINE r == [capture[c] EXCEPT !.pc = pc]
  <2>3. r \in Capture /\ r.pc = pc /\ r.media = NoMedia
    BY <1>0, <2>2 DEF Capture, IdleCapture
  <2>4. in_force' = [in_force EXCEPT ![c] = {privacy}] /\ UNCHANGED policy_vars
    BY <1>1 DEF CaptureBegins
  <2>5. FilteredInForce(r, {privacy})
    BY <2>3 DEF FilteredInForce
  <2>6. capture' = [capture EXCEPT ![c] = r] /\ {privacy} \in SUBSET PoliciesOK
    BY <1>0, <2>1
  <2> HIDE DEF r
  <2> QED BY <2>3, <2>4, <2>5, <2>6, CallMoves
<1>2. ASSUME NEW c \in Captures, MediaAnswers(c) PROVE CapturesFiltered'
  <2>1. PICK raw \in Medias \cup {NoMedia} :
          capture' = [capture EXCEPT ![c] = [capture[c] EXCEPT !.pc = "filtering", !.raw = raw]]
    BY <1>2 DEF MediaAnswers
  <2> DEFINE r == [capture[c] EXCEPT !.pc = "filtering", !.raw = raw]
  <2>3. r \in Capture /\ r.pc = "filtering"
    BY <1>0 DEF Capture
  <2>4. in_force' = [in_force EXCEPT ![c] = {privacy}] /\ UNCHANGED policy_vars
    BY <1>2 DEF MediaAnswers
  <2>5. FilteredInForce(r, {privacy})
    BY <2>3 DEF FilteredInForce
  <2>6. capture' = [capture EXCEPT ![c] = r] /\ {privacy} \in SUBSET PoliciesOK
    BY <1>0, <2>1
  <2> HIDE DEF r
  <2> QED BY <2>3, <2>4, <2>5, <2>6, CallMoves
<1>3. ASSUME NEW c \in Captures, FilterMedia(c) PROVE CapturesFiltered'
  <2> DEFINE shared == MediaPresence(privacy, capture[c].raw)
             r == [capture[c] EXCEPT !.pc = "session", !.media = shared]
  <2>1. capture' = [capture EXCEPT ![c] = r] /\ in_force' = in_force /\ UNCHANGED policy_vars
    BY <1>3 DEF FilterMedia
  <2>2. shared \in SharedMedia
    BY <1>0, MediaTyped DEF PoliciesOK, Capture
  <2>3. r \in Capture /\ r.pc = "session" /\ r.media = shared /\ r.raw = capture[c].raw
    BY <1>0, <2>2 DEF Capture
  <2>4. privacy \in in_force[c]
    BY <1>0, <1>3 DEF FilterMedia, FilteredInForce
  <2> HIDE DEF r
  <2>5. FilteredInForce(r, in_force[c])
    BY <2>3, <2>4 DEF FilteredInForce
  <2> QED BY <2>1, <2>3, <2>5, CallKeepsForce
<1>4. ASSUME NEW c \in Captures, TakeSession(c) PROVE CapturesFiltered'
  <2> DEFINE id == IF capture[c].media = NoMedia THEN 0 ELSE tracker'.session
             r == [capture[c] EXCEPT !.pc = "application", !.session = id]
  <2>1. capture' = [capture EXCEPT ![c] = r] /\ in_force' = in_force /\ UNCHANGED policy_vars
    BY <1>4 DEF TakeSession
  <2>2. id \in 0..MaxSessions
    BY CaptureAssumption DEF CaptureAssumption, SessionsEnd
  <2> HIDE DEF id
  <2>3. r \in Capture /\ r.pc = "application" /\ r.media = capture[c].media
        /\ r.raw = capture[c].raw
    BY <1>0, <2>2 DEF Capture
  <2>4. capture[c].pc = "session"
    BY <1>4 DEF TakeSession
  <2> HIDE DEF r
  <2>5. FilteredInForce(r, in_force[c])
    BY <1>0, <2>3, <2>4 DEF FilteredInForce
  <2> QED BY <2>1, <2>3, <2>5, CallKeepsForce
<1>5. ASSUME NEW c \in Captures, CaptureApplication(c) PROVE CapturesFiltered'
  <2>1. PICK info \in Foregrounds \cup {Nothing} :
          capture' = [capture EXCEPT ![c] = [capture[c] EXCEPT !.pc = "done", !.info = info,
                                             !.application = ApplicationPresence(privacy, info)]]
    BY <1>5 DEF CaptureApplication
  <2> DEFINE shared == ApplicationPresence(privacy, info)
             r == [capture[c] EXCEPT !.pc = "done", !.info = info, !.application = shared]
  <2>2. shared \in SharedApplication
    BY <1>0, ApplicationTyped DEF PoliciesOK
  <2>3. /\ capture' = [capture EXCEPT ![c] = r] /\ in_force' = in_force /\ UNCHANGED policy_vars
        /\ capture[c].pc = "application"
    BY <1>5, <2>1 DEF CaptureApplication
  <2> HIDE DEF shared
  <2>4. /\ r \in Capture /\ r.pc = "done" /\ r.info = info /\ r.application = shared
        /\ r.media = capture[c].media /\ r.raw = capture[c].raw
    BY <1>0, <2>2 DEF Capture
  <2> HIDE DEF r
  <2>5. FilteredInForce(r, in_force[c])
    BY <1>0, <2>3, <2>4 DEF FilteredInForce, shared
  <2> QED BY <2>3, <2>4, <2>5, CallKeepsForce
<1>6. ASSUME NEW c \in Captures, CaptureReturns(c) PROVE CapturesFiltered'
  <2>1. /\ capture' = [capture EXCEPT ![c] = IdleCapture]
        /\ in_force' = [in_force EXCEPT ![c] = {}] /\ UNCHANGED policy_vars
    BY <1>6 DEF CaptureReturns
  <2>2. FilteredInForce(IdleCapture, {})
    BY DEF FilteredInForce, IdleCapture
  <2> QED BY <2>1, <2>2, Nothings, CallMoves
<1>7. CASE PolicyEdited
  <2>1. PolicyOK(privacy') /\ edits' \in 0..MaxEdits /\ capture' = capture
    BY <1>7, PolicyStep DEF PolicyEdited, CapturesFiltered
  <2>2. \A c \in Captures :
          in_force'[c] = IF capture[c].pc \in {"idle", "done"} THEN in_force[c]
                         ELSE in_force[c] \cup {privacy'}
    BY <1>7 DEF PolicyEdited
  <2>3. in_force' \in [Captures -> SUBSET PoliciesOK]
    BY <1>7, <2>1 DEF PolicyEdited, CapturesFiltered, PolicyOK, PoliciesOK
  <2>4. \A c \in Captures : FilteredInForce(capture[c], in_force[c])'
    BY <1>0, <2>1, <2>2 DEF FilteredInForce
  <2>5. PolicyOK(privacy)'
    BY <2>1 DEF PolicyOK, RulesAreKeyed
  <2> QED BY <2>1, <2>3, <2>4, <2>5 DEF CapturesFiltered
<1>8. CASE ResetContinuity \/ UNCHANGED <<policy_vars, capture_vars>>
  BY <1>8
     DEF ResetContinuity, capture_vars, policy_vars, CapturesFiltered, FilteredInForce, PolicyOK,
         RulesAreKeyed
<1> QED BY <1>1, <1>2, <1>3, <1>4, <1>5, <1>6, <1>7, <1>8 DEF CaptureNext

(* The session of a media that is shared is one that has not ended.        *)
LEMMA SessionsEndStep ==
  ASSUME CapturesFiltered, SessionsEnd, [CaptureNext]_<<policy_vars, capture_vars>>
  PROVE  SessionsEnd'
<1>0. /\ minted \in 0..MaxSessions /\ minted \in Nat /\ MaxSessions \in Nat
      /\ tracker.session \in 0..minted
  BY CaptureAssumption DEF CaptureAssumption, SessionsEnd
<1>1. ASSUME ResetTracker, EndSessions, UNCHANGED minted PROVE SessionsEnd'
  <2>1. tracker' \in [identity : SharedMedia, session : {0}]
    BY <1>1, Nothings DEF ResetTracker
  <2> QED BY <1>0, <1>1, <2>1 DEF SessionsEnd, EndSessions
<1>2. ASSUME NEW c \in Captures, CaptureBegins(c) PROVE SessionsEnd'
  <2>1. minted' = minted /\ (UNCHANGED <<tracker, closed>> \/ (ResetTracker /\ EndSessions))
    BY <1>2 DEF CaptureBegins
  <2> QED BY <1>1, <2>1 DEF SessionsEnd
<1>3. ASSUME NEW c \in Captures, TakeSession(c) PROVE SessionsEnd'
  <2>0. capture[c].media \in SharedMedia
    BY DEF CapturesFiltered, Capture
  <2>1. CASE capture[c].media = NoMedia
    BY <1>1, <1>3, <2>1 DEF TakeSession, SessionOf, EndSessions
  <2>2. CASE capture[c].media # NoMedia /\ UNCHANGED <<tracker, minted>>
    BY <1>3, <2>2 DEF TakeSession, SessionsEnd
  <2>3. CASE /\ capture[c].media # NoMedia /\ minted < MaxSessions /\ minted' = minted + 1
             /\ tracker' = [identity |-> capture[c].media, session |-> minted']
    <3>1. closed' = closed /\ closed \subseteq 1..minted
      BY <1>3, <2>3 DEF TakeSession, SessionsEnd
    <3>2. /\ minted' \in 0..MaxSessions /\ tracker'.session = minted + 1
          /\ tracker' \in [identity : SharedMedia, session : 0..minted']
      BY <1>0, <2>0, <2>3
    <3> QED BY <1>0, <2>3, <3>1, <3>2 DEF SessionsEnd
  <2> QED BY <1>3, <2>1, <2>2, <2>3 DEF TakeSession, SessionOf
<1>4. CASE ResetContinuity
  BY <1>1, <1>4 DEF ResetContinuity
<1>5. ASSUME UNCHANGED <<tracker, minted, closed>> PROVE SessionsEnd'
  BY <1>5 DEF SessionsEnd
<1> QED
  BY <1>2, <1>3, <1>4, <1>5
     DEF CaptureNext, MediaAnswers, FilterMedia, CaptureApplication, CaptureReturns, PolicyEdited,
         capture_vars

LEMMA CaptureInvInit == CaptureInit => CaptureInv
<1> SUFFICES ASSUME CaptureInit PROVE CaptureInv
  OBVIOUS
<1>1. CapturesFiltered
  BY PolicyInitOK, Nothings DEF CaptureInit, CapturesFiltered, FilteredInForce, IdleCapture
<1>2. SessionsEnd
  <2>1. tracker = NoIdentity /\ minted = 0 /\ closed = {} /\ 0 \in 0..MaxSessions
    BY CaptureAssumption DEF CaptureAssumption, CaptureInit
  <2> QED BY <2>1, Nothings DEF SessionsEnd
<1> QED BY <1>1, <1>2 DEF CaptureInv

LEMMA CaptureInvHolds == CaptureSpec => []CaptureInv
<1>1. CaptureInv /\ [CaptureNext]_<<policy_vars, capture_vars>> => CaptureInv'
  BY SessionsEndStep, CapturesFilteredStep DEF CaptureInv
<1> QED BY <1>1, CaptureInvInit, PTL DEF CaptureSpec

(* The policy stays a policy with one rule per appId, what is shared is    *)
(* normalised text and the tracker's id is one that was minted.            *)
THEOREM CaptureTypeCorrect == CaptureSpec => []CaptureTypeOK
<1>1. CaptureInv => CaptureTypeOK
  <2> SUFFICES ASSUME CaptureInv PROVE CaptureTypeOK
    OBVIOUS
  <2>1. minted \in 0..MaxSessions /\ closed \subseteq 1..MaxSessions /\ tracker.session \in 0..minted
    BY CaptureAssumption DEF CaptureAssumption, CaptureInv, SessionsEnd
  <2>2. privacy \in Policy /\ RulesAreKeyed(privacy) /\ edits \in 0..MaxEdits
    BY DEF CaptureInv, CapturesFiltered, PolicyOK
  <2>3. \A c \in Captures : capture[c] \in Capture /\ in_force[c] \subseteq Policy
    BY DEF CaptureInv, CapturesFiltered, PoliciesOK
  <2> QED
    BY <2>1, <2>2, <2>3
       DEF CaptureTypeOK, Capture, SharedMedia, SharedApplication, SharedTexts
<1> QED BY <1>1, CaptureInvHolds, PTL

(* Media that was paused, hidden or dropped, or a new generation, ends the *)
(* session: no later capture carries its id, also when captures overlap.   *)
THEOREM ClosedSessionsStayClosedHolds == CaptureSpec => ClosedSessionsStayClosed
<1>1. CaptureInv /\ [CaptureNext]_<<policy_vars, capture_vars>>
        => [\A c \in Captures :
              capture'[c].session # capture[c].session /\ capture'[c].session # 0
                => capture'[c].session \notin closed]_capture_vars
  <2> SUFFICES ASSUME CaptureInv, CaptureNext, NEW c \in Captures,
                      capture'[c].session # capture[c].session, capture'[c].session # 0
               PROVE  capture'[c].session \notin closed
    BY DEF capture_vars
  <2>0. capture \in [Captures -> Capture] /\ SessionsEnd
    BY DEF CaptureInv, CapturesFiltered
  <2>1. ASSUME NEW d \in Captures, TakeSession(d) PROVE capture'[c].session \notin closed
    <3>1. /\ capture'[c].session = tracker'.session /\ capture[d].media # NoMedia /\ c = d
      BY <2>0, <2>1 DEF TakeSession, Capture
    <3>2. CASE UNCHANGED tracker
      BY <2>0, <3>1, <3>2 DEF SessionsEnd
    <3>3. CASE tracker' = [identity |-> capture[d].media, session |-> minted + 1]
      BY <2>0, <3>1, <3>3, CaptureAssumption DEF CaptureAssumption, SessionsEnd
    <3> QED BY <2>1, <3>1, <3>2, <3>3 DEF TakeSession, SessionOf
  <2>2. ASSUME NEW d \in Captures,
               \/ CaptureBegins(d) \/ MediaAnswers(d) \/ FilterMedia(d) \/ CaptureApplication(d)
               \/ CaptureReturns(d)
        PROVE  FALSE
    <3>1. capture[d] \in Capture /\ IdleCapture.session = 0
      BY <2>0 DEF IdleCapture
    <3>2. CASE CaptureReturns(d)
      BY <2>0, <3>1, <3>2 DEF CaptureReturns
    <3>3. CASE CaptureBegins(d)
      BY <2>0, <3>1, <3>3 DEF CaptureBegins, Capture
    <3>4. CASE MediaAnswers(d)
      BY <2>0, <3>1, <3>4 DEF MediaAnswers, Capture
    <3>5. CASE FilterMedia(d)
      BY <2>0, <3>1, <3>5 DEF FilterMedia, Capture
    <3>6. CASE CaptureApplication(d)
      BY <2>0, <3>1, <3>6 DEF CaptureApplication, Capture
    <3> QED BY <2>2, <3>2, <3>3, <3>4, <3>5, <3>6
  <2>3. CASE PolicyEdited \/ ResetContinuity
    BY <2>3 DEF PolicyEdited, ResetContinuity
  <2> QED BY <2>1, <2>2, <2>3 DEF CaptureNext
<1> QED BY <1>1, CaptureInvHolds, PTL DEF CaptureSpec, ClosedSessionsStayClosed

-----------------------------------------------------------------------------
(* What is shared was permitted by the rules as the page shows them. *)

LEMMA ShareIsSaid ==
  ASSUME NEW policy \in PoliciesOK, NEW id, NEW field \in {"application", "window_title", "media"},
         ResolveOverride(FindRule(policy, id)[field], policy.defaults[field]) = "share"
  PROVE  Says(policy, id, field, "share")
<1>0. /\ policy.rules \in Seq(Rule) /\ \A i \in DOMAIN policy.rules : policy.rules[i] \in Rule
      /\ NormalOf \in [Ids -> Ids]
  BY PolicyAssumption DEF PolicyAssumption, PoliciesOK, Policy
<1>1. \A i \in DOMAIN policy.rules :
        policy.rules[i].app_id = NormalOf[id] <=> i \in RulesFor(policy, id)
  BY <1>0 DEF PoliciesOK, RulesAreKeyed, RulesFor
<1>2. \A i, j \in RulesFor(policy, id) : i = j
  BY <1>1 DEF PoliciesOK, RulesAreKeyed, RulesFor
<1>3. CASE RulesFor(policy, id) = {}
  <2>1. FindRule(policy, id) = NoRule /\ NoRule[field] = "inherit"
    BY <1>0, <1>3, FindRuleIs DEF NoRule
  <2> QED BY <1>1, <1>3, <2>1 DEF Says, ResolveOverride
<1>4. CASE RulesFor(policy, id) # {}
  <2>1. PICK i \in RulesFor(policy, id) : FindRule(policy, id) = policy.rules[i]
    BY <1>0, <1>4, FindRuleIs
  <2>2. i \in DOMAIN policy.rules /\ policy.rules[i].app_id = NormalOf[id]
    BY <1>1, <2>1 DEF RulesFor
  <2>3. CASE policy.rules[i][field] = "inherit"
    BY <1>1, <1>2, <2>1, <2>2, <2>3 DEF Says, ResolveOverride
  <2>4. CASE policy.rules[i][field] # "inherit"
    BY <2>1, <2>2, <2>4 DEF Says, ResolveOverride
  <2> QED BY <2>3, <2>4
<1> QED BY <1>3, <1>4

LEMMA MediaIsPermitted ==
  ASSUME NEW policy \in PoliciesOK, NEW raw, MediaPresence(policy, raw) # NoMedia
  PROVE  PermitsMedia(policy, raw)
<1>1. /\ policy.sources.media /\ raw.playing /\ MediaDecision(policy, raw).shares_media
      /\ policy.ignore_null_artist => NormalText(raw.artist) # Absent
  BY DEF MediaPresence, SanitizeMedia
<1>2. ASSUME raw.app_id # Absent PROVE Says(policy, raw.app_id, "media", "share")
  <2>1. ResolveOverride(FindRule(policy, raw.app_id).media, policy.defaults.media) = "share"
    BY <1>1, <1>2 DEF MediaDecision
  <2> QED BY <2>1, ShareIsSaid
<1> QED BY <1>1, <1>2 DEF PermitsMedia

LEMMA ApplicationIsPermitted ==
  ASSUME NEW policy \in PoliciesOK, NEW info, ApplicationPresence(policy, info) # Nothing
  PROVE  PermitsApplication(policy, info, ApplicationPresence(policy, info))
<1> DEFINE decision == ProcessDecision(policy, info.app_id)
           shown == ApplicationPresence(policy, info)
<1>1. /\ policy.sources.application /\ decision.shares_application
      /\ shown = SanitizeApplication(policy, info)
  BY DEF ApplicationPresence, SanitizeApplication
<1>2. shown.title # Absent => decision.shares_window_title /\ policy.share_window_titles
  BY <1>1 DEF SanitizeApplication, Nothing
<1>3. Says(policy, info.app_id, "application", "share")
  <2>1. ResolveOverride(FindRule(policy, info.app_id).application,
                        policy.defaults.application) = "share"
    BY <1>1 DEF ProcessDecision
  <2> QED BY <2>1, ShareIsSaid
<1>4. ASSUME decision.shares_window_title
      PROVE  Says(policy, info.app_id, "window_title", "share")
  <2>1. ResolveOverride(FindRule(policy, info.app_id).window_title,
                        policy.defaults.window_title) = "share"
    BY <1>4 DEF ProcessDecision
  <2> QED BY <2>1, ShareIsSaid
<1> QED BY <1>1, <1>2, <1>3, <1>4 DEF PermitsApplication

(* A policy tightened while the media was awaited applies to both sources: *)
(* what a capture shares is permitted, by the rules as the page shows      *)
(* them, by a policy in force after the answer.                            *)
THEOREM TightenedAppliesHolds == CaptureSpec => []TightenedApplies
<1>1. CaptureInv => TightenedApplies
  <2> SUFFICES ASSUME CaptureInv, NEW c \in Captures, capture[c].pc = "done"
               PROVE  /\ capture[c].media # NoMedia =>
                           \E p \in in_force[c] : PermitsMedia(p, capture[c].raw)
                      /\ capture[c].application # Nothing =>
                           \E p \in in_force[c] :
                             PermitsApplication(p, capture[c].info, capture[c].application)
    BY DEF TightenedApplies
  <2>1. in_force[c] \subseteq PoliciesOK /\ FilteredInForce(capture[c], in_force[c])
    BY DEF CaptureInv, CapturesFiltered
  <2>2. ASSUME capture[c].media # NoMedia
        PROVE  \E p \in in_force[c] : PermitsMedia(p, capture[c].raw)
    BY <2>1, <2>2, MediaIsPermitted DEF FilteredInForce
  <2>3. ASSUME capture[c].application # Nothing
        PROVE  \E p \in in_force[c] :
                 PermitsApplication(p, capture[c].info, capture[c].application)
    <3>1. PICK p \in in_force[c] :
            capture[c].application = ApplicationPresence(p, capture[c].info)
      BY <2>1 DEF FilteredInForce
    <3> QED BY <2>1, <2>3, <3>1, ApplicationIsPermitted
  <2> QED BY <2>2, <2>3
<1> QED BY <1>1, CaptureInvHolds, PTL

-----------------------------------------------------------------------------
(* What a publish concludes of the server. *)

ServerStates == [applied : BOOLEAN, refused : BOOLEAN, accepted : {0, 1, 2}]

(* The server's own answers: it applies the request, unless it is ahead,   *)
(* or refuses it, unless it has applied it.                                *)
Applies(before, after, r) ==
  /\ before.accepted # 2 /\ after = [before EXCEPT !.applied = TRUE, !.accepted = 1]
  /\ Execute(r) = "Answer" /\ r.accepted = 1

Refuses(before, after, r) ==
  /\ ~before.applied /\ after = [before EXCEPT !.refused = TRUE]
  /\ Execute(r) \in {"Server", "PairingServer"}
  /\ r.accepted = IF before.accepted = 2 THEN 2 ELSE Unknown

LEMMA ReactionIs ==
  ASSUME NEW before \in ServerStates, NEW reaction \in Reactions(before)
  PROVE  Applies(before, reaction[1], reaction[2]) \/ Refuses(before, reaction[1], reaction[2])
<1> DEFINE accept == [NoAnswer EXCEPT !.status = 200, !.shape = "mutation", !.id = "own",
                                      !.accepted = 1]
           refusals == [status : {409, 426, 503}, shape : {"error"}, version : {"ours", "theirs"},
                        id : {"own"}, accepted : IF before.accepted = 2 THEN {2} ELSE {Unknown},
                        retryable : BOOLEAN, renegotiate : BOOLEAN]
<1>1. \/ /\ before.accepted # 2
         /\ reaction = <<[before EXCEPT !.applied = TRUE, !.accepted = 1], accept>>
      \/ /\ ~before.applied
         /\ \E r \in refusals : reaction = <<[before EXCEPT !.refused = TRUE], r>>
  BY DEF Reactions
<1>2. Execute(accept) = "Answer" /\ accept.accepted = 1
  <2>1. /\ accept.status = 200 /\ accept.shape = "mutation" /\ accept.id = "own"
        /\ accept.version = "ours" /\ accept.accepted = 1
    BY DEF NoAnswer
  <2> HIDE DEF accept
  <2> QED
    BY <2>1
       DEF Execute, Ok, DecodeMutationResponse, RefineResponseMeta, IsValidWireIdentifier,
           CheckRequestIdEcho
<1>3. ASSUME NEW r \in refusals
      PROVE  /\ Execute(r) \in {"Server", "PairingServer"}
             /\ r.accepted = IF before.accepted = 2 THEN 2 ELSE Unknown
  <2>1. /\ r.status # 0 /\ r.status # 200 /\ r.shape = "error" /\ r.id = "own"
        /\ r.accepted = IF before.accepted = 2 THEN 2 ELSE Unknown
    OBVIOUS
  <2> QED
    BY <2>1
       DEF Execute, Ok, DecodeErrorEnvelope, DecodePairingErrorEnvelope, CheckRequestIdEcho
<1> HIDE DEF accept, refusals
<1>4. CASE /\ before.accepted # 2
           /\ reaction = <<[before EXCEPT !.applied = TRUE, !.accepted = 1], accept>>
  <2>1. /\ reaction[1] = [before EXCEPT !.applied = TRUE, !.accepted = 1]
        /\ reaction[2] = accept
    BY <1>4
  <2> QED BY <1>2, <1>4, <2>1 DEF Applies
<1>5. ASSUME ~before.applied, NEW r \in refusals,
             reaction = <<[before EXCEPT !.refused = TRUE], r>>
      PROVE  Refuses(before, reaction[1], reaction[2])
  <2>1. reaction[1] = [before EXCEPT !.refused = TRUE] /\ reaction[2] = r
    BY <1>5
  <2> QED BY <1>3, <1>5, <2>1 DEF Refuses
<1> QED BY <1>1, <1>4, <1>5

(* What the network delivers instead is never taken for the server's word, *)
(* and it is safe to retry unless the request was not passed on (or it     *)
(* reads as a pairing rejection).                                          *)
LEMMA DisturbanceIs ==
  ASSUME NEW before, NEW after, NEW r \in Disturbances(before, after)
  PROVE  /\ Execute(r) \in Outcomes \ {"none", "Answer", "Server"}
         /\ ~IsSafeForRetry(Execute(r), r) /\ Execute(r) # "PairingServer" =>
              ~before.applied /\ after = before
<1> DEFINE Foreign == [status : {200, 503}, shape : {"mutation", "error"}, version : {"ours"},
                       id : {"foreign", "none"}, accepted : {2}, retryable : {FALSE},
                       renegotiate : BOOLEAN]
           Spoken(status, shape) == [NoAnswer EXCEPT !.status = status, !.shape = shape]
<1>1. \/ r = NoAnswer
      \/ \E status \in {200, 502}, shape \in {"nothing", "text"} : r = Spoken(status, shape)
      \/ r \in Foreign
      \/ /\ ~before.applied /\ after = before
         /\ \E status \in {403, 426}, shape \in {"text", "code"} : r = Spoken(status, shape)
  <2> DEFINE Gateway == {Spoken(status, shape) :
                           status \in {200, 502}, shape \in {"nothing", "text"}}
             Refused == {Spoken(status, shape) : status \in {403, 426}, shape \in {"text", "code"}}
  <2>1. Disturbances(before, after) =
          {NoAnswer} \cup Gateway \cup Foreign
            \cup (IF before.applied \/ after # before THEN {} ELSE Refused)
    BY DEF Disturbances
  <2>2. \/ r = NoAnswer \/ r \in Gateway \/ r \in Foreign
        \/ ~before.applied /\ after = before /\ r \in Refused
    <3> HIDE DEF Gateway, Refused, Foreign
    <3> QED BY <2>1
  <2> HIDE DEF Foreign, Spoken
  <2> QED BY <2>2
<1> DEFINE Wrong == Outcomes \ {"none", "Answer", "Server"}
           Safe == IsSafeForRetry(Execute(r), r)
<1>2. ASSUME r = NoAnswer PROVE Execute(r) \in Wrong /\ Safe
  <2>1. r.status = 0
    BY <1>2 DEF NoAnswer
  <2>2. Execute(r) = "Network"
    BY <2>1 DEF Execute, Ok
  <2> QED BY <2>2 DEF IsSafeForRetry, Outcomes
<1>3. ASSUME NEW status \in {200, 502}, NEW shape \in {"nothing", "text"},
             r = Spoken(status, shape)
      PROVE  Execute(r) \in Wrong /\ Safe
  <2>1. r.status = status /\ r.shape = shape
    BY <1>3 DEF NoAnswer
  <2> QED
    BY <2>1
       DEF Execute, Ok, DecodeMutationResponse, DecodeErrorEnvelope, DecodePairingErrorEnvelope,
           IsSafeForRetry, Outcomes
<1>4. ASSUME r \in Foreign
      PROVE  Execute(r) \in Wrong /\ (Safe \/ Execute(r) = "PairingServer")
  <2>1. /\ r.status \in {200, 503} /\ r.shape \in {"mutation", "error"}
        /\ r.version = "ours" /\ r.id \in {"foreign", "none"}
    BY <1>4
  <2> HIDE DEF Foreign, Spoken
  <2> QED
    BY <2>1
       DEF Execute, Ok, DecodeMutationResponse, DecodeErrorEnvelope, DecodePairingErrorEnvelope,
           RefineResponseMeta, IsValidWireIdentifier, CheckRequestIdEcho, IsSafeForRetry, Outcomes
<1>5. ASSUME NEW status \in {403, 426}, NEW shape \in {"text", "code"},
             r = Spoken(status, shape)
      PROVE  Execute(r) \in Wrong
  <2>1. r.status = status /\ r.shape = shape
    BY <1>5 DEF NoAnswer
  <2> QED
    BY <2>1
       DEF Execute, Ok, DecodeErrorEnvelope, DecodePairingErrorEnvelope, Outcomes
<1> HIDE DEF Foreign, Spoken, Wrong, Safe
<1>6. Execute(r) \in Wrong /\ (~Safe /\ Execute(r) # "PairingServer" => ~before.applied /\ after = before)
  BY <1>1, <1>2, <1>3, <1>4, <1>5
<1> QED BY <1>6 DEF Wrong, Safe

(* What BelievedIsTrue rests on: the server has applied this request just  *)
(* when the number it accepted last is this request's; nothing is believed *)
(* and nothing is applied before the request is sent; and while the first  *)
(* attempt is under way the server has not applied it.                     *)
BelievedInv ==
  /\ stage \in Stages /\ server \in ServerStates /\ learnt \in {Unknown, 1, 2}
  /\ server.applied <=> server.accepted = 1
  /\ stage \in {"offline", "ready", "captured", "unmappable", "mapped"} =>
       outcome = "none" /\ learnt = Unknown /\ ~server.applied
  /\ stage = "sent" /\ attempt = 1 => ~server.applied
  /\ BelievedIsTrue

(* What an attempt may do to the server, and what its answer may then say. *)
LEMMA AttemptKeeps ==
  ASSUME BelievedInv, stage = "sent", NEW after \in ServerStates, NEW r, AttemptEnds(after, r),
         Execute(r) \in Outcomes \ {"none"},
         after.applied <=> after.accepted = 1,
         server.applied => after.applied, server.refused => after.refused,
         server.accepted # 0 => after.accepted = server.accepted,
         Execute(r) = "Answer" => after.applied /\ r.accepted = 1,
         Execute(r) = "Server" =>
           after.refused /\ r.accepted = (IF after.accepted = 2 THEN 2 ELSE Unknown),
         \/ Execute(r) \in {"Answer", "PairingServer"} \/ IsSafeForRetry(Execute(r), r)
         \/ ~server.applied => ~after.applied
  PROVE  BelievedInv'
<1> DEFINE kind == Execute(r)
           said == AcceptedSequenceOf(kind, r)
           retry == attempt = 1 /\ IsSafeForRetry(kind, r)
<1>1. /\ server' = after /\ outcome' = kind
      /\ learnt' = IF said = Unknown THEN learnt ELSE said
      /\ attempt' = IF retry THEN 2 ELSE attempt
      /\ stage' = IF retry THEN "sent"
                  ELSE IF NeedsRenegotiation(kind, r) THEN "rejected" ELSE "ended"
  BY DEF AttemptEnds
<1>2. said \in {Unknown, 1, 2} /\ (said # Unknown => said = after.accepted)
  BY DEF AcceptedSequenceOf, Unknown, Outcomes
<1>3. learnt' \in {Unknown, 1, 2} /\ (learnt' # Unknown => learnt' = after.accepted)
  BY <1>1, <1>2 DEF BelievedInv, BelievedIsTrue, Unknown, ServerStates
<1>4. ASSUME ~retry, attempt = 1, kind \notin {"Answer", "PairingServer"}
      PROVE  ~after.applied
  BY <1>4 DEF BelievedInv
<1> HIDE DEF said
<1> QED
  <2>1. CASE retry
    BY <1>1, <1>3, <2>1 DEF BelievedInv, BelievedIsTrue, Stages
  <2>2. CASE ~retry
    BY <1>1, <1>3, <1>4, <2>2 DEF BelievedInv, BelievedIsTrue, Stages
  <2> QED BY <2>1, <2>2

LEMMA BelievedStep == BelievedInv /\ [ExchangeNext]_exchange_vars => BelievedInv'
<1> SUFFICES ASSUME BelievedInv, [ExchangeNext]_exchange_vars PROVE BelievedInv'
  OBVIOUS
<1>1. CASE Negotiate
  BY <1>1 DEF Negotiate, BelievedInv, BelievedIsTrue, Stages
<1>2. CASE CaptureForDelivery
  BY <1>2 DEF CaptureForDelivery, BelievedInv, BelievedIsTrue, Stages
<1>3. CASE MapRequest
  BY <1>3 DEF MapRequest, BelievedInv, BelievedIsTrue, Stages
<1>4. CASE SendRequest
  <2>1. CASE stage' = "ended"
    BY <1>4, <2>1 DEF SendRequest, BelievedInv, BelievedIsTrue, Stages
  <2>2. CASE stage' # "ended"
    <3>1. PICK n \in {0, 2} : server' = [server EXCEPT !.accepted = n]
      BY <1>4, <2>2 DEF SendRequest
    <3>2. /\ server' \in ServerStates /\ server'.accepted # 1
          /\ server'.applied = server.applied
      BY <3>1 DEF BelievedInv, ServerStates
    <3> QED BY <1>4, <2>2, <3>2 DEF SendRequest, BelievedInv, BelievedIsTrue, Stages
  <2> QED BY <2>1, <2>2
<1>5. ASSUME NEW reaction \in Reactions(server), stage = "sent"
      PROVE  /\ reaction[1] \in ServerStates
             /\ reaction[1].applied <=> reaction[1].accepted = 1
             /\ server.applied => reaction[1].applied
             /\ server.refused => reaction[1].refused
             /\ server.accepted # 0 => reaction[1].accepted = server.accepted
             /\ Execute(reaction[2]) \in Outcomes \ {"none"}
             /\ Execute(reaction[2]) = "Answer" =>
                   reaction[1].applied /\ reaction[2].accepted = 1
             /\ Execute(reaction[2]) = "Server" =>
                   /\ reaction[1].refused
                   /\ reaction[2].accepted = (IF reaction[1].accepted = 2 THEN 2 ELSE Unknown)
             /\ Execute(reaction[2]) # "Answer" => reaction[1].applied = server.applied
  <2>1. Applies(server, reaction[1], reaction[2]) \/ Refuses(server, reaction[1], reaction[2])
    BY ReactionIs DEF BelievedInv
  <2>2. CASE Applies(server, reaction[1], reaction[2])
    BY <2>2 DEF Applies, BelievedInv, ServerStates, Outcomes
  <2>3. CASE Refuses(server, reaction[1], reaction[2])
    BY <2>3 DEF Refuses, BelievedInv, ServerStates, Outcomes
  <2> QED BY <2>1, <2>2, <2>3
<1>6. CASE AnswerArrives
  <2>1. PICK reaction \in Reactions(server) : AttemptEnds(reaction[1], reaction[2])
    BY <1>6 DEF AnswerArrives
  <2>2. stage = "sent"
    BY <1>6 DEF AnswerArrives
  <2> QED BY <1>5, <2>1, <2>2, AttemptKeeps
<1>7. CASE AnswerIsLost
  <2>1. PICK after \in {server} \cup {reaction[1] : reaction \in Reactions(server)} :
          \E r \in Disturbances(server, after) : AttemptEnds(after, r)
    BY <1>7 DEF AnswerIsLost
  <2>2. PICK r \in Disturbances(server, after) : AttemptEnds(after, r)
    BY <2>1
  <2>3. stage = "sent"
    BY <1>7 DEF AnswerIsLost
  <2>4. /\ Execute(r) \in Outcomes \ {"none", "Answer", "Server"}
        /\ ~IsSafeForRetry(Execute(r), r) /\ Execute(r) # "PairingServer" => after = server
    BY DisturbanceIs
  <2>5. /\ after \in ServerStates /\ (after.applied <=> after.accepted = 1)
        /\ (server.applied => after.applied) /\ (server.refused => after.refused)
        /\ server.accepted # 0 => after.accepted = server.accepted
    <3>1. CASE after = server
      BY <3>1 DEF BelievedInv
    <3>2. ASSUME NEW reaction \in Reactions(server), after = reaction[1]
          PROVE  /\ after \in ServerStates /\ (after.applied <=> after.accepted = 1)
                 /\ (server.applied => after.applied) /\ (server.refused => after.refused)
                 /\ server.accepted # 0 => after.accepted = server.accepted
      BY <1>5, <2>3, <3>2
    <3> QED BY <2>1, <3>1, <3>2
  <2> QED BY <2>2, <2>3, <2>4, <2>5, AttemptKeeps
<1>8. CASE PublishSettles
  BY <1>8 DEF PublishSettles, BelievedInv, BelievedIsTrue, Stages, ServerStates
<1>9. CASE UNCHANGED exchange_vars
  BY <1>9 DEF exchange_vars, BelievedInv, BelievedIsTrue
<1> QED BY <1>1, <1>2, <1>3, <1>4, <1>6, <1>7, <1>8, <1>9 DEF ExchangeNext

(* What a publish concludes of the server is true of it, whatever the      *)
(* network delivered: from any offers, captures and policy.                *)
THEOREM BelievedIsTrueHolds == ExchangeSpec => []BelievedIsTrue
<1>1. ExchangeInit => BelievedInv
  BY DEF ExchangeInit, BelievedInv, BelievedIsTrue, Stages, ServerStates
<1>2. BelievedInv => BelievedIsTrue
  BY DEF BelievedInv
<1> QED BY <1>1, <1>2, BelievedStep, PTL DEF ExchangeSpec

-----------------------------------------------------------------------------
(* What the sanitiser keeps, the mapper takes, within the limits. *)

LEMMA LesserOfTwo ==
  ASSUME NEW a \in Int, NEW b \in Int
  PROVE  Min({a, b}) = IF a <= b THEN a ELSE b
<1>1. \E x \in {a, b} : \A y \in {a, b} : x <= y
  OBVIOUS
<1>2. Min({a, b}) \in {a, b} /\ \A y \in {a, b} : Min({a, b}) <= y
  BY <1>1 DEF Min
<1> QED BY <1>2

LEMMA GreaterOfTwo ==
  ASSUME NEW a \in Int, NEW b \in Int
  PROVE  Max({a, b}) = IF a >= b THEN a ELSE b
<1>1. \E x \in {a, b} : \A y \in {a, b} : x >= y
  OBVIOUS
<1>2. Max({a, b}) \in {a, b} /\ \A y \in {a, b} : Max({a, b}) >= y
  BY <1>1 DEF Max
<1> QED BY <1>2

(* A value brought into a range is in it, and stays when brought again.    *)
LEMMA InRangeIs ==
  ASSUME NEW value \in Int, NEW low \in Int, NEW high \in Int, low <= high
  PROVE  /\ InRange(value, low, high) \in low..high
         /\ value \in low..high => InRange(value, low, high) = value
<1>1. Max({value, low}) = IF value >= low THEN value ELSE low
  BY GreaterOfTwo
<1>2. Max({value, low}) \in Int
  BY <1>1
<1>3. Min({Max({value, low}), high}) =
        IF Max({value, low}) <= high THEN Max({value, low}) ELSE high
  BY <1>2, LesserOfTwo
<1> QED BY <1>1, <1>3 DEF InRange

(* Rounded up, the interval keeps the sends of a minute within the rate.   *)
LEMMA RoundedUp ==
  ASSUME NEW r \in Int, r > 0
  PROVE  ((60000 + r - 1) \div r) * r >= 60000
<1>1. \A a \in Int : (a \div r) * r >= a - r + 1
  OBVIOUS
<1>2. (60000 + r - 1) - r + 1 = 60000 /\ 60000 + r - 1 \in Int
  OBVIOUS
<1> QED BY <1>1, <1>2

(* The lease that is asked for is within the server's range and no shorter *)
(* than three heartbeats.                                                  *)
LEMMA LeaseIs ==
  ASSUME NEW low \in Int, NEW high \in Int, low <= high, NEW thirds \in Int,
         NEW lease, lease = InRange(90, low, high)
  PROVE  lease \in low..high /\ Min({thirds, Max({lease, 3})}) <= Max({lease, 3})
<1>1. 90 \in Int /\ 3 \in Int
  OBVIOUS
<1>2. lease \in low..high /\ lease \in Int
  BY <1>1, InRangeIs
<1>3. Max({lease, 3}) \in Int
  BY <1>1, <1>2, GreaterOfTwo
<1>4. Min({thirds, Max({lease, 3})}) =
        IF thirds <= Max({lease, 3}) THEN thirds ELSE Max({lease, 3})
  BY <1>3, LesserOfTwo
<1> QED BY <1>2, <1>3, <1>4

(* Offers that negotiate, and what is negotiated from one.                 *)
Available == {offer \in Offers : NegotiatePresence(offer) = "Available"}

LEMMA AvailableIs ==
  ASSUME NEW offer \in Available
  PROVE  offer.limits \in Limits /\ LimitsAreValid(offer.limits)
<1>1. offer.limits \in Limits
  BY ExchangeAssumption DEF ExchangeAssumption, Available
<1>2. CASE ~LimitsAreValid(offer.limits)
  <2>1. NegotiatePresence(offer) = "InvalidCapabilities"
    BY <1>2 DEF NegotiatePresence
  <2> QED BY <2>1 DEF Available
<1> QED BY <1>1, <1>2

(* What an exchange under way was negotiated from.                         *)
IsNegotiated == \E offer \in Available : configuration = Negotiated(offer)

(* The lease that is asked for is one the server takes and covers three    *)
(* heartbeats; the interval keeps to the rate.                             *)
LEMMA NegotiatedIs ==
  ASSUME IsNegotiated
  PROVE  LET limits == configuration.limits
             lease == configuration.requested_lease
         IN /\ limits.lease_min \in Nat /\ limits.lease_max \in Int
            /\ lease \in limits.lease_min..limits.lease_max
            /\ InRange(lease, limits.lease_min, limits.lease_max) = lease
            /\ configuration.heartbeat_thirds <= Max({lease, 3})
            /\ configuration.interval * limits.requests_per_minute >= 60000
<1>0. PICK offer \in Available : configuration = Negotiated(offer)
  BY DEF IsNegotiated
<1> DEFINE l == offer.limits
           lease == InRange(90, l.lease_min, l.lease_max)
           thirds == 3 * l.heartbeat
<1>1. /\ l.lease_min \in Int /\ l.lease_max \in Int /\ l.heartbeat \in Int
      /\ l.lease_min \in Nat
      /\ l.requests_per_minute \in Int /\ l.requests_per_minute > 0
      /\ l.lease_min <= l.lease_max
  BY AvailableIs DEF Limits, LimitsAreValid
<1>2. /\ lease \in l.lease_min..l.lease_max
      /\ InRange(lease, l.lease_min, l.lease_max) = lease
      /\ Min({thirds, Max({lease, 3})}) <= Max({lease, 3})
  <2> DEFINE low == l.lease_min
             high == l.lease_max
  <2>1. low \in Int /\ high \in Int /\ low <= high /\ lease = InRange(90, low, high)
    BY <1>1
  <2>2. thirds \in Int
    BY <1>1
  <2> HIDE DEF lease, thirds, low, high
  <2>3. lease \in low..high
    BY <2>1, <2>2, LeaseIs
  <2>4. InRange(lease, low, high) = lease
    <3>1. low \in Int /\ high \in Int /\ low <= high /\ lease \in Int
      BY <2>1, <2>3
    <3> QED BY <2>3, <3>1, InRangeIs
  <2>5. Min({thirds, Max({lease, 3})}) <= Max({lease, 3})
    BY <2>1, <2>2, LeaseIs
  <2> QED BY <2>3, <2>4, <2>5 DEF low, high
<1>3. ((60000 + l.requests_per_minute - 1) \div l.requests_per_minute) * l.requests_per_minute
        >= 60000
  BY <1>1, RoundedUp
<1>4. /\ configuration.limits = l /\ configuration.requested_lease = lease
      /\ configuration.heartbeat_thirds = Min({thirds, Max({lease, 3})})
      /\ configuration.interval =
           (60000 + l.requests_per_minute - 1) \div l.requests_per_minute
  BY <1>0 DEF Negotiated
<1> HIDE DEF l, lease, thirds
<1> QED BY <1>1, <1>2, <1>3, <1>4

(* Text in normal form is never blank, so the mapper keeps it.             *)
LEMMA NormalIsKept ==
  ASSUME NEW text
  PROVE  NormalText(text) # Blank /\ BoundedText(NormalText(text)) = NormalText(text)
BY PolicyAssumption DEF PolicyAssumption, NormalText, BoundedText

LEMMA ApplicationMaps ==
  ASSUME NEW policy, NEW info
  PROVE  MapsApplication(ApplicationPresence(policy, info))
<1> DEFINE decision == ProcessDecision(policy, info.app_id)
           mapped == NormalText(ApplyMapping(policy, "process_name", info.app_id))
           name == OrElse(decision.alias, OrElse(mapped, NormalText(info.name)))
<1>1. decision.alias # Blank
  <2>1. \/ decision.alias = Absent
        \/ decision.alias = NormalText(FindRule(policy, info.app_id).alias)
    BY DEF ProcessDecision
  <2> QED BY <2>1, NormalIsKept, PolicyAssumption DEF PolicyAssumption
<1>2. name # Blank
  <2>1. mapped # Blank /\ NormalText(info.name) # Blank
    BY NormalIsKept
  <2> HIDE DEF decision, mapped
  <2> QED BY <1>1, <2>1 DEF OrElse
<1>3. \/ ApplicationPresence(policy, info) = Nothing
      \/ name # Absent /\ ApplicationPresence(policy, info).name = name
  <2> HIDE DEF name
  <2>1. SanitizeApplication(policy, info) = Nothing
        \/ (name # Absent /\ SanitizeApplication(policy, info).name = name)
    BY DEF SanitizeApplication, name
  <2> QED BY <2>1 DEF ApplicationPresence
<1> HIDE DEF name
<1> QED BY <1>2, <1>3 DEF MapsApplication, BoundedText, NormalText

LEMMA MediaMaps ==
  ASSUME NEW policy, NEW raw, MediaPresence(policy, raw) # NoMedia
  PROVE  LET media == MediaPresence(policy, raw)
         IN /\ BoundedText(media.title) # Absent \/ BoundedText(media.artist) # Absent
            /\ {media.title, media.artist} # {Absent}
<1> DEFINE media == MediaPresence(policy, raw)
<1>1. /\ media.title = NormalText(raw.title) /\ media.artist = NormalText(raw.artist)
      /\ media.title # Absent \/ media.artist # Absent
  <2>1. media = SanitizeMedia(policy, raw) /\ SanitizeMedia(policy, raw) # NoMedia
    BY DEF MediaPresence
  <2> HIDE DEF media
  <2> QED BY <2>1 DEF SanitizeMedia
<1> HIDE DEF media
<1>2. BoundedText(media.title) = media.title /\ BoundedText(media.artist) = media.artist
  BY <1>1, NormalIsKept
<1>3. {media.title, media.artist} # {Absent}
  BY <1>1
<1> QED BY <1>1, <1>2, <1>3 DEF media

(* The timeline of a frame fits the wire.                                  *)
LEMMA PlaybackMaps ==
  ASSUME NEW frame \in Frames
  PROVE  /\ Playback(frame).rate = 1
         /\ WireSeconds(Playback(frame).duration) /\ WireSeconds(Playback(frame).position)
<1> DEFINE elapsed == IF frame.elapsed \in 1..(MaxElapsed - 1) THEN frame.elapsed ELSE 0
           duration == SnapshotDuration(frame)
           position == ExtrapolatedPosition(frame)
<1>1. /\ frame.duration \in Int /\ frame.position \in Int /\ frame.elapsed \in Int
      /\ frame.duration <= MaxWireSeconds /\ frame.position + MaxElapsed <= MaxWireSeconds
      /\ MaxElapsed \in Nat /\ MaxWireSeconds \in Nat
  BY ExchangeAssumption DEF ExchangeAssumption
<1>2. elapsed \in 0..MaxElapsed
  BY <1>1
<1>3. duration = Unknown \/ duration \in 0..MaxWireSeconds
  BY <1>1 DEF SnapshotDuration
<1>4. position = Unknown \/ position \in 0..MaxWireSeconds
  <2>1. position = IF frame.position < 0 THEN Unknown
                   ELSE Limited(frame.position + elapsed, duration)
    BY DEF ExtrapolatedPosition
  <2> HIDE DEF elapsed, duration, position
  <2>2. CASE frame.position < 0
    BY <2>1, <2>2
  <2>3. CASE ~(frame.position < 0)
    <3>1. frame.position + elapsed \in 0..MaxWireSeconds
      BY <1>1, <1>2, <2>3
    <3> QED BY <1>1, <1>3, <2>1, <2>3, <3>1 DEF Limited
  <2> QED BY <2>2, <2>3
<1> HIDE DEF elapsed, duration, position
<1>5. NormalizedSeconds(duration) = duration /\ NormalizedSeconds(position) = position
  BY <1>1, <1>3, <1>4 DEF NormalizedSeconds, Unknown
<1>6. Playback(frame) =
        [duration |-> duration, position |-> Limited(position, duration), rate |-> 1]
  BY <1>5 DEF Playback, duration, position
<1>7. WireSeconds(duration) /\ WireSeconds(Limited(position, duration))
  BY <1>1, <1>3, <1>4 DEF WireSeconds, Limited
<1> QED BY <1>6, <1>7

(* What SharedIsSendable rests on: an exchange under way keeps to an offer *)
(* that negotiated, and a capture the sanitiser made maps to a request.    *)
CaptureMaps(shot) ==
  /\ MapsApplication(shot.application) /\ MapsMedia(shot.media, shot.playback)
  /\ shot.playback.duration \in Int /\ shot.playback.position \in Int
  /\ shot.media # NoMedia => /\ configuration.include_media
                             /\ {shot.media.title, shot.media.artist} # {Absent}

RequestKeepsLimits ==
  /\ request.ttl \in configuration.limits.lease_min..configuration.limits.lease_max
  /\ request.ttl = configuration.requested_lease
  /\ request.position # Unknown /\ request.duration # Unknown
       => request.position <= request.duration
  /\ request.media # NoMedia => /\ configuration.include_media
                                /\ {request.media.title, request.media.artist} # {Absent}

SendableInv ==
  /\ stage \in Stages \ {"unmappable"}
  /\ stage # "offline" => IsNegotiated
  /\ stage = "captured" => CaptureMaps(snapshot)
  /\ stage \in {"mapped", "sent"} => RequestKeepsLimits

LEMMA SendableSuffices == SendableInv => SharedIsSendable
<1> SUFFICES ASSUME SendableInv PROVE SharedIsSendable
  OBVIOUS
<1>1. stage # "unmappable"
  BY DEF SendableInv
<1>2. ASSUME stage \in {"mapped", "sent"}
      PROVE  /\ request.ttl \in configuration.limits.lease_min..configuration.limits.lease_max
             /\ configuration.heartbeat_thirds <= Max({request.ttl, 3})
             /\ configuration.interval * configuration.limits.requests_per_minute >= 60000
             /\ (request.position # Unknown /\ request.duration # Unknown
                  => request.position <= request.duration)
             /\ request.media # NoMedia =>
                  /\ configuration.include_media
                  /\ {request.media.title, request.media.artist} # {Absent}
  <2>1. IsNegotiated
    BY <1>2 DEF SendableInv
  <2>2. /\ configuration.heartbeat_thirds <= Max({configuration.requested_lease, 3})
        /\ configuration.interval * configuration.limits.requests_per_minute >= 60000
    BY <2>1, NegotiatedIs
  <2>3. RequestKeepsLimits
    BY <1>2 DEF SendableInv
  <2>4. configuration.heartbeat_thirds <= Max({request.ttl, 3})
    BY <2>2, <2>3 DEF RequestKeepsLimits
  <2> QED BY <2>2, <2>3, <2>4 DEF RequestKeepsLimits
<1> QED BY <1>1, <1>2 DEF SharedIsSendable

LEMMA SendableStep == SendableInv /\ [ExchangeNext]_exchange_vars => SendableInv'
<1> SUFFICES ASSUME SendableInv, [ExchangeNext]_exchange_vars PROVE SendableInv'
  OBVIOUS
<1>1. CASE Negotiate
  <2>1. IsNegotiated' /\ stage' = "ready"
    BY <1>1 DEF Negotiate, IsNegotiated, Available
  <2> QED BY <2>1 DEF SendableInv, Stages
<1>2. CASE CaptureForDelivery
  <2>1. /\ stage = "ready" /\ stage' = "captured"
        /\ UNCHANGED <<configuration, request>>
    BY <1>2 DEF CaptureForDelivery
  <2>2. PICK raw \in Medias \cup {NoMedia}, info \in Foregrounds \cup {Nothing}, frame \in Frames :
          LET media == IF configuration.include_media THEN MediaPresence(privacy, raw) ELSE NoMedia
          IN snapshot' = [application |-> ApplicationPresence(privacy, info), media |-> media,
                          playback |-> IF media = NoMedia THEN Silence ELSE Playback(frame)]
    BY <1>2 DEF CaptureForDelivery
  <2> DEFINE media == IF configuration.include_media THEN MediaPresence(privacy, raw) ELSE NoMedia
             playback == IF media = NoMedia THEN Silence ELSE Playback(frame)
  <2>3. /\ snapshot'.application = ApplicationPresence(privacy, info)
        /\ snapshot'.media = media /\ snapshot'.playback = playback
    BY <2>2
  <2>4. media # NoMedia =>
          /\ configuration.include_media
          /\ BoundedText(media.title) # Absent \/ BoundedText(media.artist) # Absent
          /\ {media.title, media.artist} # {Absent}
    BY MediaMaps
  <2>5. media # NoMedia => /\ playback.rate \in 1..4
                          /\ WireSeconds(playback.duration) /\ WireSeconds(playback.position)
    BY PlaybackMaps
  <2>6. playback.duration \in Int /\ playback.position \in Int
    <3>1. Silence.duration \in Int /\ Silence.position \in Int
      BY DEF Silence, Unknown
    <3>2. Playback(frame).duration \in Int /\ Playback(frame).position \in Int
      BY PlaybackMaps, ExchangeAssumption DEF WireSeconds, Unknown, ExchangeAssumption
    <3> QED BY <3>1, <3>2
  <2> HIDE DEF media, playback
  <2>7. MapsMedia(media, playback)
    BY <2>4, <2>5 DEF MapsMedia
  <2>8. CaptureMaps(snapshot)'
    BY <2>1, <2>3, <2>4, <2>6, <2>7, ApplicationMaps DEF CaptureMaps
  <2> QED BY <2>1, <2>8 DEF SendableInv, IsNegotiated, Stages
<1>3. CASE MapRequest
  <2>1. stage = "captured" /\ CaptureMaps(snapshot) /\ UNCHANGED configuration
    BY <1>3 DEF MapRequest, SendableInv
  <2>2. stage' = "mapped"
    BY <1>3, <2>1 DEF MapRequest, CaptureMaps
  <2>3. PICK size \in 1..2 : request' = MakePresenceRequest(snapshot, configuration, size)
    BY <1>3, <2>1 DEF MapRequest, CaptureMaps
  <2>4. /\ request'.media = snapshot.media /\ request'.duration = snapshot.playback.duration
        /\ request'.position = Limited(snapshot.playback.position, snapshot.playback.duration)
        /\ request'.ttl = InRange(configuration.requested_lease, configuration.limits.lease_min,
                                  configuration.limits.lease_max)
    BY <2>3 DEF MakePresenceRequest
  <2>5. IsNegotiated
    BY <2>1 DEF SendableInv
  <2>6. /\ request'.ttl = configuration.requested_lease
        /\ request'.ttl \in configuration.limits.lease_min..configuration.limits.lease_max
    BY <2>4, <2>5, NegotiatedIs
  <2>7. request'.position # Unknown /\ request'.duration # Unknown
          => request'.position <= request'.duration
    BY <2>1, <2>4 DEF CaptureMaps, Limited, Unknown
  <2>8. RequestKeepsLimits'
    BY <2>1, <2>4, <2>6, <2>7 DEF RequestKeepsLimits, CaptureMaps
  <2> QED BY <2>1, <2>2, <2>8 DEF SendableInv, IsNegotiated, Stages
<1>4. CASE SendRequest
  <2>1. /\ stage = "mapped" /\ stage' \in {"ended", "sent"}
        /\ UNCHANGED <<configuration, request, snapshot>>
    BY <1>4 DEF SendRequest
  <2> QED BY <2>1 DEF SendableInv, IsNegotiated, RequestKeepsLimits, Stages
<1>5. ASSUME NEW after, NEW r, stage = "sent", AttemptEnds(after, r) PROVE SendableInv'
  <2>1. /\ stage' \in {"sent", "ended", "rejected"}
        /\ UNCHANGED <<configuration, request, snapshot>>
    BY <1>5 DEF AttemptEnds
  <2> QED BY <1>5, <2>1 DEF SendableInv, IsNegotiated, RequestKeepsLimits, Stages
<1>6. CASE AnswerArrives
  BY <1>5, <1>6 DEF AnswerArrives
<1>7. CASE AnswerIsLost
  BY <1>5, <1>7 DEF AnswerIsLost
<1>8. CASE PublishSettles
  BY <1>8 DEF PublishSettles, SendableInv, IsNegotiated, Stages
<1>9. CASE UNCHANGED exchange_vars
  BY <1>9 DEF exchange_vars, SendableInv, IsNegotiated, CaptureMaps, RequestKeepsLimits
<1> QED BY <1>1, <1>2, <1>3, <1>4, <1>6, <1>7, <1>8, <1>9 DEF ExchangeNext

(* Whatever limits an offer that negotiates has, whatever is captured and  *)
(* whatever the policy is: what is shared maps to a request that keeps to  *)
(* the limits.                                                             *)
THEOREM SharedIsSendableHolds == ExchangeSpec => []SharedIsSendable
<1>1. ExchangeInit => SendableInv
  BY DEF ExchangeInit, SendableInv, Stages
<1> QED BY <1>1, SendableSuffices, SendableStep, PTL DEF ExchangeSpec

-----------------------------------------------------------------------------
(* The types of an exchange. *)

LEMMA LeaseIsNatural == IsNegotiated => configuration.requested_lease \in Nat
BY NegotiatedIs

LEMMA NewLeaseIsNatural == (IsNegotiated => configuration.requested_lease \in Nat)'
BY LeaseIsNatural, PTL

LEMMA MediaIsTyped ==
  ASSUME NEW policy, NEW raw \in Medias \cup {NoMedia}
  PROVE  MediaPresence(policy, raw).title \in Texts \cup {Absent}
<1>1. MediaPresence(policy, raw) = NoMedia
      \/ (raw \in Media /\ MediaPresence(policy, raw).title = NormalText(raw.title))
  <2>1. CASE raw = NoMedia
    BY <2>1 DEF MediaPresence
  <2>2. CASE raw # NoMedia
    <3>1. raw \in Media
      BY <2>2, PolicyAssumption DEF PolicyAssumption
    <3>2. SanitizeMedia(policy, raw) = NoMedia
          \/ SanitizeMedia(policy, raw).title = NormalText(raw.title)
      BY DEF SanitizeMedia
    <3> QED BY <3>1, <3>2 DEF MediaPresence
  <2> QED BY <2>1, <2>2
<1>2. raw \in Media => NormalText(raw.title) \in Texts \cup {Absent}
  BY DEF Media, CapturedTexts, NormalText
<1> QED BY <1>1, <1>2 DEF NoMedia

LEMMA OutcomesAre ==
  ASSUME BelievedInv, [ExchangeNext]_exchange_vars, outcome \in Outcomes
  PROVE  outcome' \in Outcomes
<1>1. CASE AnswerArrives
  <2>1. PICK reaction \in Reactions(server) : AttemptEnds(reaction[1], reaction[2])
    BY <1>1 DEF AnswerArrives
  <2>2. Execute(reaction[2]) \in Outcomes
    BY ReactionIs DEF BelievedInv, Applies, Refuses, Outcomes
  <2> QED BY <2>1, <2>2 DEF AttemptEnds
<1>2. CASE AnswerIsLost
  <2>1. PICK after : \E r \in Disturbances(server, after) : AttemptEnds(after, r)
    BY <1>2 DEF AnswerIsLost
  <2>2. PICK r \in Disturbances(server, after) : AttemptEnds(after, r)
    BY <2>1
  <2>3. Execute(r) \in Outcomes
    BY DisturbanceIs
  <2> QED BY <2>2, <2>3 DEF AttemptEnds
<1>3. CASE Negotiate \/ CaptureForDelivery \/ MapRequest \/ SendRequest \/ PublishSettles
           \/ UNCHANGED exchange_vars
  BY <1>3
     DEF Negotiate, CaptureForDelivery, MapRequest, SendRequest, PublishSettles, exchange_vars,
         Outcomes
<1> QED BY <1>1, <1>2, <1>3 DEF ExchangeNext

LEMMA ExchangeTypeStep ==
  ASSUME SendableInv, SendableInv', BelievedInv, BelievedInv', ExchangeTypeOK,
         [ExchangeNext]_exchange_vars
  PROVE  ExchangeTypeOK'
<1>1. /\ stage' \in Stages /\ server' \in ServerStates /\ learnt' \in {Unknown, 1, 2}
      /\ outcome' \in Outcomes
  BY OutcomesAre DEF BelievedInv, ExchangeTypeOK
<1>2. configuration'.requested_lease \in Nat
  <2>1. CASE stage' # "offline"
    BY <2>1, NewLeaseIsNatural DEF SendableInv
  <2>2. CASE stage' = "offline"
    <3>1. PublishSettles \/ UNCHANGED configuration
      BY <2>2
         DEF ExchangeNext, Negotiate, CaptureForDelivery, MapRequest, SendRequest, AnswerArrives,
             AnswerIsLost, AttemptEnds, exchange_vars
    <3> QED BY <3>1 DEF PublishSettles, NoConfiguration, ExchangeTypeOK
  <2> QED BY <2>1, <2>2
<1>3. request'.size \in 0..2 /\ request'.ttl \in Nat
  <2>1. CASE MapRequest
    <3>1. CASE stage' = "mapped"
      <4>1. PICK size \in 1..2 : request' = MakePresenceRequest(snapshot, configuration, size)
        BY <2>1, <3>1 DEF MapRequest
      <4>2. request'.size \in 0..2
        BY <4>1 DEF MakePresenceRequest
      <4>3. request'.ttl = configuration'.requested_lease
        BY <3>1 DEF SendableInv, RequestKeepsLimits
      <4> QED BY <1>2, <4>2, <4>3
    <3>2. CASE stage' # "mapped"
      BY <2>1, <3>2 DEF MapRequest, ExchangeTypeOK
    <3> QED BY <3>1, <3>2
  <2>2. CASE ~MapRequest
    <3>1. request' = request \/ request' = NoRequest
      BY <2>2
         DEF ExchangeNext, Negotiate, CaptureForDelivery, SendRequest, AnswerArrives,
             AnswerIsLost, AttemptEnds, PublishSettles, exchange_vars
    <3> QED BY <3>1 DEF NoRequest, ExchangeTypeOK
  <2> QED BY <2>1, <2>2
<1>4. snapshot'.media.title \in Texts \cup {Absent}
  <2>1. CASE CaptureForDelivery
    <3>1. PICK raw \in Medias \cup {NoMedia} :
            snapshot'.media = IF configuration.include_media THEN MediaPresence(privacy, raw)
                              ELSE NoMedia
      BY <2>1 DEF CaptureForDelivery
    <3> QED BY <3>1, MediaIsTyped DEF NoMedia
  <2>2. CASE ~CaptureForDelivery
    <3>1. snapshot' = snapshot \/ snapshot' = NoSnapshot
      BY <2>2
         DEF ExchangeNext, Negotiate, MapRequest, SendRequest, AnswerArrives,
             AnswerIsLost, AttemptEnds, PublishSettles, exchange_vars
    <3> QED BY <3>1 DEF NoSnapshot, NoMedia, ExchangeTypeOK
  <2> QED BY <2>1, <2>2
<1>5. attempt' \in 0..2
  BY DEF ExchangeNext, Negotiate, CaptureForDelivery, MapRequest, SendRequest, AnswerArrives,
         AnswerIsLost, AttemptEnds, PublishSettles, exchange_vars, ExchangeTypeOK
<1> QED BY <1>1, <1>2, <1>3, <1>4, <1>5 DEF ExchangeTypeOK, ServerStates

(* An exchange keeps its types, whatever the policy is meanwhile.          *)
THEOREM ExchangeTypeCorrect == ExchangeSpec => []ExchangeTypeOK
<1>1. ExchangeInit => SendableInv /\ BelievedInv /\ ExchangeTypeOK
  BY DEF ExchangeInit, SendableInv, BelievedInv, BelievedIsTrue, ExchangeTypeOK, Stages,
         ServerStates, Outcomes, NoConfiguration, NoRequest, NoSnapshot, NoMedia
<1> QED BY <1>1, SendableStep, BelievedStep, ExchangeTypeStep, PTL DEF ExchangeSpec
===============================================================================
