----------------------------- MODULE PrivacyPolicy -----------------------------
(***************************************************************************)
(* The privacy policy: config.privacy (core/src/model.rs), the commands    *)
(* that edit it (src/commands.rs), the evaluator, the sanitiser and the    *)
(* fingerprint (core/src/privacy/).                                        *)
(*                                                                         *)
(* Identifiers (appIds, player names) are spellings, NormalOf gives the    *)
(* form lookups compare.  Texts are in normal form except Blank, which     *)
(* normalises to absent.                                                   *)
(***************************************************************************)
EXTENDS Naturals, Sequences, SequencesExt

CONSTANTS
  Ids, NormalOf,        (* spellings and their normal form                 *)
  Texts, Absent, Blank,
  StoredPolicies,       (* what config.json may hold at the start          *)
  RuleEdits,            (* rules the page may send                         *)
  MappingLists,         (* lists the mappings editor may save              *)
  Medias,               (* what the media provider may answer              *)
  Foregrounds,          (* what the foreground watcher may serve           *)
  MaxEdits              (* bound on edits                                  *)

Overrides == {"inherit", "share", "hide"}
MappingTypes == {"process_name", "media_process_name", "media_player_name"}

Rule == [app_id : Ids, application : Overrides, window_title : Overrides, media : Overrides,
         alias : Texts \cup {Absent}]

Mapping == [type : MappingTypes, from : Ids, to : Texts]

Policy ==
  [defaults : [application : {"share", "hide"}, window_title : {"share", "hide"},
               media : {"share", "hide"}],
   rules : Seq(Rule), mappings : Seq(Mapping),
   share_window_titles : BOOLEAN, ignore_null_artist : BOOLEAN,
   sources : [application : BOOLEAN, media : BOOLEAN]]

CapturedTexts == Texts \cup {Absent, Blank}
Media == [app_id : Ids \cup {Absent}, player : Ids \cup {Absent}, source : Ids \cup {Absent},
          title : CapturedTexts, artist : CapturedTexts, playing : BOOLEAN]
Foreground == [app_id : Ids, name : CapturedTexts, title : CapturedTexts]

(* An appId has one rule at most, under its normal form.                   *)
RulesAreKeyed(policy) ==
  \A i, j \in DOMAIN policy.rules :
    /\ NormalOf[policy.rules[i].app_id] = policy.rules[i].app_id
    /\ policy.rules[i].app_id = policy.rules[j].app_id => i = j

(* A stored policy has its rules as the commands left them.                *)
ASSUME PolicyAssumption ==
  /\ NormalOf \in [Ids -> Ids] /\ \A i \in Ids : NormalOf[NormalOf[i]] = NormalOf[i]
  /\ Absent \notin Texts /\ Blank \notin Texts \cup {Absent} /\ Absent \notin Ids
  /\ RuleEdits \subseteq Rule
  /\ StoredPolicies \subseteq Policy /\ \A p \in StoredPolicies : RulesAreKeyed(p)
  /\ \A list \in MappingLists : list \in Seq(Mapping)
  /\ Medias \subseteq Media /\ Foregrounds \subseteq Foreground
  /\ MaxEdits \in Nat

VARIABLES
  privacy,      (* config.privacy                                          *)
  edits

policy_vars == <<privacy, edits>>

-----------------------------------------------------------------------------
(* Lookups: the first rule, the first mapping of the type. *)

NoRule == [app_id |-> Absent, application |-> "inherit", window_title |-> "inherit",
           media |-> "inherit", alias |-> Absent]

NormalText(text) == IF text = Blank THEN Absent ELSE text

OrElse(text, other) == IF text # Absent THEN text ELSE other

(* The entry at the least of these positions.                              *)
FirstAt(seq, positions, default) ==
  IF positions = {} THEN default ELSE seq[CHOOSE i \in positions : \A j \in positions : i <= j]

RulesFor(policy, id) ==
  {i \in DOMAIN policy.rules : NormalOf[policy.rules[i].app_id] = NormalOf[id]}

FindRule(policy, id) == FirstAt(policy.rules, RulesFor(policy, id), NoRule)

FindRuleByPlayerName(policy, name) ==
  IF name = Absent THEN NoRule ELSE FindRule(policy, name)

ApplyMapping(policy, type, from) ==
  LET matching == {i \in DOMAIN policy.mappings :
                     /\ policy.mappings[i].type = type
                     /\ NormalOf[policy.mappings[i].from] = NormalOf[from]}
  IN FirstAt(policy.mappings, matching, [to |-> Absent]).to

ResolveOverride(override, default) == IF override = "inherit" THEN default ELSE override

IsEmptyRule(rule) ==
  /\ rule.application = "inherit" /\ rule.window_title = "inherit" /\ rule.media = "inherit"
  /\ NormalText(rule.alias) = Absent

NormalizedRule(rule) ==
  [rule EXCEPT !.app_id = NormalOf[@], !.alias = NormalText(@)]

-----------------------------------------------------------------------------
(* Decisions and what they leave of a capture. Nothing is a presence that  *)
(* is not shared.                                                          *)

Nothing == [name |-> Absent, title |-> Absent]

ProcessDecision(policy, id) ==
  LET rule == FindRule(policy, id)
      shares == ResolveOverride(rule.application, policy.defaults.application) = "share"
  IN [shares_application |-> shares,
      shares_window_title |->
        shares /\ ResolveOverride(rule.window_title, policy.defaults.window_title) = "share",
      alias |-> IF shares THEN NormalText(rule.alias) ELSE Absent]

(* Of the foreground: [app_id, name, title].                               *)
SanitizeApplication(policy, info) ==
  LET decision == ProcessDecision(policy, info.app_id)
      mapped == NormalText(ApplyMapping(policy, "process_name", info.app_id))
      name == OrElse(decision.alias, OrElse(mapped, NormalText(info.name)))
  IN IF ~decision.shares_application \/ name = Absent THEN Nothing
     ELSE [name |-> name,
           title |-> IF decision.shares_window_title /\ policy.share_window_titles
                     THEN NormalText(info.title) ELSE Absent]

ApplicationPresence(policy, info) ==
  IF policy.sources.application /\ info # Nothing THEN SanitizeApplication(policy, info)
  ELSE Nothing

(* Of the media: [app_id, player, source, title, artist, playing]. One     *)
(* that names its program is judged by its rule only, another by the name  *)
(* of the player or, without it, of the source.                            *)
MediaDecision(policy, raw) ==
  LET rule == IF raw.app_id # Absent THEN FindRule(policy, raw.app_id)
              ELSE FindRuleByPlayerName(policy, OrElse(raw.player, raw.source))
      shares == ResolveOverride(rule.media, policy.defaults.media) = "share"
  IN [shares_media |-> shares, alias |-> IF shares THEN NormalText(rule.alias) ELSE Absent]

MappedPlayer(policy, player) ==
  IF player = Absent THEN Absent
  ELSE OrElse(ApplyMapping(policy, "media_player_name", player),
              ApplyMapping(policy, "media_process_name", player))

NoMedia == [player |-> Absent, title |-> Absent, artist |-> Absent]

SanitizeMedia(policy, raw) ==
  LET decision == MediaDecision(policy, raw)
      title == NormalText(raw.title)
      artist == NormalText(raw.artist)
  IN IF \/ ~decision.shares_media
        \/ policy.ignore_null_artist /\ artist = Absent
        \/ title = Absent /\ artist = Absent
     THEN NoMedia
     ELSE [player |-> OrElse(decision.alias,
                             OrElse(NormalText(MappedPlayer(policy, raw.player)), raw.player)),
           title |-> title, artist |-> artist]

(* Faulty variants (named <operator>_<fault>): see PROJECT.json.           *)
MediaPresence_SourceCheckedOnce(policy, raw) ==
  IF raw # NoMedia /\ raw.playing THEN SanitizeMedia(policy, raw) ELSE NoMedia

MediaPresence(policy, raw) ==
  IF policy.sources.media /\ raw # NoMedia /\ raw.playing THEN SanitizeMedia(policy, raw)
  ELSE NoMedia

-----------------------------------------------------------------------------
(* The fingerprint hashes the policy with its non-empty normalised rules   *)
(* sorted by appId and its mappings sorted by type and spelling. A stable  *)
(* sort keeps, per key, the order of the entries with that key: that is    *)
(* what two lists must have in common to hash alike.                       *)

EffectiveRules(policy) ==
  SelectSeq([i \in DOMAIN policy.rules |-> NormalizedRule(policy.rules[i])],
            LAMBDA r : ~IsEmptyRule(r))

Fingerprint(policy) ==
  [policy EXCEPT
     !.rules = [id \in Ids |-> SelectSeq(EffectiveRules(policy), LAMBDA r : r.app_id = id)],
     !.mappings = [key \in MappingTypes \X Ids |->
                     SelectSeq(policy.mappings, LAMBDA m : <<m.type, m.from>> = key)]]

-----------------------------------------------------------------------------
(* The commands of the page. *)

PolicyInit ==
  /\ privacy \in StoredPolicies /\ edits = 0

Edit(policy) ==
  /\ edits < MaxEdits /\ edits' = edits + 1
  /\ policy # privacy /\ privacy' = policy

SetSources ==
  \E application, media \in BOOLEAN :
    Edit([privacy EXCEPT !.sources = [application |-> application, media |-> media]])

(* A patch has any of the fields; the page sends one at a time.            *)
SetPrivacy ==
  \/ \E field \in {"application", "window_title", "media"}, value \in {"share", "hide"} :
       Edit([privacy EXCEPT !.defaults[field] = value])
  \/ \E value \in BOOLEAN : Edit([privacy EXCEPT !.share_window_titles = value])
  \/ \E value \in BOOLEAN : Edit([privacy EXCEPT !.ignore_null_artist = value])

WithoutRule(id) == {rule \in Range(privacy.rules) : rule.app_id # id}

(* The rules are sorted by appId: a set of them has one order (and no      *)
(* lookup depends on the order of different appIds).                       *)
StoreRules(rules) == Edit([privacy EXCEPT !.rules = SetToSeq(rules)])

(* They are stored normalised, one per appId; an empty rule is none.       *)
UpsertRule(rule) ==
  LET normal == NormalizedRule(rule)
      others == WithoutRule(normal.app_id)
  IN StoreRules(IF IsEmptyRule(normal) THEN others ELSE others \cup {normal})

DeleteRule(id) == StoreRules(WithoutRule(id))

SetMappings == \E list \in MappingLists : Edit([privacy EXCEPT !.mappings = list])

PolicyNext ==
  \/ SetSources \/ SetPrivacy \/ SetMappings
  \/ \E rule \in RuleEdits : UpsertRule(rule)
  \/ \E i \in DOMAIN privacy.rules : DeleteRule(privacy.rules[i].app_id)
=============================================================================
