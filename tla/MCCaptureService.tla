--------------------------- MODULE MCCaptureService ---------------------------
(* A program known under two spellings, with a rule, and a media player.   *)
EXTENDS CaptureService

CONSTANTS Code, code, player, song, singer, alias1, alias2

MCNormalOf == [i \in Ids |-> IF i = Code THEN code ELSE i]

MCRule(id, application, window_title, media, alias) ==
  [app_id |-> id, application |-> application, window_title |-> window_title,
   media |-> media, alias |-> alias]

MCStoredPolicies ==
  {[defaults |-> [application |-> "share", window_title |-> "hide", media |-> "share"],
    rules |-> <<MCRule(code, "inherit", "share", "share", alias1)>>, mappings |-> <<>>,
    share_window_titles |-> TRUE, ignore_null_artist |-> FALSE,
    sources |-> [application |-> TRUE, media |-> TRUE]]}

(* Hides it, hides its media only, removes the rule.                       *)
MCRuleEdits ==
  {MCRule(Code, "hide", "inherit", "inherit", Absent),
   MCRule(code, "inherit", "share", "hide", Absent),
   MCRule(Code, "inherit", "inherit", "inherit", Absent)}

MCMapping(from, to) == [type |-> "process_name", from |-> from, to |-> to]
MCMappingLists ==
  {<<MCMapping(Code, alias1), MCMapping(code, alias2)>>,
   <<MCMapping(code, alias2), MCMapping(Code, alias1)>>}

MCMedia(id, name, by, playing) ==
  [app_id |-> id, player |-> name, source |-> player, title |-> song, artist |-> by,
   playing |-> playing]
MCMedias ==
  {MCMedia(code, player, singer, TRUE), MCMedia(Absent, Absent, Absent, TRUE),
   MCMedia(Absent, player, singer, FALSE)}

MCForegrounds == {[app_id |-> code, name |-> player, title |-> song]}
===============================================================================
