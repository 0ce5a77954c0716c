-------------------------------- MODULE Stores --------------------------------
(***************************************************************************)
(* What is kept: config.json (core/src/store/config.rs), the device tokens *)
(* in one of two credential backends (core/src/store/credentials.rs,       *)
(* keyring_store.rs, dpapi_store.rs; the choice is memoised and pinned in  *)
(* src/state.rs), and the two commands that write both, pair and unpair    *)
(* (core/src/companion/service.rs, pairing.rs).                            *)
(*                                                                         *)
(* The commands interleave at their awaits.  An update of config.json is   *)
(* synchronous and under update_lock, but a crash may come at any point.   *)
(* LiveDeskService has the rest of these commands: the coordinator, the    *)
(* enable flag, the consent gate.                                          *)
(***************************************************************************)
EXTENDS Naturals

CONSTANTS
  Commands,      (* commands in progress at the same time                  *)
  Devices,       (* bound on the ids the server issues, each one fresh     *)
  NoDevice,
  NoFile, Partial, Corrupt   (* what the file can be besides a configuration *)

Backends == {"keyring", "dpapi"}

VARIABLES
  file,                      (* config.json                                *)
  stored_config,             (* ConfigStore.config                         *)
  update,                    (* the update that holds update_lock          *)
  tokens,                    (* the devices with a token, per backend      *)
  selected,                  (* the memoised choice of the process         *)
  commands,
  claimed,                   (* devices the server has issued              *)
  unpaired,                  (* devices whose unpair has begun             *)
  dropped                    (* devices whose token was not read when the  *)
                             (* credentials file was written again         *)

store_files == <<file, stored_config, update>>
stores_vars == <<store_files, tokens, selected, commands, claimed, unpaired, dropped>>

(* Of a configuration, what the commands write besides the enable flag.    *)
Config == [connection : Devices \cup {NoDevice}, pin : Backends \cup {"none"}]
DefaultConfig == [connection |-> NoDevice, pin |-> "none"]

ASSUME StoresAssumption ==
  /\ NoDevice \notin Devices
  /\ {NoFile, Partial, Corrupt} \cap Config = {} /\ Partial # NoFile /\ Partial # Corrupt

UpdatePcs == {"pin", "connection", "disable", "remove"}
NoUpdate == [step |-> "none", next |-> DefaultConfig]
Command == [op : {"none", "pair", "unpair"},
            pc : {"idle", "select", "claim", "token", "delete", "sequence"} \cup UpdatePcs,
            device : Devices \cup {NoDevice}, store : Backends \cup {"none"}]
IdleCommand == [op |-> "none", pc |-> "idle", device |-> NoDevice, store |-> "none"]

StoresTypeOK ==
  /\ file \in Config \cup {NoFile, Corrupt}
  /\ stored_config \in Config
  /\ \/ update = NoUpdate
     \/ update \in [step : {"open", "synced", "renamed"}, next : Config, command : Commands]
  /\ tokens \in [Backends -> SUBSET Devices]
  /\ selected \in Backends \cup {"unasked", "probing", "unavailable"}
  /\ commands \in [Commands -> Command]
  /\ claimed \subseteq Devices /\ unpaired \subseteq Devices /\ dropped \subseteq Devices

StoresInit ==
  /\ file = NoFile
  /\ stored_config = DefaultConfig /\ update = NoUpdate
  /\ tokens = [b \in Backends |-> {}] /\ selected = "unasked"
  /\ commands = [c \in Commands |-> IdleCommand]
  /\ claimed = {} /\ unpaired = {} /\ dropped = {}

At(c, pc) == commands[c].pc = pc
Goto(c, pc) == commands' = [commands EXCEPT ![c].pc = pc]
Return(c) == commands' = [commands EXCEPT ![c] = IdleCommand]

-----------------------------------------------------------------------------
(* ConfigStore. *)

(* A damaged file is copied to .bak, which nothing reads, and stays.       *)
LoadedConfig(stored) == IF stored \in Config THEN stored ELSE DefaultConfig

Mutated(c, value) ==
  CASE At(c, "pin") -> [value EXCEPT !.pin = commands[c].store]
    [] At(c, "connection") -> [connection |-> commands[c].device, pin |-> commands[c].store]
    [] At(c, "disable") -> value
    [] At(c, "remove") -> [value EXCEPT !.connection = NoDevice]

(* Faulty variants (named <operator>_<fault>): see PROJECT.json.           *)
UpdateBegins_InPlace(c) ==
  /\ commands[c].pc \in UpdatePcs /\ update.step = "none"
  /\ update' = [step |-> "open", next |-> Mutated(c, stored_config), command |-> c]
  /\ file' = Partial
  /\ UNCHANGED <<stored_config, tokens, selected, commands, claimed, unpaired, dropped>>

(* update until atomic_write_json has created the temporary file, which    *)
(* the step stands for: one that a crash leaves is truncated here. What    *)
(* these commands write passes the validation.                             *)
UpdateBegins(c) ==
  /\ commands[c].pc \in UpdatePcs /\ update.step = "none"
  /\ update' = [step |-> "open", next |-> Mutated(c, stored_config), command |-> c]
  /\ UNCHANGED <<file, stored_config, tokens, selected, commands, claimed, unpaired, dropped>>

WriteSyncs ==
  /\ update.step = "open"
  /\ update' = [update EXCEPT !.step = "synced"]
  /\ UNCHANGED <<file, stored_config, tokens, selected, commands, claimed, unpaired, dropped>>

WriteRenames ==
  /\ update.step = "synced"
  /\ file' = update.next /\ update' = [update EXCEPT !.step = "renamed"]
  /\ UNCHANGED <<stored_config, tokens, selected, commands, claimed, unpaired, dropped>>

(* What a command does after its update. That of the pin is not fatal.     *)
AfterUpdate(c, succeeds) ==
  /\ selected' = IF At(c, "pin") THEN commands[c].store ELSE selected
  /\ IF At(c, "pin") THEN Goto(c, IF commands[c].op = "pair" THEN "claim" ELSE "delete")
     ELSE IF At(c, "disable") /\ succeeds THEN Goto(c, "select") ELSE Return(c)

UpdateReturns ==
  /\ update.step = "renamed"
  /\ stored_config' = update.next /\ update' = NoUpdate
  /\ AfterUpdate(update.command, TRUE)
  /\ UNCHANGED <<file, tokens, claimed, unpaired, dropped>>

WriteFails ==
  /\ update.step \in {"open", "synced"}
  /\ update' = NoUpdate
  /\ AfterUpdate(update.command, FALSE)
  /\ UNCHANGED <<file, stored_config, tokens, claimed, unpaired, dropped>>

-----------------------------------------------------------------------------
(* Credentials. *)

CandidateOrder(preferred) ==
  IF preferred = "dpapi" THEN <<"dpapi", "keyring">> ELSE <<"keyring", "dpapi">>

(* The candidates are probed by a round trip (set, get, delete of a name   *)
(* no device has), the second if the first fails it.                       *)
SelectCredentialStore(preferred, working) ==
  LET order == CandidateOrder(preferred)
  IN IF order[1] \in working THEN order[1]
     ELSE IF order[2] \in working THEN order[2] ELSE "unavailable"

Probed(preferred, working) ==
  LET order == CandidateOrder(preferred)
  IN {order[1]} \cup (IF order[1] \in working THEN {} ELSE {order[2]})

(* A set of the dpapi backend writes the whole credentials file again from *)
(* what it has read, and a file that cannot be read or parsed reads as     *)
(* empty.                                                                  *)
RewritesCredentials(added) ==
  \E read \in {tokens["dpapi"], {}} :
    /\ tokens' = [tokens EXCEPT !["dpapi"] = read \cup added]
    /\ dropped' = dropped \cup (tokens["dpapi"] \ read)

(* With a choice a command goes on with that backend; without one pair     *)
(* fails and unpair leaves the token.                                      *)
GoOnWith(c, choice) ==
  IF choice = "unavailable"
  THEN IF commands[c].op = "pair" THEN Return(c) ELSE Goto(c, "sequence")
  ELSE commands' = [commands EXCEPT ![c].store = choice,
                                    ![c].pc = IF commands[c].op = "pair" THEN "claim" ELSE "delete"]

CredentialsSelect(c) ==
  /\ At(c, "select") /\ selected = "unasked"
  /\ \E working \in SUBSET Backends :
       LET choice == SelectCredentialStore(stored_config.pin, working) IN
       /\ IF choice \in {"unavailable", stored_config.pin}
          THEN selected' = choice /\ GoOnWith(c, choice)
          ELSE /\ selected' = "probing"
               /\ commands' = [commands EXCEPT ![c].pc = "pin", ![c].store = choice]
       /\ IF "dpapi" \in Probed(stored_config.pin, working)
          THEN RewritesCredentials({})
          ELSE UNCHANGED <<tokens, dropped>>
  /\ UNCHANGED <<store_files, claimed, unpaired>>

CredentialsKnown(c) ==
  /\ At(c, "select") /\ selected \notin {"unasked", "probing"}
  /\ GoOnWith(c, selected)
  /\ UNCHANGED <<store_files, tokens, selected, claimed, unpaired, dropped>>

(* Either backend may fail to set, with nothing stored. The keyring has an *)
(* entry for every device.                                                 *)
SetToken(c) ==
  /\ At(c, "token")
  /\ \/ /\ IF commands[c].store = "dpapi"
           THEN RewritesCredentials({commands[c].device})
           ELSE /\ tokens' = [tokens EXCEPT !["keyring"] = @ \cup {commands[c].device}]
                /\ UNCHANGED dropped
        /\ Goto(c, "connection")
     \/ Return(c) /\ UNCHANGED <<tokens, dropped>>
  /\ UNCHANGED <<store_files, selected, claimed, unpaired>>

(* A failure is logged (dpapi) or not even seen (keyring, and a file that  *)
(* reads as empty).                                                        *)
DeleteToken(c) ==
  /\ At(c, "delete")
  /\ tokens' \in {tokens, [tokens EXCEPT ![commands[c].store] = @ \ {commands[c].device}]}
  /\ Goto(c, "sequence")
  /\ UNCHANGED <<store_files, selected, claimed, unpaired, dropped>>

-----------------------------------------------------------------------------
(* Commands. *)

Pair(c) ==
  /\ At(c, "idle")
  /\ commands' = [commands EXCEPT ![c].op = "pair", ![c].pc = "select"]
  /\ UNCHANGED <<store_files, tokens, selected, claimed, unpaired, dropped>>

(* claim_pairing: the input, the capabilities, the claim and its scopes,   *)
(* in this order; a claim without the scope still used the code up.        *)
ClaimPairing(c) ==
  /\ At(c, "claim")
  /\ \/ Return(c) /\ UNCHANGED claimed
     \/ /\ claimed # Devices
        /\ LET d == CHOOSE fresh \in Devices \ claimed : TRUE
           IN /\ claimed' = claimed \cup {d}
              /\ \/ commands' = [commands EXCEPT ![c].pc = "token", ![c].device = d]
                 \/ Return(c)
  /\ UNCHANGED <<store_files, tokens, selected, unpaired, dropped>>

Unpair(c) ==
  /\ At(c, "idle") /\ stored_config.connection # NoDevice
  /\ commands' = [commands EXCEPT ![c] = [op |-> "unpair", pc |-> "disable", store |-> "none",
                                          device |-> stored_config.connection]]
  /\ unpaired' = unpaired \cup {stored_config.connection}
  /\ UNCHANGED <<store_files, tokens, selected, claimed, dropped>>

(* A failure ends the unpair with the connection still there.              *)
UnpairRemovesSequence(c) ==
  /\ At(c, "sequence")
  /\ Goto(c, "remove") \/ Return(c)
  /\ UNCHANGED <<store_files, tokens, selected, claimed, unpaired, dropped>>

(* The process dies anywhere and starts again.                             *)
CrashAndLoad ==
  /\ stored_config' = LoadedConfig(file)
  /\ update' = NoUpdate /\ selected' = "unasked"
  /\ commands' = [c \in Commands |-> IdleCommand]
  /\ UNCHANGED <<file, tokens, claimed, unpaired, dropped>>

(* The disk, or an editor.                                                 *)
FileIsDamaged ==
  /\ file # NoFile /\ file' = Corrupt
  /\ UNCHANGED <<stored_config, update, tokens, selected, commands, claimed, unpaired, dropped>>

StoresStep(c) ==
  \/ UpdateBegins(c) \/ CredentialsSelect(c) \/ CredentialsKnown(c) \/ SetToken(c)
  \/ DeleteToken(c) \/ Pair(c) \/ ClaimPairing(c) \/ Unpair(c) \/ UnpairRemovesSequence(c)

StoresNext ==
  \/ \E c \in Commands : StoresStep(c)
  \/ WriteSyncs \/ WriteRenames \/ UpdateReturns \/ WriteFails
  \/ CrashAndLoad \/ FileIsDamaged

StoresSpec == StoresInit /\ [][StoresNext]_stores_vars

-----------------------------------------------------------------------------

(* Whenever the process dies, the next one loads the configuration from    *)
(* before or after the update in progress, never a part of one (or finds a *)
(* file damaged from outside); and the connection it loads has its token   *)
(* in a backend, unless an unpair of it had begun or the credentials file  *)
(* was written again after a read of it had failed: no other failure, no   *)
(* crash and no other command between the two stores leaves a pairing      *)
(* without a token.                                                        *)
PairingSurvivesCrash ==
  /\ file # Corrupt =>
       LoadedConfig(file) = IF update.step = "renamed" THEN update.next ELSE stored_config
  /\ file # Partial
  /\ LET device == LoadedConfig(file).connection
     IN device \notin unpaired \cup dropped \cup {NoDevice} => \E b \in Backends : device \in tokens[b]
===============================================================================
