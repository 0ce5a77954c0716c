----------------------------- MODULE StoresProofs -----------------------------
(***************************************************************************)
(* Proofs about Stores: that a pairing survives crashes, for any number of *)
(* commands and devices.  PairingSurvivesCrash only speaks of what would   *)
(* be loaded; the induction follows the token from the command that stored *)
(* it, through the update in progress, to the configuration.               *)
(***************************************************************************)
EXTENDS Stores, TLAPS

(* The device's token is in a backend, unless its unpair has begun or a    *)
(* rewrite of the credentials file has dropped it.                         *)
HasToken(d) == d \notin unpaired \cup dropped \cup {NoDevice} => \E b \in Backends : d \in tokens[b]

(* An unpair deletes only the token of a device whose unpair has begun.    *)
UnpairsAreKnown ==
  \A c \in Commands : commands[c].op = "unpair" => commands[c].device \in unpaired

(* A pair about to write its connection has stored the token.              *)
TokenBeforeConnection ==
  \A c \in Commands : commands[c].pc = "connection" => HasToken(commands[c].device)

(* What a command has found out by each of its steps.                      *)
Known(k) ==
  /\ k.pc \in {"pin", "claim", "token", "connection", "delete"} => k.store \in Backends
  /\ k.pc \in {"select", "pin", "disable"} => k.op \in {"pair", "unpair"}
  /\ k.pc = "delete" => k.op = "unpair"
  /\ k.pc \in {"claim", "token", "connection"} => k.op = "pair"
  /\ k.pc = "token" => k.device \in Devices

CommandsAreKnown == \A c \in Commands : Known(commands[c])

(* The command of the update in progress waits for it.                     *)
UpdateHasCommand == update # NoUpdate => commands[update.command].pc \in UpdatePcs

ConnectionsHaveTokens == HasToken(stored_config.connection) /\ HasToken(update.next.connection)

(* The file is the configuration before or after the update in progress.   *)
FileIsConsistent ==
  /\ file # Partial
  /\ file # Corrupt =>
       LoadedConfig(file) = IF update.step = "renamed" THEN update.next ELSE stored_config

StoresInv ==
  /\ StoresTypeOK /\ UnpairsAreKnown /\ TokenBeforeConnection /\ CommandsAreKnown
  /\ UpdateHasCommand /\ ConnectionsHaveTokens /\ FileIsConsistent

LEMMA InitHolds == StoresInit => StoresInv
BY StoresAssumption
   DEF StoresAssumption, StoresInit, StoresInv, StoresTypeOK, UnpairsAreKnown,
       TokenBeforeConnection, CommandsAreKnown, Known, UpdateHasCommand, ConnectionsHaveTokens,
       FileIsConsistent, HasToken, LoadedConfig, Config, DefaultConfig, NoUpdate, Command, IdleCommand, UpdatePcs, Backends

LEMMA PairingFollows == StoresInv => PairingSurvivesCrash
<1> SUFFICES ASSUME StoresInv PROVE PairingSurvivesCrash
  OBVIOUS
<1>1. HasToken(LoadedConfig(file).connection)
  <2>1. CASE file = Corrupt
    BY <2>1, StoresAssumption DEF StoresAssumption, LoadedConfig, DefaultConfig, HasToken
  <2>2. CASE file # Corrupt
    BY <2>2 DEF StoresInv, FileIsConsistent, ConnectionsHaveTokens
  <2> QED BY <2>1, <2>2
<1> QED BY <1>1 DEF StoresInv, FileIsConsistent, PairingSurvivesCrash, HasToken

-----------------------------------------------------------------------------

(* The steps of an update leave the commands' tokens alone.                *)
LEMMA UpdateBeginsHolds ==
  ASSUME StoresInv, NEW c \in Commands, UpdateBegins(c) PROVE StoresInv'
<1> USE DEF StoresInv
<1>1. commands[c] \in Command /\ stored_config \in Config
  BY DEF StoresTypeOK
<1>2. /\ Mutated(c, stored_config) \in Config
      /\ Mutated(c, stored_config).connection
           \in {stored_config.connection, NoDevice}
               \cup (IF commands[c].pc = "connection" THEN {commands[c].device} ELSE {})
  <2>1. CASE commands[c].pc = "pin"
    BY <1>1, <2>1 DEF Mutated, At, Config, CommandsAreKnown, Known
  <2>2. CASE commands[c].pc = "connection"
    BY <1>1, <2>2 DEF Mutated, At, Config, CommandsAreKnown, Known, Command
  <2>3. CASE commands[c].pc = "disable"
    BY <1>1, <2>3 DEF Mutated, At
  <2>4. CASE commands[c].pc = "remove"
    BY <1>1, <2>4 DEF Mutated, At, Config
  <2> QED BY <2>1, <2>2, <2>3, <2>4 DEF UpdateBegins, UpdatePcs
<1>3. HasToken(Mutated(c, stored_config).connection)
  BY <1>2 DEF ConnectionsHaveTokens, TokenBeforeConnection, HasToken
<1>4. /\ update' = [step |-> "open", next |-> Mutated(c, stored_config), command |-> c]
      /\ update.step = "none"
      /\ UNCHANGED <<file, stored_config, tokens, selected, commands, claimed, unpaired, dropped>>
  BY DEF UpdateBegins
<1>5. StoresTypeOK'
  BY <1>2, <1>4 DEF StoresTypeOK
<1>6. ConnectionsHaveTokens'
  BY <1>3, <1>4 DEF ConnectionsHaveTokens, HasToken
<1>7. FileIsConsistent'
  BY <1>4 DEF FileIsConsistent, LoadedConfig
<1>8. UpdateHasCommand'
  BY <1>4 DEF UpdateHasCommand, UpdateBegins
<1> QED BY <1>4, <1>5, <1>6, <1>7, <1>8
           DEF UnpairsAreKnown, TokenBeforeConnection, CommandsAreKnown, HasToken

LEMMA WritesHold == ASSUME StoresInv, WriteSyncs \/ WriteRenames PROVE StoresInv'
<1> USE DEF StoresInv
<1>1. /\ update.step \in {"open", "synced"} /\ update # NoUpdate
      /\ update \in [step : {"open", "synced", "renamed"}, next : Config, command : Commands]
      /\ UNCHANGED <<stored_config, tokens, selected, commands, claimed, unpaired, dropped>>
  BY DEF WriteSyncs, WriteRenames, StoresTypeOK, NoUpdate
<1>2. update' = [update EXCEPT !.step = "synced"] \/ update' = [update EXCEPT !.step = "renamed"]
  BY DEF WriteSyncs, WriteRenames
<1>3. /\ update' \in [step : {"open", "synced", "renamed"}, next : Config, command : Commands]
      /\ update'.next = update.next
  BY <1>1, <1>2
<1>4. file' = file \/ file' = update.next
  BY DEF WriteSyncs, WriteRenames
<1>5. StoresTypeOK'
  BY <1>1, <1>3, <1>4 DEF StoresTypeOK
<1>6. ConnectionsHaveTokens'
  BY <1>1, <1>3 DEF ConnectionsHaveTokens, HasToken
<1>7. FileIsConsistent'
  <2>1. CASE WriteSyncs
    BY <2>1, <1>1 DEF WriteSyncs, FileIsConsistent, LoadedConfig
  <2>2. CASE WriteRenames
    <3>1. file' = update.next /\ update'.step = "renamed" /\ file' \in Config
      BY <2>2, <1>1 DEF WriteRenames
    <3> QED BY <3>1, <1>3, StoresAssumption
               DEF FileIsConsistent, LoadedConfig, StoresAssumption
  <2> QED BY <2>1, <2>2
<1>8. UpdateHasCommand'
  BY <1>1, <1>2 DEF UpdateHasCommand
<1> QED BY <1>1, <1>5, <1>6, <1>7, <1>8
           DEF UnpairsAreKnown, TokenBeforeConnection, CommandsAreKnown, HasToken

(* One command changes, tokens go only with an unpair.                     *)
LEMMA CommandChanges ==
  ASSUME StoresInv, NEW c \in Commands, NEW next \in Command,
         commands' = [commands EXCEPT ![c] = next], Known(next),
         next.op = "unpair" => next.device \in unpaired',
         next.pc = "connection" => HasToken(next.device)',
         unpaired \subseteq unpaired', dropped \subseteq dropped',
         \A b \in Backends : tokens[b] \subseteq tokens'[b] \cup unpaired' \cup dropped'
  PROVE  /\ commands' \in [Commands -> Command]
         /\ UnpairsAreKnown' /\ TokenBeforeConnection' /\ CommandsAreKnown'
<1> USE DEF StoresInv
<1>1. /\ commands' \in [Commands -> Command] /\ commands'[c] = next
      /\ \A d \in Commands \ {c} : commands'[d] = commands[d]
  BY DEF StoresTypeOK
<1>2. UnpairsAreKnown'
  BY <1>1 DEF UnpairsAreKnown
<1>3. TokenBeforeConnection'
  <2>1. ASSUME NEW d \in Commands, commands'[d].pc = "connection"
        PROVE  HasToken(commands[d].device)'
    <3>1. CASE d = c
      BY <1>1, <2>1, <3>1 DEF HasToken
    <3>2. CASE d # c
      BY <1>1, <2>1, <3>2 DEF TokenBeforeConnection, HasToken
    <3> QED BY <3>1, <3>2
  <2> QED BY <2>1 DEF TokenBeforeConnection, HasToken
<1>4. CommandsAreKnown'
  BY <1>1 DEF CommandsAreKnown, Known
<1> QED BY <1>1, <1>2, <1>3, <1>4

(* The ways on that store no token and claim no device.                    *)
CommandMoves(c) ==
  \/ Goto(c, "sequence") \/ Goto(c, "remove") \/ Return(c)
  \/ commands[c].op \in {"pair", "unpair"} /\ Goto(c, "select")
  \/ /\ commands[c].store \in Backends
     /\ \/ commands[c].op = "pair" /\ Goto(c, "claim")
        \/ commands[c].op = "unpair" /\ Goto(c, "delete")

LEMMA GotoIs ==
  ASSUME StoresTypeOK, NEW c \in Commands, NEW pc \in {"claim", "select", "sequence", "delete"} \cup UpdatePcs,
         Goto(c, pc)
  PROVE  \E next \in Command :
           /\ commands' = [commands EXCEPT ![c] = next] /\ next.pc = pc
           /\ next.op = commands[c].op /\ next.device = commands[c].device
           /\ next.store = commands[c].store
<1> DEFINE next == [commands[c] EXCEPT !.pc = pc]
<1>1. /\ next \in Command /\ next.op = commands[c].op /\ next.device = commands[c].device
      /\ next.store = commands[c].store /\ next.pc = pc
  BY DEF StoresTypeOK, Command
<1>2. commands' = [commands EXCEPT ![c] = next]
  BY DEF Goto
<1> HIDE DEF next
<1> QED BY <1>1, <1>2

LEMMA CommandMovesHold ==
  ASSUME StoresInv, NEW c \in Commands, CommandMoves(c),
         unpaired' = unpaired, dropped \subseteq dropped',
         \A b \in Backends : tokens[b] \subseteq tokens'[b] \cup unpaired' \cup dropped'
  PROVE  /\ commands' \in [Commands -> Command]
         /\ UnpairsAreKnown' /\ TokenBeforeConnection' /\ CommandsAreKnown'
<1> USE DEF StoresInv
<1>1. CASE Return(c)
  <2>1. PICK next \in Command : next = IdleCommand
    BY DEF IdleCommand, Command
  <2>2. commands' = [commands EXCEPT ![c] = next] /\ Known(next) /\ next.op = "none" /\ next.pc = "idle"
    BY <1>1, <2>1 DEF Return, IdleCommand, Known
  <2> QED BY <2>2, CommandChanges
<1>2. CASE ~Return(c)
  <2>1. PICK pc \in {"claim", "select", "sequence", "remove", "delete"} :
          /\ Goto(c, pc)
          /\ pc = "select" => commands[c].op \in {"pair", "unpair"}
          /\ pc \in {"claim", "delete"} => commands[c].store \in Backends
          /\ pc = "claim" => commands[c].op = "pair"
          /\ pc = "delete" => commands[c].op = "unpair"
    BY <1>2 DEF CommandMoves
  <2>2. pc \in {"claim", "select", "sequence", "delete"} \cup UpdatePcs
    BY DEF UpdatePcs
  <2>3. PICK next \in Command :
          /\ commands' = [commands EXCEPT ![c] = next] /\ next.pc = pc
          /\ next.op = commands[c].op /\ next.device = commands[c].device
          /\ next.store = commands[c].store
    BY <2>1, <2>2, GotoIs
  <2>4. Known(next) /\ next.pc # "connection"
    BY <2>1, <2>3 DEF Known
  <2>5. next.op = "unpair" => next.device \in unpaired'
    BY <2>3 DEF UnpairsAreKnown
  <2> QED BY <2>3, <2>4, <2>5, CommandChanges
<1> QED BY <1>1, <1>2

LEMMA UpdateEndsHolds ==
  ASSUME StoresInv, UpdateReturns \/ WriteFails PROVE StoresInv'
<1> USE DEF StoresInv
<1> DEFINE c == update.command
<1>0. \/ update.step = "renamed" /\ stored_config' = update.next
      \/ update.step \in {"open", "synced"} /\ stored_config' = stored_config
  <2>1. CASE UpdateReturns
    BY <2>1, Zenon DEF UpdateReturns
  <2>2. CASE WriteFails
    BY <2>2, Zenon DEF WriteFails
  <2> QED BY <2>1, <2>2
<1>1. update.step \in {"open", "synced", "renamed"} /\ update # NoUpdate
  BY <1>0 DEF NoUpdate
<1>2. update \in [step : {"open", "synced", "renamed"}, next : Config, command : Commands]
  BY <1>1 DEF StoresTypeOK
<1>3. /\ c \in Commands /\ update.next \in Config /\ commands[c].pc \in UpdatePcs
      /\ commands[c] \in Command
  BY <1>1, <1>2 DEF UpdateHasCommand, StoresTypeOK
<1>4. /\ UNCHANGED <<file, tokens, claimed, unpaired, dropped>> /\ update' = NoUpdate
      /\ \E succeeds \in BOOLEAN : AfterUpdate(c, succeeds)
  BY DEF UpdateReturns, WriteFails
<1>5. /\ selected' \in Backends \cup {"unasked", "probing", "unavailable"}
      /\ CommandMoves(c)
  <2>1. commands[c].pc = "pin" => commands[c].store \in Backends /\ commands[c].op \in {"pair", "unpair"}
    BY <1>3 DEF CommandsAreKnown, Known
  <2>2. selected' \in {selected} \cup (IF At(c, "pin") THEN {commands[c].store} ELSE {})
    BY <1>4 DEF AfterUpdate
  <2>3. CASE At(c, "pin")
    BY <1>4, <2>1, <2>3 DEF AfterUpdate, At, CommandMoves
  <2>4. ASSUME ~At(c, "pin") PROVE CommandMoves(c)
    <3>0. At(c, "disable") => commands[c].op \in {"pair", "unpair"}
      BY <1>3 DEF CommandsAreKnown, Known, At
    <3>1. PICK succeeds \in BOOLEAN : AfterUpdate(c, succeeds)
      BY <1>4
    <3>2. (At(c, "disable") /\ Goto(c, "select")) \/ Return(c)
      BY <2>4, <3>1, Zenon DEF AfterUpdate
    <3> QED BY <3>0, <3>2 DEF CommandMoves
  <2> QED BY <2>1, <2>2, <2>3, <2>4 DEF StoresTypeOK, At
<1>6. /\ commands' \in [Commands -> Command]
      /\ UnpairsAreKnown' /\ TokenBeforeConnection' /\ CommandsAreKnown'
  BY <1>3, <1>4, <1>5, CommandMovesHold
<1>8. StoresTypeOK'
  BY <1>0, <1>3, <1>4, <1>5, <1>6 DEF StoresTypeOK
<1>9. UpdateHasCommand'
  BY <1>4 DEF UpdateHasCommand
<1>10. ConnectionsHaveTokens'
  BY <1>0, <1>4 DEF ConnectionsHaveTokens, HasToken, NoUpdate, DefaultConfig
<1>11. FileIsConsistent'
  BY <1>0, <1>4 DEF FileIsConsistent, LoadedConfig, NoUpdate
<1> QED BY <1>6, <1>8, <1>9, <1>10, <1>11

-----------------------------------------------------------------------------

(* A command that waits for no update leaves the configuration alone.      *)
LEMMA FilesUntouched ==
  ASSUME StoresInv, NEW c \in Commands, commands[c].pc \notin UpdatePcs, UNCHANGED store_files,
         \A d \in Commands \ {c} : commands'[d] = commands[d],
         unpaired \subseteq unpaired', dropped \subseteq dropped',
         \A b \in Backends : tokens[b] \subseteq tokens'[b] \cup unpaired' \cup dropped',
         tokens' \in [Backends -> SUBSET Devices],
         selected' \in Backends \cup {"unasked", "probing", "unavailable"},
         claimed' \subseteq Devices, unpaired' \subseteq Devices, dropped' \subseteq Devices,
         commands' \in [Commands -> Command],
         UnpairsAreKnown' /\ TokenBeforeConnection' /\ CommandsAreKnown'
  PROVE  StoresInv'
<1> USE DEF StoresInv, store_files
<1>1. StoresTypeOK'
  BY DEF StoresTypeOK
<1>2. UpdateHasCommand'
  <2>1. SUFFICES ASSUME update # NoUpdate PROVE commands'[update.command].pc \in UpdatePcs
    BY DEF UpdateHasCommand
  <2>2. update.command \in Commands /\ commands[update.command].pc \in UpdatePcs
    BY <2>1 DEF UpdateHasCommand, StoresTypeOK
  <2> QED BY <2>2
<1>3. ConnectionsHaveTokens'
  BY DEF ConnectionsHaveTokens, HasToken
<1>4. FileIsConsistent'
  BY DEF FileIsConsistent, LoadedConfig
<1> QED BY <1>1, <1>2, <1>3, <1>4

LEMMA CommandStep ==
  ASSUME StoresInv, NEW c \in Commands, NEW next \in Command, commands[c].pc \notin UpdatePcs,
         commands' = [commands EXCEPT ![c] = next], Known(next),
         next.op = "unpair" => next.device \in unpaired',
         next.pc = "connection" => HasToken(next.device)',
         UNCHANGED store_files,
         unpaired \subseteq unpaired', dropped \subseteq dropped',
         \A b \in Backends : tokens[b] \subseteq tokens'[b] \cup unpaired' \cup dropped',
         tokens' \in [Backends -> SUBSET Devices],
         selected' \in Backends \cup {"unasked", "probing", "unavailable"},
         claimed' \subseteq Devices, unpaired' \subseteq Devices, dropped' \subseteq Devices
  PROVE  StoresInv'
<1>1. /\ commands' \in [Commands -> Command]
      /\ UnpairsAreKnown' /\ TokenBeforeConnection' /\ CommandsAreKnown'
  BY CommandChanges
<1>2. \A d \in Commands \ {c} : commands'[d] = commands[d]
  BY DEF StoresInv, StoresTypeOK
<1> QED BY <1>1, <1>2, FilesUntouched

LEMMA MovesAway ==
  ASSUME StoresInv, NEW c \in Commands, NEW pc \in {"claim", "select", "sequence", "remove", "delete"},
         Goto(c, pc) \/ Return(c)
  PROVE  \A d \in Commands \ {c} : commands'[d] = commands[d]
BY DEF StoresInv, StoresTypeOK, Goto, Return

(* A command drops no token but by a rewrite of the credentials file.      *)
TokensKept ==
  /\ tokens' \in [Backends -> SUBSET Devices]
  /\ dropped \subseteq dropped' /\ dropped' \subseteq Devices
  /\ \A b \in Backends : tokens[b] \subseteq tokens'[b] \cup dropped'

LEMMA RewriteKeeps ==
  ASSUME StoresTypeOK, NEW added \in SUBSET Devices, RewritesCredentials(added)
  PROVE  TokensKept /\ added \subseteq tokens'["dpapi"]
<1>1. tokens \in [Backends -> SUBSET Devices] /\ dropped \subseteq Devices
  BY DEF StoresTypeOK
<1>2. PICK read \in {tokens["dpapi"], {}} :
        /\ tokens' = [tokens EXCEPT !["dpapi"] = read \cup added]
        /\ dropped' = dropped \cup (tokens["dpapi"] \ read)
  BY DEF RewritesCredentials
<1>3. "dpapi" \in Backends /\ read \subseteq Devices
  BY <1>1 DEF Backends
<1>4. tokens' \in [Backends -> SUBSET Devices]
  BY <1>1, <1>2, <1>3
<1>5. ASSUME NEW b \in Backends PROVE tokens[b] \subseteq tokens'[b] \cup dropped'
  BY <1>1, <1>2
<1>6. dropped \subseteq dropped' /\ dropped' \subseteq Devices
  BY <1>1, <1>2, <1>3
<1> QED BY <1>1, <1>2, <1>3, <1>4, <1>5, <1>6 DEF TokensKept

LEMMA SameTokensKept == StoresTypeOK /\ UNCHANGED <<tokens, dropped>> => TokensKept
BY DEF StoresTypeOK, TokensKept

LEMMA StepHolds ==
  ASSUME StoresInv, NEW c \in Commands, StoresStep(c) PROVE StoresInv'
<1> USE DEF StoresInv
<1>1. /\ commands \in [Commands -> Command] /\ commands[c] \in Command
      /\ tokens \in [Backends -> SUBSET Devices]
      /\ selected \in Backends \cup {"unasked", "probing", "unavailable"}
      /\ claimed \subseteq Devices /\ unpaired \subseteq Devices /\ dropped \subseteq Devices
      /\ stored_config \in Config
      /\ Known(commands[c])
  BY DEF StoresTypeOK, CommandsAreKnown
<1>2. CASE UpdateBegins(c)
  BY <1>2, UpdateBeginsHolds
<1>3. ASSUME At(c, "select"), UNCHANGED <<store_files, claimed, unpaired>>, TokensKept,
             NEW choice \in Backends \cup {"unavailable"}, GoOnWith(c, choice),
             selected' \in Backends \cup {"unasked", "probing", "unavailable"}
      PROVE  StoresInv'
  <2>1. commands[c].pc \notin UpdatePcs /\ commands[c].op \in {"pair", "unpair"}
    BY <1>1, <1>3 DEF At, UpdatePcs, Known
  <2>2. CASE choice = "unavailable"
    <3>1. Return(c) \/ Goto(c, "sequence")
      BY <1>3, <2>2 DEF GoOnWith
    <3>2. CommandMoves(c) /\ \A d \in Commands \ {c} : commands'[d] = commands[d]
      BY <3>1, MovesAway DEF CommandMoves
    <3>3. /\ commands' \in [Commands -> Command]
          /\ UnpairsAreKnown' /\ TokenBeforeConnection' /\ CommandsAreKnown'
      BY <1>3, <3>2, CommandMovesHold DEF TokensKept
    <3> QED BY <1>1, <1>3, <2>1, <3>2, <3>3, FilesUntouched DEF TokensKept
  <2>3. CASE choice \in Backends
    <3> DEFINE next == [commands[c] EXCEPT !.store = choice,
                                           !.pc = IF commands[c].op = "pair" THEN "claim" ELSE "delete"]
    <3>1. choice # "unavailable"
      BY <2>3 DEF Backends
    <3>2. /\ next \in Command /\ next.op = commands[c].op /\ next.device = commands[c].device
          /\ next.store = choice
          /\ next.pc = IF commands[c].op = "pair" THEN "claim" ELSE "delete"
          /\ commands' = [commands EXCEPT ![c] = next]
      BY <1>1, <1>3, <2>3, <3>1 DEF GoOnWith, Command
    <3> HIDE DEF next
    <3>3. PICK k \in Command : k = next
      BY <3>2
    <3>4. Known(k) /\ k.pc # "connection" /\ commands' = [commands EXCEPT ![c] = k]
      BY <2>1, <2>3, <3>2, <3>3 DEF Known
    <3>5. k.op = "unpair" => k.device \in unpaired'
      BY <1>3, <3>2, <3>3 DEF UnpairsAreKnown
    <3> QED BY <1>1, <1>3, <2>1, <3>4, <3>5, CommandStep DEF TokensKept
  <2> QED BY <2>2, <2>3
<1>4. CASE CredentialsSelect(c)
  <2>1. PICK working \in SUBSET Backends :
          LET choice == SelectCredentialStore(stored_config.pin, working) IN
          /\ IF choice \in {"unavailable", stored_config.pin}
             THEN selected' = choice /\ GoOnWith(c, choice)
             ELSE /\ selected' = "probing"
                  /\ commands' = [commands EXCEPT ![c].pc = "pin", ![c].store = choice]
          /\ RewritesCredentials({}) \/ UNCHANGED <<tokens, dropped>>
    BY <1>4 DEF CredentialsSelect
  <2>2. PICK choice \in Backends \cup {"unavailable"} :
          choice = SelectCredentialStore(stored_config.pin, working)
    BY <2>1 DEF SelectCredentialStore
  <2>3. At(c, "select") /\ UNCHANGED <<store_files, claimed, unpaired>> /\ TokensKept
    BY <1>4, <2>1, RewriteKeeps, SameTokensKept DEF CredentialsSelect
  <2>4. CASE choice \in {"unavailable", stored_config.pin}
    <3>1. selected' = choice /\ GoOnWith(c, choice)
      BY <2>1, <2>2, <2>4
    <3> QED BY <1>3, <2>3, <3>1
  <2>5. CASE choice \notin {"unavailable", stored_config.pin}
    <3> DEFINE next == [commands[c] EXCEPT !.pc = "pin", !.store = choice]
    <3>1. selected' = "probing" /\ commands' = [commands EXCEPT ![c] = next]
      BY <2>1, <2>2, <2>5
    <3>2. /\ next \in Command /\ next.op = commands[c].op /\ next.device = commands[c].device
          /\ next.store = choice /\ next.pc = "pin"
      BY <1>1, <2>5 DEF Command, UpdatePcs
    <3> HIDE DEF next
    <3>3. PICK k \in Command : k = next
      BY <3>2
    <3>4. Known(k) /\ k.pc # "connection" /\ commands' = [commands EXCEPT ![c] = k]
      BY <1>1, <2>3, <2>5, <3>1, <3>2, <3>3 DEF Known, At
    <3>5. k.op = "unpair" => k.device \in unpaired'
      BY <2>3, <3>2, <3>3 DEF UnpairsAreKnown
    <3> QED BY <1>1, <2>3, <3>1, <3>4, <3>5, CommandStep DEF At, UpdatePcs, TokensKept
  <2> QED BY <2>4, <2>5
<1>5. CASE CredentialsKnown(c)
  <2>1. selected \in Backends \cup {"unavailable"} /\ selected' = selected
    BY <1>1, <1>5 DEF CredentialsKnown
  <2>2. PICK choice \in Backends \cup {"unavailable"} : choice = selected
    BY <2>1
  <2>3. GoOnWith(c, choice) /\ At(c, "select") /\ UNCHANGED <<store_files, tokens, claimed, unpaired, dropped>>
    BY <1>5, <2>2 DEF CredentialsKnown
  <2>4. TokensKept
    BY <2>3, SameTokensKept
  <2> QED BY <1>1, <1>3, <2>1, <2>3, <2>4
<1>6. CASE SetToken(c)
  <2>1. /\ commands[c].pc = "token" /\ commands[c].pc \notin UpdatePcs /\ commands[c].store \in Backends
        /\ UNCHANGED <<store_files, selected, claimed, unpaired>>
    BY <1>1, <1>6 DEF SetToken, At, UpdatePcs, Known
  <2>2. CASE Return(c) /\ UNCHANGED <<tokens, dropped>>
    <3>1. CommandMoves(c) /\ \A d \in Commands \ {c} : commands'[d] = commands[d]
      BY <2>2, MovesAway DEF CommandMoves
    <3>2. /\ commands' \in [Commands -> Command]
          /\ UnpairsAreKnown' /\ TokenBeforeConnection' /\ CommandsAreKnown'
      BY <2>1, <2>2, <3>1, CommandMovesHold
    <3> QED BY <1>1, <2>1, <2>2, <3>1, <3>2, FilesUntouched
  <2>3. ASSUME Goto(c, "connection"), TokensKept,
               \E b \in Backends : commands[c].device \in tokens'[b]
        PROVE  StoresInv'
    <3>1. PICK next \in Command :
            /\ commands' = [commands EXCEPT ![c] = next] /\ next.pc = "connection"
            /\ next.op = commands[c].op /\ next.device = commands[c].device
            /\ next.store = commands[c].store
      BY <2>3, GotoIs DEF UpdatePcs
    <3>2. Known(next) /\ (next.op = "unpair" => next.device \in unpaired')
      BY <1>1, <2>1, <3>1 DEF Known, UnpairsAreKnown
    <3>3. HasToken(next.device)'
      BY <1>1, <2>1, <2>3, <3>1 DEF HasToken
    <3>4. \A b \in Backends : tokens[b] \subseteq tokens'[b] \cup unpaired' \cup dropped'
      BY <2>3 DEF TokensKept
    <3> QED BY <1>1, <2>1, <2>3, <3>1, <3>2, <3>3, <3>4, CommandStep DEF TokensKept
  <2>4. CASE RewritesCredentials({commands[c].device}) /\ Goto(c, "connection")
    <3>1. {commands[c].device} \in SUBSET Devices
      BY <1>1, <2>1 DEF Known
    <3>2. TokensKept /\ commands[c].device \in tokens'["dpapi"] /\ "dpapi" \in Backends
      BY <2>4, <3>1, RewriteKeeps DEF Backends
    <3> QED BY <2>3, <2>4, <3>2
  <2>5. CASE /\ tokens' = [tokens EXCEPT !["keyring"] = @ \cup {commands[c].device}]
             /\ UNCHANGED dropped /\ Goto(c, "connection")
    <3>1. commands[c].device \in Devices /\ "keyring" \in Backends
      BY <1>1, <2>1 DEF Known, Backends
    <3>2. TokensKept /\ commands[c].device \in tokens'["keyring"]
      BY <1>1, <2>5, <3>1 DEF TokensKept
    <3> QED BY <2>3, <2>5, <3>1, <3>2
  <2> QED BY <1>6, <2>2, <2>4, <2>5 DEF SetToken
<1>7. CASE DeleteToken(c)
  <2>1. /\ CommandMoves(c) /\ commands[c].pc \notin UpdatePcs
        /\ \A d \in Commands \ {c} : commands'[d] = commands[d]
    BY <1>7, MovesAway DEF DeleteToken, CommandMoves, At, UpdatePcs
  <2>2. commands[c].device \in unpaired
    BY <1>1, <1>7 DEF DeleteToken, At, Known, UnpairsAreKnown
  <2>3. /\ \A b \in Backends : tokens[b] \subseteq tokens'[b] \cup unpaired' \cup dropped'
        /\ tokens' \in [Backends -> SUBSET Devices]
    BY <1>1, <1>7, <2>2 DEF DeleteToken
  <2>4. UNCHANGED <<store_files, selected, claimed, unpaired, dropped>>
    BY <1>7 DEF DeleteToken
  <2>5. /\ commands' \in [Commands -> Command]
        /\ UnpairsAreKnown' /\ TokenBeforeConnection' /\ CommandsAreKnown'
    BY <2>1, <2>3, <2>4, CommandMovesHold
  <2> QED BY <1>1, <2>1, <2>3, <2>4, <2>5, FilesUntouched
<1>8. CASE Pair(c)
  <2> DEFINE next == [commands[c] EXCEPT !.op = "pair", !.pc = "select"]
  <2>1. /\ next \in Command /\ next.op = "pair" /\ next.pc = "select"
        /\ commands' = [commands EXCEPT ![c] = next]
    BY <1>1, <1>8 DEF Pair, Command
  <2> HIDE DEF next
  <2>2. PICK k \in Command : k = next
    BY <2>1
  <2>3. /\ commands[c].pc \notin UpdatePcs
        /\ UNCHANGED <<store_files, tokens, selected, claimed, unpaired, dropped>>
    BY <1>8 DEF Pair, At, UpdatePcs
  <2>4. Known(k) /\ k.op # "unpair" /\ k.pc # "connection"
    BY <2>1, <2>2 DEF Known
  <2>5. commands' = [commands EXCEPT ![c] = k]
    BY <2>1, <2>2
  <2> QED BY <1>1, <2>3, <2>4, <2>5, CommandStep
<1>9. CASE ClaimPairing(c)
  <2>1. /\ commands[c].pc = "claim" /\ commands[c].pc \notin UpdatePcs
        /\ UNCHANGED <<store_files, tokens, selected, unpaired, dropped>> /\ claimed' \subseteq Devices
    BY <1>1, <1>9 DEF ClaimPairing, At, UpdatePcs
  <2>2. CASE Return(c)
    <3>1. CommandMoves(c) /\ \A d \in Commands \ {c} : commands'[d] = commands[d]
      BY <2>2, MovesAway DEF CommandMoves
    <3>2. /\ commands' \in [Commands -> Command]
          /\ UnpairsAreKnown' /\ TokenBeforeConnection' /\ CommandsAreKnown'
      BY <2>1, <3>1, CommandMovesHold
    <3> QED BY <1>1, <2>1, <3>1, <3>2, FilesUntouched
  <2>3. ASSUME NEW d \in Devices,
               commands' = [commands EXCEPT ![c].pc = "token", ![c].device = d]
        PROVE  StoresInv'
    <3> DEFINE next == [commands[c] EXCEPT !.pc = "token", !.device = d]
    <3>1. /\ next \in Command /\ next.pc = "token" /\ next.op = commands[c].op /\ next.device = d
          /\ next.store = commands[c].store /\ commands' = [commands EXCEPT ![c] = next]
      BY <1>1, <2>3 DEF Command
    <3> HIDE DEF next
    <3>2. PICK k \in Command : k = next
      BY <3>1
    <3>3. commands[c].op = "pair"
      BY <1>1, <2>1 DEF Known
    <3>4. Known(k) /\ k.pc # "connection" /\ k.op # "unpair"
          /\ commands' = [commands EXCEPT ![c] = k]
      BY <1>1, <2>1, <3>1, <3>2, <3>3 DEF Known
    <3> QED BY <1>1, <2>1, <3>4, CommandStep
  <2>4. CASE claimed # Devices
    <3>1. (CHOOSE fresh \in Devices \ claimed : TRUE) \in Devices
      BY <1>1, <2>4
    <3> QED BY <1>9, <2>2, <2>3, <3>1 DEF ClaimPairing
  <2> QED BY <1>9, <2>2, <2>4 DEF ClaimPairing
<1>10. CASE Unpair(c)
  <2> DEFINE next == [op |-> "unpair", pc |-> "disable", store |-> "none",
                      device |-> stored_config.connection]
  <2>1. /\ next \in Command /\ next.op = "unpair" /\ next.pc = "disable"
        /\ next.device = stored_config.connection
        /\ commands' = [commands EXCEPT ![c] = next]
    BY <1>1, <1>10 DEF Unpair, Command, Config, UpdatePcs
  <2> HIDE DEF next
  <2>2. PICK k \in Command : k = next
    BY <2>1
  <2>3. /\ commands[c].pc \notin UpdatePcs /\ UNCHANGED <<store_files, tokens, selected, claimed, dropped>>
        /\ unpaired' = unpaired \cup {stored_config.connection}
        /\ stored_config.connection \in Devices
    BY <1>1, <1>10 DEF Unpair, At, UpdatePcs, Config
  <2>4. Known(k) /\ k.device \in unpaired' /\ k.pc # "connection"
        /\ commands' = [commands EXCEPT ![c] = k]
    BY <2>1, <2>2, <2>3 DEF Known
  <2> QED BY <1>1, <2>3, <2>4, CommandStep
<1>11. CASE UnpairRemovesSequence(c)
  <2>1. /\ CommandMoves(c) /\ commands[c].pc \notin UpdatePcs
        /\ \A d \in Commands \ {c} : commands'[d] = commands[d]
    BY <1>11, MovesAway DEF UnpairRemovesSequence, CommandMoves, At, UpdatePcs
  <2>2. UNCHANGED <<store_files, tokens, selected, claimed, unpaired, dropped>>
    BY <1>11 DEF UnpairRemovesSequence
  <2>3. /\ commands' \in [Commands -> Command]
        /\ UnpairsAreKnown' /\ TokenBeforeConnection' /\ CommandsAreKnown'
    BY <2>1, <2>2, CommandMovesHold
  <2> QED BY <1>1, <2>1, <2>2, <2>3, FilesUntouched
<1> QED
  BY <1>2, <1>4, <1>5, <1>6, <1>7, <1>8, <1>9, <1>10, <1>11 DEF StoresStep

-----------------------------------------------------------------------------

(* A crash loads what the file holds; the commands and the update are gone. *)
LEMMA CrashHolds == ASSUME StoresInv, CrashAndLoad PROVE StoresInv'
<1> USE DEF StoresInv
<1>1. /\ stored_config' = LoadedConfig(file) /\ update' = NoUpdate /\ selected' = "unasked"
      /\ commands' = [c \in Commands |-> IdleCommand]
      /\ UNCHANGED <<file, tokens, claimed, unpaired, dropped>>
  BY DEF CrashAndLoad
<1>2. LoadedConfig(file) \in Config
  BY DEF LoadedConfig, DefaultConfig, Config
<1>3. StoresTypeOK'
  BY <1>1, <1>2 DEF StoresTypeOK, IdleCommand, Command
<1>4. UnpairsAreKnown' /\ TokenBeforeConnection' /\ CommandsAreKnown' /\ UpdateHasCommand'
  BY <1>1 DEF UnpairsAreKnown, TokenBeforeConnection, CommandsAreKnown, Known, UpdateHasCommand,
              IdleCommand
<1>5. ConnectionsHaveTokens'
  <2>1. HasToken(LoadedConfig(file).connection)
    BY PairingFollows, Zenon DEF PairingSurvivesCrash, HasToken
  <2> QED BY <1>1, <2>1 DEF ConnectionsHaveTokens, HasToken, NoUpdate, DefaultConfig
<1>6. FileIsConsistent'
  BY <1>1 DEF FileIsConsistent, NoUpdate
<1> QED BY <1>3, <1>4, <1>5, <1>6

LEMMA DamageHolds == ASSUME StoresInv, FileIsDamaged PROVE StoresInv'
<1> USE DEF StoresInv
<1>1. /\ file' = Corrupt
      /\ UNCHANGED <<stored_config, update, tokens, selected, commands, claimed, unpaired, dropped>>
  BY DEF FileIsDamaged
<1>2. StoresTypeOK' /\ UpdateHasCommand'
  BY <1>1 DEF StoresTypeOK, UpdateHasCommand
<1>3. UnpairsAreKnown' /\ TokenBeforeConnection' /\ CommandsAreKnown' /\ ConnectionsHaveTokens'
  BY <1>1 DEF UnpairsAreKnown, TokenBeforeConnection, CommandsAreKnown, ConnectionsHaveTokens, HasToken
<1>4. FileIsConsistent'
  BY <1>1, StoresAssumption DEF FileIsConsistent, StoresAssumption
<1> QED BY <1>2, <1>3, <1>4

LEMMA StutterHolds == ASSUME StoresInv, UNCHANGED stores_vars PROVE StoresInv'
BY DEF StoresInv, StoresTypeOK, UnpairsAreKnown, TokenBeforeConnection, CommandsAreKnown,
       UpdateHasCommand, ConnectionsHaveTokens, FileIsConsistent, LoadedConfig, HasToken,
       stores_vars, store_files

LEMMA NextHolds == ASSUME StoresInv, [StoresNext]_stores_vars PROVE StoresInv'
BY StepHolds, WritesHold, UpdateEndsHolds, CrashHolds, DamageHolds, StutterHolds DEF StoresNext

LEMMA StoresInvHolds == StoresSpec => []StoresInv
BY InitHolds, NextHolds, PTL DEF StoresSpec

(* Files, memory and commands keep their types through any crash.          *)
THEOREM StoresTypeCorrect == StoresSpec => []StoresTypeOK
<1>1. StoresInv => StoresTypeOK
  BY DEF StoresInv
<1> QED BY <1>1, StoresInvHolds, PTL

(* Whatever the number of commands and devices: a crash at any point loads *)
(* the configuration from before or after the update in progress, and its  *)
(* connection has its token unless its unpair had begun.                   *)
THEOREM PairingSurvives == StoresSpec => []PairingSurvivesCrash
BY StoresInvHolds, PairingFollows, PTL
===============================================================================
