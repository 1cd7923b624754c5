----------------------------- MODULE LiveSettings -----------------------------
(***************************************************************************)
(* The settings an operator changes while the system runs: the admin UI    *)
(* writes rows of app_settings one by one; every process lays them over    *)
(* its TOML configuration when it starts and, in its reloader, every 30    *)
(* seconds after that (internal/config/overlay.go, internal/boot).         *)
(***************************************************************************)
EXTENDS Naturals, Sequences, SequencesExt, FiniteSets

CONSTANTS
  SettingKeys,   \* OverlayKeys, in the order of the form and of GetAll
  GoodValues,    \* values that pass parsing and validation
  DefaultValue,  \* what Validate and the TOML file say when nothing is set
  Zero,          \* a zero value, which Validate replaces by the key's default
  Unparsable,    \* fails applyOne
  Unknown,       \* passes applyOne and fails Validate
  NoRow,         \* no row for the key
  Processes,     \* the workers and the gateway
  BootKeys,      \* BootKeys[p]: keys whose value p keeps from its start
  LiveKeys       \* LiveKeys[p]: keys p asks its reloader for whenever it needs them

SettingSet == {SettingKeys[i] : i \in DOMAIN SettingKeys}

ASSUME SettingsAssumption ==
  /\ SettingKeys \in Seq(SettingSet) /\ IsInjective(SettingKeys)
  /\ \A p \in Processes : BootKeys[p] \cup LiveKeys[p] \subseteq SettingSet /\ BootKeys[p] \cap LiveKeys[p] = {}
  /\ DefaultValue \in GoodValues
  /\ Cardinality({Zero, Unparsable, Unknown, NoRow} \ GoodValues) = 4

SettingValues == GoodValues \cup {Zero, Unparsable, Unknown}

VARIABLES
  appSettings,  \* app_settings
  unwritten,    \* <<key, value>> pairs the admin UI has yet to write
  settled,      \* the operator will change nothing more
  phase,        \* phase[p]: "down", "booting" between the two reads at start, "up"
  boot,         \* boot[p]: the configuration p started with; its reloader's bootstrap
  current       \* current[p]: the reloader's snapshot

settingsVars == <<appSettings, unwritten, settled, phase, boot, current>>
processVars == <<phase, boot, current>>

-----------------------------------------------------------------------------
Configuration == [SettingSet -> SettingValues]

SettingsTypeOK ==
  /\ appSettings \in [SettingSet -> SettingValues \cup {NoRow}]
  /\ unwritten \in Seq(SettingSet \X (SettingValues \cup {NoRow})) /\ Len(unwritten) <= Len(SettingKeys)
  /\ settled \in BOOLEAN
  /\ phase \in [Processes -> {"down", "booting", "up"}]
  /\ boot \in [Processes -> Configuration] /\ current \in [Processes -> Configuration]

FromToml == [k \in SettingSet |-> DefaultValue]

SettingsInit ==
  /\ appSettings = [k \in SettingSet |-> NoRow]
  /\ unwritten = <<>> /\ settled = FALSE
  /\ phase = [p \in Processes |-> "down"]
  /\ boot = [p \in Processes |-> FromToml] /\ current = [p \in Processes |-> FromToml]

(* applyOne for every row, in the order of the keys, up to the first error.*)
ParsedKeys == {k \in SettingSet : \A j \in SettingSet : appSettings[j] = Unparsable => IndexFirstSubSeq(<<k>>, SettingKeys) < IndexFirstSubSeq(<<j>>, SettingKeys)}
Overlaid(cfg) == [k \in SettingSet |-> IF k \in ParsedKeys /\ appSettings[k] # NoRow THEN appSettings[k] ELSE cfg[k]]

(* Validate: the defaults for what is zero, unless it finds an error.      *)
Validated(cfg) == [k \in SettingSet |-> IF cfg[k] = Zero THEN DefaultValue ELSE cfg[k]]

Applies == \A k \in SettingSet : appSettings[k] \notin {Unparsable, Unknown}

(* ApplyOverlay, where it returns no error.                                *)
ApplyOverlay(cfg) == Validated(Overlaid(cfg))

-----------------------------------------------------------------------------
(* handleSettingsPOST writes every key of the form, an empty field as a    *)
(* deletion; handleImportConfigPOST sets the pairs of the file, in the     *)
(* order of a map.                                                         *)
SaveForm(form) ==
  /\ unwritten = <<>> /\ ~settled
  /\ unwritten' = [i \in DOMAIN SettingKeys |-> <<SettingKeys[i], form[SettingKeys[i]]>>]
  /\ UNCHANGED <<appSettings, settled, processVars>>

ImportConfig(pairs) ==
  /\ unwritten = <<>> /\ ~settled
  /\ unwritten' = pairs
  /\ UNCHANGED <<appSettings, settled, processVars>>

(* SettingsStore.Set or Delete, a statement of its own each; after an error*)
(* the rest of the form is not written.                                    *)
WriteNext ==
  /\ unwritten # <<>>
  /\ \/ /\ appSettings' = [appSettings EXCEPT ![Head(unwritten)[1]] = Head(unwritten)[2]]
        /\ unwritten' = Tail(unwritten)
     \/ /\ unwritten' = <<>>
        /\ UNCHANGED appSettings
  /\ UNCHANGED <<settled, processVars>>

Settle ==
  /\ unwritten = <<>> /\ ~settled
  /\ settled' = TRUE
  /\ UNCHANGED <<appSettings, unwritten, processVars>>

-----------------------------------------------------------------------------
(* main applies the overlay to its configuration; a bad row ends it.       *)
StartProcess(p) ==
  /\ phase[p] = "down" /\ Applies
  /\ phase' = [phase EXCEPT ![p] = "booting"]
  /\ boot' = [boot EXCEPT ![p] = ApplyOverlay(FromToml)]
  /\ UNCHANGED <<appSettings, unwritten, settled, current>>

(* NewReloader applies it again, to what the first application made.       *)
StartReloader(p) ==
  /\ phase[p] = "booting"
  /\ phase' = [phase EXCEPT ![p] = IF Applies THEN "up" ELSE "down"]
  /\ current' = IF Applies THEN [current EXCEPT ![p] = ApplyOverlay(boot[p])] ELSE current
  /\ UNCHANGED <<appSettings, unwritten, settled, boot>>

(* Mutant: a comparison that leaves the last key out.                      *)
EqualButLast(a, b) == \A i \in 1..(Len(SettingKeys) - 1) : a[SettingKeys[i]] = b[SettingKeys[i]]

(* configEqual compares every overlay key.                                 *)
ConfigEqual(a, b) == \A k \in SettingSet : a[k] = b[k]

(* Mutant: what could be applied is published, and the error logged.       *)
ReloadPartly(p) ==
  /\ phase[p] = "up"
  /\ current' = [current EXCEPT ![p] = IF Applies THEN ApplyOverlay(boot[p]) ELSE Overlaid(boot[p])]
  /\ UNCHANGED <<appSettings, unwritten, settled, phase, boot>>

(* A tick of Run: a copy of the bootstrap is overlaid and published if it  *)
(* differs; after an error the last snapshot stays.                        *)
Reload(p) ==
  /\ phase[p] = "up" /\ Applies
  /\ ~ConfigEqual(current[p], ApplyOverlay(boot[p]))
  /\ current' = [current EXCEPT ![p] = ApplyOverlay(boot[p])]
  /\ UNCHANGED <<appSettings, unwritten, settled, phase, boot>>

ExitProcess(p) ==
  /\ phase[p] = "up"
  /\ phase' = [phase EXCEPT ![p] = "down"]
  /\ boot' = [boot EXCEPT ![p] = FromToml] /\ current' = [current EXCEPT ![p] = FromToml]
  /\ UNCHANGED <<appSettings, unwritten, settled>>

SettingsNext ==
  \/ \E form \in [SettingSet -> SettingValues \cup {NoRow}] : SaveForm(form)
  \/ \E ks \in SUBSET SettingSet : \E order \in SetToSeqs(ks), v \in [ks -> SettingValues] :
       ImportConfig([i \in DOMAIN order |-> <<order[i], v[order[i]]>>])
  \/ WriteNext \/ Settle
  \/ \E p \in Processes : StartProcess(p) \/ StartReloader(p) \/ Reload(p) \/ ExitProcess(p)

(* A process that exits is started again; its ticker ticks and the         *)
(* database answers in the end.                                            *)
SettingsFairness ==
  \A p \in Processes : /\ WF_settingsVars(StartProcess(p)) /\ WF_settingsVars(StartReloader(p))
                       /\ WF_settingsVars(Reload(p))

SettingsSafety == SettingsInit /\ [][SettingsNext]_settingsVars
SettingsSpec == SettingsSafety /\ SettingsFairness

-----------------------------------------------------------------------------
(* What process p uses for key k.  From its start it keeps the keys of     *)
(* RestartRequiredKeys and, in the indexer worker, rules-sync and backfill,*)
(* the embeddings model, which goes before the one the gateway is given    *)
(* live unless it is empty.  The models elsewhere, the token cap and the   *)
(* retention are read live; nobody reads the default of the daily cap.     *)
Uses(p) == BootKeys[p] \cup LiveKeys[p]
InEffect(p, k) == IF k \in BootKeys[p] THEN boot[p][k] ELSE current[p][k]

(* No process ever works with a value that cannot be parsed, that Validate *)
(* rejects or that it would replace, whatever is typed or imported, and at *)
(* whatever row applying the overlay stops.                                *)
OnlyValidInEffect ==
  \A p \in Processes : phase[p] = "up" => \A k \in Uses(p) : InEffect(p, k) \in GoodValues

(* Once the operator has stopped changing them and they apply, the rows of *)
(* the keys a process reads live are in effect in it, running or restarted.*)
(* A key without a row, a deleted one's too, has the value it had when the *)
(* process started, be that from a row deleted since.  Of the keys kept    *)
(* from the start, or read by nobody, nothing is claimed.                  *)
SettingReachesProcess ==
  \A p \in Processes :
    (settled /\ Applies) ~>
      (phase[p] = "up" /\ \A k \in LiveKeys[p] :
         InEffect(p, k) = IF appSettings[k] = NoRow THEN boot[p][k] ELSE Validated(appSettings)[k])
=============================================================================
