----------------------------- MODULE ConfigStore -----------------------------
(***************************************************************************)
(* The two configuration files: how they are read, migrated and written at *)
(* start (backend/config), and how the frontend (utils/config.ts) and the  *)
(* insurance lookup change the app configuration: both read all of it,     *)
(* change one field and write all of it back, as two calls.                *)
(*                                                                         *)
(* Of the app configuration the model keeps the settings in Keys, which    *)
(* older versions kept in the frontend's part under a name of their own,   *)
(* one Electrum server and the notification of a cancelled insurance; of   *)
(* the accounts configuration the active tokens of one ETH account.        *)
(***************************************************************************)
EXTENDS Naturals, FiniteSets

CONSTANTS
    Keys,               \* the settings that were moved: "fiatList", "mainFiat", "userLanguage"
    Settings,           \* what the user may set them to
    Default,            \* what they are if never set
    Absent,             \* a setting that is not in the file
    NoConfig,           \* no such file, or nothing pending
    Torn,               \* a file whose write was cut off
    Callers,            \* concurrent calls of the frontend's setConfig
    MaxChanges,         \* bound: calls of setConfig
    MaxStarts           \* bound: starts of the app

VARIABLES
    appConfig, accountsConfig,      \* Config, in memory
    appFile, accountsFile,          \* the files
    up,                             \* the app runs
    calls,                          \* the frontend's calls of setConfig
    lookup,                         \* the configuration LookupInsuredAccounts has read, or NoConfig
    pendingConfig,                  \* the frontend's variable
    changes, starts,                \* how often each bound was used
    intended,                       \* what the user has set
    overlapped,                     \* two changes ran at the same time
    torn                            \* a write was cut off

configVars == <<appConfig, accountsConfig, appFile, accountsFile, up, calls, lookup,
                pendingConfig, changes, starts, intended, overlapped, torn>>

Retired == "eth-erc20-sai0x89d"
Tokens == {Retired, "eth-erc20-usdt"}

NewDefaultAppConfig ==
    [backend |-> [k \in Keys |-> Default], frontend |-> [k \in Keys |-> Absent],
     server |-> "new", notify |-> FALSE]

newDefaultAccountsonfig == {}

\* What the app works with: every setting is in the backend's part and has a value.
Configs == [backend : [Keys -> Settings \cup {Default}], frontend : {[k \in Keys |-> Absent]},
            server : {"new", "own"}, notify : BOOLEAN]

ASSUME ConfigAssumption ==
    /\ Absent \notin Settings \cup {Default} /\ "server" \notin Keys
    /\ \A none \in {NoConfig, Torn} : none \notin Configs /\ \A T \in SUBSET Tokens : none # T

(***************************************************************************)
(* Reading and migrating.                                                  *)
(***************************************************************************)
\* json.Unmarshal into the default configuration: what the file lacks keeps its default.
Unmarshal(file) ==
    [file EXCEPT !.backend = [k \in Keys |-> IF @[k] = Absent THEN Default ELSE @[k]]]

\* load returns at the first file it cannot read: the accounts are then not read either.
Readable(file) == file \notin {NoConfig, Torn}
LoadedApp == IF Readable(appFile) THEN Unmarshal(appFile) ELSE NewDefaultAppConfig
LoadedAccounts ==
    IF Readable(appFile) /\ Readable(accountsFile) THEN accountsFile ELSE newDefaultAccountsonfig

\* migrateFiatList, migrateFiatCode and migrateUserLanguage move a setting to the backend's part.
Moved_StaysBehind(c) ==
    [c EXCEPT !.backend = [k \in Keys |-> IF c.frontend[k] # Absent THEN c.frontend[k] ELSE @[k]]]

Moved(c) ==
    [c EXCEPT !.backend = [k \in Keys |-> IF c.frontend[k] # Absent THEN c.frontend[k] ELSE @[k]],
              !.frontend = [k \in Keys |-> Absent]]

migrateElectrumX(c) == [c EXCEPT !.server = IF @ = "old" THEN "new" ELSE @]

migrateActiveTokens(tokens) == tokens \ {Retired}

(***************************************************************************)
(* Init: the app is installed anew, or over an older version. migrateActive-*)
(* Tokens and the migrations of the app configuration have not run yet.    *)
(***************************************************************************)
OldFiles ==
    [backend : [Keys -> {Absent, Default}], frontend : [Keys -> Settings \cup {Absent}],
     server : {"old", "own"}, notify : {FALSE}]

ASSUME OldFilesAssumption == \A none \in {NoConfig, Torn} : none \notin OldFiles

ConfigInit ==
    /\ appFile \in OldFiles \cup {NoConfig}
    /\ accountsFile \in IF appFile = NoConfig THEN {NoConfig} ELSE SUBSET Tokens
    /\ appConfig = NewDefaultAppConfig /\ accountsConfig = newDefaultAccountsonfig
    /\ up = FALSE
    /\ calls = [c \in Callers |-> [pc |-> "idle"]]
    /\ lookup = NoConfig /\ pendingConfig = NoConfig
    /\ changes = 0 /\ starts = 0
    /\ intended = LET c == IF appFile = NoConfig THEN NewDefaultAppConfig ELSE Unmarshal(appFile)
               IN  [backend |-> [k \in Keys |-> IF c.frontend[k] # Absent THEN c.frontend[k]
                                                 ELSE c.backend[k]],
                    server |-> IF c.server = "old" THEN "new" ELSE c.server,
                    notify |-> FALSE,
                    tokens |-> IF accountsFile = NoConfig THEN {} ELSE accountsFile \ {Retired}]
    /\ overlapped = FALSE /\ torn = FALSE

(***************************************************************************)
(* Writing. os.WriteFile truncates the file first: if the app dies before  *)
(* the end of the write, the file is cut off.                              *)
(***************************************************************************)
\* The app ends, and with it every call. Nothing else is lost: a change is on disk when its call ends.
Die ==
    /\ up' = FALSE
    /\ calls' = [c \in Callers |-> [pc |-> "idle"]]
    /\ lookup' = NoConfig /\ pendingConfig' = NoConfig

DieInAppSave ==
    /\ Die
    /\ appFile' = Torn /\ torn' = TRUE
    /\ UNCHANGED <<appConfig, accountsConfig, accountsFile, changes, starts, intended, overlapped>>

DieInAccountsSave ==
    /\ Die
    /\ accountsFile' = Torn /\ torn' = TRUE
    /\ UNCHANGED <<appConfig, accountsConfig, appFile, changes, starts, intended, overlapped>>

SetAppConfig(c) == appConfig' = c /\ appFile' = c

ModifyAccountsConfig(tokens) == accountsConfig' = tokens /\ accountsFile' = tokens

NewConfig ==
    /\ ~up /\ starts < MaxStarts
    /\ starts' = starts + 1
    /\ up' = TRUE
    /\ SetAppConfig(migrateElectrumX(Moved(LoadedApp)))
    /\ ModifyAccountsConfig(migrateActiveTokens(LoadedAccounts))
    /\ UNCHANGED <<calls, lookup, pendingConfig, changes, intended, overlapped, torn>>

\* The app is killed while NewConfig writes one of the files.
NewConfigDies ==
    /\ ~up /\ starts < MaxStarts
    /\ DieInAppSave \/ DieInAccountsSave

Quit ==
    /\ up /\ Die
    /\ UNCHANGED <<appConfig, accountsConfig, appFile, accountsFile, changes, starts, intended,
                   overlapped, torn>>

(***************************************************************************)
(* setConfig of the frontend: GET the configuration, merge what is pending *)
(* and the change into it, POST all of it.                                 *)
(***************************************************************************)
Busy == lookup # NoConfig \/ \E c \in Callers : calls[c].pc # "idle"

\* What a call may change: one setting, or the server.
Change == [key : Keys, to : Settings] \cup [key : {"server"}, to : {"own"}]

Apply(change, c) ==
    IF change.key = "server" THEN [c EXCEPT !.server = change.to]
                             ELSE [c EXCEPT !.backend[change.key] = change.to]

setConfig(c, change) ==
    /\ up /\ calls[c].pc = "idle" /\ changes < MaxChanges
    /\ changes' = changes + 1
    /\ calls' = [calls EXCEPT ![c] = [pc |-> "get", change |-> change]]
    /\ overlapped' = (overlapped \/ Busy)
    /\ UNCHANGED <<appConfig, accountsConfig, appFile, accountsFile, up, lookup, pendingConfig,
                   starts, intended, torn>>

getAppConfig(c) ==
    /\ calls[c].pc = "get"
    /\ calls' = [calls EXCEPT ![c] = [pc |-> "got", change |-> @.change, config |-> appConfig]]
    /\ UNCHANGED <<appConfig, accountsConfig, appFile, accountsFile, up, lookup, pendingConfig,
                   changes, starts, intended, overlapped, torn>>

\* Object.assign(current, pending, change): a pending configuration has every field.
MergeConfig(c) ==
    LET base == IF pendingConfig # NoConfig THEN pendingConfig ELSE calls[c].config
        next == Apply(calls[c].change, base)
    IN  /\ calls[c].pc = "got"
        /\ pendingConfig' = next
        /\ calls' = [calls EXCEPT ![c] = [pc |-> "post", change |-> @.change, config |-> next]]
        /\ UNCHANGED <<appConfig, accountsConfig, appFile, accountsFile, up, lookup, changes,
                       starts, intended, overlapped, torn>>

postAppConfig(c) ==
    /\ calls[c].pc = "post"
    /\ \/ /\ SetAppConfig(calls[c].config)
          /\ calls' = [calls EXCEPT ![c] = [pc |-> "reply"]]
          /\ intended' = Apply(calls[c].change, intended)
          /\ UNCHANGED <<accountsConfig, accountsFile, up, lookup, pendingConfig, changes, starts,
                         overlapped, torn>>
       \/ DieInAppSave

Reply(c) ==
    /\ calls[c].pc = "reply"
    /\ pendingConfig' = NoConfig
    /\ calls' = [calls EXCEPT ![c] = [pc |-> "idle"]]
    /\ UNCHANGED <<appConfig, accountsConfig, appFile, accountsFile, up, lookup, changes, starts,
                   intended, overlapped, torn>>

(***************************************************************************)
(* The backend's own changes.                                              *)
(***************************************************************************)
\* LookupInsuredAccounts finds a cancelled insurance: AppConfig, and later SetAppConfig.
LookupInsuredAccounts ==
    /\ up /\ lookup = NoConfig /\ ~appConfig.notify
    /\ lookup' = appConfig
    /\ overlapped' = (overlapped \/ Busy)
    /\ UNCHANGED <<appConfig, accountsConfig, appFile, accountsFile, up, calls, pendingConfig,
                   changes, starts, intended, torn>>

NotifyCancellation ==
    /\ lookup # NoConfig
    /\ \/ /\ SetAppConfig([lookup EXCEPT !.notify = TRUE])
          /\ intended' = [intended EXCEPT !.notify = TRUE]
          /\ lookup' = NoConfig
          /\ UNCHANGED <<accountsConfig, accountsFile, up, calls, pendingConfig, changes, starts,
                         overlapped, torn>>
       \/ DieInAppSave

\* SetTokenActive, in a ModifyAccountsConfig: one critical section from reading to writing.
SetTokenActive(t, active) ==
    LET tokens == (accountsConfig \ {t}) \cup (IF active THEN {t} ELSE {})
    IN  /\ up /\ tokens # accountsConfig
        /\ \/ /\ ModifyAccountsConfig(tokens)
              /\ intended' = [intended EXCEPT !.tokens = tokens]
              /\ UNCHANGED <<appConfig, appFile, up, calls, lookup, pendingConfig, changes, starts,
                             overlapped, torn>>
           \/ DieInAccountsSave

ConfigNext ==
    \/ NewConfig \/ NewConfigDies \/ Quit
    \/ \E c \in Callers :
        \/ \E change \in Change : setConfig(c, change)
        \/ getAppConfig(c) \/ MergeConfig(c) \/ postAppConfig(c) \/ Reply(c)
    \/ LookupInsuredAccounts \/ NotifyCancellation
    \/ \E t \in Tokens \ {Retired}, active \in BOOLEAN : SetTokenActive(t, active)

ConfigSpec == ConfigInit /\ [][ConfigNext]_configVars

(***************************************************************************)
(* Properties.                                                             *)
(***************************************************************************)
\* What the user has set is what the app uses, over any number of restarts and migrations: a
\* migration does not bring back what it found in an older file. Exempt are runs in which a write
\* was cut off and, for the app configuration, runs in which two changes overlapped: there the
\* code does lose settings (a call writes back what it read before the other's change).
SettingsKept ==
    up /\ ~torn =>
        /\ accountsConfig = intended.tokens
        /\ ~overlapped => /\ appConfig.backend = intended.backend
                          /\ appConfig.server = intended.server
                          /\ appConfig.notify = intended.notify

\* The inductive invariant behind SettingsKept.
Intents == [backend : [Keys -> Settings \cup {Default}], server : {"new", "own"}, notify : BOOLEAN,
            tokens : SUBSET (Tokens \ {Retired})]
Call == {[pc |-> "idle"], [pc |-> "reply"]} \cup [pc : {"get"}, change : Change]
        \cup [pc : {"got", "post"}, change : Change, config : Configs]
ConfigTypeOK ==
    /\ appConfig \in Configs /\ accountsConfig \in SUBSET (Tokens \ {Retired}) /\ up \in BOOLEAN
    /\ appFile \in OldFiles \cup Configs \cup {NoConfig, Torn}
    /\ accountsFile \in (SUBSET Tokens) \cup {NoConfig, Torn}
    /\ lookup \in Configs \cup {NoConfig} /\ pendingConfig \in Configs \cup {NoConfig}
    /\ calls \in [Callers -> Call]
    /\ intended \in Intents
    /\ overlapped \in BOOLEAN /\ torn \in BOOLEAN

\* What the app has, or will have when it is started.
CurrentConfig == IF up THEN appConfig ELSE migrateElectrumX(Moved(LoadedApp))
CurrentTokens == IF up THEN accountsConfig ELSE migrateActiveTokens(LoadedAccounts)
Agrees(c, i) == c.backend = i.backend /\ c.server = i.server /\ c.notify = i.notify

Idle == lookup = NoConfig /\ pendingConfig = NoConfig /\ \A c \in Callers : calls[c].pc = "idle"

\* One change at a time: what it has read is what the app has.
OneChange ==
    \/ Idle
    \/ lookup = appConfig /\ pendingConfig = NoConfig /\ \A c \in Callers : calls[c].pc = "idle"
    \/ \E c \in Callers :
        /\ lookup = NoConfig /\ \A d \in Callers \ {c} : calls[d].pc = "idle"
        /\ calls[c].pc # "idle"
        /\ calls[c].pc \in {"get", "got"} => pendingConfig = NoConfig
        /\ calls[c].pc = "got" => calls[c].config = appConfig
        /\ calls[c].pc = "post" => calls[c].config = Apply(calls[c].change, appConfig)

ConfigInv ==
    /\ ConfigTypeOK
    /\ IF up THEN appFile = appConfig /\ accountsFile = accountsConfig ELSE Idle
    /\ ~overlapped => OneChange
    /\ ~torn => CurrentTokens = intended.tokens
    /\ ~torn /\ ~overlapped => Agrees(CurrentConfig, intended)
=============================================================================
