-------------------------- MODULE ExpertRegistration --------------------------
(***************************************************************************)
(* Expert packages: `psc install`, update, disable, enable and uninstall,  *)
(* run by operators in processes of their own, the experts table and the   *)
(* typed tables they write, and a process that reads both, the server or   *)
(* an ingester of its own: the experts when it boots, the typed tables     *)
(* when it saves its first record.                                         *)
(*                                                                         *)
(* The reads of a command up to its prompt are one step, a transaction has *)
(* a step in which it picks its rows and one in which it commits (the rows *)
(* it picked stay locked in between).                                      *)
(***************************************************************************)
EXTENDS Integers, Sequences, FiniteSets

CONSTANTS
    Names,       \* the experts in the order of their names, a sequence
    Versions,
    Manifest,    \* what version v of expert e declares: Manifest[e][v]
    BaseTypes,   \* base_entity_types()
    Operators,   \* processes running a `psc` command
    Absent,      \* no package on disk, no table for a type
    Unsaved,     \* no record of a type was saved since the process booted
    MaxCommands  \* bound on commands, starts and packages replaced on disk

Experts     == {Names[i] : i \in DOMAIN Names}
Packages    == {Manifest[e][v] : e \in Experts, v \in Versions}
RecordTypes == UNION {p.records : p \in Packages}

ASSUME RegistrationAssumption ==
    /\ Names \in Seq(Experts)
    /\ \A e \in Experts, v \in Versions : Manifest[e][v].schemas \subseteq Manifest[e][v].records
    /\ Absent \notin Versions \union [expert : Experts, index : Nat \ {0}]
    /\ MaxCommands \in Nat

VARIABLES
    disk,       \* the version of each package on disk
    creds,      \* env/.<name>.env
    installed,  \* the versions in the experts table, in order of installed_at
    enabled,    \* those with enabled = TRUE
    schemas,    \* expert_record_schemas: <<version, record type>> by created_at
    op,         \* what each operator's process is doing
    up,         \* whether the process runs
    saving,     \* the record types of the experts it has loaded
    cache,      \* _active_tables; Absent is None
    home,       \* the table its last record of a type went to
    atBoot,     \* history: Len(schemas[e]) when it booted
    overtaken,  \* history: operators whose reads of the rows are out of date
    raced,      \* history: experts written or enabled on such reads
    reenabled,  \* history: experts enabled again without a validation
    commands

rowVars    == <<installed, enabled, overtaken, raced, reenabled>>
serverVars == <<up, saving, cache, home, atBoot>>
vars == <<disk, creds, rowVars, schemas, op, serverVars, commands>>

Idle   == [at |-> "idle"]
Tables == [expert : Experts, index : Nat \ {0}]

OnDisk(e)  == disk[e] # Absent /\ Manifest[e][disk[e]].readable
Package(e) == Manifest[e][disk[e]]

Rows(e)      == {installed[e][i] : i \in DOMAIN installed[e]}
IsEnabled(e) == enabled[e] # {}

\* The entity types of the enabled rows of the other experts.
EnabledTypes(e) ==
    UNION {UNION {Manifest[f][v].entities : v \in enabled[f]} : f \in Experts \ {e}}

TypeOK ==
    /\ disk \in [Experts -> Versions \union {Absent}]
    /\ creds \in [Experts -> {"missing", "scaffolded", "filled"}]
    /\ \A e \in Experts :
          /\ installed[e] \in Seq(Versions)
          /\ \A i, j \in DOMAIN installed[e] : installed[e][i] = installed[e][j] => i = j
          /\ enabled[e] \subseteq Rows(e)
          /\ schemas[e] \in Seq(Versions \X RecordTypes)
          /\ \A i, j \in DOMAIN schemas[e] : schemas[e][i] = schemas[e][j] => i = j
          /\ atBoot[e] \in 0 .. Len(schemas[e])
    /\ \A o \in Operators :
          /\ op[o].at \in {"idle", "prompt", "writing", "tables", "enabling"}
          /\ op[o].at = "idle" => o \notin overtaken
    /\ up \in BOOLEAN
    /\ saving \in SUBSET RecordTypes
    /\ ~up => saving = {} /\ cache = Absent
    /\ cache = Absent \/ cache \in [RecordTypes -> Tables \union {Absent}]
    /\ home \in [RecordTypes -> Tables \union {Absent, Unsaved}]
    /\ \A e \in raced \union reenabled : Rows(e) # {}
    /\ commands \in 0 .. MaxCommands

Init ==
    /\ disk \in [Experts -> Versions \union {Absent}]
    /\ creds = [e \in Experts |-> "missing"]
    /\ installed = [e \in Experts |-> << >>]
    /\ enabled = [e \in Experts |-> {}]
    /\ schemas = [e \in Experts |-> << >>]
    /\ op = [o \in Operators |-> Idle]
    /\ up = FALSE
    /\ saving = {}
    /\ cache = Absent
    /\ home = [t \in RecordTypes |-> Unsaved]
    /\ atBoot = [e \in Experts |-> 0]
    /\ overtaken = {} /\ raced = {} /\ reenabled = {}
    /\ commands = 0

-----------------------------------------------------------------------------
(* Validation: the stages that can refuse a package.                       *)

ManifestValid(p)     == p.readable /\ p.records # {}
KnowledgeComplete(p) == {"extraction", "agent"} \union p.entities \subseteq p.knowledge
EntryPointsValid(p)  == p.entries # {} /\ p.entries \subseteq p.importable
PatternsValid(p)     == p.patterns \subseteq BaseTypes \union p.entities

\* MUTANT: a disabled expert no longer keeps its source type.
SourceUnused(e, p) ==
    \A f \in Experts \ {e} : \A v \in enabled[f] : Manifest[f][v].source # p.source

\* Against every row of another expert, enabled or not.
SourceFree(e, p) ==
    \A f \in Experts \ {e} : \A v \in Rows(f) : Manifest[f][v].source # p.source

\* Against the packages on disk of the other experts with a row.
RecordTypesFree(e, p) ==
    \A f \in Experts \ {e} :
        Rows(f) # {} /\ OnDisk(f) => p.records \intersect Package(f).records = {}

EntityTypesFree(e, p) == p.entities \intersect (BaseTypes \union EnabledTypes(e)) = {}

Validated(e) ==
    /\ disk[e] # Absent
    /\ LET p == Package(e) IN
          /\ ManifestValid(p)
          /\ KnowledgeComplete(p)
          /\ EntryPointsValid(p)
          /\ SourceFree(e, p) /\ RecordTypesFree(e, p) /\ EntityTypesFree(e, p)
          /\ PatternsValid(p)

-----------------------------------------------------------------------------
(* Commands.                                                               *)

Command == commands < MaxCommands /\ commands' = commands + 1

\* The rows change under the commands of other operators.
RowsChanged(o) ==
    overtaken' = (overtaken \union {x \in Operators : op[x].at \in {"prompt", "writing", "enabling"}})
                     \ {o}

\* A package is checked out, replaced or removed.
Release(e) ==
    /\ Command
    /\ \E v \in (Versions \union {Absent}) \ {disk[e]} : disk' = [disk EXCEPT ![e] = v]
    /\ UNCHANGED <<creds, rowVars, schemas, op, serverVars>>

\* The operator fills in the credentials.
FillIn(e) ==
    /\ creds[e] = "scaffolded"
    /\ creds' = [creds EXCEPT ![e] = "filled"]
    /\ UNCHANGED <<disk, rowVars, schemas, op, serverVars, commands>>

Ask(o, e, command) ==
    /\ op[o] = Idle
    /\ Command
    /\ Validated(e)
    /\ op' = [op EXCEPT ![o] = [at |-> "prompt", command |-> command, expert |-> e,
                                version |-> disk[e]]]
    /\ UNCHANGED <<disk, creds, rowVars, schemas, serverVars>>

Install(o, e) == Ask(o, e, "install")

Update(o, e) ==
    /\ OnDisk(e)
    /\ \E v \in enabled[e] : v # disk[e]
    /\ Ask(o, e, "update")

\* New entity types need the operator's approval.
Decline(o) ==
    /\ op[o].at = "prompt"
    /\ Manifest[op[o].expert][op[o].version].entities # {}
    /\ op' = [op EXCEPT ![o] = Idle]
    /\ overtaken' = overtaken \ {o}
    /\ UNCHANGED <<disk, creds, installed, enabled, raced, reenabled, schemas, serverVars,
                   commands>>

\* write_full_registration picks the rows it will disable...
BeginWrite(o) ==
    /\ op[o].at = "prompt"
    /\ op' = [op EXCEPT ![o] = [at |-> "writing", command |-> op[o].command,
                                expert |-> op[o].expert, version |-> op[o].version,
                                picked |-> enabled[op[o].expert]]]
    /\ UNCHANGED <<disk, creds, rowVars, schemas, serverVars, commands>>

\* ... and commits.  A version installed before keeps its place.
WriteRows(e, v, picked) ==
    /\ enabled' = [enabled EXCEPT ![e] = (@ \ picked) \union {v}]
    /\ installed' = [installed EXCEPT ![e] = IF v \in Rows(e) THEN @ ELSE Append(@, v)]

CommitWrite(o) ==
    /\ op[o].at = "writing"
    /\ LET e == op[o].expert
           v == op[o].version
       IN /\ WriteRows(e, v, op[o].picked)
          /\ raced' = IF o \in overtaken THEN raced \union {e} ELSE raced
          /\ reenabled' = reenabled \ {e}
          /\ op' = [op EXCEPT ![o] = [at |-> "tables", command |-> op[o].command, expert |-> e,
                                      version |-> v, todo |-> Manifest[e][v].schemas]]
    /\ RowsChanged(o)
    /\ UNCHANGED <<disk, creds, schemas, serverVars, commands>>

\* MUTANT: the row is inserted whether or not it exists.
RegisterAgain(e, v, t) == schemas' = [schemas EXCEPT ![e] = Append(@, <<v, t>>)]

\* create_typed_table: a table that is there keeps its created_at.
RegisterTable(e, v, t) ==
    schemas' = [schemas EXCEPT ![e] =
        IF \E i \in DOMAIN @ : @[i] = <<v, t>> THEN @ ELSE Append(@, <<v, t>>)]

CreateTable(o, t) ==
    /\ op[o].at = "tables" /\ t \in op[o].todo
    /\ RegisterTable(op[o].expert, op[o].version, t)
    /\ op' = [op EXCEPT ![o].todo = @ \ {t}]
    /\ UNCHANGED <<disk, creds, rowVars, serverVars, commands>>

\* The end of a command; an install leaves a credentials file to fill in.
Finish(o) ==
    /\ op[o].at = "tables" /\ op[o].todo = {}
    /\ LET e == op[o].expert IN
       IF op[o].command = "install" /\ Manifest[e][op[o].version].secrets /\ creds[e] = "missing"
       THEN creds' = [creds EXCEPT ![e] = "scaffolded"]
       ELSE UNCHANGED creds
    /\ op' = [op EXCEPT ![o] = Idle]
    /\ UNCHANGED <<disk, rowVars, schemas, serverVars, commands>>

\* A command fails or is killed: an open transaction is rolled back, a
\* committed one is not.
Fail(o) ==
    /\ op[o] # Idle
    /\ op' = [op EXCEPT ![o] = Idle]
    /\ overtaken' = overtaken \ {o}
    /\ UNCHANGED <<disk, creds, installed, enabled, raced, reenabled, schemas, serverVars,
                   commands>>

DisableRows(e) == enabled' = [enabled EXCEPT ![e] = {}]

Disable(o, e) ==
    /\ op[o] = Idle
    /\ Command
    /\ IsEnabled(e)
    /\ DisableRows(e)
    /\ reenabled' = reenabled \ {e}
    /\ RowsChanged(o)
    /\ UNCHANGED <<disk, creds, installed, raced, schemas, op, serverVars>>

\* expert_enable_command finds no enabled row...
EnableCheck(o, e) ==
    /\ op[o] = Idle
    /\ Command
    /\ ~IsEnabled(e)
    /\ op' = [op EXCEPT ![o] = [at |-> "enabling", expert |-> e]]
    /\ UNCHANGED <<disk, creds, rowVars, schemas, serverVars>>

\* ... and enables the disabled row installed last, if there is one.
EnableRow(e) ==
    \E i \in DOMAIN installed[e] :
        /\ installed[e][i] \notin enabled[e]
        /\ \A j \in DOMAIN installed[e] : j > i => installed[e][j] \in enabled[e]
        /\ enabled' = [enabled EXCEPT ![e] = @ \union {installed[e][i]}]

EnableLatest(o) ==
    /\ op[o].at = "enabling"
    /\ op' = [op EXCEPT ![o] = Idle]
    /\ LET e == op[o].expert IN
       \/ /\ Rows(e) \subseteq enabled[e]
          /\ overtaken' = overtaken \ {o}
          /\ UNCHANGED <<enabled, raced, reenabled>>
       \/ /\ EnableRow(e)
          /\ raced' = IF o \in overtaken THEN raced \union {e} ELSE raced
          /\ reenabled' = reenabled \union {e}
          /\ RowsChanged(o)
    /\ UNCHANGED <<disk, creds, installed, schemas, serverVars, commands>>

\* The typed tables stay, and so do their rows in expert_record_schemas.
DeleteRows(e) ==
    /\ installed' = [installed EXCEPT ![e] = << >>]
    /\ DisableRows(e)

Uninstall(o, e) ==
    /\ op[o] = Idle
    /\ Command
    /\ Rows(e) # {}
    /\ DeleteRows(e)
    /\ raced' = raced \ {e}
    /\ reenabled' = reenabled \ {e}
    /\ RowsChanged(o)
    /\ UNCHANGED <<disk, creds, schemas, op, serverVars>>

-----------------------------------------------------------------------------
(* The process that saves records: the server, or an ingester of its own.  *)

\* The registry takes from the rows which experts to load, and from the disk
\* what they are...
FromRows == [e \in Experts |-> IF IsEnabled(e) /\ OnDisk(e) THEN disk[e] ELSE Absent]

\* ... but every package there is if no row is enabled, or if the database
\* does not answer.
FromDisk == [e \in Experts |-> IF OnDisk(e) THEN disk[e] ELSE Absent]

Loads(registry) ==
    \/ registry = FromDisk
    \/ (\E e \in Experts : IsEnabled(e)) /\ registry = FromRows

MissingCredentials(registry) ==
    {e \in Experts : registry[e] # Absent /\ Manifest[e][registry[e]].secrets
                        /\ creds[e] # "filled"}

Start(registry) ==
    LET found == {e \in Experts : registry[e] # Absent} IN
    /\ ~up
    /\ Command
    /\ up' = TRUE
    /\ saving' = UNION {Manifest[e][registry[e]].records : e \in found}
    /\ atBoot' = [e \in Experts |-> Len(schemas[e])]
    /\ UNCHANGED <<disk, creds, rowVars, schemas, op, cache, home>>

\* `psc run` and the bot: every expert, if none lacks its credentials.
Boot ==
    \E registry \in {FromDisk, FromRows} :
        /\ Loads(registry)
        /\ MissingCredentials(registry) = {}
        /\ Start(registry)

\* `psc expert <name> start-ingestion`: one expert, without a look at the
\* credentials.
StartIngestion(e) ==
    \E registry \in {FromDisk, FromRows} :
        /\ Loads(registry)
        /\ registry[e] # Absent
        /\ Start([f \in Experts |-> IF f = e THEN registry[e] ELSE Absent])

\* `psc expert ingest`: every expert, likewise.
IngestFiles == \E registry \in {FromDisk, FromRows} : Loads(registry) /\ Start(registry)

\* A stop or a crash: the cache is gone.
Stop ==
    /\ up
    /\ up' = FALSE
    /\ saving' = {}
    /\ cache' = Absent
    /\ home' = [t \in RecordTypes |-> Unsaved]
    /\ atBoot' = [e \in Experts |-> 0]
    /\ UNCHANGED <<disk, creds, rowVars, schemas, op, commands>>

TablesOf(e, t) == {i \in DOMAIN schemas[e] : schemas[e][i][2] = t}

LastOf(S)  == CHOOSE i \in S : \A j \in S : j <= i
FirstOf(S) == CHOOSE i \in S : \A j \in S : i <= j

\* MUTANT: DISTINCT ON keeps the oldest table.
OldestTable(t) ==
    LET owners == {n \in DOMAIN Names : TablesOf(Names[n], t) # {}}
        e      == Names[LastOf(owners)]
    IN IF owners = {} THEN Absent ELSE [expert |-> e, index |-> FirstOf(TablesOf(e, t))]

\* The newest table of each expert for a type; the last expert by name wins.
ActiveTable(t) ==
    LET owners == {n \in DOMAIN Names : TablesOf(Names[n], t) # {}}
        e      == Names[LastOf(owners)]
    IN IF owners = {} THEN Absent ELSE [expert |-> e, index |-> LastOf(TablesOf(e, t))]

\* The tables as they were at the first save.
TablesInUse == IF cache = Absent THEN [t \in RecordTypes |-> ActiveTable(t)] ELSE cache

\* The row in the typed table that goes with a record.
Save(t) ==
    /\ t \in saving
    /\ cache' = TablesInUse
    /\ home' = [home EXCEPT ![t] = TablesInUse[t]]
    /\ UNCHANGED <<disk, creds, rowVars, schemas, op, up, saving, atBoot, commands>>

Next ==
    \/ \E e \in Experts : Release(e) \/ FillIn(e)
    \/ \E o \in Operators, e \in Experts :
          Install(o, e) \/ Update(o, e) \/ Disable(o, e) \/ EnableCheck(o, e) \/ Uninstall(o, e)
    \/ \E o \in Operators :
          Decline(o) \/ BeginWrite(o) \/ CommitWrite(o) \/ Finish(o) \/ Fail(o) \/ EnableLatest(o)
    \/ \E o \in Operators, t \in RecordTypes : CreateTable(o, t)
    \/ Boot \/ IngestFiles \/ Stop
    \/ \E e \in Experts : StartIngestion(e)
    \/ \E t \in RecordTypes : Save(t)

Spec == Init /\ [][Next]_vars

-----------------------------------------------------------------------------
(* Properties.                                                             *)

\* What the validation reads and what the tables hold agree
\* (interface/install.py:222-279, storage/store.py:808-810): an expert has one
\* enabled version, a source type has one expert, even while it is disabled,
\* and no two enabled experts declare an entity type; except for experts
\* written while the rows had changed since they were read, and, for the
\* entity types, those that `psc expert enable` enabled, which validates nothing.
RegistryIsUnambiguous ==
    /\ \A e \in Experts \ raced : Cardinality(enabled[e]) <= 1
    /\ \A e, f \in Experts \ raced : e # f =>
          /\ \A v \in Rows(e), w \in Rows(f) : Manifest[e][v].source # Manifest[f][w].source
          /\ {e, f} \intersect reenabled = {} =>
                \A v \in enabled[e], w \in enabled[f] :
                    Manifest[e][v].entities \intersect Manifest[f][w].entities = {}

\* Where a record goes although the tables are read once, by another process
\* than the one that creates them (storage/store.py:923-1005): to a table made
\* for its type, no older than the one its expert used last when that process
\* booted, and to none only if there was none for the type then.
RecordsAreTyped ==
    \A t \in RecordTypes : home[t] # Unsaved =>
        IF home[t] = Absent
        THEN \A e \in Experts : \A i \in TablesOf(e, t) : i > atBoot[e]
        ELSE LET own == TablesOf(home[t].expert, t) IN
             /\ home[t].index \in own
             /\ \A i \in own : i <= atBoot[home[t].expert] => i <= home[t].index
=============================================================================
