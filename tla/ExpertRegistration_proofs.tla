---------------------- MODULE ExpertRegistration_proofs ---------------------
(***************************************************************************)
(* Theorems about ExpertRegistration, for any experts, versions, manifests *)
(* and operators.                                                          *)
(***************************************************************************)
EXTENDS ExpertRegistration, TLAPS, FiniteSetTheorems, WellFoundedInduction

-----------------------------------------------------------------------------
(* The invariants. *)

\* What an operator's process can be doing.
Doing ==
    {Idle}
    \union [at : {"prompt"}, command : {"install", "update"}, expert : Experts,
            version : Versions]
    \union [at : {"writing"}, command : {"install", "update"}, expert : Experts,
            version : Versions, picked : SUBSET Versions]
    \union [at : {"tables"}, command : {"install", "update"}, expert : Experts,
            version : Versions, todo : SUBSET RecordTypes]
    \union [at : {"enabling"}, expert : Experts]

\* TypeOK by the variables that change together, with the domains and ranges
\* it takes for granted.
RowsOK ==
    /\ installed \in [Experts -> Seq(Versions)]
    /\ enabled \in [Experts -> SUBSET Versions]
    /\ \A e \in Experts :
          /\ \A i, j \in DOMAIN installed[e] : installed[e][i] = installed[e][j] => i = j
          /\ enabled[e] \subseteq Rows(e)
    /\ raced \in SUBSET Experts
    /\ reenabled \in SUBSET Experts
    /\ \A e \in raced \union reenabled : Rows(e) # {}

TablesOK ==
    /\ schemas \in [Experts -> Seq(Versions \X RecordTypes)]
    /\ \A e \in Experts :
          \A i, j \in DOMAIN schemas[e] : schemas[e][i] = schemas[e][j] => i = j

BootOK ==
    /\ atBoot \in [Experts -> Nat]
    /\ \A e \in Experts : atBoot[e] <= Len(schemas[e])

OpsOK ==
    /\ op \in [Operators -> Doing]
    /\ overtaken \in SUBSET Operators

ServerOK ==
    /\ up \in BOOLEAN
    /\ saving \in SUBSET RecordTypes
    /\ ~up => saving = {} /\ cache = Absent
    /\ cache = Absent \/ cache \in [RecordTypes -> Tables \union {Absent}]
    /\ home \in [RecordTypes -> Tables \union {Absent, Unsaved}]

RestOK ==
    /\ disk \in [Experts -> Versions \union {Absent}]
    /\ creds \in [Experts -> {"missing", "scaffolded", "filled"}]
    /\ commands \in 0 .. MaxCommands

\* Only a command that has read the rows, and not written them yet, can be
\* overtaken.
OvertakenHaveRead ==
    \A o \in overtaken : op[o].at \in {"prompt", "writing", "enabling"}

Types == RowsOK /\ TablesOK /\ BootOK /\ OpsOK /\ OvertakenHaveRead /\ ServerOK /\ RestOK

\* What a command that was not overtaken has read still holds.
Fresh(e, v) == SourceFree(e, Manifest[e][v]) /\ EntityTypesFree(e, Manifest[e][v])

ReadHolds(o) ==
    /\ op[o].at \in {"prompt", "writing"} => Fresh(op[o].expert, op[o].version)
    /\ op[o].at = "writing" => op[o].picked = enabled[op[o].expert]
    /\ op[o].at = "enabling" => enabled[op[o].expert] = {}

ReadsHold == \A o \in Operators \ overtaken : ReadHolds(o)

\* The three parts of RegistryIsUnambiguous, the first without Cardinality.
OneEnabled == \A e \in Experts \ raced : \A v, w \in enabled[e] : v = w

SourcesDiffer ==
    \A e, f \in Experts \ raced : e # f =>
        \A v \in Rows(e), w \in Rows(f) : Manifest[e][v].source # Manifest[f][w].source

EntityTypesDiffer ==
    \A e, f \in Experts \ (raced \union reenabled) : e # f =>
        \A v \in enabled[e], w \in enabled[f] :
            Manifest[e][v].entities \intersect Manifest[f][w].entities = {}

Registry == ReadsHold /\ OneEnabled /\ SourcesDiffer /\ EntityTypesDiffer

\* Where a record of type t may go: RecordsAreTyped for one table.
Fits(table, t) ==
    IF table = Absent
    THEN \A e \in Experts : \A i \in TablesOf(e, t) : i > atBoot[e]
    ELSE /\ table.index \in TablesOf(table.expert, t)
         /\ \A i \in TablesOf(table.expert, t) : i <= atBoot[table.expert] => i <= table.index

\* The cache fits like the tables that were taken from it.
SavesFit ==
    /\ ~up => home = [t \in RecordTypes |-> Unsaved]
    /\ cache # Absent => \A t \in RecordTypes : Fits(cache[t], t)
    /\ \A t \in RecordTypes : home[t] # Unsaved => Fits(home[t], t)

-----------------------------------------------------------------------------
(* Facts about the operators. *)

\* A set of numbers up to n that is not empty has a last one, which LastOf
\* chooses.
LEMMA LastOfIsLast ==
    ASSUME NEW n \in Nat, NEW S \in SUBSET (1 .. n), S # {}
    PROVE  LastOf(S) \in S /\ \A j \in S : j <= LastOf(S)
<1> DEFINE T == {n - i : i \in S}
           R == {ss \in Nat \X Nat : ss[1] < ss[2]}
<1>1. T \subseteq Nat /\ T # {}
  <2>1. \A i \in S : i \in 1 .. n /\ n - i \in Nat
    OBVIOUS
  <2>2. PICK k \in S : TRUE
    OBVIOUS
  <2>3. n - k \in T
    OBVIOUS
  <2>4. QED
    BY <2>1, <2>3
<1>2. IsWellFoundedOn(R, Nat)
  BY NatLessThanWellFounded DEF OpToRel
<1>3. PICK x \in T : \A y \in T : ~(<<y, x>> \in R)
  BY <1>1, <1>2, WFMin, ZenonT(30)
<1>4. \A y \in T : ~(y < x)
  BY <1>1, <1>3
<1>5. PICK i \in S : x = n - i
  OBVIOUS
<1>6. \A j \in S : n - j \in T
  OBVIOUS
<1>7. \A j \in S : j <= i
  BY <1>4, <1>5, <1>6
<1>8. QED
  BY <1>7 DEF LastOf

\* Types is TypeOK and more.
LEMMA TypesSuffice == Types => TypeOK
<1> SUFFICES ASSUME Types PROVE TypeOK
  OBVIOUS
<1>1. \A o \in Operators :
          /\ op[o].at \in {"idle", "prompt", "writing", "tables", "enabling"}
          /\ op[o].at = "idle" => o \notin overtaken
  <2>1. \A d \in Doing : d.at \in {"idle", "prompt", "writing", "tables", "enabling"}
    BY DEF Doing, Idle
  <2>2. QED
    BY <2>1 DEF Types, OpsOK, OvertakenHaveRead
<1>2. \A e \in Experts :
          /\ installed[e] \in Seq(Versions)
          /\ schemas[e] \in Seq(Versions \X RecordTypes)
          /\ atBoot[e] \in 0 .. Len(schemas[e])
  <2>1. \A e \in Experts : Len(schemas[e]) \in Nat
    BY DEF Types, TablesOK
  <2>2. QED
    BY <2>1 DEF Types, TablesOK, BootOK, RowsOK
<1>3. QED
  BY <1>1, <1>2 DEF Types, TypeOK, RowsOK, TablesOK, BootOK, ServerOK, RestOK

\* Append puts its element at the end, and leaves the rest.
LEMMA Appended ==
    ASSUME NEW T, NEW s \in Seq(T), NEW v \in T
    PROVE  /\ Append(s, v) \in Seq(T)
           /\ Len(s) \in Nat /\ DOMAIN s = 1 .. Len(s)
           /\ Len(Append(s, v)) = Len(s) + 1
           /\ DOMAIN Append(s, v) = 1 .. Len(s) + 1
           /\ \A i \in 1 .. Len(s) : Append(s, v)[i] = s[i]
           /\ Append(s, v)[Len(s) + 1] = v
OBVIOUS

\* A sequence without repetitions has none if a new element is appended.
LEMMA AppendedNew ==
    ASSUME NEW T, NEW s \in Seq(T), NEW v \in T,
           \A i, j \in DOMAIN s : s[i] = s[j] => i = j,
           \A i \in DOMAIN s : s[i] # v
    PROVE  \A i, j \in DOMAIN Append(s, v) : Append(s, v)[i] = Append(s, v)[j] => i = j
<1> DEFINE a == Append(s, v)
<1>1. /\ Len(s) \in Nat /\ DOMAIN s = 1 .. Len(s)
      /\ DOMAIN a = 1 .. Len(s) + 1
      /\ \A i \in 1 .. Len(s) : a[i] = s[i]
      /\ a[Len(s) + 1] = v
  BY Appended
<1> HIDE DEF a
<1>2. \A i \in DOMAIN a : i \in DOMAIN s \/ i = Len(s) + 1
  BY <1>1
<1>3. QED
  BY <1>1, <1>2 DEF a

\* What write_full_registration leaves in the table: the version, and the
\* rows there were.
LEMMA WrittenRows ==
    ASSUME RowsOK, NEW e \in Experts, NEW v \in Versions, NEW picked, WriteRows(e, v, picked)
    PROVE  /\ installed' \in [Experts -> Seq(Versions)]
           /\ enabled' \in [Experts -> SUBSET Versions]
           /\ Rows(e)' = Rows(e) \union {v}
           /\ enabled'[e] = (enabled[e] \ picked) \union {v}
           /\ \A f \in Experts \ {e} : /\ Rows(f)' = Rows(f)
                                       /\ installed'[f] = installed[f]
                                       /\ enabled'[f] = enabled[f]
           /\ \A i, j \in DOMAIN installed'[e] : installed'[e][i] = installed'[e][j] => i = j
<1>1. /\ enabled' \in [Experts -> SUBSET Versions]
      /\ enabled'[e] = (enabled[e] \ picked) \union {v}
      /\ \A f \in Experts \ {e} : enabled'[f] = enabled[f]
  BY DEF WriteRows, RowsOK
<1>2. CASE v \in Rows(e)
  <2>1. installed' = installed
    BY <1>2 DEF WriteRows, RowsOK
  <2>2. QED
    BY <1>1, <1>2, <2>1 DEF RowsOK, Rows
<1>3. CASE v \notin Rows(e)
  <2> DEFINE s == installed[e]
             a == Append(s, v)
  <2>1. /\ s \in Seq(Versions)
        /\ \A i, j \in DOMAIN s : s[i] = s[j] => i = j
        /\ \A i \in DOMAIN s : s[i] # v
    BY <1>3 DEF RowsOK, Rows
  <2>2. /\ installed' = [installed EXCEPT ![e] = a]
        /\ a \in Seq(Versions)
    BY <1>3, <2>1, Appended DEF WriteRows
  <2>3. /\ installed' \in [Experts -> Seq(Versions)]
        /\ installed'[e] = a
        /\ \A f \in Experts \ {e} : installed'[f] = installed[f]
    BY <2>2 DEF RowsOK
  <2>4. /\ Len(s) \in Nat /\ DOMAIN s = 1 .. Len(s)
        /\ DOMAIN a = 1 .. Len(s) + 1
        /\ \A i \in 1 .. Len(s) : a[i] = s[i]
        /\ a[Len(s) + 1] = v
    BY <2>1, Appended
  <2>5. \A i, j \in DOMAIN a : a[i] = a[j] => i = j
    BY <2>1, AppendedNew
  <2> HIDE DEF a
  <2>6. {a[i] : i \in DOMAIN a} = {s[i] : i \in DOMAIN s} \union {v}
    <3>1. \A i \in DOMAIN a : i \in DOMAIN s \/ i = Len(s) + 1
      BY <2>4
    <3>2. DOMAIN s \subseteq DOMAIN a /\ Len(s) + 1 \in DOMAIN a
      BY <2>4
    <3>3. QED
      BY <2>4, <3>1, <3>2
  <2>7. Rows(e)' = Rows(e) \union {v}
    BY <2>3, <2>6 DEF Rows
  <2>8. \A f \in Experts \ {e} : Rows(f)' = Rows(f)
    BY <2>3 DEF Rows
  <2>9. QED
    BY <1>1, <2>3, <2>5, <2>7, <2>8
<1>4. QED
  BY <1>2, <1>3

\* The fields of what an operator's process is doing.
LEMMA DoingFields ==
    ASSUME OpsOK, NEW o \in Operators
    PROVE  /\ op[o].at \in {"prompt", "writing", "tables", "enabling"} => op[o].expert \in Experts
           /\ op[o].at \in {"prompt", "writing", "tables"} =>
                 op[o].version \in Versions /\ op[o].command \in {"install", "update"}
           /\ op[o].at = "tables" =>
                 op[o] \in [at : {"tables"}, command : {"install", "update"}, expert : Experts,
                            version : Versions, todo : SUBSET RecordTypes]
<1>1. op[o] \in Doing
  BY DEF OpsOK
<1>2. QED
  BY <1>1 DEF Doing, Idle

\* The versions that a row being enabled comes from.
LEMMA EnabledRow ==
    ASSUME RowsOK, NEW e \in Experts, EnableRow(e)
    PROVE  \E v \in Rows(e) : /\ enabled'[e] = enabled[e] \union {v}
                              /\ enabled' \in [Experts -> SUBSET Versions]
                              /\ \A f \in Experts \ {e} : enabled'[f] = enabled[f]
<1>1. PICK i \in DOMAIN installed[e] :
          enabled' = [enabled EXCEPT ![e] = @ \union {installed[e][i]}]
  BY DEF EnableRow
<1>2. installed[e][i] \in Versions /\ installed[e][i] \in Rows(e)
  BY DEF RowsOK, Rows
<1>3. QED
  BY <1>1, <1>2 DEF RowsOK

-----------------------------------------------------------------------------
(* Type correctness. *)

\* Only these actions write the table of the experts.
LEMMA RowsStep ==
    ASSUME [Next]_vars
    PROVE  \/ UNCHANGED <<installed, enabled, raced, reenabled>>
           \/ \E o \in Operators :
                 \/ CommitWrite(o) \/ EnableLatest(o)
                 \/ \E e \in Experts : Disable(o, e) \/ Uninstall(o, e)
BY ZenonT(60)
   DEF Next, vars, rowVars, serverVars, Release, FillIn, Install, Update, Ask, EnableCheck,
       Decline, BeginWrite, Finish, Fail, CreateTable, Boot, IngestFiles, Stop, StartIngestion,
       Start, Save

\* A step keeps the rows in their type.
LEMMA RowsKept ==
    ASSUME Types, [Next]_vars
    PROVE  RowsOK'
<1> USE DEF Types
<1>1. CASE UNCHANGED <<installed, enabled, raced, reenabled>>
  <2>1. \A e \in Experts : Rows(e)' = Rows(e)
    BY <1>1 DEF Rows
  <2>2. QED
    BY <1>1, <2>1 DEF RowsOK
<1>2. ASSUME NEW o \in Operators, CommitWrite(o)
      PROVE  RowsOK'
  <2>1. PICK e \in Experts, v \in Versions : e = op[o].expert /\ v = op[o].version
    BY <1>2, DoingFields DEF CommitWrite
  <2>2. /\ WriteRows(e, v, op[o].picked)
        /\ raced' \subseteq raced \union {e}
        /\ reenabled' \subseteq reenabled
    BY <1>2, <2>1 DEF CommitWrite
  <2>3. /\ installed' \in [Experts -> Seq(Versions)]
        /\ enabled' \in [Experts -> SUBSET Versions]
        /\ Rows(e)' = Rows(e) \union {v}
        /\ enabled'[e] = (enabled[e] \ op[o].picked) \union {v}
        /\ \A f \in Experts \ {e} : /\ Rows(f)' = Rows(f)
                                    /\ installed'[f] = installed[f]
                                    /\ enabled'[f] = enabled[f]
        /\ \A i, j \in DOMAIN installed'[e] : installed'[e][i] = installed'[e][j] => i = j
    BY <2>1, <2>2, WrittenRows
  <2>4. \A f \in Experts : enabled'[f] \subseteq Rows(f)'
    <3>1. enabled'[e] \subseteq Rows(e)'
      BY <2>3 DEF RowsOK
    <3>2. \A f \in Experts \ {e} : enabled'[f] \subseteq Rows(f)'
      BY <2>3 DEF RowsOK
    <3>3. QED
      BY <3>1, <3>2
  <2>5. \A f \in Experts :
           \A i, j \in DOMAIN installed'[f] : installed'[f][i] = installed'[f][j] => i = j
    <3>1. ASSUME NEW f \in Experts \ {e}
          PROVE  \A i, j \in DOMAIN installed'[f] :
                    installed'[f][i] = installed'[f][j] => i = j
      <4>1. \A i, j \in DOMAIN installed[f] : installed[f][i] = installed[f][j] => i = j
        BY DEF RowsOK
      <4>2. installed'[f] = installed[f]
        BY <2>3
      <4>3. QED
        BY ONLY <4>1, <4>2
    <3>2. QED
      BY ONLY <2>3, <3>1
  <2>6. \A f \in raced' \union reenabled' : f \in Experts /\ Rows(f)' # {}
    <3>1. Rows(e)' # {}
      BY <2>3
    <3>2. \A f \in (raced \union reenabled) \ {e} : f \in Experts /\ Rows(f)' # {}
      BY <2>3 DEF RowsOK
    <3>3. QED
      BY <2>2, <3>1, <3>2
  <2>7. QED
    BY <2>3, <2>4, <2>5, <2>6 DEF RowsOK
<1>3. ASSUME NEW o \in Operators, EnableLatest(o)
      PROVE  RowsOK'
  <2>1. PICK e \in Experts : e = op[o].expert
    BY <1>3, DoingFields DEF EnableLatest
  <2>2. installed' = installed /\ \A f \in Experts : Rows(f)' = Rows(f)
    BY <1>3 DEF EnableLatest, Rows
  <2>3. CASE UNCHANGED <<enabled, raced, reenabled>>
    BY <2>2, <2>3 DEF RowsOK
  <2>4. CASE /\ EnableRow(e)
             /\ raced' \subseteq raced \union {e}
             /\ reenabled' = reenabled \union {e}
    <3>1. PICK v \in Rows(e) : /\ enabled'[e] = enabled[e] \union {v}
                               /\ enabled' \in [Experts -> SUBSET Versions]
                               /\ \A f \in Experts \ {e} : enabled'[f] = enabled[f]
      BY <2>1, <2>4, EnabledRow
    <3>2. \A f \in Experts : enabled'[f] \subseteq Rows(f)'
      BY <2>2, <3>1 DEF RowsOK
    <3>3. \A f \in raced' \union reenabled' : f \in Experts /\ Rows(f)' # {}
      BY <2>1, <2>2, <2>4, <3>1 DEF RowsOK
    <3>4. QED
      BY <2>2, <3>1, <3>2, <3>3 DEF RowsOK
  <2>5. QED
    BY <1>3, <2>1, <2>3, <2>4 DEF EnableLatest
<1>4. ASSUME NEW o \in Operators, NEW e \in Experts, Disable(o, e)
      PROVE  RowsOK'
  <2>1. /\ UNCHANGED <<installed, raced>> /\ enabled' = [enabled EXCEPT ![e] = {}]
        /\ reenabled' = reenabled \ {e}
    BY <1>4 DEF Disable, DisableRows
  <2>2. \A f \in Experts : Rows(f)' = Rows(f)
    BY <2>1 DEF Rows
  <2>3. QED
    BY <2>1, <2>2 DEF RowsOK
<1>5. ASSUME NEW o \in Operators, NEW e \in Experts, Uninstall(o, e)
      PROVE  RowsOK'
  <2>1. /\ installed' = [installed EXCEPT ![e] = << >>]
        /\ enabled' = [enabled EXCEPT ![e] = {}]
        /\ raced' = raced \ {e} /\ reenabled' = reenabled \ {e}
    BY <1>5 DEF Uninstall, DeleteRows, DisableRows
  <2>2. << >> \in Seq(Versions) /\ DOMAIN << >> = {}
    OBVIOUS
  <2>3. \A f \in Experts \ {e} : Rows(f)' = Rows(f)
    BY <2>1 DEF RowsOK, Rows
  <2>4. \A f \in Experts :
           /\ enabled'[f] \subseteq Rows(f)'
           /\ \A i, j \in DOMAIN installed'[f] : installed'[f][i] = installed'[f][j] => i = j
    BY <2>1, <2>2, <2>3 DEF RowsOK
  <2>5. \A f \in raced' \union reenabled' : f \in Experts /\ Rows(f)' # {}
    BY <2>1, <2>3 DEF RowsOK
  <2>6. QED
    BY <2>1, <2>2, <2>4, <2>5 DEF RowsOK
<1>6. QED
  BY <1>1, <1>2, <1>3, <1>4, <1>5, RowsStep

\* Only these actions write expert_record_schemas, or boot the process.
LEMMA TablesStep ==
    ASSUME [Next]_vars
    PROVE  \/ UNCHANGED <<schemas, atBoot>>
           \/ \E o \in Operators, t \in RecordTypes : CreateTable(o, t)
           \/ /\ UNCHANGED schemas
              /\ atBoot' = [e \in Experts |-> Len(schemas[e])]
           \/ Stop
BY ZenonT(60)
   DEF Next, vars, rowVars, serverVars, Release, FillIn, Install, Update, Ask, EnableCheck,
       Decline, BeginWrite, Finish, Fail, CommitWrite, EnableLatest, Disable, Uninstall,
       Boot, IngestFiles, StartIngestion, Start, Save

\* What create_typed_table leaves in expert_record_schemas: what was there, and
\* perhaps one row more, at the end.
LEMMA RegisteredTable ==
    ASSUME TablesOK, NEW e \in Experts, NEW v \in Versions, NEW t \in RecordTypes,
           RegisterTable(e, v, t)
    PROVE  /\ TablesOK'
           /\ \A f \in Experts :
                 /\ Len(schemas'[f]) \in {Len(schemas[f]), Len(schemas[f]) + 1}
                 /\ \A i \in 1 .. Len(schemas[f]) : schemas'[f][i] = schemas[f][i]
<1> DEFINE s == schemas[e]
           a == Append(s, <<v, t>>)
<1>1. \A f \in Experts : /\ schemas[f] \in Seq(Versions \X RecordTypes)
                         /\ Len(schemas[f]) \in Nat
                         /\ DOMAIN schemas[f] = 1 .. Len(schemas[f])
  BY DEF TablesOK
<1>2. CASE schemas' = schemas
  BY <1>1, <1>2 DEF TablesOK
<1>3. CASE /\ \A i \in DOMAIN s : s[i] # <<v, t>>
           /\ schemas' = [schemas EXCEPT ![e] = a]
  <2>1. s \in Seq(Versions \X RecordTypes) /\ <<v, t>> \in Versions \X RecordTypes
    BY <1>1
  <2>2. \A i, j \in DOMAIN s : s[i] = s[j] => i = j
    BY DEF TablesOK
  <2> HIDE DEF s
  <2>3. /\ a \in Seq(Versions \X RecordTypes)
        /\ Len(a) = Len(s) + 1
        /\ \A i \in 1 .. Len(s) : a[i] = s[i]
    BY <2>1, Appended
  <2>4. \A i, j \in DOMAIN a : a[i] = a[j] => i = j
    BY <1>3, <2>1, <2>2, AppendedNew
  <2> HIDE DEF a
  <2>5. /\ schemas'[e] = a
        /\ schemas' \in [Experts -> Seq(Versions \X RecordTypes)]
        /\ \A f \in Experts \ {e} : schemas'[f] = schemas[f]
    BY <1>3, <2>3 DEF TablesOK
  <2>6. TablesOK'
    BY <2>4, <2>5 DEF TablesOK
  <2>7. QED
    BY <1>1, <2>3, <2>5, <2>6 DEF s
<1>4. QED
  <2>1. schemas' = schemas \/ schemas' = [schemas EXCEPT ![e] = a]
    BY DEF RegisterTable, TablesOK
  <2>2. (\E i \in DOMAIN s : s[i] = <<v, t>>) => schemas' = schemas
    BY DEF RegisterTable, TablesOK
  <2>3. QED
    BY <1>2, <1>3, <2>1, <2>2

\* A step keeps the typed tables in their type, and the history of the boot.
LEMMA TablesKept ==
    ASSUME Types, [Next]_vars
    PROVE  TablesOK' /\ BootOK'
<1> USE DEF Types
<1>1. CASE UNCHANGED <<schemas, atBoot>>
  BY <1>1 DEF TablesOK, BootOK
<1>2. ASSUME NEW o \in Operators, NEW t \in RecordTypes, CreateTable(o, t)
      PROVE  TablesOK' /\ BootOK'
  <2>1. PICK e \in Experts, v \in Versions : e = op[o].expert /\ v = op[o].version
    BY <1>2, DoingFields DEF CreateTable
  <2>2. RegisterTable(e, v, t) /\ atBoot' = atBoot
    BY <1>2, <2>1 DEF CreateTable, serverVars
  <2>3. /\ TablesOK'
        /\ \A f \in Experts : Len(schemas'[f]) \in {Len(schemas[f]), Len(schemas[f]) + 1}
    BY <2>1, <2>2, RegisteredTable
  <2>4. \A f \in Experts : Len(schemas[f]) \in Nat
    BY DEF TablesOK
  <2>5. QED
    BY <2>2, <2>3, <2>4 DEF BootOK
<1>3. ASSUME schemas' = schemas, atBoot' = [e \in Experts |-> Len(schemas[e])]
      PROVE  TablesOK' /\ BootOK'
  <2>1. \A f \in Experts : Len(schemas[f]) \in Nat
    BY DEF TablesOK
  <2>2. QED
    BY <1>3, <2>1 DEF TablesOK, BootOK
<1>4. CASE Stop
  <2>1. schemas' = schemas /\ atBoot' = [e \in Experts |-> 0]
    BY <1>4 DEF Stop
  <2>2. \A f \in Experts : Len(schemas[f]) \in Nat
    BY DEF TablesOK
  <2>3. QED
    BY <2>1, <2>2 DEF TablesOK, BootOK
<1>5. QED
  BY <1>1, <1>2, <1>3, <1>4, TablesStep

\* A step keeps what the operators' processes do in its type, and the
\* overtaken ones among those that have read the rows.
LEMMA OperatorsKept ==
    ASSUME Types, [Next]_vars
    PROVE  OpsOK' /\ OvertakenHaveRead'
<1> USE DEF Types, rowVars, serverVars
<1>1. ASSUME NEW o \in Operators, NEW d \in Doing, op' = [op EXCEPT ![o] = d],
             \/ overtaken' = overtaken \ {o}
             \/ overtaken' = overtaken /\ (o \in overtaken => d.at \in {"prompt", "writing", "enabling"})
             \/ RowsChanged(o)
      PROVE  OpsOK' /\ OvertakenHaveRead'
  BY <1>1 DEF OpsOK, OvertakenHaveRead, RowsChanged
<1>2. Idle \in Doing
  BY DEF Doing
<1>3. \A o \in Operators : op[o] = Idle => o \notin overtaken
  BY DEF Idle, OvertakenHaveRead
<1>4. ASSUME NEW o \in Operators, NEW e \in Experts, NEW command \in {"install", "update"},
             Ask(o, e, command)
      PROVE  OpsOK' /\ OvertakenHaveRead'
  <2>1. disk[e] \in Versions
    BY <1>4 DEF Ask, Validated, RestOK
  <2>2. [at |-> "prompt", command |-> command, expert |-> e, version |-> disk[e]] \in Doing
    BY <2>1 DEF Doing
  <2>3. QED
    BY <1>1, <1>3, <1>4, <2>2 DEF Ask
<1>5. ASSUME NEW o \in Operators, Decline(o) \/ Fail(o)
      PROVE  OpsOK' /\ OvertakenHaveRead'
  BY <1>1, <1>2, <1>5 DEF Decline, Fail
<1>6. ASSUME NEW o \in Operators, BeginWrite(o)
      PROVE  OpsOK' /\ OvertakenHaveRead'
  <2> DEFINE d == [at |-> "writing", command |-> op[o].command, expert |-> op[o].expert,
                   version |-> op[o].version, picked |-> enabled[op[o].expert]]
  <2>1. /\ op[o].expert \in Experts /\ op[o].version \in Versions
        /\ op[o].command \in {"install", "update"}
    BY <1>6, DoingFields DEF BeginWrite
  <2>2. enabled[op[o].expert] \in SUBSET Versions
    BY <2>1 DEF RowsOK
  <2>3. d \in Doing
    BY <2>1, <2>2 DEF Doing
  <2>4. d.at = "writing"
    OBVIOUS
  <2>5. op' = [op EXCEPT ![o] = d] /\ overtaken' = overtaken
    BY <1>6 DEF BeginWrite
  <2> HIDE DEF d
  <2>6. QED
    BY <1>1, <2>3, <2>4, <2>5
<1>7. ASSUME NEW o \in Operators, CommitWrite(o)
      PROVE  OpsOK' /\ OvertakenHaveRead'
  <2>1. PICK e \in Experts, v \in Versions : e = op[o].expert /\ v = op[o].version
    BY <1>7, DoingFields DEF CommitWrite
  <2>2. Manifest[e][v].schemas \in SUBSET RecordTypes
    <3>1. Manifest[e][v].schemas \subseteq Manifest[e][v].records
      BY RegistrationAssumption
    <3>2. Manifest[e][v] \in Packages
      BY DEF Packages
    <3>3. QED
      BY <3>1, <3>2 DEF RecordTypes
  <2> DEFINE d == [at |-> "tables", command |-> op[o].command, expert |-> e,
                   version |-> v, todo |-> Manifest[e][v].schemas]
  <2>3. op[o].command \in {"install", "update"}
    BY <1>7, DoingFields DEF CommitWrite
  <2>4. d \in Doing
    BY <2>2, <2>3 DEF Doing
  <2>5. op' = [op EXCEPT ![o] = d] /\ RowsChanged(o)
    BY <1>7, <2>1 DEF CommitWrite
  <2> HIDE DEF d
  <2>6. QED
    BY <1>1, <2>4, <2>5
<1>8. ASSUME NEW o \in Operators, NEW t \in RecordTypes, CreateTable(o, t)
      PROVE  OpsOK' /\ OvertakenHaveRead'
  <2>1. op[o] \in [at : {"tables"}, command : {"install", "update"}, expert : Experts,
                   version : Versions, todo : SUBSET RecordTypes]
    BY <1>8, DoingFields DEF CreateTable
  <2> DEFINE d == [op[o] EXCEPT !.todo = @ \ {t}]
  <2>2. d \in Doing
    BY <2>1 DEF Doing
  <2>3. op' = [op EXCEPT ![o] = d] /\ overtaken' = overtaken /\ op[o].at = "tables"
    BY <1>8 DEF CreateTable
  <2>4. o \notin overtaken
    BY <2>3 DEF OvertakenHaveRead
  <2> HIDE DEF d
  <2>5. QED
    BY <1>1, <2>2, <2>3, <2>4
<1>9. ASSUME NEW o \in Operators, Finish(o)
      PROVE  OpsOK' /\ OvertakenHaveRead'
  <2>1. o \notin overtaken
    BY <1>9 DEF Finish, OvertakenHaveRead
  <2>2. QED
    BY <1>1, <1>2, <1>9, <2>1 DEF Finish
<1>10. ASSUME NEW o \in Operators, NEW e \in Experts, Disable(o, e) \/ Uninstall(o, e)
       PROVE  OpsOK' /\ OvertakenHaveRead'
  BY <1>10 DEF Disable, Uninstall, OpsOK, OvertakenHaveRead, RowsChanged
<1>11. ASSUME NEW o \in Operators, NEW e \in Experts, EnableCheck(o, e)
       PROVE  OpsOK' /\ OvertakenHaveRead'
  <2>1. [at |-> "enabling", expert |-> e] \in Doing
    BY DEF Doing
  <2>2. QED
    BY <1>1, <1>3, <1>11, <2>1 DEF EnableCheck
<1>12. ASSUME NEW o \in Operators, EnableLatest(o)
       PROVE  OpsOK' /\ OvertakenHaveRead'
  BY <1>1, <1>2, <1>12 DEF EnableLatest
<1>13. CASE UNCHANGED <<op, overtaken>>
  BY <1>13 DEF OpsOK, OvertakenHaveRead
<1>14. QED
  BY <1>4, <1>5, <1>6, <1>7, <1>8, <1>9, <1>10, <1>11, <1>12, <1>13
  DEF Next, vars, Release, FillIn, Install, Update, Boot, IngestFiles, Stop, StartIngestion,
      Start, Save

\* The table in use for a type is a table, or Absent, and it fits: of those of
\* its expert for the type it is the newest.
LEMMA ActiveTableFits ==
    ASSUME TablesOK, BootOK, NEW t \in RecordTypes
    PROVE  ActiveTable(t) \in Tables \union {Absent} /\ Fits(ActiveTable(t), t)
<1> DEFINE owners == {n \in DOMAIN Names : TablesOf(Names[n], t) # {}}
<1>1. \A e \in Experts : /\ Len(schemas[e]) \in Nat
                         /\ TablesOf(e, t) \in SUBSET (1 .. Len(schemas[e]))
  <2>1. \A e \in Experts : Len(schemas[e]) \in Nat /\ DOMAIN schemas[e] = 1 .. Len(schemas[e])
    BY DEF TablesOK
  <2>2. QED
    BY <2>1 DEF TablesOf
<1>2. CASE owners = {}
  <2>1. ActiveTable(t) = Absent
    BY <1>2 DEF ActiveTable
  <2>2. \A e \in Experts : TablesOf(e, t) = {}
    BY <1>2 DEF Experts
  <2>3. QED
    BY <2>1, <2>2 DEF Fits
<1>3. CASE owners # {}
  <2> DEFINE e == Names[LastOf(owners)]
             i == LastOf(TablesOf(e, t))
  <2>1. Len(Names) \in Nat /\ owners \in SUBSET (1 .. Len(Names))
    BY RegistrationAssumption
  <2>2. LastOf(owners) \in owners
    BY <1>3, <2>1, LastOfIsLast
  <2>3. e \in Experts /\ TablesOf(e, t) # {}
    BY <2>2 DEF Experts
  <2>4. ActiveTable(t) = [expert |-> e, index |-> i]
    BY <1>3 DEF ActiveTable
  <2> HIDE DEF e
  <2>5. i \in TablesOf(e, t) /\ \A j \in TablesOf(e, t) : j <= i
    BY <1>1, <2>3, LastOfIsLast
  <2>6. i \in Nat \ {0}
    BY <1>1, <2>3, <2>5
  <2> HIDE DEF i
  <2>7. ActiveTable(t) \in Tables
    BY <2>3, <2>4, <2>6 DEF Tables
  <2>8. ActiveTable(t) # Absent
    BY <2>7, RegistrationAssumption DEF Tables
  <2>9. ActiveTable(t).expert = e /\ ActiveTable(t).index = i
    BY <2>4
  <2>10. QED
    BY <2>5, <2>7, <2>8, <2>9 DEF Fits
<1>4. QED
  BY <1>2, <1>3

\* The tables used for a save are tables, whether they are read or cached.
LEMMA TablesInUseFit ==
    ASSUME Types, SavesFit
    PROVE  /\ TablesInUse \in [RecordTypes -> Tables \union {Absent}]
           /\ \A t \in RecordTypes : Fits(TablesInUse[t], t)
<1>1. CASE cache = Absent
  <2>1. TablesInUse = [t \in RecordTypes |-> ActiveTable(t)]
    BY <1>1 DEF TablesInUse
  <2>2. QED
    BY <2>1, ActiveTableFits DEF Types
<1>2. CASE cache # Absent
  BY <1>2 DEF TablesInUse, SavesFit, Types, ServerOK
<1>3. QED
  BY <1>1, <1>2

\* A step keeps what the server holds in its type.
LEMMA ServerKept ==
    ASSUME Types, SavesFit, [Next]_vars
    PROVE  ServerOK'
<1> USE DEF Types
<1>1. CASE UNCHANGED <<up, saving, cache, home>>
  BY <1>1 DEF ServerOK
<1>2. ASSUME NEW registry, Start(registry),
             \A e \in Experts : registry[e] = Absent \/ registry[e] = disk[e]
      PROVE  ServerOK'
  <2>1. saving' \in SUBSET RecordTypes
    <3>1. ASSUME NEW e \in Experts, registry[e] # Absent
          PROVE  Manifest[e][registry[e]].records \subseteq RecordTypes
      <4>1. registry[e] \in Versions
        BY <1>2, <3>1 DEF RestOK
      <4>2. Manifest[e][registry[e]] \in Packages
        BY <4>1 DEF Packages
      <4>3. QED
        BY <4>2 DEF RecordTypes
    <3>2. QED
      BY <1>2, <3>1 DEF Start
  <2>2. QED
    BY <1>2, <2>1 DEF Start, ServerOK
<1>3. \A registry : Loads(registry) => \A e \in Experts : registry[e] \in {Absent, disk[e]}
  BY DEF Loads, FromDisk, FromRows
<1>4. CASE Boot \/ IngestFiles
  BY <1>2, <1>3, <1>4 DEF Boot, IngestFiles
<1>5. ASSUME NEW e \in Experts, StartIngestion(e)
      PROVE  ServerOK'
  <2>1. PICK registry \in {FromDisk, FromRows} :
            /\ Loads(registry)
            /\ Start([f \in Experts |-> IF f = e THEN registry[e] ELSE Absent])
    BY <1>5 DEF StartIngestion
  <2> DEFINE r == [f \in Experts |-> IF f = e THEN registry[e] ELSE Absent]
  <2>2. \A f \in Experts : r[f] = Absent \/ r[f] = disk[f]
    BY <1>3, <2>1
  <2>3. Start(r)
    BY <2>1
  <2> HIDE DEF r
  <2>4. QED
    BY <1>2, <2>2, <2>3
<1>6. CASE Stop
  BY <1>6 DEF Stop, ServerOK
<1>7. ASSUME NEW t \in RecordTypes, Save(t)
      PROVE  ServerOK'
  <2>1. TablesInUse \in [RecordTypes -> Tables \union {Absent}]
    BY TablesInUseFit
  <2>2. up
    BY <1>7 DEF Save, ServerOK
  <2>3. QED
    BY <1>7, <2>1, <2>2 DEF Save, ServerOK
<1>8. QED
  BY <1>1, <1>4, <1>5, <1>6, <1>7
  DEF Next, vars, rowVars, serverVars, Release, FillIn, Install, Update, Ask, EnableCheck,
      Decline, BeginWrite, Finish, Fail, CommitWrite, EnableLatest, Disable, Uninstall,
      CreateTable

\* A step keeps the disk, the credentials and the count of commands in their
\* types.
LEMMA RestKept ==
    ASSUME Types, [Next]_vars
    PROVE  RestOK'
<1> USE DEF Types
<1>1. CASE UNCHANGED <<disk, creds, commands>>
  BY <1>1 DEF RestOK
<1>2. commands < MaxCommands => commands + 1 \in 0 .. MaxCommands
  BY RegistrationAssumption DEF RestOK
<1>3. CASE UNCHANGED <<disk, creds>> /\ Command
  BY <1>2, <1>3 DEF Command, RestOK
<1>4. ASSUME NEW e \in Experts, Release(e)
      PROVE  RestOK'
  BY <1>2, <1>4 DEF Release, Command, RestOK
<1>5. ASSUME NEW e \in Experts, FillIn(e)
      PROVE  RestOK'
  BY <1>5 DEF FillIn, RestOK
<1>6. ASSUME NEW o \in Operators, Finish(o)
      PROVE  RestOK'
  BY <1>6, DoingFields DEF Finish, RestOK
<1>7. QED
  BY <1>1, <1>3, <1>4, <1>5, <1>6
  DEF Next, vars, rowVars, serverVars, Install, Update, Ask, EnableCheck, Decline, BeginWrite,
      Fail, CommitWrite, EnableLatest, Disable, Uninstall, CreateTable, Boot, IngestFiles,
      StartIngestion, Start, Stop, Save

-----------------------------------------------------------------------------
(* Where records go. *)

\* A table that fits does so whatever tables are created after it.
LEMMA FitsLasts ==
    ASSUME Types, atBoot' = atBoot,
           \A f \in Experts :
              /\ Len(schemas'[f]) \in {Len(schemas[f]), Len(schemas[f]) + 1}
              /\ \A i \in 1 .. Len(schemas[f]) : schemas'[f][i] = schemas[f][i],
           TablesOK',
           NEW x \in Tables \union {Absent}, NEW t \in RecordTypes, Fits(x, t)
    PROVE  Fits(x, t)'
<1>1. \A f \in Experts : /\ Len(schemas[f]) \in Nat
                         /\ DOMAIN schemas[f] = 1 .. Len(schemas[f])
                         /\ DOMAIN schemas'[f] = 1 .. Len(schemas'[f])
                         /\ atBoot[f] \in Nat /\ atBoot[f] <= Len(schemas[f])
  BY DEF Types, TablesOK, BootOK
<1>2. \A f \in Experts :
         /\ TablesOf(f, t) \subseteq TablesOf(f, t)'
         /\ \A i \in TablesOf(f, t)' : i \in TablesOf(f, t) \/ i > atBoot[f]
  <2> SUFFICES ASSUME NEW f \in Experts
               PROVE  /\ TablesOf(f, t) \subseteq TablesOf(f, t)'
                      /\ \A i \in TablesOf(f, t)' : i \in TablesOf(f, t) \/ i > atBoot[f]
    OBVIOUS
  <2>1. \A i \in DOMAIN schemas'[f] : i \in DOMAIN schemas[f] \/ i > atBoot[f]
    BY <1>1
  <2>2. \A i \in DOMAIN schemas[f] : i \in DOMAIN schemas'[f] /\ schemas'[f][i] = schemas[f][i]
    BY <1>1
  <2>3. TablesOf(f, t)' = {i \in DOMAIN schemas'[f] : schemas'[f][i][2] = t}
    BY DEF TablesOf
  <2>4. QED
    BY <2>1, <2>2, <2>3 DEF TablesOf
<1>3. CASE x = Absent
  BY <1>2, <1>3 DEF Fits
<1>4. CASE x # Absent
  <2>1. x.expert \in Experts
    BY <1>4 DEF Tables
  <2>2. x.index \in TablesOf(x.expert, t)'
    BY <1>2, <1>4, <2>1 DEF Fits
  <2>3. \A i \in TablesOf(x.expert, t)' : i <= atBoot[x.expert] => i <= x.index
    <3>1. \A i \in TablesOf(x.expert, t) : i \in Nat
      BY <1>1, <2>1 DEF TablesOf
    <3>2. ASSUME NEW i \in TablesOf(x.expert, t)', i <= atBoot[x.expert]
          PROVE  i <= x.index
      <4>1. i \in TablesOf(x.expert, t) \/ i > atBoot[x.expert]
        BY <1>2, <2>1
      <4>2. i \in Nat /\ atBoot[x.expert] \in Nat
        <5>1. DOMAIN schemas'[x.expert] \subseteq Nat
          BY <1>1, <2>1
        <5>2. QED
          BY <1>1, <2>1, <5>1 DEF TablesOf
      <4>3. i \in TablesOf(x.expert, t)
        BY <3>2, <4>1, <4>2
      <4>4. QED
        BY <1>4, <3>2, <4>3 DEF Fits
    <3>3. QED
      BY <3>2
  <2>4. QED
    BY <1>4, <2>2, <2>3 DEF Fits
<1>5. QED
  BY <1>3, <1>4

\* A step keeps what is cached and what was used fitting.
LEMMA SavesKept ==
    ASSUME Types, SavesFit, [Next]_vars
    PROVE  SavesFit'
<1> USE DEF Types
<1>1. \A t \in RecordTypes : cache # Absent => cache[t] \in Tables \union {Absent}
  BY DEF ServerOK
<1>2. \A t \in RecordTypes : home[t] # Unsaved => home[t] \in Tables \union {Absent}
  BY DEF ServerOK
<1>3. CASE UNCHANGED <<up, cache, home, schemas, atBoot>>
  BY <1>3 DEF SavesFit, Fits, TablesOf
<1>4. ASSUME NEW o \in Operators, NEW t \in RecordTypes, CreateTable(o, t)
      PROVE  SavesFit'
  <2>1. PICK e \in Experts, v \in Versions : e = op[o].expert /\ v = op[o].version
    BY <1>4, DoingFields DEF CreateTable
  <2>2. RegisterTable(e, v, t) /\ UNCHANGED <<up, cache, home, atBoot>>
    BY <1>4, <2>1 DEF CreateTable, serverVars
  <2>3. /\ TablesOK'
        /\ \A f \in Experts :
              /\ Len(schemas'[f]) \in {Len(schemas[f]), Len(schemas[f]) + 1}
              /\ \A i \in 1 .. Len(schemas[f]) : schemas'[f][i] = schemas[f][i]
    BY <2>1, <2>2, RegisteredTable
  <2>4. ASSUME NEW x \in Tables \union {Absent}, NEW u \in RecordTypes, Fits(x, u)
        PROVE  Fits(x, u)'
    BY <2>2, <2>3, <2>4, FitsLasts
  <2>5. \A u \in RecordTypes : cache' # Absent => Fits(cache[u], u)'
    <3>1. ASSUME NEW u \in RecordTypes, cache' # Absent
          PROVE  Fits(cache[u], u)'
      <4>1. PICK x \in Tables \union {Absent} : x = cache[u]
        BY <1>1, <2>2, <3>1
      <4>2. Fits(x, u)
        BY <2>2, <3>1, <4>1 DEF SavesFit
      <4>3. Fits(x, u)' /\ cache'[u] = x
        BY <2>2, <2>4, <4>1, <4>2
      <4>4. QED
        BY <4>3 DEF Fits
    <3>2. QED
      BY <3>1
  <2>6. \A u \in RecordTypes : home'[u] # Unsaved => Fits(home[u], u)'
    <3>1. ASSUME NEW u \in RecordTypes, home'[u] # Unsaved
          PROVE  Fits(home[u], u)'
      <4>1. PICK x \in Tables \union {Absent} : x = home[u]
        BY <1>2, <2>2, <3>1
      <4>2. Fits(x, u)
        BY <2>2, <3>1, <4>1 DEF SavesFit
      <4>3. Fits(x, u)' /\ home'[u] = x
        BY <2>2, <2>4, <4>1, <4>2
      <4>4. QED
        BY <4>3 DEF Fits
    <3>2. QED
      BY <3>1
  <2>7. QED
    BY <2>2, <2>5, <2>6 DEF SavesFit
<1>5. CASE \E registry : Start(registry)
  <2>1. /\ UNCHANGED <<cache, home>>
        /\ cache = Absent
        /\ home = [t \in RecordTypes |-> Unsaved]
    BY <1>5 DEF Start, SavesFit, ServerOK
  <2>2. QED
    BY <2>1 DEF SavesFit
<1>6. CASE Stop
  BY <1>6 DEF Stop, SavesFit
<1>7. ASSUME NEW t \in RecordTypes, Save(t)
      PROVE  SavesFit'
  <2> DEFINE T == TablesInUse
  <2>1. T \in [RecordTypes -> Tables \union {Absent}] /\ \A u \in RecordTypes : Fits(T[u], u)
    BY TablesInUseFit
  <2>2. /\ cache' = T /\ home' = [home EXCEPT ![t] = T[t]]
        /\ UNCHANGED <<schemas, atBoot, up>> /\ up
    BY <1>7 DEF Save, ServerOK
  <2> HIDE DEF T
  <2>3. \A u \in RecordTypes : home'[u] # Unsaved => Fits(home'[u], u)
    BY <2>1, <2>2 DEF SavesFit, ServerOK
  <2>4. \A u \in RecordTypes : Fits(cache[u], u)'
    <3>1. ASSUME NEW u \in RecordTypes
          PROVE  Fits(cache[u], u)'
      <4>1. Fits(cache'[u], u)
        BY <2>1, <2>2
      <4>2. QED
        BY <2>2, <4>1 DEF Fits, TablesOf
    <3>2. QED
      BY <3>1
  <2>5. \A u \in RecordTypes : home'[u] # Unsaved => Fits(home[u], u)'
    <3>1. ASSUME NEW u \in RecordTypes, home'[u] # Unsaved
          PROVE  Fits(home[u], u)'
      <4>1. Fits(home'[u], u)
        BY <2>3, <3>1
      <4>2. QED
        BY <2>2, <4>1 DEF Fits, TablesOf
    <3>2. QED
      BY <3>1
  <2>6. up'
    BY <2>2
  <2>7. QED
    BY <2>4, <2>5, <2>6 DEF SavesFit
<1>8. QED
  BY <1>3, <1>4, <1>5, <1>6, <1>7
  DEF Next, vars, rowVars, serverVars, Release, FillIn, Install, Update, Ask, EnableCheck,
      Decline, BeginWrite, Finish, Fail, CommitWrite, EnableLatest, Disable, Uninstall,
      Boot, IngestFiles, StartIngestion

\* What holds initially.
LEMMA InitHolds == Init => Types /\ Registry /\ SavesFit
<1> SUFFICES ASSUME Init PROVE Types /\ Registry /\ SavesFit
  OBVIOUS
<1>1. \A e \in Experts : Rows(e) = {}
  BY DEF Init, Rows
<1>2. << >> \in Seq(Versions) /\ << >> \in Seq(Versions \X RecordTypes) /\ Len(<< >>) = 0
  OBVIOUS
<1>3. Idle \in Doing /\ Idle.at = "idle"
  BY DEF Idle, Doing
<1>4. RowsOK /\ TablesOK /\ BootOK
  BY <1>1, <1>2 DEF Init, RowsOK, TablesOK, BootOK
<1>5. OpsOK /\ OvertakenHaveRead
  BY <1>3 DEF Init, OpsOK, OvertakenHaveRead
<1>6. ServerOK /\ RestOK /\ SavesFit
  <2>1. ServerOK
    BY DEF Init, ServerOK
  <2>2. RestOK
    BY RegistrationAssumption DEF Init, RestOK
  <2>3. SavesFit
    BY DEF Init, SavesFit
  <2>4. QED
    BY <2>1, <2>2, <2>3
<1>7. ReadsHold
  BY <1>3 DEF Init, ReadsHold, ReadHolds
<1>8. OneEnabled /\ SourcesDiffer /\ EntityTypesDiffer
  BY <1>1 DEF Init, OneEnabled, SourcesDiffer, EntityTypesDiffer
<1>9. QED
  BY <1>4, <1>5, <1>6, <1>7, <1>8 DEF Types, Registry

\* Every variable has its type, whatever the operators do.
THEOREM TypeCorrect == Spec => []TypeOK
<1>1. Types /\ SavesFit /\ [Next]_vars => Types' /\ SavesFit'
  BY RowsKept, TablesKept, OperatorsKept, ServerKept, RestKept, SavesKept DEF Types
<1>2. QED
  BY <1>1, InitHolds, TypesSuffice, PTL DEF Spec

\* A record of a type goes to a table made for its type, and to none older
\* than the one its expert used last when the process booted, although the
\* process reads the tables once and others create them (RecordsAreTyped).
THEOREM SavesAreTyped == Spec => []RecordsAreTyped
<1>1. Types /\ SavesFit /\ [Next]_vars => Types' /\ SavesFit'
  BY RowsKept, TablesKept, OperatorsKept, ServerKept, RestKept, SavesKept DEF Types
<1>2. SavesFit => RecordsAreTyped
  BY DEF SavesFit, Fits, RecordsAreTyped
<1>3. QED
  BY <1>1, <1>2, InitHolds, PTL DEF Spec

-----------------------------------------------------------------------------
(* What the rows say. *)

\* What the commands that were not overtaken have read still holds after a
\* step: whoever writes the rows overtakes the others.
LEMMA ReadsKept ==
    ASSUME Types, Registry, [Next]_vars
    PROVE  ReadsHold'
<1> USE DEF Types
<1>1. ASSUME NEW o \in Operators, RowsChanged(o),
             \A x \in Operators \ {o} : op'[x] = op[x],
             op'[o].at \notin {"prompt", "writing", "enabling"}
      PROVE  ReadsHold'
  BY <1>1 DEF RowsChanged, ReadsHold, ReadHolds
<1>2. ASSUME UNCHANGED <<installed, enabled>>, NEW o \in Operators,
             \A x \in Operators \ {o} : /\ op'[x] = op[x]
                                        /\ x \in overtaken => x \in overtaken',
             o \notin overtaken' =>
                /\ op'[o].at \in {"prompt", "writing"} => Fresh(op'[o].expert, op'[o].version)
                /\ op'[o].at = "writing" => op'[o].picked = enabled[op'[o].expert]
                /\ op'[o].at = "enabling" => enabled[op'[o].expert] = {}
      PROVE  ReadsHold'
  <2>1. \A e, v : Fresh(e, v)' = Fresh(e, v)
    BY <1>2 DEF Fresh, SourceFree, Rows, EntityTypesFree, EnabledTypes
  <2>2. ReadHolds(o)' \/ o \in overtaken'
    BY <1>2, <2>1 DEF ReadHolds
  <2>3. \A x \in Operators \ {o} : x \notin overtaken' => ReadHolds(x)'
    BY <1>2, <2>1 DEF Registry, ReadsHold, ReadHolds
  <2>4. QED
    BY <2>2, <2>3 DEF ReadsHold
<1>3. ASSUME NEW o \in Operators, NEW e \in Experts, NEW command, Ask(o, e, command)
      PROVE  ReadsHold'
  <2> DEFINE d == [at |-> "prompt", command |-> command, expert |-> e, version |-> disk[e]]
  <2>1. /\ op' = [op EXCEPT ![o] = d]
        /\ UNCHANGED <<installed, enabled, overtaken>>
        /\ Fresh(e, disk[e])
    BY <1>3 DEF Ask, rowVars, Validated, Package, Fresh
  <2>2. d.at = "prompt" /\ d.expert = e /\ d.version = disk[e]
    OBVIOUS
  <2> HIDE DEF d
  <2>3. op'[o] = d /\ \A x \in Operators \ {o} : op'[x] = op[x]
    BY <2>1 DEF OpsOK
  <2>4. QED
    BY <1>2, <2>1, <2>2, <2>3
<1>4. ASSUME NEW o \in Operators, Decline(o) \/ Fail(o) \/ Finish(o)
      PROVE  ReadsHold'
  <2>1. /\ op' = [op EXCEPT ![o] = Idle] /\ UNCHANGED <<installed, enabled>>
        /\ overtaken \ {o} \subseteq overtaken'
    BY <1>4 DEF Decline, Fail, Finish, rowVars
  <2>2. op'[o].at = "idle" /\ \A x \in Operators \ {o} : op'[x] = op[x]
    BY <2>1 DEF OpsOK, Idle
  <2>3. QED
    BY <1>2, <2>1, <2>2
<1>5. ASSUME NEW o \in Operators, BeginWrite(o)
      PROVE  ReadsHold'
  <2> DEFINE d == [at |-> "writing", command |-> op[o].command, expert |-> op[o].expert,
                   version |-> op[o].version, picked |-> enabled[op[o].expert]]
  <2>1. /\ op' = [op EXCEPT ![o] = d] /\ op[o].at = "prompt"
        /\ UNCHANGED <<installed, enabled, overtaken>>
    BY <1>5 DEF BeginWrite, rowVars
  <2>2. /\ d.at = "writing" /\ d.expert = op[o].expert /\ d.version = op[o].version
        /\ d.picked = enabled[d.expert]
    OBVIOUS
  <2> HIDE DEF d
  <2>3. op'[o] = d /\ \A x \in Operators \ {o} : op'[x] = op[x]
    BY <2>1 DEF OpsOK
  <2>4. o \notin overtaken => Fresh(op[o].expert, op[o].version)
    BY <2>1 DEF Registry, ReadsHold, ReadHolds
  <2>5. QED
    BY <1>2, <2>1, <2>2, <2>3, <2>4
<1>6. ASSUME NEW o \in Operators, CommitWrite(o)
      PROVE  ReadsHold'
  <2>1. RowsChanged(o) /\ op'[o].at = "tables" /\ \A x \in Operators \ {o} : op'[x] = op[x]
    BY <1>6 DEF CommitWrite, OpsOK
  <2>2. QED
    BY <1>1, <2>1
<1>7. ASSUME NEW o \in Operators, NEW t \in RecordTypes, CreateTable(o, t)
      PROVE  ReadsHold'
  <2>1. op[o] \in [at : {"tables"}, command : {"install", "update"}, expert : Experts,
                   version : Versions, todo : SUBSET RecordTypes]
    BY <1>7, DoingFields DEF CreateTable
  <2> DEFINE d == [op[o] EXCEPT !.todo = @ \ {t}]
  <2>2. d.at = "tables"
    BY <2>1
  <2>3. op' = [op EXCEPT ![o] = d] /\ UNCHANGED <<installed, enabled, overtaken>>
    BY <1>7 DEF CreateTable, rowVars
  <2> HIDE DEF d
  <2>4. op'[o] = d /\ \A x \in Operators \ {o} : op'[x] = op[x]
    BY <2>3 DEF OpsOK
  <2>5. QED
    BY <1>2, <2>2, <2>3, <2>4
<1>8. ASSUME NEW o \in Operators, NEW e \in Experts, Disable(o, e) \/ Uninstall(o, e)
      PROVE  ReadsHold'
  <2>1. RowsChanged(o) /\ op' = op /\ op[o].at = "idle"
    BY <1>8 DEF Disable, Uninstall, Idle
  <2>2. QED
    BY <1>1, <2>1
<1>9. ASSUME NEW o \in Operators, NEW e \in Experts, EnableCheck(o, e)
      PROVE  ReadsHold'
  <2> DEFINE d == [at |-> "enabling", expert |-> e]
  <2>1. /\ op' = [op EXCEPT ![o] = d] /\ enabled[e] = {}
        /\ UNCHANGED <<installed, enabled, overtaken>>
    BY <1>9 DEF EnableCheck, rowVars, IsEnabled
  <2>2. op'[o].at = "enabling" /\ op'[o].expert = e /\ \A x \in Operators \ {o} : op'[x] = op[x]
    BY <2>1 DEF OpsOK
  <2>3. QED
    BY <1>2, <2>1, <2>2
<1>10. ASSUME NEW o \in Operators, EnableLatest(o)
       PROVE  ReadsHold'
  <2>1. op'[o].at = "idle" /\ \A x \in Operators \ {o} : op'[x] = op[x]
    BY <1>10 DEF EnableLatest, OpsOK, Idle
  <2>2. CASE RowsChanged(o)
    BY <1>1, <2>1, <2>2
  <2>3. CASE UNCHANGED <<installed, enabled>> /\ overtaken' = overtaken \ {o}
    BY <1>2, <2>1, <2>3
  <2>4. QED
    BY <1>10, <2>2, <2>3 DEF EnableLatest
<1>11. CASE UNCHANGED <<installed, enabled, op, overtaken>>
  <2>1. \A e, v : Fresh(e, v)' = Fresh(e, v)
    BY <1>11 DEF Fresh, SourceFree, Rows, EntityTypesFree, EnabledTypes
  <2>2. QED
    BY <1>11, <2>1 DEF Registry, ReadsHold, ReadHolds
<1>12. QED
  BY <1>3, <1>4, <1>5, <1>6, <1>7, <1>8, <1>9, <1>10, <1>11
  DEF Next, vars, rowVars, serverVars, Release, FillIn, Install, Update, Boot, IngestFiles, Stop,
      StartIngestion, Start, Save

\* The source of a version that is free is no other expert's; likewise its
\* entity types.
LEMMA FreeMeansDifferent ==
    ASSUME NEW e \in Experts, NEW p
    PROVE  /\ SourceFree(e, p) =>
                 \A f \in Experts \ {e} : \A w \in Rows(f) : p.source # Manifest[f][w].source
           /\ EntityTypesFree(e, p) =>
                 \A f \in Experts \ {e} : \A w \in enabled[f] :
                     p.entities \intersect Manifest[f][w].entities = {}
BY DEF SourceFree, EntityTypesFree, EnabledTypes

\* A step keeps the rows of the experts that were not raced unambiguous: who
\* was not overtaken writes what it has validated.
LEMMA RegistryKept ==
    ASSUME Types, Registry, [Next]_vars
    PROVE  OneEnabled' /\ SourcesDiffer' /\ EntityTypesDiffer'
<1> USE DEF Types, Registry
<1>1. CASE UNCHANGED <<installed, enabled, raced, reenabled>>
  BY <1>1 DEF OneEnabled, SourcesDiffer, EntityTypesDiffer, Rows
<1>2. ASSUME NEW o \in Operators, CommitWrite(o)
      PROVE  OneEnabled' /\ SourcesDiffer' /\ EntityTypesDiffer'
  <2>1. PICK e \in Experts, v \in Versions : e = op[o].expert /\ v = op[o].version
    BY <1>2, DoingFields DEF CommitWrite
  <2>2. /\ WriteRows(e, v, op[o].picked)
        /\ raced' = IF o \in overtaken THEN raced \union {e} ELSE raced
        /\ reenabled' = reenabled \ {e}
        /\ op[o].at = "writing"
    BY <1>2, <2>1 DEF CommitWrite
  <2>3. /\ Rows(e)' = Rows(e) \union {v}
        /\ enabled'[e] = (enabled[e] \ op[o].picked) \union {v}
        /\ \A f \in Experts \ {e} : Rows(f)' = Rows(f) /\ enabled'[f] = enabled[f]
    BY <2>1, <2>2, WrittenRows
  <2>4. CASE e \in raced'
    BY <2>2, <2>3, <2>4 DEF OneEnabled, SourcesDiffer, EntityTypesDiffer
  <2>5. CASE e \notin raced'
    <3>1. o \notin overtaken /\ e \notin raced /\ raced' = raced
      BY <2>2, <2>5
    <3>2. Fresh(e, v) /\ op[o].picked = enabled[e]
      BY <2>1, <2>2, <3>1 DEF ReadsHold, ReadHolds
    <3>3. enabled'[e] = {v}
      BY <2>3, <3>2
    <3>4. /\ \A f \in Experts \ {e} : \A w \in Rows(f) : Manifest[e][v].source # Manifest[f][w].source
          /\ \A f \in Experts \ {e} : \A w \in enabled[f] :
                Manifest[e][v].entities \intersect Manifest[f][w].entities = {}
      BY <3>2, FreeMeansDifferent DEF Fresh
    <3>5. OneEnabled'
      BY <2>3, <3>1, <3>3 DEF OneEnabled
    <3>6. SourcesDiffer'
      BY <2>3, <3>1, <3>4 DEF SourcesDiffer
    <3>7. EntityTypesDiffer'
      BY <2>2, <2>3, <3>1, <3>3, <3>4 DEF EntityTypesDiffer
    <3>8. QED
      BY <3>5, <3>6, <3>7
  <2>6. QED
    BY <2>4, <2>5
<1>3. ASSUME NEW o \in Operators, EnableLatest(o)
      PROVE  OneEnabled' /\ SourcesDiffer' /\ EntityTypesDiffer'
  <2>1. PICK e \in Experts : e = op[o].expert
    BY <1>3, DoingFields DEF EnableLatest
  <2>2. op[o].at = "enabling" /\ installed' = installed /\ \A f \in Experts : Rows(f)' = Rows(f)
    BY <1>3 DEF EnableLatest, Rows
  <2>3. CASE UNCHANGED <<enabled, raced, reenabled>>
    BY <1>1, <2>2, <2>3
  <2>4. CASE /\ EnableRow(e)
             /\ raced' = IF o \in overtaken THEN raced \union {e} ELSE raced
             /\ reenabled' = reenabled \union {e}
    <3>1. PICK v \in Rows(e) : /\ enabled'[e] = enabled[e] \union {v}
                               /\ \A f \in Experts \ {e} : enabled'[f] = enabled[f]
      BY <2>1, <2>4, EnabledRow
    <3>2. o \notin overtaken => enabled[e] = {}
      BY <2>1, <2>2 DEF ReadsHold, ReadHolds
    <3>3. OneEnabled'
      BY <2>4, <3>1, <3>2 DEF OneEnabled
    <3>4. SourcesDiffer'
      BY <2>2, <2>4 DEF SourcesDiffer
    <3>5. EntityTypesDiffer'
      BY <2>4, <3>1 DEF EntityTypesDiffer
    <3>6. QED
      BY <3>3, <3>4, <3>5
  <2>5. QED
    BY <1>3, <2>1, <2>3, <2>4 DEF EnableLatest
<1>4. ASSUME NEW o \in Operators, NEW e \in Experts, Disable(o, e)
      PROVE  OneEnabled' /\ SourcesDiffer' /\ EntityTypesDiffer'
  <2>1. /\ UNCHANGED <<installed, raced>> /\ reenabled' = reenabled \ {e}
        /\ enabled'[e] = {} /\ \A f \in Experts \ {e} : enabled'[f] = enabled[f]
        /\ \A f \in Experts : Rows(f)' = Rows(f)
    BY <1>4 DEF Disable, DisableRows, RowsOK, Rows
  <2>2. QED
    BY <2>1 DEF OneEnabled, SourcesDiffer, EntityTypesDiffer
<1>5. ASSUME NEW o \in Operators, NEW e \in Experts, Uninstall(o, e)
      PROVE  OneEnabled' /\ SourcesDiffer' /\ EntityTypesDiffer'
  <2>1. /\ installed' = [installed EXCEPT ![e] = << >>]
        /\ enabled' = [enabled EXCEPT ![e] = {}]
        /\ raced' = raced \ {e} /\ reenabled' = reenabled \ {e}
    BY <1>5 DEF Uninstall, DeleteRows, DisableRows
  <2>2. /\ enabled'[e] = {} /\ Rows(e)' = {}
        /\ \A f \in Experts \ {e} : enabled'[f] = enabled[f] /\ Rows(f)' = Rows(f)
    BY <2>1 DEF RowsOK, Rows
  <2>3. QED
    BY <2>1, <2>2 DEF OneEnabled, SourcesDiffer, EntityTypesDiffer
<1>6. QED
  BY <1>1, <1>2, <1>3, <1>4, <1>5, RowsStep

\* An expert that was not written on outdated reads has one enabled version
\* and its source to itself, and its entity types too unless it was enabled
\* without a validation (RegistryIsUnambiguous).
THEOREM RegistryUnambiguous == Spec => []RegistryIsUnambiguous
<1> DEFINE Inv == Types /\ SavesFit /\ Registry
<1>1. Inv /\ [Next]_vars => Inv'
  BY RowsKept, TablesKept, OperatorsKept, ServerKept, RestKept, SavesKept, ReadsKept,
     RegistryKept DEF Types, Registry
<1>2. Inv => RegistryIsUnambiguous
  <2> SUFFICES ASSUME Inv PROVE RegistryIsUnambiguous
    OBVIOUS
  <2>1. ASSUME NEW e \in Experts \ raced
        PROVE  Cardinality(enabled[e]) <= 1
    <3>1. CASE enabled[e] = {}
      BY <3>1, FS_EmptySet
    <3>2. CASE enabled[e] # {}
      <4>1. PICK v : enabled[e] = {v}
        BY <2>1, <3>2 DEF Registry, OneEnabled
      <4>2. Cardinality(enabled[e]) = 1
        BY <4>1, FS_Singleton
      <4>3. QED
        BY <4>2
    <3>3. QED
      BY <3>1, <3>2
  <2>2. QED
    BY <2>1 DEF Registry, SourcesDiffer, EntityTypesDiffer, RegistryIsUnambiguous
<1>3. QED
  BY <1>1, <1>2, InitHolds, PTL DEF Spec
=============================================================================
