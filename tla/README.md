# A TLA+ model of PearScarf

PearScarf turns what a team receives and does (mails, issues, pull requests,
submitted records) into a graph of facts. Records are saved to Postgres, judged
for relevance by an LLM agent, extracted by another into Neo4j, and curated by
a third. The stages are processes, or threads of one process, that poll shared
tables and never speak to one another. This directory models them in TLA+,
checks the model with TLC and proves theorems about it with TLAPS.

## Inventory

Paths are relative to `src/pearscarf/` unless they begin with another directory
of the repository.

| Component | State | Operations | Interaction | What is hard, what must hold |
|---|---|---|---|---|
| System of record (`storage/store.py`, `storage/db.py`) | tables `records`, `curator_queue` and others, one connection pool for each process | save, label, enqueue; each its own transaction | called by everything | check-then-act under READ COMMITTED; unconditional updates: one row for an item, no lost verdict |
| Intake (`expert_context.py`, ingesters under `experts/`, `experts/ingest.py`, `records/`) | the item being saved | check and insert, label, mark relevant | poll threads, MCP calls, files, the expert's agent | the same item by two ways, a crash between the transactions |
| Consumer loop (`consumer.py`) | stop flag, thread | setup, next, handle | base class of all consumers | what an exception in each place leaves behind |
| Triage (`triage.py`) | the label `triaging` is the claim | boot reset, claim, verdict, release | label of the row | a claim without an owner, blind reset at boot, a row that fails every time |
| Extraction (`extraction.py`) | buffer in memory | poll, agent, commit edge by edge, index, enqueue | reads labels, writes graph, flag, queue | stale buffer, three stores without a common transaction |
| Curation (`curation.py`) | claim timestamp of the entry | sweep, claim, scan, delete, release | reads the queue, rewrites the graph | claims that time out under a live owner |
| Operator (`scripts/reindex_all.py`, `psc queue clear`) | none | wipe, reset flags, clear queue | behind the consumers' backs | half-done work in flight |
| Fact graph (`storage/graph.py`, `graph_access_tools.py`, the scans of `curation.py`) | entities, aliases, edges with `stale` and `replaced_by` | resolve, find-then-create, supersede, expire | extraction and curation write, MCP queries read | decisions on old answers; every pair of facts must be compared once, whichever process is first |
| Intents (`storage/intents.py`) | sidecar rows: status, parent, dependencies | submit and edits with cycle checks | MCP calls from many clients | the cycle checks are not serialised |
| Message bus (`bus.py`, `session_consumer.py`, `assistant.py`, `expert_bot.py`, the front ends) | messages, sessions, batches and conversations in memory, Discord threads | send, poll, handle, reply | one table; Discord's event loop | at-most-once delivery, a history read while others write it, answers that find their thread |
| Source synchronisation (`experts/linearscarf`, `githubscarf`, `gmailscarf`) | sync cursor and buffer in memory | list since the cursor, save | external APIs, page by page | the cursor moves before the work is done |
| Expert registration (`interface/install.py`, `storage/store.py`, `registry.py`) | expert rows, typed tables, a cache in each process | install, update, enable, disable, uninstall; start, save | operators, all processes, packages on disk | rows read before a prompt and written after it; tables read once |
| MCP server, agents, other queries, vectors, evaluation, terminal | little or none of their own | | | an agent run is a nondeterministic outcome of the consumer that starts it |

`PROJECT.json` lists every component with its status, and every hazard at the
line where it bites with the properties that cover it.

## Modules

`SystemOfRecord` declares the shared state; every component EXTENDS it, adds its
own variables and has one action for each transaction or handler branch;
`RecordPipeline` EXTENDS them all and interleaves them.

| Module | Models | Correspondence |
|---|---|---|
| `SystemOfRecord` | `records`, `curator_queue`, the state of the graph as far as the pipeline depends on it | `class`, `dedupKey`, `indexed` are the columns; `claim` is `claimed_at` as none / free / held / overdue; `facts[r]` says whether none, some or all of the edges of r's extraction are written; `uncurated` is a history variable: rows with facts no scan has read |
| `Intake` | the save path | `SaveCheck`, `SaveInsert` are the SELECT and the INSERT with its commit; `SaveClassify` the second transaction; `SaveMarkRelevant` the file ingester's third; `SaveAborts` a crash or exception between any two; `SaveSeed`, `SubmitIntent` the two one-transaction ways in |
| `Triage` | the triage consumer | `TriageBoot` is `_reset_stale_triaging`, `TriageClaim` is `_claim_one`; the agent's run is the interval between claim and verdict, its answer any of `AgentLabels`, also a label that does not exist; `stolen` is a history variable: rows a boot took from a live triager |
| `Extraction` | the extraction consumer | `batch` is `_pending`; the program counter walks agent, commit, mark, enqueue, and each of them can raise or be the last thing the process does |
| `CurationQueue` | the curation consumer's use of its queue | `CurateSweep` and `CurateClaim` are the two transactions of `_next`; `ClaimAges` lets `CURATOR_CLAIM_TIMEOUT` pass; `timedOut` is a history variable |
| `Reindex` | `reindex_all.py`, `psc queue clear` | `WipeGraph`, then `ResetIndexed`, in separate steps |
| `RecordLifecycle` | what the pipeline promises of one record | the state machine of docs/architecture.md, extended to extraction and curation |
| `RecordPipeline` | the composition, its fairness and its properties | `Next` is what `start_system` or the containers run |
| `MCPipeline` | instances | |
| `RecordPipeline_proofs`, `Claims_proofs`, `Verdicts_proofs` | theorems about the pipeline | each EXTENDS the one before |
| `KnowledgeGraph_proofs`, `Intents_proofs`, `Conversations_proofs`, `SourceSync_proofs`, `ExpertRegistration_proofs` | theorems about the module named | |
| `FactGraph` | the graph and its Cypher statements | a statement is a step; nodes, alias edges and fact edges are numbered in the order of creation; `SourceAt` and what the facts say are constants. `ResolveEntity` gives all answers its LIMITs allow; `FactsForEntity` is what a query tells of an entity, in both directions |
| `KnowledgeGraph` | extraction and curation as writers of the graph | EXTENDS `FactGraph`; `work[x]` is what an extraction keeps between a tool call and the write that relies on it, `scan[c]` the locals of `_scan_superseded`. Seeds create their entities without asking (`CommitSeed`), the agent may ask with or without an identifier, give a canonical name or not, leave facts without a subject (`SkipFact`) or give no result (`IndexNothing`). `MarkIndexed` and `Enqueue` are two steps, and the second may fail for good. The judge may say anything of the pairs it is given. `curated`, `compared`, `judged`, `unasked`, `known` and `lateForms` are history variables |
| `Intents` | the sidecar table | a call is a record that walks from SELECT to SELECT (`at`, `todo`, `seen` are the locals of the two cycle checks) and writes once, at its end; `racedParent` and `racedDeps` are history: edits whose check was outdated |
| `MessageBus` | sessions, messages, polling and marking read | `counted` is a session id computed and not inserted yet; a message is numbered when its sender takes `created_at` (`Send`) and in the table when that is committed (`Commit`); `pending` is the batch of a reader, `Held` what it has marked of it; `InOrder` is ORDER BY created_at. A reader is a consumer or one of the poll loops of the human (`Pollers`); nobody reads for `Strangers`. `overtaken`, `taken` and `lost` are history |
| `Conversations` | who uses the bus | EXTENDS `MessageBus`; `memory` is the `_messages` of an agent, `task` an open `on_message` call of Discord, `running` the poll loops started so far (one more at each `OnReady`), `posting` the answer for which a loop awaits a new thread, `threadOf` the table `discord_threads`. `Watchers` are experts' threads that use `ExpertContext.bus`, which the shipped ingesters do not |
| `SourceSync` | one ingester of Linear, GitHub or Gmail, and its source | `synced`, `started`, `pending` are the locals and attributes of the same name; `Stamp` is the ingester's clock, `Skew` ahead of the source's; `from` and `lost` are history |
| `ExpertRegistration` | `psc` commands, the experts table, typed tables and a process that saves records | `op[o]` is what a command keeps in memory between its reads, its prompt and its transactions; `cache` is `_active_tables`; `atBoot`, `overtaken`, `raced`, `reenabled` are history |
| `MCKnowledgeGraph`, `MCIntents`, `MCConversations`, `MCSourceSync`, `MCExpertRegistration` | instances | |

`KnowledgeGraph` is a closer look at what `Extraction` and `CurationQueue` call
writing and scanning: there the graph is how much of a record is written, here
claims and the queue are reduced to what the graph depends on. The other four
share nothing with the pipeline but the records they save through `Intake`.

Abstractions: a row is a number, in the order of `created_at`; the content of
a record, what the agents say and what the edges point at is left out; queue times
are a counter. Definitions marked MUTANT are not part of the specification:
each is a wrong version of the definition that follows it, and shows that
the property named for it in `PROJECT.json` notices.

## Runs

Bounds that are in the modules: `MaxFaults`, the crashes and failed calls of a
behaviour; `MaxOperations`, the reindex runs and queue clears. Failures of rows
that always fail (`TriagePoison`, `ExtractionPoison`) are not counted. `LostWrites`
names the cleanup writes that may fail as well.

| Run | Shows | Bounds |
|---|---|---|
| `pipeline` | safety, refinement of `RecordLifecycle` and liveness with one process of each kind | 3 rows (one of them an intent), 2 items, 1 fault anywhere, claims time out, row 1 cannot be extracted if it is an item's |
| `triagers` | two triagers with crashes, boots and refused releases | 2 mails, 2 faults |
| `rework` | two extractors and two curators on one row, with a reindex or a queue clear | 1 row, 1 fault, 1 operation, claims time out |
| `poison`, `prompt`, `transitions` | expected violations, below | no faults needed |
| `graph` | what two extractions and two curations make of the graph together | a seed and a record of one person under two names, with one fact each, one of which expires and may get a second edge when extraction runs again; any order, any verdict of the judge; 1 fault; LIMITs of 2 and 1 instead of 5 and 3 |
| `intents` | cycle checks that read row by row while another client writes | 3 intents, 2 clients, 3 calls |
| `messages` | the prompt an agent gets while others write in its session, and the way of an answer to its thread | terminal or Discord with one poll loop, one expert, 2 sessions, 2 calls of `on_message`, 3 messages, 1 error |
| `answers` | what becomes of a message, with a second poll loop as after a reconnection | terminal or Discord, 1 session, 1 thread, 3 messages, 1 error; fairness |
| `sync` | cursors against a source that changes | 2 items, 3 events, pages of one item, 2 ticks to a second, no skew, 1 fault |
| `registration` | sequences of commands by two operators, and a process that reads what they leave | 2 experts in 2 versions with overlapping claims; 4 commands, starts and package changes |

Two rows suffice for what orders rows (oldest first, the buffer, the queue) and
one for what two processes do to the same row; a fault, a recovery and the next
attempt are reached with one fault, a crash and a lost release with two. A cycle
that two cycle checks miss takes two calls that overlap; a tree is read on it by a third.
Two edges of one fact and one of another
make the shortest timeline in which a successor is rewritten or that could fork. With pages of one item, two items fill more than a page. Four commands let an expert be
installed, disabled, have its place taken and be enabled again, or be installed,
read by a process, replaced and updated under it. In `triagers`, `graph`
and `registration` processes are symmetric; the runs with liveness use no symmetry.

The properties of the pipeline, each with its hazard stated where it is defined in
`RecordPipeline`:

- `OneRowPerItem`: retries after a crash never duplicate an item that has one ingester.
- `TriagingIsHeld`: no triage claim leaks (when releases succeed).
- `JudgedByOne`, `CuratedByOne`: mutual exclusion up to stolen or timed-out claims.
- `OnlyRelevantIndexed`, `DecisionsStick`: the verdict is final, and extraction's
  stale copy of it does no harm.
- `QueuedIsCommitted`, `LeavesQueueCurated`: what is queued is entirely in the graph
  and indexed; what leaves the queue has been scanned. True without reindexing and,
  for the second, with one extractor.
- `FollowsLifecycle`: the composition implements `RecordLifecycle` under `StageOf`.
- `PendingIsDecided`, `RelevantIsIndexed`, `QueueDrains`: nothing waits for ever.

The properties of the other modules:

- `FactsToldWereCompared`: supersession is looked for once for each record, and still two
  facts told of one entity that is the subject of both were put to the judge together, if both
  records were curated, whatever the order of extraction and curation and whatever failed.
- `TimelineHasOneEnd`: unless the judge contradicts itself (`JudgeConsistent`), `replaced_by`
  never closes a circle or splits a timeline, although a stale edge can be judged, and its
  successor rewritten, again.
- `AliasesKeepTheirRecords`: an alias keeps the records it was written for, up to writes on an
  outdated lookup.
- `OneNodePerIdentifier`: an email or domain has one node, up to seeds, outdated answers and
  questions asked by name alone.
- `ParentCyclesAreRaced`, `DependencyCyclesAreRaced`, `TreesEnd`: a cycle contains an edit
  whose check was outdated by another client's commit; serial edits never make one, and
  `get_intent_tree` (an action property: the step in which it starts to run for ever) then ends. `EditsReturn`: the walks themselves end even on a cycle.
- `TakenOnce`, `ReadIsAccountedFor`, `SentIsTaken`: a message is handled at most once, unless
  two poll loops of the human both have it; it is lost only to an error or a crash; and if
  somebody polls for its addressee it does not stay unread.
- `PromptKeepsHistory`: the conversation an agent is run on is its session's, in order; only a
  message committed after a newer one may be missing. The message it handles comes last, and
  is there once if it is the newest: if there is a newer one, that one is left out in its place.
- `PostedWhereAsked`: with one poll loop answers find the thread of their question.
- `NothingSlips`, `DueIsSaved`: what is due is saved, buffered or will be listed again,
  whatever changes during a cycle, also between its two requests, unless a page or a failed
  write lost it.
- `NoBackfill`: Linear's ingester saves no issue nobody touched since it was started, and
  no change of status from before. It does save old issues that are edited (run `transitions`).
- `RegistryIsUnambiguous`: sequences of commands keep what each validation demands, up to
  overtaken reads and `psc expert enable`. `RecordsAreTyped`: a record goes to a table of its
  type, no older than the one in use when the process booted.

Where a property excepts something (a history variable in its hypothesis), TLC finds
it violated without the exception: the exception is the hazard, and the property says that
nothing else goes wrong.

Expected violations, each a disagreement of the code with a sentence of the
repository (quoted in `PROJECT.json` under findings):

- `poison`: one mail the triage agent always fails on keeps all younger ones pending,
  since a released row is the oldest pending row again.
- `prompt`: of two questions of a session in one batch, the first is handled with itself in the
  history and again at the end, and without the second.
- `transitions`: an issue that was Done before Linear's ingester was started is edited, and saved
  although only transitions after the start are to be captured.

## Remarks on the code

Seen while modelling, and not checked by a run unless it says so.

Pipeline
- A crash between the two transactions of a save leaves a row that is never labelled, since the
  retry takes it for a duplicate; a crash between indexing and enqueueing leaves a row that is
  never curated; so does an enqueue that fails, which is only logged (`extraction.py:676`).
  `RecordLifecycle` allows all of it (stages `unlabelled` and `indexed` may last).
- Nothing checks the label the agent passes to `classify`. A row with an unknown one is in no queue
  any more. The label is written before the line that may raise on a `reasoning` that is no text
  (`triage.py:232`); then the row is released although it was decided.
- Two ingesters of one item can both insert, since the index on `dedup_key` is not unique and
  the check is a SELECT (`store.py:42`). A file's mail is pending between two transactions, and a
  triager that claims it there overwrites `relevant` (`ingest.py:154`). `reindex_all.py` leaves
  the queue alone, so that an entry may be scanned while its record is not indexed, against
  docs/curation.md:39. The hypotheses of the theorems below exclude each of the three.

Graph
- An exact duplicate is found only under the record that is being extracted, so
  `append_source_record` never appends: no edge has two records, and the upgrade of
  docs/curation.md:11 never happens.
- The judge's answer may supersede the trigger, and a stale trigger is judged again: the guard of
  docs/curation.md:22 is not in the code. `mark_fact_stale` overwrites `replaced_by`. Nothing refuses
  a verdict that contradicts an earlier one, in one answer or across curations: then `replaced_by`
  is a circle, all its facts are stale, and their history does not lead "forward to the current
  fact" (`graph.py:853`).
- A query of an entity also tells the facts that point at it (direction `both`); supersession only
  looks at siblings with the same subject, so these are told and never compared with the others.
- What `_mark_indexed` has marked and nobody enqueued is told as well, and not compared.
- A seed creates its entities without `resolve_entity`, a second node for a person known by the
  same email under another name.
- A new node named like an alias hides what is known under the alias from MCP's
  `get_entity_context`.

Messages
- A message to an expert that is unknown, disabled or has no bot (`startup.py:100-104`) is
  stored and never read: `send_message` checks no name.
- Every `on_ready` starts a poll loop, and the one before goes on. Both may select an answer before
  either marks it: it is posted twice, or each creates a thread for its session, and the next
  question comes from another thread than the answer is in.

Synchronisation
- Linear's history is asked for since the cursor, which `_next` has moved already
  (`linear_ingest.py:71`; the comment at `:68` says otherwise): what changed between two cycles is
  not saved.
- Cursors are times of the ingester's clock and are compared with the source's. If it is ahead,
  what changes at the source right after a cycle is never listed (`NothingSlips` with `Skew` 1).
- A change of a known issue is saved under `issue_<identifier>`, where
  `knowledge/records/issue_change.md:13` says the parent's record_id.
- Gmail's `_is_noise` looks for headers in a payload the parsed mail does not have.

Registration
- Two installs of an expert that overlap can leave two enabled versions: under READ COMMITTED
  neither disables the other's row (`store.py:808-810` says "at most one").
- `psc expert enable` validates nothing; a registry that finds no enabled row, or no database,
  loads every package on disk, also the disabled ones (`registry.py:99`).
- The cache of typed tables is dropped in the process that creates one, not in the one that
  saves; `expert_record_schemas` outlives an uninstall, so a type another expert takes over may go
  to the old expert's table; a failure between registration and tables leaves a version
  enabled without its tables, and `psc update` does not create them later.
- The registry reads the manifest on disk: a package changed without `psc update` takes
  effect, unvalidated, at the next start.

## Fairness

Weak fairness of every process's own steps (`SaveRun`, `TriageRun`, `ExtractRun`,
`CurateRun`) and of `ClaimAges`. A consumer loop runs until it is stopped and goes on
after every exception (`consumer.py`), docker-compose restarts a dead container
(`restart: unless-stopped`), which is why booting is among the fair steps, and time
passes. This is the decomposed deployment: a thread of the monolith whose `_setup`
raises is not started again. Nothing is assumed of the choices an agent makes, of
items arriving, of crashes, failures or operators; the runs bound the failures, so
liveness says what happens once they stop.

`Conversations`: weak fairness of each consumer's loop (`LoopStep`), which is a thread, and of
the database calls of an open `on_message`, which block the event loop (`TaskStep`); strong
fairness of the poll loops, tasks the event loop serves in turn but cannot run while such a
call blocks it, and of the first `OnReady`: the bot gets connected. `Intents`: a call under way is
executed to its end. `SourceSync`: the polling thread is scheduled. `KnowledgeGraph` and
`ExpertRegistration` state no fairness: what they promise is safety.

## Proofs

`tlapm` checks these for every value of the constants. The assumptions named in the modules
are the only hypotheses, unless a theorem states one; TLC evaluates them on every run. The
invariants were checked with TLC on instances before they were proved, and every
theorem with a property is about the property a run checks. In all modules `TypeCorrect`
(`Spec => []TypeOK`) comes first. It is not always inductive as it stands: what is in a
process's hands has its type only together with where the process is.

### Pipeline

| Theorem | Statement | Inductive invariant, and why it is needed |
|---|---|---|
| `TypeCorrect` | `Spec => []TypeOK` | `RowInHand`: a working extractor has a row, else a commit adds nothing sensible to `uncurated` |
| `ItemsSavedOnce` | `OneRowPerItem`, if `OneIngesterPerItem` | `CheckedIsNew`: from SELECT to INSERT the item still has no row, since only its own ingester could insert one |
| `CurationExclusive` | `CuratedByOne` | `CurationClaims`: the entry of a record in hand reads `held` until a claim on it times out; extraction's ON CONFLICT DO NOTHING and the operator's deletion of unclaimed entries leave it alone |
| `TriageExclusive` | `JudgedByOne` | `TriageClaims`: a row in hand and not stolen is never pending; `SavingRows`: ingesters label only rows of their own |
| `ClaimsDoNotLeak` | `TriagingIsHeld`, if releases succeed and no agent answers `triaging` | with `TriageClaims`: who claims has no row in hand that the claim could make it forget |
| `VerdictsAreFinal` | `DecisionsStick`, if `FilesAreTrusted` | `Verdicts`: a row in hand and not stolen reads `triaging`; a row a file ingester has labelled is relevant already |
| `IndexedIsRelevant` | `OnlyRelevantIndexed`, if `FilesAreTrusted` | `ExtractingRelevant`: what is buffered or in hand is still relevant |
| `QueuedAreCommitted` | `QueuedIsCommitted`, unless the graph is wiped | `Committed`: what an extractor has done before it enqueues; any number of extractors, since none undoes a commit |
| `CuratedBeforeLeaving` | `LeavesQueueCurated`, if `OneExtractor` and no operator | `DoneOnce`: what is buffered or in hand is not indexed, what is in curation is indexed and in no extractor's hands; `Scanned`: a record whose entry another curator deleted has no unread facts |
| `ImplementsLifecycle` | `FollowsLifecycle`, if `FilesAreTrusted`, `OneTriager`, `OneExtractor` and no operator | all of the above and `NothingStolen`; for each component a lemma says what a step does to a row (`Inserted`, `Labelled`, `Judged`, `Extracted`, `CuratedFurther`), and `MovesAlong` that each of these is a move of `RecordLifecycle` or none |

The hypotheses are needed: with two ingesters of an item both may insert; a file of an expert that is
not trusted is pending for a moment; with a second triager a stolen row gets two verdicts; a second extractor adds facts to a row that is queued
already; reindexing takes the graph away under the queue, and clearing the
queue takes out entries nobody scanned. "No operator" is `[][~ReindexNext]_vars`,
"unless the graph is wiped" `[][~WipeGraph]_vars`. Curators are never restricted.

### Graph

- `FactsCompared` (`FactsToldWereCompared`). `RivalsMeet`: two current facts of one subject, by
  different records that were queued at some time, were put to the judge together, or one of the
  records is queued still and no scan of it is past its fact. Whichever fact is written last is written
  while its record is not queued yet, so that its own scan is still to come.
- `AliasesKept` (`AliasesKeepTheirRecords`): what a lookup returned is still what the edge says
  when it is rewritten, or the alias is in `lateForms`.
- `OneEntityPerIdentifier` (`OneNodePerIdentifier`): an extractor that is to create an entity and
  asked for its identifier was told that there is none among the nodes there were then (`asOf`);
  if there are more by now, or it did not ask, the node is in `unasked`.
- `OneEnd` (`TimelineHasOneEnd`): every link is a verdict (in `judged`), so a judge that never had
  facts supersede one another in a circle leaves every set of facts with one whose successor is outside
  it, and the timeline with an end. It has no second one, since
  what comes before an end (`Before`, the least set closed under predecessors) has no link that leads
  out, and is therefore the whole of the least such set, which `FactHistory` is.

### Intents

- `NoParentCycle` (`ParentCyclesAreRaced`), `NoDependencyCycle` (`DependencyCyclesAreRaced`). The
  invariants `WalkedUp` and `WalkedDeps` relate a walk that no commit has overtaken to the rows as they are now: from what
  was seen one only gets to what was seen or is still to be visited, and the intent was not
  seen; when the walk is over, there is a set that no way leads out of, with the proposed parent (or
  dependencies) in it and without the intent. A link into such a set closes no cycle. The walk along dependencies
  forgets what it has seen with every dependency; what it has left behind is in such a set already.

### Messages

- `GivenOnce` (`TakenOnce`) and `NoneMissing` (`ReadIsAccountedFor`) from `Batches`: a batch holds
  messages to its reader, each once, taken by no other but another poll loop of the human. Any
  number of poll loops.
- `HistoryKept` (`PromptKeepsHistory`): message numbers grow with `created_at`; an older message that
  was not in the table when the history was read is committed after the newer one that is handled, and
  so in `overtaken`; lemmas on `InOrder` hold for any finite set.
- `AnsweredWhereAsked` (`PostedWhereAsked`) from `Threads`: a session whose thread is being created is
  mapped to none and nobody has written in it. The theorem assumes one poll loop.

### Synchronisation

- `NothingFromBefore` (`NoBackfill`) from `HandsAreRecent`: what is listed, buffered or in hand
  changed after the start.
- `CursorsMissNothing` (`NothingSlips`), if `Skew` is 0. `PagesInOrder`: what Linear's pages have not shown yet is
  older than what they have, or has changed since the cycle began, when the next cursor was
  taken; `LoadCovers`: GitHub's first load covers what was open. `MostStepsRetain` deals with every
  step that leaves source and cursor alone.

### Registration

- `RegistryUnambiguous` (`RegistryIsUnambiguous`) from `ReadsHold`: what a command that nobody
  overtook has read still holds when it writes.
- `SavesAreTyped` (`RecordsAreTyped`) from `SavesFit`: the cache fits the tables as the saved records
  must, since tables are numbered in the order of creation and only read after a boot.
- Assumed of the constants: a manifest has schemas only for record types it declares, and `Absent` is neither a
  version nor a table.

### Only model-checked

- `TreesEnd`: that the rounds of `get_intent_tree` end on a graph without cycles needs an induction
  over the rounds (a recursive function), which the provers cannot instantiate;
  `NoParentCycle` proves the part about the graph.
- The liveness properties (`PendingIsDecided`, `RelevantIsIndexed`, `QueueDrains`, `EditsReturn`,
  `SentIsTaken`, `DueIsSaved`): fairness is out of the prover's reach.

## Assumptions of the models

- An agent that is shown a node as definitive takes it (`extractor_agent.md`); an entity has
  the email or domain its record has, or is asked for by name alone.
- The process of the bus has one clock, which does not go back: the order of `created_at` is the
  order in which senders took it. Posting to an existing thread is one step, so is what blocks
  Discord's event loop.
- The ingester's clock is not ahead of the source's. One that is behind only asks for more.
- Of the limits of queries only those that decide something are modelled: of `resolve_entity`, of
  a page, and of `get_fact_history`, whose longer histories `TimelineHasOneEnd` leaves out.
- MERGE is atomic; in `KnowledgeGraph` one record is extracted by one process at a time (two
  extractors of one row are in `rework`).
- GitHub compares `since` in whole seconds; the order within a list does not matter; a behaviour
  of `SourceSync` has one ingester.
- A version of an expert package has one content; in `ExpertRegistration` one process at a time
  saves records, processes that only read having nothing to do with one another.

## Not modelled

Evaluation, cost accounting, terminal tools, vectors and the queries that only read keep no
state others depend on. LLM clients, prompts, embeddings and the text of everything are data
no control depends on. `erase_all.py` empties every store. MCP keys are read by
authentication only; their COUNT(*)+1 identifiers follow the pattern of sessions in `messages`.
The helpers for the tables `emails`, `issues` and `issue_changes` in `store.py` have no caller left.

## Plan

Every safety property of a run is proved but `TreesEnd`. What is left:

1. That `KnowledgeGraph` implements what `Extraction` and `CurationQueue` say of the graph
   (`facts`, `uncurated`): the records whose statements are all there, and the queued ones.
2. `ImplementsLifecycle` for the deployment with several triagers, with a life cycle that lets a stolen
   row be judged again.
