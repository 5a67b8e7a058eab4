# A TLA+ model of the Flashback agent service

This directory holds TLA+ specifications of the agent service in `src/`, the
configurations TLC checks them with, and proofs for TLAPS. All paths below are
relative to the repository; `flashback/` stands for `src/flashback/`.

- [Inventory](#inventory): the components, their state, how they interact, what is hard
- [Modules](#modules): what each models, what composes what, what is proved
- a session: [SegmentLifecycle](#segmentlifecycle), [HttpIdempotency](#httpidempotency),
  [SessionOpening](#sessionopening), [TapCards](#tapcards)
- the workers: [ExtractionWorker](#extractionworker), [EmbeddingWorker](#embeddingworker),
  [ThreadQuestions](#threadquestions), [PostSession](#postsession)
- the graph and the keepsakes: [GraphEdits](#graphedits), [ThemeEntry](#themeentry),
  [RenderJobs](#renderjobs), [CampaignConfig](#campaignconfig)
- [Runs](#runs), [Proofs](#proofs), [Divergences](#divergences), [Not modelled](#not-modelled)

## Inventory

The service interviews a contributor about a person and turns what is said into
a graph of memories. A Node gateway calls it over HTTP; conversation state lives
in Valkey ("Working Memory"), the graph in Postgres, and everything slow runs in
workers fed by SQS.

| component (flashback/...) | state | operations | talks to |
|---|---|---|---|
| `working_memory/` | per session: state hash, transcript, open segment buffer, asked list (Valkey, TTL) | initialize, append_turn, get/reset_segment, counters, seeded question, clear; each one MULTI/EXEC or Lua call | orchestrator |
| `orchestrator/` | per request only (`TurnState`) | session start, turn, streamed turn, wrap; a step table says which failures degrade | Working Memory, LLMs, Postgres, extraction queue, post-session queues |
| `http/` | `Idempotency-Key` cache and lock (Valkey) | routes; `run_idempotent` | orchestrator, repositories |
| `queues/` | none | push to SQS | workers |
| `workers/extraction/` | `processed_extractions`, `extraction_outbox` (Postgres) | receive, check, extract, one transaction, drain the outbox, acknowledge | graph, embedding / artifact / thread queues |
| `workers/embedding/` | vectors and their model version on each row | guarded UPDATE, backfill | Voyage, graph |
| `workers/thread_detector/` | `moments_at_last_thread_run`, threads | re-validate the trigger, cluster, stamp the baseline | graph, questions |
| `workers/producers`, `profile_summary`, `trait_synthesizer` | questions, summaries, traits | consume the jobs a wrap fans out | graph |
| `identity_merges/`, `node_edits/` | merge suggestions, entities, edges | suggest, approve, reject, unmerge; preview and commit an edit | graph, embedding queue |
| `themes/`, `phase_gate/`, `question_decisions/`, `profile_facts/`, `ground_truth/` | themes, question bank, decisions, facts | unlock, select, skip / reject / answer, upsert with a cap | Postgres |
| `storybook/`, `tribute/`, `tribute_video/` and render workers | storybook and tribute rows with a status | generate, render, re-render, fail | Postgres, render queues, S3 |
| `tribute/config_repository.py`, `http/routes/admin_tribute_config.py` | versions of visual themes, campaigns and profiles | create, edit, publish, archive, delete, roll back, regenerate; repoint references | Postgres, renders |
| `onboarding/`, `persons/`, `profile_picture/`, `artifacts/` | persons, archetype answers, images | single transactions | Postgres, queues |
| `llm/`, `intent_classifier/`, `segment_detector/`, `session_summary/`, `response_generator/`, `retrieval/`, `entity_mention/` | none, or a cache | prompts, parsing, read-only queries | LLM providers, Postgres |

What is hard about it, and the property that makes each component correct:

- **Closing a segment** is six separate awaits (read, ask the LLM, push, promote the
  summary, reset the buffer, clear the seeded question, tally) on state that other
  requests of the same session change meanwhile. *Nothing said is lost, a segment is
  handed over whole, the summary is the past.*
- **The wrap** ends the session whatever degraded before it. *A wrap that did not
  degrade covers the session.*
- **Extraction** is at-least-once on both sides: SQS redelivers, workers die, and the
  outbox re-sends. *The graph is written once, nothing is acknowledged before, a
  duplicate has a cause, every row settles.*
- **The idempotency lock** has a TTL shorter than the slowest operation and is deleted
  by whoever finishes. *A key runs its operation once; a retry gets the same answer.*
- **Embeddings** are guarded by model version, not by text, and pushed before or after the
  commit. *A stale vector or a row without one has a cause; two models never mix.*
- **Thread detection** checks its trigger, works for minutes and stamps its baseline at the
  end, while extractions count moments and other workers run. *A due run keeps a trigger, a
  pattern has one thread, what the user suppressed stays away.*
- **Post-session jobs** check, read, ask an LLM and commit on connections of their own.
  *Work is done once, a question or a trait exists once, caps hold, the onboarding answers are
  mined.*
- **Merges and edits** rewire edges of a graph that extraction changes. *No edge points
  at a superseded or merged node, a pair the user pulled apart is left alone.*
- **Cards** are answered by side-cars that name no card, before the idempotency key is looked
  at. *An answer is filed under its question, nothing told is asked again, caps hold.*
- **Session starts** carry no key, may be retried and overlap turns. *A started session stays
  usable, onboarding answers are persisted once, questions do not repeat.*
- **Entering a theme** reads and writes answers beside drafts and automatic unlocks. *No accepted
  answer is lost, an occasion has one open tribute.*
- **Render jobs** set a status before they enqueue, and a newer render supersedes an older one
  that is under way. *No row stays "generating", a finished row shows what was asked last.*
- **Configuration versions** are superseded while others refer to them and snapshots pin them.
  *References follow, what is pinned is kept.*

The hazards, each at its line, are in `PROJECT.json` under `hazards`.

## Modules

| module | models | proofs in | proved beside the types |
|---|---|---|---|
| `SegmentLifecycle` | turn, stream and wrap against Working Memory | `SegmentLifecycleProofs` | payloads nest, a loss needs a rival's window or a degraded wrap; for a serial client nothing is forgotten, segments are read against the past, `SegmentLedger` is implemented |
| `ExtractionWorker` | extraction queue, commit, outbox | `ExtractionWorkerProofs` | commit once, no segment lost, honest outbox, duplicates have a cause |
| `HttpIdempotency` | `run_idempotent` | `SessionOpeningProofs` | overlaps are bounded by overruns, retries are replayed |
| `SessionOpening` | starts, onboarding, bank questions, wraps with their key | `SessionOpeningProofs` | the same for wraps with steps; answers persist once, a started session is usable, a question repeats only in a race |
| `EmbeddingWorker` | guarded UPDATE, backfill, edits and merges as writers | `WorkerProofs` | models never mix, stale and empty rows have a cause |
| `RenderJobs` | storybook and tribute rows, push, render workers, re-render | `WorkerProofs` | no row is stranded, finished rows are current, but for a mishap |
| `PostSession` | the jobs a wrap fans out, fact edits, traits | `PostSessionProofs` | committed twice needs overlap, the cap, answers are mined, writes are new |
| `ThreadQuestions` | trigger, clusters, stamp, thread questions, suppression | `GraphProofs` | due runs come, threads are single, a suppressed pattern is reopened only in a race |
| `GraphEdits` | supersession, entities, identity merges | `GraphProofs` | dead ends have a cause, a pair pulled apart stays apart |
| `ThemeEntry` | drafts, session starts, automatic unlocks, tribute rows | `TributeProofs` | the last answers stand, tributes are single, answers add up |
| `CampaignConfig` | versions, references and pins | `TributeProofs` | what is pinned survives, references stay current |
| `TapCards` | cards, side-cars, the message | `TapCardsProofs` | answers are filed, nothing is asked again, caps, taken once |

`SessionOpening` EXTENDS `HttpIdempotency` and gives the operation it leaves open its steps, so
that every property of the key is checked, and proved, beside the starts and turns of a session.
`SegmentLifecycle` implements `SegmentLedger`. The other modules meet at the names of what they
pass on: a payload that `SegmentLifecycle` pushes is a message of `ExtractionWorker`; the trigger
its transaction writes is the one `ThreadQuestions` receives; what a wrap sends is the queue of
`PostSession`; rows that change text are the writers of `EmbeddingWorker`.

Every module takes its bounds as CONSTANTS with named assumptions, has one action per operation,
states invariants as conjunctions of named parts and uses no RECURSIVE operator, so that it can be
proved about as well as checked. A module of proofs may be about two specifications that share
nothing but the theorems they use; the names of one are then not those of the other (`GraphNext`,
`RenderSpec`, `ConfigInit`, `Nothing`). `TypeOK` is the type invariant of a module; those of
`TapCards` (`TypeInv`), `SessionOpening` (`Shape`) and `CampaignConfig` (`Kinds`) are in their
proofs.

## SegmentLifecycle

One session. `Req` are its HTTP requests (each turns out to be a turn or a wrap),
`pc[r]` is the await at which handler `r` is suspended and `loc[r]` its locals. An
action is one Working Memory call, one push, or one LLM call with the code up to the
next await.

| variable | code |
|---|---|
| `hash` | the session's state hash: `full` as `initialize` writes it, `absent` after `clear`, `partial` when a late HSET/HINCRBY re-created it |
| `said` | history: every turn ever appended, with the request that appended it, its role, and whether its metadata carries a question id |
| `segment` | `wm:segment:*`, as the positions in `said` it holds |
| `sinceCheck`, `summary`, `seeded`, `pushed` | fields of the state hash; `summary` is the set of turns the rolling summary covers |
| `queue`, `post` | what the extraction queue and the post-session queues accepted |
| `faults` | bound `MaxFaults` on crashes, failed calls and lost answers |

| actions | code |
|---|---|
| `Arrive` | `http/routes/turn.py`, `stream.py`, `session.py`: 409 without a hash |
| `AppendUserTurn`, `CountUserTurn` | `steps/append_turn.py` |
| `Classify`, `ClassifyFails`, `UpdateSignals` | `steps/classify.py` (degradable) |
| `Select`, `RecordTapEmitted` | the tap and question steps of `handle_turn`; a reply asks nothing, rides on a tap card, or asks a bank question (switch turns only) |
| `Respond`, `RespondFails`, `AppendAssistant`, `SetSeededQuestion` | `steps/generate_response.py`, the stream's error block, `steps/append_response.py` |
| `Gate`, `Snapshot`, `Detect`, `DetectFails`, `Push`, `PushFails`, `UpdateRollingSummary`, `ResetSegment`, `ClearSeededQuestion`, `IncrementSegmentsPushed` | `steps/detect_segment.py` in its order |
| `LoadState`, `DetectForced`, `GenerateSummary`, `PushPostSession`, `RereadState`, `ClearWM`, `ClearFails` | `steps/wrap_session.py`; the close is shared with the turn |
| `StateReadFails` | `get_state` on a missing or partial hash; not degradable |
| `Crash` | the process, the client's connection or Valkey goes; nothing is undone |

A Valkey list of turns is only appended to, read whole and deleted whole, so a set of
positions represents it. What the LLM writes as a summary is the set of turns it was
given. `SegmentLedger` is the abstract specification: turns are said into one open
segment, the open segment is handed over whole, it may come back only as it was handed
over, and ends with the session.

Abstractions: the transcript list, TTL expiry and the rate limit are left out; they do not
decide when or with what a segment is closed. A tribute session's cadence is another value of
`Cadence`. The asked list and a second `/session/start` on a live session are in
`SessionOpening`, taps, side-cars and the segment anchor in `TapCards`. A retried request is
another request; the `Idempotency-Key` is `HttpIdempotency`.

## HttpIdempotency

The requests that carry one `Idempotency-Key`. `cache` is the request whose response is
cached, `lock` the in-flight key; `holder`, `effects`, `late` and `overruns` are history: who
set the lock last, which operations took effect, who came after a response was cached, how many
locks expired under a working holder.

| actions | code (`http/idempotency.py`) |
|---|---|
| `Arrive` | the route calls `run_idempotent` with a key |
| `ReadCache` | line 49: the cached response is returned |
| `Acquire` | line 53: SET NX EX, 409 when it exists |
| `Operate`, `OperateFails` | line 61; a failing operation may have taken effect |
| `Store`, `StoreFails` | line 62; a failing SET may have been done |
| `Release` | line 69, in the `finally` block: the lock is deleted, whoever holds it |
| `LockExpires`, `LockOverruns` | the 120 seconds of the lock, with a holder that is gone or still at work |
| `Crash` | the process dies, or Valkey cannot be reached to delete the lock |

Abstractions: the operation is one step (`SessionOpening` gives a wrap its steps); the 24 hours of
the cached response are longer than any behaviour here; a request without a key runs its operation
and never meets this code. A cancelled handler runs the `finally` block and is an `OperateFails`.

## SessionOpening

How a session begins, what it asks, and how it ends. `Start` are calls of `/session/start` or of
`/onboarding/archetype-answers`, which carry no key, `Turn` are turns, `Req` the wraps that retry
one key. `first` says whether starts carry onboarding answers.

| variable | code |
|---|---|
| `hash` | the state hash: gone, or whether all its fields are there, whose opener and which seeded question it has |
| `asked` | `wm:asked:*`, with `RECENTLY_ASKED_WINDOW` entries and a lease of its own |
| `skipped` | active skip decisions on bank questions |
| `person` | `persons.onboarding_complete`, and how often answers were persisted |
| `stage` | where the operation of a wrap is |
| `opened`, `ended` | the client has an opener; the session was wrapped or ran out |
| `told`, `repeats`, `crossed`, `raced` | history: how many pushes ago a question was asked, who asked one too early, whose choice another asked first, which starts found no hash together |

| actions | code |
|---|---|
| `BeginStart`, `SelectStarter`, `GenerateOpener`, `LookForHash`, `InitWorkingMemory`, `AppendOpener` | `orchestrator.py` (`handle_session_start`, `handle_first_time_opener`), `steps/starter_opener.py`, `steps/apply_picked_question.py`, `working_memory/client.py` |
| `LookAtPerson`, `ResolveAnswers`, `PersistAnswers` | `http/routes/onboarding.py`, `onboarding/persistence.py`: the row is looked at, looked at again under its lock, 409 when it is complete |
| `Candidates`, `Select` | `phase_gate/steady_selector.py`: without the last source and skips, then with that source, then with skips; the ranking picks any |
| `BeginTurn`, `Decide`, `StampDecision`, `ReadState`, `WriteSignals`, `Respond`, `Ask`, `Seed`, `Boundary`, `Reply` | `http/routes/turn.py`, `question_decisions/`, `orchestrator.py` |
| `WrapStep`, `Wrap` | `steps/wrap_session.py`, between `Acquire` and `Store` of `HttpIdempotency` |
| `LeaseRunsOut`, `Fails` | a TTL of Valkey; a failure, a crash or a lost reply anywhere |

Abstractions: a question has a source, no score; `hash` keeps only what decides whether a state
can be read. The segment's own steps are in `SegmentLifecycle`. A start on a session that is
there writes its opener into the hash it finds. That `initialize` leaves such a hash alone is what
`StartedIsUsable` turns on; but its EXISTS (`LookForHash`) and its HSET (`InitWorkingMemory`) are two
awaits, and of two starts that both found no hash the later one wipes what the earlier one wrote.

## TapCards

The four kinds of card a turn may attach to its reply and the answers to them. A request attaches
at most one card, so a card is named by its request.

| variable | code |
|---|---|
| `wm` | the hash fields of cards: counters, cooldown, the pending tap, declined fields, the segment anchor |
| `told`, `covered`, `message` | `persons.ground_truth`, `coverage_state`, `tributes.message_text` |
| `keyed`, `body`, `locked`, `replayable` | `/turn` with a key or `/turn/stream`; what a request carries; the key |
| `card`, `shown`, `screen` | cards recorded, received, and the one that waits for its answer |
| `filed`, `sent`, `captured`, `again` | history: where answers went, anchors sent with segments, who took the message, facts asked again |
| `blind`, `unsure`, `overlapped` | history: whose read of the facts failed, whose push was taken and seemed to fail, who ran beside another |

| actions | code |
|---|---|
| `Send`, `Resend` | the client: an answer to the card on its screen (a value, a skip, or a text of which nothing is left when it is stripped), or plain speech; a retry with the key |
| `ReadPending`, `ReadDeclined`, `AddDeclined`, `FileAnswer`, `ClearPending` | `http/routes/turn.py`, `ground_truth_answer.py` |
| `ReadInvitation`, `ConsumeCheck`, `StoreMessage`, `ClearInvitation` | `tribute/message_capture.py` |
| `Enter`, `AppendUserTurn`, `Classify`, `Select`, `ReadEmitted`, `Record`, `Respond` | `run_idempotent` and the steps of `handle_turn`, with `select_coverage_tap.py`, `select_ground_truth_tap.py` (facts and time anchors), `select_message_invitation.py` |
| `LoseFacts`, `Facts` | `fetch_ground_truth` of `ground_truth/store.py`, which answers a failed read with no facts |
| `PushSegment`, `PushFails`, `ClearAnchor`, `Reply`, `ReplyLost`, `Fails` | `detect_segment.py`'s use of the anchor, a push that fails or only seems to, and the ends of a request |
| `Observe`, `Cover`, `SubmitMessage` | what extraction and `POST` of a message write meanwhile |

`promote_seeded_to_tap` is left out: it passes over every source the selector can return.

## ExtractionWorker

Worker processes share the extraction queue, Postgres and the outbox. A step is one SQS
call or one transaction.

| variable | code |
|---|---|
| `sqs` | the SQS message: visible, inflight, deleted (external, as `sqs_client.py` uses it) |
| `processed`, `commits` | `processed_extractions`; history of committed graph writes |
| `outbox` | `extraction_outbox`, status and attempts; `pending` splits by whether `available_at` is past (`pending`/`backoff`), `in_progress` by whether the lease is over (`expired`) |
| `delivered` | copies the downstream queue took of each job |
| `pc`, `msg`, `held`, `job` | `run_forever` / `process_message` / `drain_extraction_outbox` of each worker |
| `mishap` | history: lost answer, overrun lease or crash, per row |

`Receive` to `Delete` are `worker.py` and `sqs_client.py`; `Persist` is the one transaction,
rolled back when `mark_processed` conflicts; `Reserve`, `SendOk`, `SendFails`, `Mark` are
`outbox.py`. `_mark_sent` and `_mark_failed` update by id whoever holds the row, and so does
`Mark`. `Crash` loses the worker's locals only.

Abstractions: a reservation takes every due row (the code takes up to 100, oldest first); a
malformed body is received and deleted in one step; what the transaction writes is a set of
job kinds. A message whose extraction fails every time is redelivered for ever by the code;
the model's failures are bounded, so it says nothing about such a message (see hazards).

Fairness (`FairSpec`): weak fairness of each worker's steps, of the passing of backoff, lease
and visibility time. Each worker is an endless loop in a process of its own that is restarted
when it dies, and time passes. Nothing is assumed about faults except that there are at most
`MaxFaults`; a job in `Poison` fails every time.

## EmbeddingWorker

The rows that carry a vector, whoever writes them. A writer is one transaction on one row and
stands for the text it writes, so that a vector, a job and a row have the same text exactly when
they name the same writer.

| variable | code |
|---|---|
| `text` | the committed row: `None` before its INSERT, a writer, `Retired` once superseded, archived or merged |
| `vector` | the vector and model columns: `None`, or of which text and which model |
| `writing` | who holds the row with an uncommitted write |
| `pc`, `on` | where each writer is, and on which row |
| `queue` | embedding jobs sent and not acknowledged; two equal jobs are one |
| `found` | rows a backfill has read and not sent yet |
| `model`, `scans`, `faults` | the newest `EMBEDDING_MODEL`; bounds on backfills and faults |
| `disturbed` | history: texts that met a job of another text for their row |

| actions | code |
|---|---|
| `Begin`, `Commit`, `Rollback` | a transaction that inserts a row or replaces its text and clears its vector: `profile_facts/repository.py`, `identity_merges/repository.py`, `node_edits/`, `workers/extraction/persistence.py` |
| `PushInside` | the push within the transaction (`profile_facts`, `identity_merges`); one that fails is a `Rollback` |
| `PushAfter`, `PushFails` | the push after the commit (`node_edits/engine.py`, the extraction outbox, producers, trait synthesizer, thread detector), at best an attempt |
| `Retire` | a status other than active; the vector stays |
| `Apply`, `ApplyUnacked` | `workers/embedding/worker.py`: the guarded UPDATE, acknowledged even if it matched no row, or delivered again |
| `Upgrade` | the operator changes the model; processes started before still send the old one |
| `Scan`, `SendFound`, `ScanStops` | `workers/embedding/backfill.py` |

Postgres runs at READ COMMITTED: the UPDATE does not see a row inserted by an open transaction,
and waits for an open one that has changed the row (`Locked`). A batch is its jobs one by one;
the embedding service answers or the job stays. Rows do not touch each other, so the run has one.

Fairness (`FairSpec`): a transaction that began ends and its push is tried, since it holds a
connection of a live process or is rolled back; the worker drains its queue for ever. Voyage is
assumed to answer in the end. Nothing is assumed of the backfill, which a person starts.

## ThreadQuestions

The thread detector of one person, its trigger, and the questions it leads to. An extraction's
transaction counts the moments before it commits and puts the trigger of a run that is due into the
outbox (`CountMoments`, `CommitMoment`: `outbox.py`); the drain sends it, sends it and cannot mark
it, or gives it up after its last attempt (`SendTrigger`, `SendUnmarked`, `GiveUpTrigger`). The
outbox's own steps and leases are in `ExtractionWorker`. `Receive`, `Check`, `MatchThread`,
`Propose`, `CommitCluster`, `PushJobs`, `Stamp`, `Ack` are `workers/thread_detector/worker.py` and
what it calls, one transaction per cluster; any subset of the moments may have its embedding when a
run clusters, `Incoherent` and `ClusterFails` are a cluster that is passed over and one that fails,
`Die` and `Lapse` a crash and a message seen again. `Select` and `Decide` are
`phase_gate/queries.py` and `question_decisions/repository.py`. `stamp` is
`moments_at_last_thread_run`, `vector` whether a thread has the embedding by which the next run
matches it, `crossed` and `reopened` (history) the patterns a question of which was suppressed
beside a proposal, and those given new questions although one stood suppressed. HDBSCAN is any
clustering that groups moments of one pattern; a centroid matches a thread exactly when both are of
one pattern and the thread has its vector.

## PostSession

The workers behind the queues a wrap and the weekly scheduler fill, and the profile facts.

| variable | code |
|---|---|
| `queue`, `processed` | jobs not acknowledged; `processed_*` rows |
| `at`, `job`, `plan`, `twice`, `first`, `seen`, `inserting` | a worker's position and what it has read or had answered |
| `told`, `retired`, `open`, `quiet`, `asked` | what producers read: targets covered, entities gone, unanswered questions, suppressed ones, dropped phrases |
| `rung`, `rows` | strength of a trait and the number of its active rows |
| `facts` | active facts |
| `commits`, `overlapped`, `raced`, `mined`, `dropped`, `crowd` | history |

`Take`, `Check`, `Ack`, `Die`, `TimesOut`, `Errs` are the loops of the three workers; `ReadTargets`,
`Generate`, `PersistQuestions`, `TargetGone` the producers P2, P3 and P5; `ReadTraits`,
`Synthesize`, `BeginTraits`, `PersistSynthesis`, `PushEmbeddings` the trait synthesizer;
`ReadSummary`, `GenerateSummary`, `PersistSummary`, `ExtractFacts`, `UpsertFact`, `FactsDone` the
summary worker, whose fact extraction fails alone; `EditFact` and `InsertFact`
`profile_facts/repository.py`, counted and inserted in two statements without a lock.
`ResolveTraitMerges`, `DroppedReferences` and `InsertTraits` are what an extraction does to the same
rows; the LLM may name a trait twice in one answer (`twice`), and each name is inserted. The person
has onboarding answers, so that `ReadSummary` never takes the exit of a person without any. `Tell`,
`Retire`, `AnswerQuestions` and `Suppress` are the world: other modules write it.

## GraphEdits

The graph of one person. `Choose`, `ReadEntities`, `Commit` are an extraction or an edit of a moment
(`workers/extraction/persistence.py`, `refinement.py`, `node_edits/`): a writer has up to
`MaxMoments` moments in hand (`drafts`), for each of which the one to supersede is chosen
(`target`), and the entities are looked up, before the transaction, against what is committed. The
transaction inserts them all; those that chose the same old moment both become its heirs (`Heirs`),
and `raced` (history) notes them. `Scan`, `Verified` with `Drop`, `Ask`, `AutoMerge` and
`AutoMergeTooLate` are `identity_merges/scanner.py` and `verifier.py`; `Approve`, `Reject`,
`Unmerge` and `Merge` `identity_merges/repository.py`. An edge is a row with a stable key and two
ends; a merge moves ends, drops the duplicates the unique index refuses and keeps a snapshot from
which an unmerge restores. `Label` is an edit of aliases. Names are model values; two entities look
alike when a name of one is the title or an alias of the other.

## ThemeEntry

The theme of one person and its tribute rows. A session start with answers is one READ COMMITTED
transaction: `BeginEntry`, `Unlock` (with the row lock), `EnsureStandalone`, `EnsureOpen`,
`ReadAnswers`, `Commit` or `RollBack` (`steps/apply_theme_unlock.py`, `themes/repository.py`,
`tribute/repository.py`, `tribute/progress.py`). `BeginSave`, `Save` is the draft, `FindRich`,
`AutoUnlock` the extraction that unlocks a theme. `Render` moves a row's status, `EditCampaign` gives
a campaign a new row under its slug. `Prefill` is what `unlock_prepare` shows as already answered.
An answer is the request that gave it.

## RenderJobs

One storybook or one tribute. `Read`, `Conflict`, `Compose`, `Push`, `TriggerFails`, `RestoreStatus`
are a call of the routes (`http/routes/storybooks.py`, `tributes.py`, `storybook/generation.py`)
that creates, generates, regenerates, edits, renders or re-renders; `Receive`, `Load`, `Assemble`,
`Upload`, `AssemblePlain`, `MarkComplete`, `MarkFailed`, `Retry`, `GiveUp`, `Ack` a render worker. A
context carries who composed it and with which text; `composed_at` is compared when the trigger is
loaded and at no later time. `CallDies`, `WorkerDies` and `VisibilityLapses` happen between any two
steps; `GraceElapses` is `RENDER_INFLIGHT_GRACE`. A tribute restores its status in a step after the
failed push (`RestoreStatus`, from `unsent`). When the LLM writes no text, the render of a storybook
fails and keeps the older script, and a tribute is assembled as the plain fallback book, which knows
no edit (`AssemblePlain`): mishap `unwritten`. The others are `overtaken`, `push`, `upload` and
`crash`. Drawing and uploading are one step each.

Fairness (part of `RenderSpec`): a call that has written goes on to push, unless its process dies, and a
render worker polls and carries on for ever. Nothing is assumed of the calls.

## CampaignConfig

Visual themes and the campaigns or profiles that refer to one by its row id. A request is what it
reads first (`LookToDelete`, `LookToRollback`, `LookToGenerate`), its locking UPDATE with the scan
for references (`WriteById`, `WriteBySlug`, `WriteNothing`), and its commit with the repointed
references (`CommitInsert`, `CommitState`, `CommitDelete`): `tribute/config_repository.py` and the
routes in `admin_tribute_config.py`. An insertion that the unique index or the foreign key refuses
fails whole (`Refuse`), another writes the new row, supersedes the old one and repoints (`Insert`).
A candidate (`LookToGenerate`) supersedes the draft of its slug and repoints nothing, as its
docstring says; who referred to that draft refers to an old row until the slug is published, which
`replaced` (history) notes. An edit or a new campaign may name any row that is there, a superseded
one too: `_resolve_theme_ref` asks for no more. `RenderTribute` pins the rows that are live. `stamp`
is the campaign row of a tribute and `awaited` whether it has been a draft, ready or generating
since: the repoint of tributes has that filter, `FinishTribute` leaves it.

## Runs

| run | bounds | shows |
|---|---|---|
| `serial` | 3 requests, one at a time, 2 faults, cadence 2, minimum 2 | for a client that waits for its replies `NothingForgotten`, `SegmentsReadAgainstThePast`, `ImplementsLedger` |
| `overlap` | 3 requests, 2 at a time, 1 fault | what still holds when requests overlap: `SegmentsNest`, `LossNeedsARival` |
| `opening` | 4 loads: retried starts with a turn, rival turns, a wrap beside a turn, three wraps with one key; 2 questions, a register of 2, 2 at a time, 2 faults, 1 lapse | `StartedIsUsable`, `OnboardedOnce`, `RepeatsNeedARace`, and `OverlapNeedsOverruns`, `LateIsReplayed` of the key |
| `cards` | 3 requests, 2 at a time, 2 fields, 2 coverage questions, caps of 2 facts, 1 coverage card and 1 invitation, 1 fault, 1 outside write | `AnswersAreFiled`, `NotAskedAgain`, `CardsWithinCaps`, `TakenOnce` |
| `extraction` | 2 workers, a segment and a malformed message, a sound and a poisoned job, 2 attempts, 2 faults | `CommitOnce`, `AckOnlyCommitted`, `SentMeansDelivered`, `DuplicatesNeedAMishap`, and `EverythingSettles` under `FairSpec` |
| `embedding` | 1 row, a fact and two edits, 2 models, 1 backfill, 1 fault | `StaleNeedsAnOldJob`, `EmptyNeedsAFailedPush`, `ModelsNeverMix`, and `QueuedIsEmbedded` under `FairSpec` |
| `threads` | 4 extractions of one pattern, a run due every 2, clusters of 2, 2 workers, 2 threads, 2 proposals, 1 fault | `DueNeedsATriggerOrAMishap`, `DoubledNeedsAMishap`, `ReopenedNeedsARace` |
| `post_session` | 2 workers on two jobs of a kind, or on one beside an edit or two extractions; cap 1, 2 keys, 1 fault | `CommittedTwiceNeedsOverlap`, `DuplicatesNeedARace`, `FactsWithinCap`, `UnminedNeedsAMishap` |
| `graph` | 2 writers, 2 new moments, of one writer or of two, 2 scanners, 3 entities, 2 names | `ForksAndDeadEndsNeedAMishap`, `PulledApartStaysApart` |
| `themes` | 3 requests, 1 occasion, 2 questions, 3 rows, 1 edit of the campaign | `LossNeedsARace`, `TwinsNeedALocklessEntry`, `AnswersAddUp` |
| `render` | 2 calls of any kind, 2 workers, 2 deliveries, 2 faults | `StrandedNeedsAMishap`, `OutdatedNeedsOvertaking`, and `RendersEnd` under the fairness of `RenderSpec` |
| `campaigns` | 3 requests at once, 2 slugs in each table | `PinsNeedARename`, `ReferencesAreCurrent` |

All of them pass. The code allows many of the mishaps its comments hope to exclude, so most
properties have the form "this happens only if": they name every cause, in history variables that
the code's steps set, and everything outside the named causes is excluded.

Why the bounds are enough. Three requests are what the segment properties tell apart: one that
closes, one that crashed or lost an answer before it, and one that speaks in between; cadence and
minimum are 2 so that the gate both holds back and lets through within them. Two faults let a crash
follow a lost answer. With two attempts a row or a trigger is retried once and then given up; two
workers are the least that can lose a lease to each other. Three wraps with one key let a lock
overrun, its late holder delete the lock of the next one, and a third meet what is left. Three
writers of one row let an old job meet a new text while a third is under way. Two questions and a
register of two let a bank be exhausted. Four moments at a cadence of two let a run become due, a
moment come while it is under way, and the next run be due at the edge of what its stamp absorbed. A
cap of one with two keys is passed by a pair of upserts. Two facts below a cap of two let one turn
ask again what another was told, and three requests pass each cap of cards by more than a serial
client may: a third card under a cap of two, a second coverage card or invitation. Two new moments
are what one extraction, or two writers, need to replace one old moment twice. Three entities let
one be inserted, merged and restored beside two old ones. Two calls and two workers let a context be
superseded while its worker draws and let a trigger be delivered twice. Three editors let a
reference be taken, moved and read back. The loads of `opening` and the sets of jobs of
`post_session` keep apart what shares no state.

`CHECK_DEADLOCK FALSE`: every one of these systems really ends, when all its requests were handled
and its faults are used up.

Every property has a mutant of the code (in the modules, marked "Mutant") under which TLC
finds it violated.

## Proofs

Every invariant a run checks is proved for every value of the constants, and so are the refinement
and the action properties; what is temporal beyond that is left to TLC. An invariant about history is
seldom inductive: it speaks of what has been written, while what will be written next is in the
locals of some handler. Each proof below says what those locals, or the locks, imply.

### A session

`SegmentLifecycleProofs`, for any number of requests, faults and any cadence. Of the theorems, the
first three hold for any overlap.

- `TypeCorrect`, `PayloadsNest` (`SegmentsNest`). `IInv` speaks of all *captures* (payloads and
  snapshots): each is a set of turns said before (`CapturesPast`), each is either disjoint from the
  open buffer or what the buffer starts with (`CapturesMatchOpen`), and any two nest
  (`CapturesNest`). Steps capture nothing new (`NoNewCapture`), append a turn (`OneMoreTurn`), or
  capture the whole buffer (`WholeBuffer`).
- `OnlyRivalsLose` (`LossNeedsARival`, whatever is left of the hash). `since` and `until` of a
  handler's locals note how much had been said at its snapshot and when it last deleted the buffer.
  `RivalInv` says of a handler past its snapshot (`HolderFits`) that what is open is in the snapshot
  or came after it, that its own turns came before, and that past the push the snapshot is on the
  queue, for a wrap unless its force-close degraded; `WindowFits` that no window is open before the
  snapshot. So what a reset or clear deletes (`DeletionSweeps`) is handed over, or was said in its
  window, or is the snapshot of a degraded wrap; and what was deleted stays accounted for
  (`SweptStays`).
- `SerialForgetsNothing`, `SerialReadsThePast` and `SerialImplementsLedger` assume
  `MaxInFlight = 1`: a client that sends a request once the last is answered, which the run `serial` is an instance
  of; `overlap` allows two at a time, and there the three do not hold. `SerialInv` says what each
  step of the one handler may rely on (`HandlerFits`), that what is not open is covered by the
  summary, and that summary, open segment and seeded question fit together unless a handler crashed.
  In the refinement an append is a `Say`, a successful push a `HandOver`, a crash between push and
  reset a `Reopen` and `ClearWM` the `End`; every other step stutters.

`SessionOpeningProofs`, for any starts, turns, wraps, questions, faults and lapses.

- `TypeCorrect`, `OverlapIsBounded` (`OverlapNeedsOverruns`), `RetriesAreReplayed` (`LateIsReplayed`) of
  `HttpIdempotency`. One more request than overruns may be at work, but after a late holder deleted the
  lock of another, one more could come in. `StraysAreOverruns` counts apart the request the lock
  guards: without a guarded lock at most `overruns` are at work. `ResponsesAreReal` says that what is
  cached or answered took effect, `LateOnlyReads` that a request which came late can only read.
- `WrapsOverlapIsBounded`, `WrapsAreReplayed`. `SessionOpening` does not implement `HttpIdempotency` step
  by step, since failures of starts and turns are counted with those of the wraps; but its steps keep
  the invariant of the key (`KeyKept`), so that its theorems carry over.
- `AnswersPersistOnce` (`OnboardedOnce`): while no opener has reached the client, the start that
  persisted the answers is still on its way, or something failed (`AdmittedOnce`).
- `StartStaysUsable` (`StartedIsUsable`): `Usable` says what holds from each step of a start on, since
  the opener is in the hash before it reaches the client, and that a start which is about to write the
  hash over another's has been noted in `raced`, whose opener is missing only until the last writer has
  appended its own, or for good when that one failed (`Wiped`); `Followers`, that turns and wraps come
  after an opener, keeps their HSETs from making a hash in part.
- `AskedAgainOnlyInARace` (`RepeatsNeedARace`): what was asked lately is on the register, as far from its
  end as it is old (`RegisterKnows`), where a stamped skip takes a place and ages the others. What a
  handler has chosen and not yet asked is old unless another handler that had chosen the same question
  asked it in between, which `crossed` notes (`FreshAt`); no other overlap is an excuse.

`TapCardsProofs`, for any requests, fields, questions, caps and faults. `overlapped` is what makes it
work: while a request outside it is in flight, only that request and what lies outside the chat take
steps (`Rivals`).

- `AnswersFiled` (`AnswersAreFiled`): the fact on its way to the client is the pending one (`OnItsWay`);
  a pending card other than the one answered has been disturbed, is answered by a retry, or the
  answered card was itself sent again by one (`Misfiling`). The last case (`Retried`) was missing from
  the property: an older reply that is replayed puts its card back on the screen.
- `NeverAskedAgain` (`NotAskedAgain`): a fact filed right is known or declined wherever a turn looks it
  up, the copies it has already read included (`Known`, `Aside`). A turn whose read of the facts failed
  may ask what was told; what was declined it reads off the hash, and may not.
- `CapsHold` (`CardsWithinCaps`): cards recorded and requests that may record one more stay together
  within the cap and `Spare`, which is 0 until two turns overlap (`Room`, `FewChoose`).
- `OnceTaken` (`TakenOnce`): while nothing overlaps and nothing fails half-way, the locals agree with the
  hash (`Anchors`, `Messages`). An anchor whose push was taken and seemed to fail stays (`unsure`), so of
  the segments it rides at most one was pushed with an answer.

### The workers

`ExtractionWorkerProofs`, for any workers, messages and kinds: `TypeCorrect`, `GraphWrittenOnce`
(`CommitOnce`), `NoSegmentLost` (`AckOnlyCommitted`), `OutboxIsHonest` (`SentMeansDelivered`). A worker
deletes only what is processed (`MessageInHand`), a held row exists with at least the attempts the
worker remembers (`HeldRowsExist`), and a row it reports as sent was delivered (`RowInHand`).
`DrainSendsOnce` (`DuplicatesNeedAMishap`): a row to which no mishap came has one holder, which is what
its status says, and is delivered only if it is marked or in the hands of who sent it (`CleanRow`).

`WorkerProofs`, for any rows, writers, models, calls, workers, deliveries and faults.

- `StaleVectorsHaveACause`, `EmptyRowsHaveACause`, `GuardHolds` (`ModelsNeverMix`) of
  `EmbeddingWorker`. The job that wrote a stale vector may be gone: `OldJobsDisturb` says that every
  job of another text has left its trace while it waited. `TextsAreCommitted` says that the writer
  of a committed text is past its commit and still on that row, so a row is empty only while that
  writer is about to push or because it failed to.
- `NoRowIsStranded` (`StrandedNeedsAMishap`) of `RenderJobs`: only a call that composed made the row
  read "generating" (`Composer`), a trigger is of a call that has ended (`PushedOnce`), and who is
  about to acknowledge the trigger of the row's context has reported (`Reported`).
- `FinishedRowsAreCurrent` (`OutdatedNeedsOvertaking`): while no call overtook and no push or upload
  failed, the context has the last text or leaves it to the script (`Texts`), and what workers draw
  and upload is of the row's context (`Films`). Where the LLM wrote no text, what is shown is an
  older script of the storybook or the plain book of the tribute, and nothing else (`AsAsked`).

`PostSessionProofs`, for any workers, jobs, extractions, editors, facts and faults.

- `CommitsAreDone` (`CommittedTwiceNeedsOverlap`): two that work on one job have been noted, and so has
  who works on a job that is recorded (`Held`, `Repeated`).
- `CapIsKept` (`FactsWithinCap`): active facts and upserts between count and INSERT pass the cap by less
  than `crowd`, the most upserts that stood there together (`RoomInv`).
- `AnswersAreMined` (`UnminedNeedsAMishap`): who is about to record a summary is a first run, which
  mines, or another summary is recorded (`FirstKnown`).
- `WritesAreNew` (`DuplicatesNeedARace`, an action property): what two actors are about to create, and
  what is there, is apart unless it was counted as a race (`Apart`, for targets, phrases and traits). One
  extraction alone inserts the second row of a name only if its own LLM answer had the name twice.

`GraphProofs`, part one, `ThreadQuestions` for any extractions, patterns, workers and cadence.

- `DismissedIsLeftAlone` (`ReopenedNeedsARace`): who is about to propose for a thread found it free
  of suppressed questions, and it still is unless the user has suppressed one since, which `crossed`
  notes (`FreeAt`). A second thread of the pattern escapes the look.
- `ThreadsAreSingle` (`DoubledNeedsAMishap`): a run alone that began with every thread embedded
  knows all threads of the patterns it has still to do (`NewAt`) and asks only where all was
  answered (`AskAt`).
- `DueRunsCome` (`DueNeedsATriggerOrAMishap`): while a run is due some trigger is in the outbox, on
  the queue or with a worker, and no worker is about to acknowledge it (`Awaited`, `Live`), unless
  the outbox has given one up; an extraction alone has counted right (`Counting`).

### The graph and the keepsakes

`GraphProofs`, part two, `GraphEdits` for any writers, scanners, names and bounds: `GraphTypesHold`;
`DeadEndsHaveACause` (`ForksAndDeadEndsNeedAMishap`) and `ApartStaysApart`
(`PulledApartStaysApart`). `Fits` says what edges, suggestions and hands refer to and what a merge's
snapshot may bring back, `Single` that no two edges have the same ends, `Lineage` whom each moment,
inserted or in hand, replaces, and that two that replace one are a pair of `raced`, and `EndsAlive`
that the ends of every edge, and the entities in a writer's hands, are active or have their excuse.
A pair pulled apart is in a row that says so and in no scan's hands (`KeptApart`).

`TributeProofs`, part one, `ThemeEntry` for any requests, occasions, questions, rows and versions. A
session start that may write holds the theme row's lock from the UPDATE to the commit (`Locks`), so of
two side by side one has nothing to write (`OneWriter`).

- `LastAnswersStand` (`LossNeedsARace`): a request not known to be overtaken has read the theme as it is
  (`Current`).
- `TributesAreSingle` (`TwinsNeedALocklessEntry`): starts are inside one at a time unless recorded
  otherwise (`Alone`), and rows that no commit has shown yet count (`NoTwins`).
- `AnswersStay` (`AnswersAddUp`): a row has the answers last committed to it (`Rows`), and what a start
  read there is what is there when it writes (`Bases`). `Min` and `Max` are operators with CHOOSE; that
  they choose at all is proved from the well-foundedness of < on the naturals, since induction is out
  of reach (`MinIsIn`; `LeastIsIn` in `GraphProofs` is the same argument).

`TributeProofs`, part two, `CampaignConfig` for any requests, slugs and rows.

- `PinsSurvive` (`PinsNeedARename`). `delete_draft_chain` argues that an active draft proves its
  slug was never published. `Drafts` is that argument: it holds of every slug but those a row was
  renamed from and those two requests worked on at once (`Mistakable`). It has to outlive the look,
  which locks nothing: what a request looked at stays so while nobody else touches its slug
  (`Looked`, `OthersSpare`), and who is in flight beside whom is recorded (`Together`).
- `ReferencesStayCurrent` (`ReferencesAreCurrent`). The references to the rows a request replaces
  and follows (`Sought`: the row of an edit or a rollback, the siblings of what is published, none
  for a candidate), found under the row lock, remain all there are (`FoundAll`): who would add one
  is another request, and then excused. Themes refer to nothing (`ThemesAlone`), so an edit does not
  make a row refer to itself (`NotItself`). Rows held by a request are live and of its slug
  (`InHand`), and a slug has one active row (`Single`). Steps are sorted by what they disturb: a
  request sets out, quits, takes a lock, adds, changes or deletes rows (`StepKinds`).

The only assumptions are the named ones on the CONSTANTS of each module (`ConstantsAssumption`,
`OpeningAssumption`, `RenderAssumption`, `GraphAssumption`, `ConfigAssumption`), which TLC evaluates
in every run, and `MaxInFlight = 1` where it is stated.

Model-checked only: what is temporal beyond an invariant or an action property, that is
`EverythingSettles`, `QueuedIsEmbedded` and `RendersEnd`. Liveness under fairness and ENABLED are beyond
the prover, and so are facts that need induction over data. No module declares a RECURSIVE operator.

## Divergences

What the code does and a doc, a comment or a docstring of it does not say, met while modelling. The
models follow the code; no run checks the words.

A session:

- A failed push "leaves the segment" for the next turn (README-step-10), but the cadence counter is
  reset before the push (`detect_segment.py:94`), so the next turn stops at the gate; in a wrap
  there is no next evaluation, because `clear_wm` follows (`wrap_session.py:71`).
- Candidates for an answered question are those "before the current assistant reply"; the fallback
  to `last_seeded_question_id` (`detect_segment.py:110`) reads the one the current reply has just
  set.
- API.md promises 409 while the first request is in flight and its response afterwards. The cache is
  read before the lock is taken (`http/idempotency.py:49`) and not again under it: a request that
  fell between the two runs the operation again.
- A stream whose client disconnects does not persist its partial text (`stream.py:20`): the error
  block catches `Exception`, a cancellation is none.
- A skipped question takes two slots of the asked window. A time anchor answered after a boundary
  rides the next segment. A replayed answer is filed under the newer card (API.md:447), a typed
  tribute message still enters the transcript, `promote_seeded_to_tap` cannot be reached.
- `initialize` says "We do NOT wipe an existing session" (`working_memory/client.py:121`): it looks
  and writes in two awaits, and of two starts that found no hash the later one wipes the earlier
  one's opener and seeded question.
- A push whose answer was lost is degraded like one that failed: the next segment repeats the turns,
  and the time anchor, that the queue has. A failed read of the facts makes every fact unknown, told
  ones too.
- "Suppressed: permanently excluded" holds for the bank and not for the fallback of the coverage
  tap.

The workers:

- The embedding worker acknowledges an UPDATE of no row because "the work is no longer needed", and
  the fact repository says it pushes once the row is committed. It pushes inside the open transaction
  (`profile_facts/repository.py:172`): the worker can be faster than the commit.
- An edit of a fact names the id of a row that is not inserted yet (`profile_facts/repository.py:148`),
  under a foreign key that migration 0010 does not defer; `question_decisions/repository.py:37` notes
  the order that works.
- Two extractions that commit side by side each count without the other's moment: the trigger is
  not sent. Moments that come during a run are absorbed by its stamp. A run all of whose clusters
  failed is acknowledged.
- The first summary run that finds only archetype answers writes no idempotency row. The trait
  synthesizer's docstring has the ON CONFLICT row decide who works; both work, one row stays. Repeated
  trait names in one LLM answer are both inserted.
- A reused entity's description is blended from a read before the transaction, an index shifts after
  the subject guard (`persistence.py:1021`); descriptions are not modelled. `post_commit.py` is not used.

The graph:

- A pair merged again after an unmerge is a chain the repository's comment excludes
  (`identity_merges/repository.py:284`); an edge between the merged pair comes back as a self-loop;
  merges of opposite orientation lock rows in opposite order.

Keepsakes:

- A failed render marks the row failed even if a newer one has begun, against the docstring of
  `mark_failed`. An edited tribute whose assembly fails ships the fallback book without the edit
  (`assembler.py:301`). A film rendered again makes an older finished tribute the open one; a failed
  one entered again gets a second row (`tribute/repository.py:158`).
- An automatic unlock whose UPDATE waited for a session start writes what it had read and wipes the
  answers just committed. `unlock_prepare` looks for the keepsake's row under the slug "default"
  (`http/routes/themes.py:275`) and never finds it.
- An edit may rename the slug of a published row; a draft that takes the freed slug can be deleted
  with superseded published rows that snapshots pin (`config_repository.py:6`). Renaming its group
  slug takes the protected profile out of the published pool. On a publish references "must follow"
  (`_repoint_theme_slug_siblings`), but a rollback of a theme repoints only what referred to the row
  it replaces, not its siblings, an edit accepts the id of a superseded theme, a campaign rolled
  back copies its old reference, a campaign edited beside a theme stays on the old row, and a
  rollback's unique violation is a 500.

## Not modelled

What components with status `partly` leave out is in their note in `PROJECT.json`. Without a model:

- `retrieval/`, `entity_mention/`: read-only queries and a cache with a TTL; nothing to interleave.
- `page_render`, composition of storybooks and films, `remotion/`: drawing, a function of its input.
- prompts, parsing of LLM answers, scores and rankings: a call of an LLM is any answer or a failure.
- usage metering, connection pools, configuration, operator scripts, local UI: no protocol state.
- persons, profile pictures, artifacts: single transactions with nothing between two steps.
- universal and emergent themes, whose questions an LLM writes and `unlock_prepare` caches; trait,
  thread and question edits, which repeat the pattern of the edits that are modelled.
- the lapse of the 24 hours of a cached response and of TTLs within a request.
