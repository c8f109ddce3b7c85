# VoClyp backend: TLA+ models, model checking and proofs

VoClyp turns recordings of field sales conversations into insight documents. A
gateway (FastAPI) accepts uploads and live visits, a worker runs the speech and
analysis pipeline, and a dispatcher tells the customers' systems through
webhooks. All of it is `voclyp/` (Python); gateway and worker are separate
processes over the same SQLite files and directories (`docker-compose.yml`), and
every lock in the code is a `threading.Lock` private to its process. A second,
larger deployment (`voclyp/enterprise/`) puts Kafka and an object store between
its stages. That is where the difficult behaviour comes from, and what these
models are about.

## Inventory

| Component | State it keeps | Operations | Hard behaviour | What makes it correct |
|---|---|---|---|---|
| Ingestion (`ingestion.py`, `gateway/app.py` 332-385) | idempotency table, consent log, encrypted audio in the vault | `submit`, duplicate upload, delete on demand | two databases and the file system are written one after the other; the handler may stop anywhere; devices retry | one job per `client_ref`; nothing queued without consent and audio; what was answered "queued" is queued |
| Job queue (`queueing.py`) | `jobs`: status, attempts | enqueue, dequeue (SELECT then UPDATE), complete, fail, requeue_dead | two processes lease one row; a lease outlives its worker; retry limit | retries end; a dead job used all its tries; no job is stuck |
| Worker (`worker.py`) | the job in hand, the raw working copy | `process_one`, `run_forever` | every step may raise, the process may die, a retry repeats what was done | no recording erased before its insight and event are committed; "done" means done |
| Audio vault (`security.py` 203-252) | encrypted parts per conversation | store, stage, delete | an erasure that stops halfway | originals of a done job are erased; no raw copy outlives the recording it was made of |
| Outbox and dispatcher (`delivery.py`, `store.py` 611-831) | `outbox`, `webhook_endpoints`, `webhook_deliveries` | fan_out, deliver_due, replay_dead, auto-disable | overlapping passes work from lists read earlier; consumers fail or lose answers; retries, dead letters | nobody is skipped; counts agree with statuses; every row settles |
| Live session (`live/session.py`, `gateway/app.py` 467-590) | session status, chunks, provider-call buffer, who wrote the customer's fields | start, consent, stream, reset, reconnect, patch, complete | the worker and the thread-pool consent handler race `complete`; reconnects restart the counter; crashes between two tables | one job per visit, with consent; a completed visit has its insight; calls metered at most once; a rep's correction is kept |
| Live entities (`live/entities.py`, `streaming_asr.py`) | the transcript so far | add_chunk, reset | later words correct earlier ones, and the whole text is read again each time | the last name and number said win |
| Pipeline registry and stages (`pipeline/`) | the conversation context, the working copy | build, validate, one action per registered stage | stages run in a configured order; providers answer, refuse or come back empty; labels are guessed | nothing starts on unredacted text or an undestroyed copy; the customer is heard and the rep is not taken for him |
| Judgement (`signals.py`, `scoring.py`, `product_mentions.py`, `catalog.py`, `recommend.py`, `sarvam_visit_notes.py`) | none | pure functions and a model's answer to be sanitised | boundaries; a model may answer anything | grounded in the catalogue; monotone; every mention attributed |
| Enterprise pipeline (`enterprise/ingestion.py`, `asr/`, `extraction/`, `events/bus.py`, `store.py`) | conversation state machine, topics, object store | ingest, three consumers | at-least-once messages, crashes before a commit, a state read and written in two steps by several processes | what is routed was transcribed and extracted; every conversation ends |
| Enterprise routing (`enterprise/routing/`) | routing outbox, dead letters, delivery threads | enqueue, process_due, verify, deliver | threads, retry loops and the agent deliver the same row from stale copies | no unverified message; dead-lettered only after every try; rows settle |
| Enterprise erasure (`enterprise/erasure/`) | object store, `erased_at` | erasure pass, orphan sweep | the delete and the row are two steps, in two processes, either may fail | no audio without a row a purge pass finds |
| Accounts (`store.py` 380-460, `gateway/app.py` 230-330) | users, invites, session epochs, requests waiting for a body, open streams | sign-up, login, logout, invite, stream | check-then-act over statements, two threads of one process, restarts | an invite admits one account; no request accepts a token a logout has revoked; no one promotes himself |
| Audit chain (`store.py` 468-515) | hash-chained rows | audit, verify | read-last-then-insert under a lock of one process, from two processes | the chain forks only between processes, and verifies with one writer |
| WhatsApp queue (`whatsapp.py`) | `whatsapp_messages` | queue, mark | nothing takes messages from it | - |

How they interact: the gateway writes consent, the idempotency row and the
vault, then inserts a job; the worker leases it, stages a raw copy, runs the
stages (the `audio_delete` stage erases that copy), commits insight and outbox
event in one transaction, erases the originals, completes the live visit, writes
usage and audit rows, runs the dispatcher and marks the job done. The dispatcher
reads the outbox and writes delivery rows; both the worker and the gateway (after
a replay) send them. A live visit is ended through the same `submit`. In the
enterprise deployment ingestion produces to the raw-audio topic, each consumer
stores its result, moves the conversation's state and produces for the next, the
routing consumer fills the routing outbox, and the two purge passes destroy the
audio. `PROJECT.json` lists every component with its status, and every hazard at
its line.

## Modules

| Module | What it is |
|---|---|
| `ConversationCustody` | abstract: what the pipeline promises about one recording - held, published from, destroyed, in that order |
| `ConversationPipeline` | ingestion, queue, worker and vault, one action per committed statement |
| `WebhookDelivery` | outbox events to delivery rows to consumers |
| `LiveSession` | the live visit beside the worker |
| `Console` | accounts, invites, sessions, which tokens requests and the live stream accept, and the audit chain |
| `Workspace` | `LiveSession` and `Console` side by side, one run |
| `EnterprisePipeline` | the enterprise stages, routing, verification and erasure, composed in one module because they share the conversation row |
| `Subsequences` | selections from a sequence (keep, first occurrences, sort) as recursive functions |
| `VisitInsight` | signals, scores, mentions, notes and recommendations as operators |
| `ConversationAnalysis` | the registry's plans and every stage over the context; uses `VisitInsight` |
| `StreamingEntities` | the customer's name and number in a growing transcript |
| `VisitUnderstanding` | `ConversationAnalysis` and `StreamingEntities` side by side, one run |
| `...Proofs` | inductive invariants and theorems of `ConversationCustody`, `ConversationPipeline`, `WebhookDelivery`, `LiveSession`, `Console`, `EnterprisePipeline`, `Subsequences` and `VisitUnderstanding` (all four analysis modules) |
| `MC...` | the TLC instances |

`Workspace` and `VisitUnderstanding` put two parts side by side that share no
variable: a behaviour moves one of them, chosen at the start. Every property is
about one part, so this loses nothing. The people of the console are declared
interchangeable; that is sound for the liveness of visits too, because while the
visits move, what belongs to the console keeps its initial value, which names nobody.

### ConversationPipeline

`gwPc` follows the one upload the gateway handles: the upload handlers are
`async def` and call `submit` without awaiting, so the event loop handles one at
a time. `SubmitNew` draws an id, `WriteAudio`, `LogConsent`, `IndexRef` and
`Enqueue` are the committed statements in the code's order, `Acknowledge` is the
answer, `SubmitAborts` stops between any two of them (an exception and the death
of the process look the same: nothing is undone), and `SubmitDuplicate` is the
early return of `submit` for a known `client_ref`.

`pc[w]` follows worker `w` through `process_one`. `Peek` and `Lease` are the two
statements of `dequeue`, so two workers may lease one row. Staging is two steps
(`worker.py` 70): `Stage` reads the recording, `CopyToWork` writes the copy and makes
its directory anew, so a second worker may write a copy of what the first has erased
in between. Each step of the `try`
block is an action; `StepRaises` is the way to the `except` branch from any of
them, with whatever part of the step was already done (`CutShort`), and `Crash`
is the death of the process. A step that raises after its commit is that step
followed by a raise of the next one, so it needs no action of its own. `After`
gives the order of the steps. A recording in the vault is `stored`, `torn` (an
erasure stopped after some parts) or `purged`. A dispatcher pass, a worker's own
(`Dispatch`) or an idle one (`IdleDispatch`), fans out `FanOutLimit` of the events
that wait (`unfanned_events` has LIMIT 100), so a job may be done while its event
still waits for the next pass.

What a device sent, the payload, the insight and the pipeline's inner stages are
abstracted: only their effect on the tables and files appears. The number of
times a conversation is published and metered is counted, because retries repeat
these steps; `fanned` holds the events that have been fanned out.

### WebhookDelivery

A worker's pass is `RunOnce` (read the unfanned events), then per event
`EndpointsFor`, a `CreateDelivery` per endpoint and `MarkFannedOut`; then
`DueDeliveries` reads the due rows, and each is `Block`ed or goes through
`Attempt`, `Post`, `MarkResult` and, when it died, `CountDead` and `Disable`. A
gateway's pass is `ReplayDead` followed by the same delivery loop. The lists a
pass works from (`todo`, `targets`, `batch`) are local, so another dispatcher, a
replay or an admin may change the rows meanwhile; `MarkDelivery` overwrites the
row as the code's UPDATE does. `posts` and `owed` are history: the POSTs since
the row was last armed and the endpoints active when the event was committed.
A consumer may handle a POST although it is counted as failed.

### LiveSession

The async handlers (start, patch, stream, complete) run on one event loop and do
not interleave, so each is an action guarded by `LoopFree`, except `complete`:
its statements are `Complete`, `Submit`, `Enqueue`, `MarkProcessing` and `Meter`,
followed by `ending`. The consent handler is a plain function that runs in the
thread pool, so `Consent` may fall between any two of them, and so may every
worker step (`Lease`, `StoreInsight`, `CompleteVisit`, `Finish`, `JobFails`). A
connection numbers its chunks from 1 (`Connect`), a chunk replaces the row of its
number, and the provider's calls are counted in the visit's buffer until `Meter`
pops it. `GatewayDies` loses buffers, connections and the handler at work;
`WorkerDies` strands the leased row. Chunk bytes and text are left out; of a field
of the customer only who wrote it matters.

### Console

Three threads write: the event loop (`loop`), a pool thread that runs the
synchronous logout (`pool`) and the worker process (`work`). `task[th]` is the
request a thread is at; `Found`, `Join`, `Login`, `MakeInvite`, `Logout` begin
requests, `CreateUser` and `BumpSessionEpoch` are their writes, and `ReadLast` and
`AppendEntry` are the two statements of `audit`, under a lock that excludes only
the threads of the same process (`Unlocked`). An entry's `prev` is the number of
the entry whose hash it holds, so a chain that verifies has `prev = n - 1`.
A request whose handler awaits its body has been let in before (`LetInvite`) and
writes when the body has come, whatever has become of its token (`MakeInvite`,
`RefuseInvite`). `OpenStream` is the live stream's websocket, which accepts a signed
token of an existing user and does not ask for the epoch; it stays open until
`CloseStream`. `logouts`, a token's `seen` and a stream's `since` are history for
`LoggedOutStaysOut` and `StreamsRevalidate`.

### EnterprisePipeline

`Ingest(c)` is the upload coroutine, statement by statement; the consumers
(`asr`, `extractor`, `routing`) check the state, work, produce and commit as steps
of their own (`pc`), so a consumer that dies repeats a message (`inbox` keeps it
until the commit) and loses what its producer had not flushed (`unsent`). A state
update reads and asserts in one step and writes in a later one, because
`LocalStore`'s lock belongs to one process. `Purger` is every process that runs an
erasure pass, and `sweep` the orphan sweep: list, delete, then the row, which the
sweep writes although the delete failed (`undeleted`). `task` is a delivery
thread's copy of a routing row: it is read when the row is picked up and written
back when the provider has answered, whatever the row has become. `Verify` steps
are the agent's endpoint, which releases held rows and delivers them itself.
`deployed` fixes which loops run: the gateway may run them in process or a
worker container may. `opened` holds the processes whose `LocalStore` has the
tenant's file open: one that started before the tenant's first conversation does not
see its rows, so a consumer commits the message unseen (`Skip`) and a loop lists
nothing, until it starts again (`Restart`). The sweep opens the store for every pass.
`ListLimit` is the LIMIT of the lists.

### ConversationAnalysis, VisitInsight and VisitUnderstanding

A recording is a sequence of lines: who speaks (`voice`), which products are named,
which identifiers are spoken, how long the line is, and what is found in its two
texts, the English or translated one and the one as spoken: which phrases of the
taxonomy occur (`says`), what is negated, whether it asks, whether it has fewer than
three Latin words (`short`). `Read` picks the text extraction works on, so a
Devanagari line no translation answered is an echo to it, and holds no negator. Phrase matching and regular expressions are abstracted to
what they find; what the code does with a match (speaker gates, questions, echoes,
negation, translation, redaction of what is recognised, alternate labelling of
unlabelled turns, cleanup of noise and bystanders, merging of parts by file
format, sanitising of the model's answer, scores, outcome, ranking) is modelled in
full. The comprehensions and loops of the code are recursive functions
(`Subsequences`, `Signals`, `Total`, `Mentions`), so that what they compute can be
proved. `BuildPipeline` applies the registry's validation to a plan of stages, and
each registered stage is an action on the context. Providers answer by free
choice.

### StreamingEntities

A transcript is a sequence of kinds of words; `ExtractName` and `ExtractPhone`
follow `live/entities.py` with `PhoneLength` as a parameter. Spelling, scripts and
confidence are left out.

## Runs

| Run | Question | Instance |
|---|---|---|
| `two_workers` | Is a recording lost or a job done too early when workers share a row, die and retry? Is a lease nobody holds always left by a crash? `Inv` is the inductive invariant of the proofs. | 1 upload, 2 workers, 2 attempts, no re-arm, 1 crash |
| `one_worker` | With the deployed single worker: idempotent refs, no raw copy outliving its recording, exact retry counts, metering, the custody chain | 2 uploads that may share a ref, 1 worker, 2 attempts, 1 re-arm, steps that raise but no worker crash (a crash strands its row, which no later step touches) |
| `pipeline_liveness` | Do jobs settle and events get fanned out? | 1 upload, 1 worker, 3 attempts, 1 re-arm, 1 crash, one event per dispatcher pass (retries leave several waiting), no symmetry, fairness |
| `dispatchers` | Do dispatchers that overwrite each other's rows and a replay leave rows that contradict themselves or were given up too early? Does every delivery settle, and what an event owes an endpoint? | 1 event, 1 endpoint, a worker and a gateway that both deliver, 3 attempts, disabling after 1 dead row, 2 replays while nobody is in the middle of a pass, 2 crashes; fairness |
| `enterprise` | Is audio stranded, a message sent unverified, a conversation left unfinished? Do rows settle? | 1 conversation, the WhatsApp channel, `MAX_ATTEMPTS` 1, 1 crash, deployed with a retry loop and an agent, or with an erasure loop and the sweep, each process older than the tenant's file or not; fairness |
| `workspace` | The visit's promises; the accounts' and the chain's | 1 visit over 2 connections, 1 chunk each, 1 field, 2 tries, 1 crash; 3 people, 2 invites, 2 roles, 4 audit entries, 1 handler that awaits or stream that is open |
| `understanding` | Is the analysis private, grounded, monotone and fair to the customer, and does the last word win? | recordings of up to 3 lines of 10 kinds, both configurations and every order of the stages; transcripts of up to 4 words with 2-digit numbers |
| `lost_upload`, `stranded_lease`, `unaudited_deletion`, `dropped_delivery`, `revoked_stream` | Five claims of comments and documents the code does not keep (see below) | smallest instance that shows each |

Why these bounds are enough. Two workers already contend for one row, a third
adds no new kind of overlap: every pair interacts only through the row. Two
attempts give a first, a last and a dead-lettered try, so both sides of the
comparisons with the maximum are taken. One crash can fall at every step; a
second one only repeats it on a state the first already reaches. Two uploads
suffice to share a `client_ref` and to wait behind each other. An operator's
re-arm resets a dead job or delivery once, and stale lists may straddle it.
In `dispatchers` one row is what the two contend for, three attempts let each of them
write a stale count over the other's, and the two replays straddle a disabled
endpoint; fan-outs that overlap and events half fanned over several endpoints are
covered by the proof of `FanOutComplete` (`NobodySkipped`). `FanOutLimit` and
`ListLimit` are the code's 100, out of reach of the instances, except in
`pipeline_liveness`, where a limit of 1 makes the list too short for the backlog; the
proofs hold for every limit.
In `enterprise` conversations interact only through the queues' order and the
passes' lists; one conversation with `MAX_ATTEMPTS` 1 is tried, retried and dead-lettered,
and the safety properties are proved for any number. The two deployments split
the loops because the properties need either routing or erasure at work, the
consumers run in both; the proofs hold for every deployment. In `workspace` two
connections are the reconnect, one chunk each makes the second overwrite the
first; three people are a founder, an invited account and one more for the same
code; four entries let each thread append between another's read and insert; one
waiting handler or stream meets every logout and restart, and none of them asks
about another. In
`understanding` three lines allow a named product, a turn between and a pronoun,
and a rep's turn on both sides of the customer's; four words hold a name or number
and its correction.
The theorems below carry the main results to all constants, with no bound on
workers, uploads, conversations, visits, people, retries or crashes.

### What the refuted claims show

* `lost_upload`: the idempotency row is committed before the job. A handler that
  stops in between makes every retry of the device be answered "queued" for a
  conversation that has no job.
* `stranded_lease`: a worker that dies with a leased row leaves it leased for
  ever; `requeue_dead` finds only dead rows.
* `unaudited_deletion`: when the usage rows cannot be written after the originals
  were erased, the retry fails at staging and the erasure is never audited.
* `dropped_delivery`: a host name that does not resolve at send time makes the
  delivery terminally `blocked`, without a retry or a dead letter.
* `revoked_stream`: the live stream's websocket checks that the token is signed and
  not expired and that its user exists, never the session epoch, so a token a logout
  has revoked opens a visit's stream, wipes its transcript and writes chunks. Every
  other use of a token asks for the epoch (`LoggedOutStaysOut`).

### What the models show and nobody claims otherwise

The models contain these behaviours; no document of the repository promises the
contrary, so they are stated here and the properties are worded around them.

* With two workers on one row the second may write its raw copy after the first has
  erased originals and copies; the copy then stays in the work directory of a job that
  is done. `CopyDiesFirst` says with one worker that cannot be, and `DoneIsComplete`,
  for any number, speaks of the originals and the audit trail only.
* A worker that finishes between `Enqueue` and `MarkProcessing` finds the visit
  not yet linked, and the visit stays "processing" for ever; a consent recorded
  after the end opens the visit again (`ProcessingResolves` says what is left).
* A reconnect or a reset drops the calls counted so far (`NeverOverMetered` is
  "at most"), and a reconnecting stream replaces earlier chunks.
* The audit chain forks when the gateway and the worker append at once;
  `ForksNeedTwoWriters` says it forks in no other way.
* The registry accepts a plan that translates after redaction; then what was
  spoken in words is written in digits unredacted (`AnalysisIsPrivate` speaks of
  the other plans).
* Of a WAV file uploaded in pieces only the first has a header, and what the other
  pieces hold is lost; `CustomerIsHeard` leaves such recordings out. The synchronous
  fallback and the alternate labelling guess who speaks (`CustomerIsHeard` says when
  the guess is right).
* A line no translation answered stays in Devanagari: it holds no word the extractor
  counts, so a need or an intent in it is dropped as an echo, and no negator, so a
  price reaction it negates is recorded. `CustomerIsHeard` says that whatever passes
  the gates in the text that is analysed is recorded, with the right speaker.
* The model may name a product of the catalogue in a visit where none was discussed;
  the code takes that for substance and shows what the answer claims.
  `NotesAreGrounded` excepts exactly this.
* A live name in lower case is found only right after a cue or in a short utterance
  that names no need; `LastWordWins` speaks of names with a capital.
* The registry accepts a plan that translates after the signals are extracted; no
  signal is sought in what is translated then (the part of `CustomerIsHeard` about
  lost signals speaks of the other plans).
* A name that is only taken back stays, and half a restated number is filled up
  with digits of the old one.
* The state machine raises on a message redelivered after the conversation has
  moved on; the consumer meets the same message again after every restart. The
  sweep ends such conversations.
* A routing row whose deliverer died stays in `delivering` (`RoutesSettle`
  excepts it); a verification that runs between the routing consumer's read of
  the flag and its insert leaves the row held.
* The sweep records an object as purged although its delete failed
  (`NoStrandedAudio` excepts it).
* An endpoint that was disabled is never enabled again, so replayed dead letters are
  blocked at once (`ReplayDead`, then `Block`).

## Fairness

`ConversationPipeline!FairSpec` has weak fairness of each worker's own steps,
with no fairness of exceptions, crashes or uploads: `run_forever` never stops
polling, and a step that has begun returns or raises. That a dead worker is
started again is an assumption about the operator (`docker-compose.yml` sets no
restart policy); without it nothing more happens at all. `WebhookDelivery!FairQuietSpec`
is the same for dispatchers, plus back-off timers that run out. `QuietSpec` restricts
replays to moments when no dispatcher is in the middle of a pass: an assumption about
the operator, which the code does not enforce and `SettledHonestly` needs (a replay
in the middle of a pass is in `Spec`, for which `LedgerConsistent` and
`FanOutComplete` are proved).
`LiveSession!VisitFairness` lets the event loop run a handler it has begun and the
worker poll; no rep has to send anything. `EnterprisePipeline!FairSpec` has weak
fairness of a request once begun, of a purge pass at work, of the retry loops that
are deployed and of delivery threads, and strong fairness of the sweep's listing
of each conversation: it runs for ever at an interval, and a conversation whose
window is over is on its list again and again, though a pass may have it in hand
for a moment. Nothing is assumed of consumers, providers, the agent, the erasure
loop or a successful delete. Each liveness property holds under exactly these and
is broken by a mutant of the code it is about. No liveness property assumes that
consumers recover or steps succeed.

## Proofs

Every theorem holds for all constants that meet the named assumptions of its
module, and TLC evaluates those on the instances of the runs. Each assumption is
one the code makes: positive limits; records of the types the configuration has;
`TaxonomyAssumption`, the signal types are the universal ones (`scoring.py` 17)
and a subtype that earns a bonus belongs to an intent or a promise, as in every
taxonomy of `configs/`; `CatalogueAssumption`, every product has a sku of its own
and one of the four tiers, as in `configs/catalogs/`.

### ConversationPipelineProofs

`Invariance`, `Spec => []Inv`, for any sets of conversations, refs and workers,
any `MaxAttempts` above 0 and any bounds. The safety properties are not inductive:
that a done job is complete follows only if a worker at `completing` has already
committed the event, erased the originals, metered and audited, and that none of those facts can be
undone by another worker or the gateway. `Inv` says so:

* `WorkerInv`: for each step of `process_one`, what the earlier steps of the same
  worker established about the conversation it holds (`PastSave` ... `PastInsight`);
* `GatewayInv`, `UndrawnInv`: what `submit` has established, and that nothing
  exists for an id not drawn yet;
* `RefInv`: a job with a `client_ref` is the one the idempotency table names.

Lemma `Kept` lists the facts no step ever takes back; `OtherWorker` turns it into
the preservation of `WorkerInv` for a worker that does not move; `DoneStep` is the
only way a job becomes done. `RecordingsKept`, `DoneJobsComplete`,
`RefsIdempotent` and `TypeCorrect` are corollaries.

`LeasesHeld` (`StrandedOnlyByCrash`, any number of workers) needs one more fact,
`HandsInv`: a worker that polls, or is down, holds nothing, so to take a job up is
not to let go of another.

`CopiesDieFirst`, `RetriesCounted`, `MeteredOnce` and `WipesAreFinal` are false of two workers and
proved of one, under `OneWorker`. `AloneInv` adds what only a single worker knows:
the row in its hands is leased with exactly the attempts it read, its recording is
still there until the erasure, no copy is left in the work directory once the pipeline
has run or of a recording that is not whole, and a metered recording is an erased one, so no later
pass gets as far as metering. From the same invariant, `PipelineImplementsCustody`
proves that one worker implements the custody chain (`CustodySpec`): each step of
`process_one` is a step of the chain or a stutter, retries included. TLC checks
the same refinement in `one_worker`.

`ConversationCustodyProofs` proves what the chain promises: a destroyed recording
was released before (`ReleasedBeforeDestroyed`), and after that nothing more is
released and a withdrawal is final (`Final`).

### WebhookDeliveryProofs

For any sets of events, endpoints, worker and gateway dispatchers. `Inv` adds to
the properties `Fanning(x)` (whoever the event in hand is owed to has a row or is
still on dispatcher `x`'s list: without it nothing is known when `MarkFannedOut`
fires), `Trying(x)` (the row in hand is tried with a count below the maximum, and
an acknowledgement means it was handled) and `OwedInv` (an endpoint registered
later is owed nothing, so it cannot become an active creditor of a marked event).
Lemma `Kept` again lists what no step takes back; `OutboxStep` and `LedgerStep` say
which steps write the two tables and what they write. The theorems are
`NobodySkipped` (of `FanOutComplete`, which no run checks: what it is about takes
overlapping fan-outs over several endpoints), `CountsAgree`, `DeliveredWasReceived` and `TypeCorrect`.

`SettledFairly` (`SettledHonestly`: a dead row was sent as often as the maximum says,
a delivered one was received) adds `HonestInv`, which bounds a row's count, and the
stale copy of it a pass works with, by the POSTs made since the row was last armed. It
is proved of `QuietSpec`, for any number of dispatchers that overwrite each other and
crash and any number of replays that come while nobody is in the middle of a pass. A
replay that re-arms a row another dispatcher still holds starts the count anew, the
other writes its old one back, and the row dies too early.

### EnterprisePipelineProofs

`Inv` for any conversations, channels, deployments, attempts and crashes. It has
three parts that lean only on `TypeOK`:

* `AudioInv`, for `NoStrandedAudio`: what an ingest request and a purge pass know
  about the conversation they have in hand (`IngestKnows`, `PurgeKnows`). Without
  it nothing rules out that a request puts audio under a row a pass has just
  finished;
* `RouteInv`, for `GroundedRouting` and `NoUnverifiedWhatsApp`: a message on a
  topic speaks only of what was stored before it was produced (`BusKnows`), the
  routing consumer has seen the flag of whoever needs verification (`FlagKnows`),
  and until then its WhatsApp row is held and in no thread's hands (`HoldKnows`);
* `CallsCount`, for `DeadLetteredAfterAllTries`: a row, and a thread's stale copy
  of it, never counts more attempts than the provider was called.

### LiveSessionProofs and ConsoleProofs

`VisitInv`: `EndingKnows` ties the handler that ends a visit to the reference it
wrote and to the absence of a job, `QueueKnows` ties the queue's states to the
stored insight. `OneJobPerVisit`, `CompleteIsStored`, `NeverOverMetered` and that
no recording is submitted without its consent follow; `ManualWins` is proved
action by action.

`ConsoleInv`: `AccountsAgree` (roles, epochs and logouts of an account),
`ClaimsCount` (the epoch of a token counts the logouts seen by it), `LoopKnows`,
`PoolKnows` and `InvitesBurnt` (what a request at work has checked is still true:
this is where one event loop matters), `WaitingKnow` (who was let in to invite
is a manager) and `LockHeld` (entries after the one a
thread has read are another process's). `ConsoleOneWriterVerifies` adds that the
chain verifies when only one process has written.

### SubsequencesProofs and VisitUnderstandingProofs

These are about what loops over a visit compute, for recordings of any length, any
taxonomy and catalogue and any accepted plan. The library's induction theorems
take an operator as a parameter, which the installed provers cannot instantiate;
`StepByStep` replaces them: if a set of numbers holds 0 and with every number below
`n` the next one, it holds all up to `n` (the least one it misses has a
predecessor). `Recursion` gives the existence of a function with a given step, and
each loop is characterised once: what `Only` keeps and in which order, that
`Distinct` repeats and loses nothing, that `Ordered` sorts by a strict total order,
what `Total` and `Mentions` add up.

`UnderstandingInv` is the invariant, checked by TLC before it was proved. Of the
properties only the wording about stored insights is inductive, so it adds
`AnalysisTypeOK` (with the plan `Accepted` once a stage has run: this is what
orders the stages), `PrivacyInv` (what a stage that has run has achieved, by
`Ran`) and `NotesInv` (the notes are good when their stage has just run, and
nothing runs after it in the plans the property speaks of).

* `IdentifiersAreCleared` (`AnalysisIsPrivate`): the required stages have different
  positions, so erasure has run before the first signal; and no stage after
  redaction puts an identifier back, unless it translates.
* `EveryVisitIsCoached`, `NotesNeverInvent` (`CoachingNeverBlank`,
  `NotesAreGrounded`, which excepts the products an answer names itself): for every
  answer of the model, by the lengths and ranges of
  the selections `Apply` and the fallback are made of.
* `EveryMentionCounts` (`MentionsAttributed`): after `n` turns a product's total is
  the number of places among them that mention it (`Tallied`), the focus is the
  last product named, and the products seen are those with a total above 0; what
  `Discussed` compares is a strict total order, so it sorts.
* `AdviceIsOurs` (`AdviceIsGrounded`): the ranking is a permutation of the
  catalogue, `RankProducts` puts the discussed ones before it, and in a sorted
  ranking whatever is left out comes after what is taken.
* `ScoresAreConsistent` (`ScoresAgree`): a further signal adds its points and moves
  one count by one, and rating and outcome are monotone in both. This needs
  `TaxonomyAssumption`: a bonus on an objection would break it.
* `CorrectionsHold` (`LastWordWins`) for the live entities.
* `CustomersAreHeard` (`CustomerIsHeard`) needs `HeardInv`. `TurnsHeard`: when the
  batch job makes the turns, merging and cleanup drop exactly the noise, so the
  turns are the clear lines in their order (`CleanedHeard`); the rep's cluster is the
  agent's, by his voiceprint or because he speaks first, and in a visit of two
  nobody is left over to be dropped (`TwoClusters`). `RightTurnsKept`: normalisation
  and redaction change neither label nor gate, and no later stage finds a turn to
  relabel (`AllLabelled`). `QuotesHeard` and `SignalsHeard`: extraction quotes
  exactly what passes the gates (`Extracted`), and stays right as long as nobody
  rewrites the turns afterwards.

### Only model-checked

* The liveness properties (`JobsSettle`, `EventsFanOut`, `DeliveriesSettle`,
  `OwedIsSettled`, `EveryConversationEnds`, `RoutesSettle`, `ProcessingResolves`):
  fairness and ENABLED are out of the prover's reach.

## Not modelled, and why

* Speech, translation and language-model HTTP clients, whisper's own model, audio
  preparation and voiceprint arithmetic: remote services and floating-point
  signal processing; here they answer, come back empty or raise.
* The PostgreSQL stores and sweep of the enterprise deployment: their
  transactions are the server's; the models follow `LocalStore`. The in-memory bus
  is a test double.
* The WhatsApp queue: nothing in the repository takes a message from it.
* Stores, areas, API keys, feedback, analytics, secret rotation, rate limits:
  single statements without a protocol. `set_user_role` asks the store object for
  `USER_ROLES`, which only the module has, and raises before it writes.
* Encryption and signatures: the vault's states, the tokens and the ledger
  assume that they work.
* Web, mobile and marketing front-ends and hosted-database migrations. Read-only
  handlers change nothing and appear only where a property is about what they
  answer.

## What is left

Every safety and action property of the runs that hold is a theorem. What could be
added are the parts listed as not modelled, where they get a protocol of their own.
