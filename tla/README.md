# TLA+ verification of chat-ai-agent

This directory models the server of the chat agent (`src/apps/api`) and the part of its web client that
takes part in a protocol with it. Modules are translated from the source; `PROJECT.json` maps every
definition to the lines it stands for. TLC checks small instances; of every module with a run TLAPS proves
the type invariant and all safety properties for every instance, among them a refinement.

## The system

A user writes in a chat room over Socket.IO. The gateway saves the message and runs a LangGraph agent:
a supervisor splits the request into assignments, one per domain, and domain agents call tools. A tool that
changes or deletes data raises an `interrupt()`, the gateway shows an approval card, and the answer
(a button, or a chat message that is classified) resumes the graph. After an answer the room's summary
and the user's long-term memories are brought up to date in the background. Uploaded documents are ingested
by BullMQ workers. PostgreSQL holds rows and LangGraph checkpoints, Redis holds locks, rate limits and jobs.

| part | state it keeps | operations | talks to |
|---|---|---|---|
| Chat gateway (`chat/chat.gateway.ts`, `pending-agent-approval-store.service.ts`) | per process: rooms in processing, stopped rooms, abort controllers, cards; table `AgentPendingApproval`; Redis lock of an approval | send, retry, approve (button, chat), stop, join | agent service, chat service, Redis, job queue |
| Chat service, chat summary | messages and their status, answers, room summary and `summaryThroughMessageId` | save, complete, fail, cancel, retry; summarise | PostgreSQL, model |
| Agent graph and service | graph state of a run: assignments, round counts, executed signatures, results; checkpoints | supervisor, domain agents, tools, rejections, RAG answer | models, tools |
| Mutation tools (`agent-tools.service.ts`) | rows with a version, operation keys, `ExpenseUpdateOperation` | create, update, delete | PostgreSQL, `interrupt()` |
| Memory jobs (`user-memory-job*.ts`, `user-memory-recovery.service.ts`) | extraction status and claim of a message, its job, recovery lock | register, claim, complete, fail, recover | BullMQ, PostgreSQL, Redis |
| Memory records (`user-memory.service.ts`, tools, backfill) | one row per user and key, with source, vector and deletion time | upsert, archive, delete, backfill | PostgreSQL, model |
| RAG documents (`rag-document*.ts`) | file, row, chunks, job, recovery lock | upload, reprocess, delete, process, recover | storage, BullMQ, PostgreSQL, Redis |
| Sessions (`auth.service.ts`, web `http.ts`, `authStore.ts`) | hashed refresh tokens, cookie, access token and refresh promise of a tab | sign in, refresh, log out | PostgreSQL |
| Chat page (web `ChatPage.tsx`, `chatSocket.ts`, `chatApi.ts`) | the room shown, its messages and cursor, streaming text, flags, the card; requests under way | enter, send, retry, respond, stop, load older, delete; socket events, reconnection | gateway (Socket.IO), chat controller (HTTP) |
| RAG search and answers (`rag-search.service.ts`, `rag-answer.service.ts`) | none | vector and keyword search, rank fusion, diversity, context | PostgreSQL, model |
| Job queue | state, attempts, stalls and lock of a job | add, deliver, retry, redeliver | Redis |

What is hard about it: every handler of the gateway is cut by awaits, and its checks are older than what they
guard; two instances share only PostgreSQL and Redis; LangGraph runs a node again from its start after an
approval, a crash or a retry; a node that timed out leaves its tools running; BullMQ delivers a job
at least once, and a worker may go on after it lost its job; rows and jobs are written one
after the other, so that a crash separates them; recoveries compare two stores while both change; the page joins
a stream of events, two kinds of HTTP answers and its own clicks, each in its own order.
`PROJECT.json` lists the hazards at their lines.

## Modules

| module | models | state and actions in the code |
|---|---|---|
| `ChatGateway` | the gateway for one user and room, on several instances | One `Request` per client event, numbered as they arrive; `pc` is the await at which its handler stands, `loc` its locals. `processing`, `cancelled`, `aborter`, `pendingApprovals` are the maps of a process, `store` the card's row, `lock` the Redis key, `thread` and `interrupt` the checkpoint. A run of the graph ends in an answer, an interrupt or an error. `Crash` drops a process with its handlers. |
| `ApprovedMutations` | what the tools promise, abstractly | a call inserts once; it changes its row once, approved, at the version shown |
| `MutationTools` | the writing tools under the tools node | `exec[c][k]` is call `c` in the `k`-th run of its node, from its start; `resumes` is the list of answers that `interrupt()` replays; old runs go on beside new ones; a commit may lose its answer |
| `AgentGraph` | the graph of a run: every node and edge | `node` is the node that runs next; `calls` the tool calls of the last message; `rounds`, `executed`, `latest`, `results` are the fields of the graph state that routing reads; `told` and `cited` are what the final answer reports and cites |
| `RagSearch` | the fusion of the two rankings, the diverse results, the context of an answer | operators without state, over what PostgreSQL may find |
| `BullMQ` | one job (a library of operators) | state, owner, attempts, stalls. External: from the options and calls in `src/apps/api` |
| `UserMemoryJob` | extraction of one message | the row's status and claim, the sender, workers, recoverers, lock |
| `UserMemoryRecords` | one memory row | messages extracted in any order, the deletion card, backfill, deleted rooms |
| `RagDocument` | one document | upload, requests, workers, recoverers; `overdue` and `listed` stand for `updatedAt` |
| `ChatSummary` | messages and summary of a room | one summary run per answer, its queries apart; the model's text is the list of the ids it merged |
| `AuthSession` | refresh-token sessions of one user | browsers with a cookie, tabs with an access token, several calls and the promise they share (`promise` is `refreshAccessTokenPromise`); `spent` is history |
| `ChatPage` | the chat page of one tab over several rooms, and the gateway as it sees it | `ui` is the page's state and refs, `fetches` and `deletion` its HTTP requests, `up` and `down` the two directions of the socket, `joined` the rooms of the server's socket, `run` one run per room |

`MC*` modules give the constants for TLC and the symmetry sets. `*_proofs` hold the theorems.
`UserMemoryJob` and `RagDocument` extend `BullMQ`; `MutationTools` implements `ApprovedMutations`
(`Implements`, an `INSTANCE` with the concrete variables of the same names); `MCAgentGraph` joins the graph with the search
that its rag agent runs. `ChatGateway` abstracts a run to its outcome, `AgentGraph` and `MutationTools` look inside: an interrupt
of the gateway is the `card` of `MutationTools`, and a retry of a run is one more run of the node. `ChatPage` looks at the
gateway from outside: a run there is what `ChatGateway` lets it be for one request at a time. They are checked apart.

A property that the code keeps only under a condition states the condition: that no living worker
lost its job (`ClaimHeld`), that rooms are kept (`NewestWins`, `NotResurrected`), that no generation failed
(`NothingForgotten`), that a turn searched once (`NoGuess`), that nothing disturbed the visit of a room (`NothingMissing`),
that the connection held and no run of the room ended unheard (`OneRunStreamed`, `FlagsSettle`). "Where the code and its documents differ" says what happens otherwise.

### What ChatPage leaves out

Two runs in one room at once belong to `ChatGateway` (`gateway_retry_race`): here a busy room refuses a request.
A room that is created is an empty room that is entered. The sidebar, titles, rendering, and a second deletion are left out.
`getMessages` checks the owner and reads the page in one step, `restorePendingApproval` is one step, and rooms whose join waits
for the owner check are a set, since their order decides nothing. Answers of HTTP requests overtake the socket's events and each
other. `FlagsSettle` is the safety form of "a wait ends": when nothing is under way any more, nothing still waits.

### What RagSearch says

A corpus is what the database finds: chunks by vector distance, those above the least similarity, and the matches of each
keyword query by score. The scan of the vector index is taken as exact (PostgreSQL's is approximate), and ties are broken by id throughout (the
code looks at the best keyword score before the id). Scores are fractions, compared exactly. `FullSearches` is about two cuts in
a row: fusion keeps `4 * limit` candidates and diversity comes after it. Could the cut leave fewer results than `limit`,
although enough relevant chunks were found? Up to `4 * limit` irrelevant vector candidates may stand beside the keyword candidates, each displacing others.
`FittingContexts` is about the greedy choice within 3000 tokens that always takes the best result.

## Runs

All bounds are constants of a run, and each is a guard of the actions it bounds.
No run checks deadlock: every scenario is finite (requests, faults, messages), and may stop.

| run | instance | what it shows |
|---|---|---|
| `gateway_faults` | 1 instance, 3 overlapping requests of any kind, failing calls, 1 crash; fair | one approval at a time (`ResumeMutex`); flags of a room belong to a running handler (`FlagsOwned`); the run of a message and its retries save one answer, however many overlap, and leave no FAILED message with it (`RetriesAnswerOnce`); handlers return (`RequestsEnd`), the lock is given up (`LockFreed`) |
| `gateway_one_tab` | 1 instance, 5 requests one after the other (stop excepted), failing runs but no failing stores | an answer, saved by the message's own run, a retry or the approval of its card, is the only one of its message, which is COMPLETED (`AnswerSettles`); what is executed is what the approved card showed (`ApprovedIsExecuted`); every interrupt can be answered when nothing runs (`ApprovalsRecoverable`); the card in memory is the stored one (`MemoryIsBacked`) |
| `gateway_retry_race` | 1 instance, send and retry, no failures | a violation: `RoomExclusive`, see below |
| `tools_race` | 2 conversations of 3 and 2 runs on one row, failing calls | each call takes effect once (`OncePerCall`), as approved (`Implements`: the tools implement `ApprovedMutations`), is reported as it happened (`SuccessIsApplied`), a replay of update_expense is recognised (`ReplayRecognised`) |
| `graph_rounds` | 2 targets, 2 assignments, 3 rounds, 2 calls a message, 2 searches a turn; 5 chunks and limits 1 and 2 | no candidate is guessed after one search (`NoGuess`), no change is made twice in a run (`NoRepeat`), an answer cites documents of what it tells (`CitesWhatItTells`); searches come out full (`FullSearches`), contexts fit (`FittingContexts`) |
| `memory_faults` | 2 workers, 1 recoverer, 1 fault, 2 attempts; fair | a claim is held (`ClaimHeld`), one worker extracts at a time (`Exclusive`), `CompletedIsFinal`, a message comes to an end (`Settles`) |
| `records_order` | 3 messages, 1 retry each, deleted rooms | the newest message wins (`NewestWins`), deleted stays deleted (`NotResurrected`), a vector is that of its content (`EmbeddingMatches`) |
| `rag_faults` | 1 worker, 1 recoverer, 1 request, 2 faults; fair | the file is kept (`FileKept`), recovery leaves a working worker alone (`ClaimKept`), READY lasts until the user acts (`ReadyStays`), no document stays in PROCESSING (`LeavesProcessing`) |
| `summary_overlap` | 8 messages, 2 recent, batches of 2, 1 failure | merged once and in order (`MergedOnce`), no late summary undoes another (`SummaryGrows`), `NothingForgotten` |
| `auth_rotation` | 1 browser, 2 tabs of 2 calls, 1 session, 3 tokens | however late its 401, no call presents a token that its tab has had replaced, or waits for a promise that has settled (`RefreshShared`); a hash is replaced once (`RotatedOnce`), `RevokedIsFinal`. Two rotations in a row need 3 tokens; a second session is in `AuthSession_tabs`, `AuthSession_devices` and the proofs |
| `page_visits` | 2 rooms (4 messages and a failed question; a waiting card), pages of 2, 3 acts of the user, 1 fault, 1 delta a run | a message is shown once and in its room (`ShownOnce`), the streaming text is of one run (`OneRunStreamed`), waits end (`FlagsSettle`), a visit shows what the database has (`NothingMissing`), the room shown is joined again (`Rejoined`) |
| `page_cursor` | the same rooms, 2 acts, no faults | a violation: `OlderPageIsNew`, see below |

Why the bounds are enough to be interesting. The gateway's races take two handlers and something for a third
to find; three requests give every pair of kinds after a first that created a card or a failed message, and five in sequence give
send, revision, revision, approval and retry. They share one process, where the races are (the maps are of a process). Two runs
of a node overlap with a third, and a second conversation changes the row in between. Two workers are what a
stalled job needs (`memory_faults`), two faults what a lost job with a failing requeue needs (`rag_faults`); both at once are too much for
a liveness property, which forbids symmetry. Beyond the runs, with the same result: the safety properties of `gateway_faults` on 2 instances
(2.3 million states); those of `rag_faults` with 2 workers and 2 faults (1 million with symmetry); all of `rag_faults` with 2 workers and 1
fault (299,000) and with 1 worker and 3 faults (328,000); those of
`memory_faults` with 2 faults (3.8 million with symmetry); `page_visits` with 4 acts and no fault (4.6 million) and one (38.7 million). Two attempts stand for three: the code asks only
whether an attempt is the last. The round limit of 3 and batches of 2 stand for the larger numbers of the code, which are
only compared. Three messages order a write, a deletion and a late write in every way. Three acts on the page are two
visits and something done in one of them, or a visit, a request and what overtakes it. With five chunks and a limit of one, the four
candidates of a search are fewer than the chunks, and each list can push out the other's.

Each property has a mutant: a variant of one definition, such as a plausible bug would make (marked "Variant"
in the modules), under which TLC finds the property violated.

### Fairness

`gateway_faults`, `memory_faults` and `rag_faults` use it. Weak fairness of a handler, worker or uploader step: an
await of Node.js resolves or rejects, model clients and the tools node have timeouts. Of BullMQ: delayed jobs are
promoted and the stalled-job check runs while a worker process exists (`restart` of the containers). Of a
recoverer: it is driven by an interval timer. Of lock expiry: Redis expires keys. Of five minutes: the
clock goes on. Faults, crashes, the user and the evictions of jobs are not fair.

## Proofs

| theorem | says |
|---|---|
| `TypeCorrect` in each of the eight modules, `UserMemory_proofs!RecordsTypeCorrect` | the type invariant, for any number of instances, requests, calls, targets, workers, recoverers, browsers, tabs, rooms or messages |
| `ChatGateway_proofs!ResumeMutexHolds` | with `~SlowRuns`, at most one handler answers an approval |
| `ChatGateway_proofs!FlagsOwnedHolds` | flags are owned by a running handler, with any failures and crashes |
| `ChatGateway_proofs!RetriesAnswerOnceHolds` | the run of a message and its retries save one answer, with any failures and crashes, and none while it is FAILED |
| `ChatGateway_proofs!AnswerSettlesHolds` | with `OneTab`, an answer of any kind, approvals included, is the only one of its message and completes it |
| `ChatGateway_proofs!ApprovedIsExecutedHolds` | with `OneTab`, an approval executes what its card showed, through any number of revisions |
| `ChatGateway_proofs!ApprovalsRecoverableHolds`, `MemoryIsBackedHolds` | with `OneTab`, an interrupt can be answered when nothing runs, and the card in memory is the stored one |
| `MutationTools_proofs!OncePerCallHolds`, `ApprovedOnlyHolds` | with `~Batches`, one effect per call, only what was approved |
| `MutationTools_proofs!ImplementsHolds` | with `~Batches`, every behaviour of the tools is one of `ApprovedMutations` |
| `MutationTools_proofs!ResultHolds`, `SuccessIsAppliedHolds`, `ReplayRecognisedHolds` | with `~Batches`, every result tells what happened; a success was applied; a replay of update_expense is recognised |
| `AgentGraph_proofs!NoGuessHolds`, `NoRepeatHolds`, `CitesWhatItTellsHolds` | no guess, no repetition, no stray citation, for any limits |
| `AgentGraph_proofs!FullSearchesHolds` | for any corpus and limit, four times as many candidates as results leave no search short |
| `AgentGraph_proofs!FittingContextsHolds` | for results of any number and size, the context of an answer fits and wastes nothing |
| `UserMemory_proofs!ExclusiveHolds`, `ClaimHeldHolds`, `CompletedIsFinalHolds` | the claim protocol, for any number of workers, recoverers and faults |
| `UserMemory_proofs!NewestWinsHolds`, `NotResurrectedHolds`, `EmbeddingMatchesHolds` | the row, for any number of messages and retries |
| `RagDocument_proofs!FileKeptHolds`, `ReadyStaysHolds`, `ClaimKeptHolds` | the document, for any number of workers, recoverers, requests and faults |
| `ChatSummary_proofs!MergedOnceHolds`, `SummaryGrowsHolds`, `NothingForgottenHolds` | the summary, for any number of messages, summary runs, batch and context sizes |
| `AuthSession_proofs!RefreshSharedHolds`, `RotatedOnceHolds`, `RevokedIsFinalHolds` | the sessions, for any number of tabs, calls, sessions and tokens |
| `ChatPage_proofs!ShownOnceHolds`, `RejoinedHolds` | no message twice or of another room, and the room shown is joined again, through any drops, visits and deletions |
| `ChatPage_proofs!OneRunStreamedHolds`, `FlagsSettleHolds` | one run's text, and waits that end, while the connection holds and no run of the room ended unheard |
| `ChatPage_proofs!NothingMissingHolds` | an undisturbed visit ends up with the newest messages of its room as stored, without a gap, and with the card that waits, for any rooms, messages, page size and number of acts |

Assumptions are those on the constants (named in each module). `~SlowRuns` says that a run does not outlive the 300 s of
the approval lock; `~Batches` that a message asks for one approval at most; `OneTab` that one client talks to one instance and waits
for each answer (`Sequential`), and that no store fails and no process crashes while it does. Without these the properties do not hold:
`ChatGateway_second_tab`, `ChatGateway_old_card`, `ChatGateway_restart`, `ChatGateway_failed_card` and `MutationTools_batch` are the counterexamples. `SearchAssumption`: a
query finds a chunk once, and limits are those that `normalizeLimit` returns.

The arguments, by module; each theorem follows from an inductive invariant of named parts.

- `ChatGateway`. `ResumeMutex` is not inductive: two handlers in an approval must be told apart by the lock. The invariant says that a
  handler between acquisition and release holds the lock; acquisition needs a free lock, expiry (without slow runs) a holder that is
  gone. `FlagsOwned` needs that a handler sets its flag when it enters and clears it in `finally`, at its own instance: the invariant
  ties each flag to some handler in its run; `finally` clears both flags at once, whoever set them, which is why ownership, and not
  exclusion, is what holds. `AnswerInv` (`RetriesAnswerOnce`): while the handler of the message itself may still
  answer or fail it, the message is not FAILED and has no answer; so the handler and the transaction of a
  retry that finds FAILED exclude each other, and the transaction ends FAILED. An approval is not among them: it answers whatever message its card
  names, which may have been left FAILED (`ChatGateway_failed_card`).
  `CardInv` (the cards, `OneTab`): at most one handler is active, and between handlers the place is `Settled`: the interrupt of the
  checkpoint, the card in memory and the stored one are the same or are all absent. While a handler runs, each stage says what it still
  owes: a run of the graph that ended in an interrupt owes both writes, one that answered owes both deletions, and an approval that failed owes
  the card it took, which is still the checkpoint's. None of the three properties is inductive without the stages between.
  `SettleInv` (`AnswerSettles`, `OneTab`): the message of the stored card is COMPLETED and has no answer whenever nothing runs, and of each
  handler that may still answer it says which message that is and that nobody else has answered it.
- `MutationTools`. `OneGuarded`: a message has one guarded call, so that its node raises one
  card, which stays in the checkpoint until the node is done. `PadInv`: a run that answers the card has its decision
  in the scratchpad until the tool asks. `StageInv`: a tool that commits has an approved card of its own call.
  `ApprovedInv`: the approvals of a message are one card, that of its checkpoint, and so is every decision that waits. `AppliedInv`:
  what is applied was approved, and its row is gone or past the version of the card. With these,
  `CommitIsFirst` says that a commit which is not refused is the first of its call: a second would need
  the row at the version of the card. The refinement follows step by step from `Inv`.
  `SeenInv` (results): the versions a tool has seen, a card shows and an approval names are behind the row, or the one it has, and
  never come back. `ResultInv`: each result is what happened; the operation of an update is logged and kept with its change; an
  update told "stale" was approved and not applied, and can no longer be, since its row is gone or past the card.
- `AgentGraph`. `ExecutedInv`: what was done once is among the executed signatures. `NodeInv`: before the tools node the router has
  looked at them, at the rounds and at the candidates. `SearchInv`: after one search its candidates are the latest.
  `CitedInv`: until the next domain is taken up, what is cited is among the results told to it.
- `RagSearch` (in `AgentGraph_proofs`). Scores, contexts and choices are folds and selections over data of any length. That a fold is what its
  definition says needs a function which satisfies it (`FoldsExist`), and what holds after each element follows from the least
  number of elements after which it would not (`UpTo`, from the well-foundedness of the natural numbers). `FittingContexts`: `Fits` holds of the
  context after each result. `FullSearches`: fusion orders all chunks strictly, since fractions compare transitively (`Comparison`), so that
  candidates are a prefix of the order (`FusedProperties`). Suppose a relevant chunk is cut off and fewer than `limit` remain
  (`EnoughCandidates`): then more than `3 * limit` candidates are irrelevant, all from the vectors alone, and one of them has a rank above
  `3 * limit`. The chunk that was cut off ranks no better, so it is a keyword match and there are more than `3 * limit` of those; the first `3 * limit` of
  them stand before that candidate, and are relevant.
- `ChatSummary`. `StatusInv`: while no generation has failed, no message is FAILED. `SavedInv`: the summary is increasing,
  `summaryThroughMessageId` is its last message, and while no generation has failed it holds all COMPLETED ones up to there.
  `RunInv`: what a run has read is the summary of the room, or one the room has passed, so that the same id means the same summary;
  the batch it generates from lies after that, in order, and skips no COMPLETED message.
- `UserMemoryJob`. `ClaimHeld` needs `HolderInv` (who did not lose the job has it) and `RecoveryInv`: what a recoverer has
  listed is an old claim or none, and what it does next found no working owner. `Exclusive` needs `WorkingInv`: without an overdue claim nothing makes a message
  PENDING or FAILED below a worker.
- `RagDocument`. `FileInv` follows upload and deletion from step to step: the row is there only after the file, the file goes only after
  the row. `RecoveryInv`: a recoverer that acts on a listed row found that nobody had the job, and a claim since would have
  taken the row off the list.
- `UserMemoryRecords`. `SourceInv` keeps source and content above the last deletion and the source above all that is applied;
  `VectorInv` says which content the backfill can be at work on.
- `AuthSession`. `HashesIssued` and `RowsKnown`: the hash of a row, once replaced, is never the hash of that row again, since tokens
  are issued once; a refresh that won has replaced it. `PromiseKept` (`RefreshShared`): the promise of a tab names a call exactly while
  that call's refresh is on its way. `TokensKept` follows each token from the counter through one answer to one cookie: what a tab has had
  replaced is in no cookie of its browser, so a refresh that starts later, for a late 401 too, cannot present it.

- `ChatPage`. What the page will be once nothing is under way is already decided by what it shows, what is on its way to it, and
  what it asked for. Each property is proved from an invariant that says so, over the queue `down` from each place to its end.
  `ShowInv` (`ShownOnce`): what is shown and each page under way hold an id once; an older page is filtered by what is shown then.
  `JoinInv` (`Rejoined`): the room is joined, or a join of it is on its way, and no leave of it comes after.
  `StreamInv` (`OneRunStreamed`): of two deltas on their way that are of different runs, one that ends the text lies between; the last
  deltas are of the run that goes on, and if there is none, an end follows. A run whose end was not heard breaks the second part, and what
  is on its way from it may outlast the visit, so that `missed` keeps a room that is entered again until nothing of it is left.
  `SendInv`, `LoadInv` (`FlagsSettle`): who waits has a request on its way, a run at work, or an end that comes; a spinner has its answer.
  `MessagesInv` (`NothingMissing`): what is shown is, by its ids, a stretch of the stored messages from just above the cursor (`Low`). It
  lacks at its end only what an event on its way brings (`Coming`), and each message in it is as stored or will be renewed (`Renewed`). The
  same holds of a first page that was read and not applied, with nothing on its way (`calm` sees to that), and an older page is the one message
  below the stretch with messages of it (`FitsBefore`), because of the cursor. `EventInv` keeps what is on its way in the order of ids, and
  the last event about a message as stored. `CardShown`: the card that waits is on the page and nothing on its way takes it
  away, or it is on its way, or a join is, or an approval run is about to settle it; `RunCards` says that other runs work only while no card waits.

Only model-checked: liveness and ENABLED (out of the prover's reach): `RequestsEnd`, `LockFreed`, `Settles`, `LeavesProcessing`.
The prover has no meaning for `SelectSeq`: what is proved about is written as a choice of places (`AtPlaces`, `Ascending`, `Unshown`).

The proofs of `ChatPage` corrected its model. With more visits, acts and messages than the run has, two of the properties as first stated did not
hold; the four ways in which the page goes wrong are described at the end of the next section, and are what the conditions exclude now.

## Where the code and its documents differ

Two are runs. Others have a configuration beside the modules, to be run by hand
(`tlc -config <cfg> MC<module>`), and end with the counterexample described.

| configuration | what TLC finds |
|---|---|
| `ChatGateway_retry_race` (run) | `retry_message` checks the room at line 505, awaits the rate limiter and marks it at 550; its `finally` clears the mark of whichever run goes on. Two agent runs in a room; README.md:191 promises none. |
| `ChatPage_cursor` (run) | `getMessages` reverses its page in place and takes the cursor from it afterwards (`chat.service.ts:131`): the next page holds all but one of the messages already shown. The page drops the repeated ones, so each click brings one message. The Python port takes the cursor first. |
| `ChatGateway_second_tab` | `join_room` of a second tab puts the card it read before a revision back into memory; approving it executes the revised request (`ApprovedIsExecuted`) |
| `ChatGateway_old_card` | storing the card of a revised request fails, the answered card is stored again (line 1457) and stands for the new interrupt |
| `ChatGateway_failed_card` | a retry stores the card of its run, the server dies before the message leaves FAILED, a join restores the card and its approval saves an answer: a FAILED message with an answer, and another retry saves a second one (`AnswerSettles`). The same follows, without a crash, when the insert of the card's message fails (`chat.gateway.ts:1145`), and when an answer is saved and its acknowledgement lost (410) |
| `ChatGateway_restart` | a crash after the interrupt is checkpointed and before its card is stored: nobody can answer it (README.md:90) |
| `MutationTools_replay` | `update_schedule` has no operation log: its own commit, replayed, is reported as somebody else's change (line 694) |
| `MutationTools_batch` | two guarded calls in one message: answers are replayed by order, so one card's approval can reach the other call; the run then has two interrupts and can be neither resumed nor retried (`agent.service.ts:403`, `319`) |
| `AgentGraph_searches` | a second search hides the candidates of the first (`NeverGuess`; README.md:66) |
| `AgentGraph_answer` | when the last assignment is for documents, the final answer leaves out what earlier agents did (`agent-graph.factory.ts:903`) |
| `UserMemoryJob_crash` | a worker that dies in its first attempt leaves a message that recovery marks FAILED, with attempts left (README.md:231) |
| `UserMemoryRecords_reborn` | deleting the room of the newest message clears the row's source, and an older message brings a deleted memory back (`NeverResurrected`; README.md:291) |
| `UserMemoryRecords_card` | an extraction changes the memory while its deletion waits; the approval deletes the new content (README.md:179) |
| `RagDocument_reprocess` | a reprocess request sets PENDING under a worker that took the job meanwhile (`rag-document.service.ts:152-155`) |
| `RagDocument_orphan` | an upload that stops between row and job stays PENDING: recovery lists PROCESSING only (README.md:228-231) |
| `AuthSession_tabs` | two tabs refresh at once: the second is told to log in again though the session is good (`http.ts:172`) |
| `AuthSession_devices` | sessions are matched with a comparison of 72 bytes: a logout may end another session of the user than its own |
| `ChatSummary_retry` | a message that was FAILED while a summary passed it is in neither summary nor context after its retry (README.md:59) |

Met while modelling, and visible in the modules:

- Citations. Every rag answer replaces `ragCitations` (`agent-graph.factory.ts`): after two rag assignments an answer tells both and cites
  the second; after a rag assignment and a rejection the message of the rejection carries the citations of the rag answer.
- The limit of chunks per document (README.md:582) is a preference: third chunks fill up what is left of a search.
- The context of the agent is trimmed to a number of tokens: COMPLETED messages that are trimmed are in neither summary nor context.
- The page (`ChatPage`, what `calm`, `dropped` and `missed` exclude). A message is lost when its event comes between the read of the first
  page and its application, or when the join takes effect after the read. A message whose event is handled after so many others that the
  first page no longer has it is put at the end, below newer ones (`ChatPage.tsx:669`), and an update that is still on its way when a later one was missed
  puts the older status back. A stop while an answer by chat to a card is being classified clears the card of the page, which goes on waiting
  when the answer turns out unclear (`chat.gateway.ts:1287`). Text of two runs mixes without any drop when one ended unheard and the next one
  starts before the room is joined again. An older page requested in an earlier visit of the same
  room is applied to the new one. An update of a message that is not shown is appended at the end. After a reconnection the room is joined
  but not read again, so that flags and card may stay, and the text of two runs may mix. The end of a run that is emitted while the socket is
  elsewhere leaves the flags set. A deletion that fails after `leave_room` leaves the page deaf; the answer to a deletion throws
  the user out of the room entered meanwhile; a room that was deleted while another was shown stays open if it was entered meanwhile.
  A stop clears the flags while the run goes on. `chat_error` names no room and is shown in whichever is open.

## Not modelled

- The Python port (`src/apps/api-python`). It repeats the protocols of the modules above with ARQ in place of BullMQ and is in
  progress; its modules would be those of the job and the document with another library for the queue. Where it differs
  from `src/apps/api`: `_mark_recovery_failed` (`user_memory/job_state.py`) compares the status only, not the claim; ARQ keeps
  results, so that registering a job id again does nothing until the result is gone; its document worker takes
  PENDING and PROCESSING rows, and there is no recovery of documents, so that one whose worker timed out stays in PROCESSING;
  `create_pending_document` reads the document's id after the rollback that expired it.
- Extraction of text, chunking, storage, embeddings, MCP tools, model providers, analysis service, boards, health, logging: I/O, numbers
  and CRUD without protocol state. The context builder joins strings. The models' answers are nondeterministic choices everywhere.
- Pages other than the chat, the sidebar, shared types, the Prisma client. Schema keys and foreign keys are used where a module needs them.
- Rate limits: a choice to refuse. Wording, formatting, titles, search of memories: left out.
- `rag-answer-eval.ts` and the other evaluation scripts (its `printMetrics` swaps the labels of positive and negative cases).
- One user and one room (`ChatPage`: several rooms), one document, one message or one row at a time: nothing in the code ties two of them
  together, except the per-user queries that are modelled (sessions, memory rows).

How much of the code that is: of 46,360 lines of implementation 25,644 are the client that Prisma generates. The rest, 20,716 lines, holds the
Python port (a second implementation of the same protocols), prompts and tool descriptions, DTOs, rendering, and the parts listed
above. The modules translate what keeps state or decides, and the map names only the lines they translate.

## Plan

Done: the modules above in the order gateway, tools, memory jobs, documents, records, sessions, summary, graph, page, search;
the proofs in the same order.

What would come next, in this order:

1. Compose `ChatGateway` with `MutationTools` over one thread, so that a stop after a commit and a
   retry of an interrupted run are seen from both sides.
2. A library of operators for ARQ, and `UserMemoryJob` and `RagDocument` over it as the Python port has them.
3. An abstract job specification that both job modules implement.
