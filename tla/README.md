# Verification of TaskBounty

TaskBounty is an escrow for bounties. A creator deposits a reward in an ERC-20
token, a worker accepts the task and commits to a result document, and the
creator's approval pays the reward; an open task can be cancelled for a refund.
Three programs make it up: the Solidity contract (`contracts/`), a Cloudflare
Worker that indexes the contract's events into a D1 database and serves them
over HTTP (`backend/`), and a Next.js frontend that reads through both the API
and a public RPC node and sends transactions through the user's wallet
(`frontend/`). This directory holds TLA+ models of the parts with logic of their
own, the TLC runs that check them on small instances, and TLAPS proofs of what
matters most. Paths below are relative to the repository.

## Inventory

| Component | State | Operations | Talks to | What makes it correct |
|---|---|---|---|---|
| Escrow contract, `contracts/src/TaskBounty.sol` | `tasks`, `nextTaskId`, `totalEscrowed`, the reentrancy guard | `createTask`, `acceptTask`, `submitWork`, `approveTask`, `cancelTask` | calls the reward token, whose callbacks may call back; emits events | solvent whatever the token does; one payout per task to the party due; books balance; commitments fixed; the log tells the storage |
| Reward token (external) | balances | `transferFrom`, `transfer`, `balanceOf` | called by the contract, and by users directly | none assumed of deposits; payouts debit what is asked for |
| Indexer, `backend/src/indexer.ts`, `index.ts` | D1 rows: `sync_state` (checkpoint, heads, lease, last error), `protocol_state`, `sync_runs`; local variables of a run | one run per minute from Cron: lease, read checkpoint and head, chunks of events, snapshot, artifact checks, error path, release | RPC node, explorer API, D1 | one run at a time; checkpoint only forward; only final blocks; catches up after faults |
| Projection, `backend/src/database.ts`, `migrations/0001_initial.sql` | `tasks`, `indexed_events`, `artifact_checks` | one group of SQL statements per lifecycle event, batched with the checkpoint | called by the indexer | rows equal what the events say; replay is harmless |
| Artifact checks, `backend/src/artifact.ts`, `indexer.ts:412-483` | `artifact_checks` | fetch up to four unverified documents per run, compare the hash, retry after an hour | document hosts, D1 | a verdict belongs to the uri and hash it stands beside; downloads are bounded; a served document is eventually verified |
| Read API, `backend/src/api.ts` | none (reads D1) | health, protocol, task pages with cursor, task detail in two queries | D1, browsers | pages neither skip nor repeat; a counted task can be listed; the events prove the row |
| Configuration, `backend/src/config.ts` | none | parse and range-check the environment | all of the Worker | numeric ranges the indexer relies on |
| Frontend read layer, `frontend/src/lib/task-reader.ts`, `task-api.ts`, `read-dashboard.ts` | none | overview, task, recent tasks; API first, RPC as fallback | API, RPC node | what is counted is listed, from one source; a verdict stands beside what it is about |
| Task market, `components/task-market.tsx` | overview, list, verified briefs | load, reload, enrich with documents | read layer, HTTP cache, document hosts | what is counted is listed; the list is exact, newest first |
| Task page, `components/task-detail.tsx` | the task, verdicts, loading and error | load from API or RPC, refresh, verify both documents | read layer, document hosts | never an older task after a newer one; a confirmed action is shown |
| Task action panel, `components/task-action-panel.tsx`, `lib/task-action.ts`, `task-role.ts` | form, verification, simulation, review and submission keys; query cache | verify, simulate, review, send, confirm | wallet, contract | what is offered is accepted; only seen bytes are submitted or approved |
| Publish form, `components/create-bounty-form.tsx`, `lib/task-publishing.ts`, `task-manifest.ts` | the same, for `approve` and `createTask`, and the drafted manifest | draft, verify, approve, create | wallet, token, contract | the published manifest says the reward; the announced task is one's own |
| Lab flows, `components/approval-panel.tsx`, `task-creation-panel.tsx`, `lib/*-flow.ts` | the same, for task 2 and a pinned manifest | the same | wallet, contract | gates open only for what the chain accepts; task 2 is created once |
| Dashboard, `components/task-dashboard.tsx`, `lib/read-dashboard.ts` | task 1, escrow, balances, two verdicts | load in two rounds of RPC calls, verify, refresh | RPC node, document hosts | verdicts fit the commitments shown; loads end |
| Wallet, pages, styling, scripts, generated types | | | | not modelled: rendering, third-party state, one-shot scripts |

Hard behaviours: token callbacks in the middle of contract calls; deposits that
do not arrive in full; Cron runs that overlap in different Worker instances;
runs that die between two statements; RPC nodes that lag; explorers that leave
events out; pages and details read while rows change; late answers in the
browser after the user has changed the form; simulations whose cached answer
outlives what was simulated; receipts that come while another account is
connected; other creators who take a predicted task id. `PROJECT.json` lists
them line by line under `hazards`, each with the properties aimed at it or the
reason there is none.

## Modules

    EscrowPromise          what the escrow promises, transaction by transaction
    TaskBounty             the contract and the token it calls
    TaskBountyProperties   its properties; refinement mapping to EscrowPromise
    TaskBountyProofs       theorems

    Projection             the SQL statements per event, as operators
    Indexer                syncDeployment, extends Projection
    MirrorPromise          what an index promises its readers
    IndexerProperties      its properties, the API's health decision; refinement
                           mapping to MirrorPromise
    IndexerProofs          theorems on the indexer and on the read API
    ArtifactChecks         verifyPendingArtifacts and its downloads; properties
    ArtifactProofs         theorems
    ReadApi                the read API over the indexer's tables, and a client;
                           extends IndexerProperties; properties

    TaskDetail             a task's page
    TaskActionPanel        the panel on that page, extends TaskDetail
    TaskPageProperties     properties of both
    TaskPageProofs         theorems
    PublishForm            the publish form; properties
    PublishProofs          theorems
    LabPage                what the two lab panels share: chain, wallet, cache
    ApprovalPanel          the approval panel, extends LabPage
    CreationPanel          the creation panel, extends LabPage
    LabFlows               both panels together; properties
    LabProofs              theorems
    TaskMarket             the market and the read layer's list; properties
    TaskMarketProofs       theorems
    Dashboard              the dashboard; properties
    DashboardProofs        theorems

    MC...                  instances for TLC, one per specification

Definitions named `Bad...` are variants of the code with one plausible bug each.
Nothing refers to them: a property is shown to see a bug by putting the variant
in the place of the code's definition, as `PROJECT.json` lists under `mutants`.

### TaskBounty

The contract's storage keeps its names. `entered` is the reentrancy guard,
`balance` the token's balances, `paid` and `log` record per task what left
escrow for it and the events emitted about it. A function that makes no external
call is one action (`AcceptTask`, `SubmitWork`); its `require`s are the guard and
a failing call is no step. `createTask`, `approveTask` and `cancelTask` stop at
their call of the token: the action pushes a frame on `stack`, then the token may
move the money (`TokenMoves`), with any deviation in `Skims` on deposits and a
fee on payouts, or fail (`TokenReverts`), which restores the world the frame
keeps; before and after the move any other function may run, which is how a
callback is modelled. `CreateReturns`, `CreateRejects` and `SettleReturns` are
the code after the external call. `MaxDepth` bounds nested guarded calls: the
guard makes it 1, and the mutant without the guard reaches 2. The guard in
`CreateTask` on `nextTaskId + Len(stack)` is the bound `MaxTasks`; `MaxUint` is
the width of the token's amounts and of the checked additions.

The token may do anything to a deposit, because `createTask` measures it. On a
payout the contract has no such check, and the model lets the payee get less but
takes from the contract what it asked for; a token that takes more than asked
for cannot be escrowed by this contract at all. The token may not move the
contract's balance on its own (a rebasing token is outside the model).

### EscrowPromise

A deal is funded once and settled once, and the vault never loses anything
else. The mapping reads the state as of the last finished transaction
(`Committed`): the world of the outermost frame while a call is pending. One
abstract step is one transaction; other tasks may be accepted or delivered in it,
since `acceptTask` and `submitWork` are open to callbacks.

### Projection and Indexer

A row keeps status, worker, the block of each event and the newest block, the
columns the properties tell apart; hashes and uris of documents are left out, and
0 stands for NULL, so `StartBlock` is at least 1. `Apply` is one event's
statements, `ok` the verdict of the foreign key that fails the whole batch.

Every `await` of `syncDeployment` separates two actions of `Indexer`: `Start`,
`AcquireLease`, `ReadState`, `ReadHead`, `LoadChunk`/`LoopEnds`, `WriteChunk`,
`RecordSnapshot`, `VerifyArtifacts`, `Touch`, `Quiet`, `FinishRun`,
`ReleaseLease`. `Throw` is the `catch` block, `Fails` a call that fails before it
has an effect (with or without the error recorded), `Crashes` the death of the
instance. A call that takes effect and whose answer is lost is the step followed
by `Fails`. The run's local variables are fields of `run[w]`. Time is relative:
`Tick` ages the runs and the lease; `RunLimit` bounds how long a run lives.
Chains are event histories lawful for the contract (`ChainAssumption`): in block
order, and per task in the order that theorem `LogsLawful` establishes for
`TaskBounty`. `Answers` are the events at some places of that log, listed by
place (`InOrder`), which is what sorting by block and log index gives.

### MirrorPromise

The milestones shown are those of the log up to one block, every subject stands where
its last event up to there has put it, and that block moves forward only and stays
`Depth` behind the newest; one abstract step follows any number of blocks at once. The
mapping (`Mirror` in `IndexerProperties`) reads milestones from the timelines and
stages from the status of the task rows alone, `upto` from the checkpoint: the lease,
the runs and the table of recorded events have no part in the promise.

### ArtifactChecks

The step `VerifyArtifacts` of `Indexer` in detail. `Select` is the query for
pending rows; `FollowRedirect`, `Respond`, `ReadChunk`, `EndOfBody` and `GiveUp`
are `fetchAndVerifyArtifact`, one answer of the host at a time; `Record` and
`RecordFailure` are the two `UPDATE`s, `RecordFails` the first one failing with or
without effect. `Project` is the projection's upsert, by an instance that is not
checking at that time. `Begin`, `Skip` and `Tick` are Cron and the clock:
each minute Cron fires once and either starts a run or finds the lease taken.
One slot stands for runs under the lease, two for an overrun. A content is bytes,
hash and uri at once. `Reliable` documents are served as committed, by hosts
that neither fail nor time out.

### ReadApi

Each D1 query is one step over the tables of `Indexer`, whose `Next` is taken
between any two of them. `Refusal` is the order in which a request is refused
before any query (origin, method, parameters, path). `FirstPage` and `NextPage`
are a client that follows `nextCursor` to the end; `kept` is history: the tasks
that have matched the filter ever since its first page. `TaskDetail` takes two
steps, row and events. Left out: HTTP headers and caching (see `TaskMarket`), the index page, and columns no
property tells apart, the joined `artifact_checks` among them. `Descending` is
`ORDER BY task_id DESC` by rank: the k-th id is the one with k ids at or above it.
`Remembered` cuts what the client remembers to one item more than there are tasks,
enough to see one listed twice. `IdAssumption` says that the i-th task created is
task i, as `createTask` numbers them.

### TaskDetail and TaskActionPanel

`task` is the contract's storage for the one task of the page, moved by
`OthersAct` as `TaskBounty` moves it, and `indexed` the read API's copy, which
follows in `Index`. A load is a process of its own in `loads`, with one step per
`await` of `task-detail.tsx`: the node or API reads (`TaskIsRead`), the answer
arrives (`TaskAnswers`), the two documents are checked. Whether a read fell back
to RPC is decided in `ReadTask`.

The panel's variables are its `useState`s: form, verification, the keys of the
simulated and of the reviewed intent, the submission. A key is the record of what
the code puts into its JSON. The react-query cache is `sims`: it outlives the
component, a disabled query still shows what is cached for its key, and
`CacheExpires` drops what nothing shows. A transaction handed to the wallet is a
request that may be let go by `write.reset()` (`awaited`), rejected, confirmed on
the deployment's chain only, mined or reverted. The panel lives only while the
page is shown, so a load unmounts it. The brief's verdict gates nothing and is
left out. `proven` and `confirmed` are history variables.

### PublishForm

Token and contract are `ledger`, as far as `approve` and `createTask` see them;
other creators and other spenders of the wallet act on it. `form`, `checks` and
`flow` are the component's state and the verifications in flight, each judged by
the reward of the rendering that started it. A failed verification is the same as
none asked for. The draft is taken to be published under the uri that is entered:
`BuildDraft` enters uri and hash at once. `refetch` is what a receipt asks for.
`Announces` is the link the form offers after a creation.

### LabPage, ApprovalPanel, CreationPanel, LabFlows

Both panels open for the Creator only, so the public reads are the Creator's.
`Readiness` is a sequence of guards whose first hit names the state, as in
`lib/approval-flow.ts` and `task-creation-flow.ts`. `LabFlows` puts the panels on
one wallet and one cache, and has the effects that depend on both: `Connect` runs
a panel's refetch effect again when the account of its submission returns.

`refreshState` fires five requests that do not know of each other. So a receipt puts
the panel's queries into `asked`, and each of them answers from the block that is the
latest then (`ReadAnswers`) or fails (`ReadFails`), one after the other with anything
in between. All of them together need not show any one block, and no later request
mends that: a statement that they do is violated in this model. `ReceiptIsShown`
therefore speaks of each read on its own, and of the failure that is shown in its place. A
single read is one step: the time between the node's reading and the arrival of the
answer is left out. The token balance of the contract is displayed and compared with nothing,
so of that query only its failure is kept; it stops the creation panel like any other
(`Queries`), and in `lab_twice` it is the one that may fail. A manifest that differs
and one that cannot be retrieved stop the panel alike and are one answer.

### TaskMarket and Dashboard

`TaskMarket` is `readRecentTasks` one `await` at a time: overview and list from
the API, or from RPC when the API does not answer, answers nonsense, or (for the
overview) is of another deployment; then the tasks the RPC counted are read by
their ids. The RPC node may lag behind the chain. A task is its id, since nothing that is
said of the list depends on another column. What feeds the list is kept as coarse as
that allows:

- `IndexerScans` projects the block of the next task, with its event or, for the
  tasks in `MayOmit`, without: only events the explorer reports are looked at
  (`indexer.ts:244`). `IndexerReplays` is a late run that finds an event omitted
  before. `IndexerCounts` is the snapshot, which asks the RPC for `nextTaskId` at a block
  that has been projected, perhaps an early one, and so counts omitted tasks too.
- `kept` is the browser's HTTP cache: `/v1/protocol` and `/v1/tasks` may be
  cached for 15 seconds and used stale for 45 more (`api.ts:330`, `:407`), and
  `requestData` fetches with the default cache mode (`task-api.ts:91`). Either request
  may be answered from it or by the API, and `HttpCacheRevalidates` renews it in
  between. When an entry is given up is left out: it may answer at any age.
- `page.from` tells whether the list was the API's or the cache's. That is history: no
  code can know.

Both omission and cache do break the plain statements "what is counted is listed" and
"there is no gap", so the properties except exactly these: `CountedAreListed` does not
speak of lists the cache kept nor of tasks whose event was omitted, and `ListIsExact`
allows gaps at such tasks. Without either exception TLC finds a counterexample. From
the RPC nothing is excepted. The task page (`TaskDetail`) needs no cache of its own: only its
first load asks the API, and an old entry looks there like an indexer that lags.

The market's filter tabs, which select among what is shown, are left out. `Dashboard` reads in the two rounds of
`readDashboardData`, each call from the block that is latest then, and then
verifies; constants of the token are left out.

### What the models assume of libraries

An RPC node answers with a state it has had when the call was made or since
(`RpcLag` for the indexer). viem refuses to send on another chain than the
simulated one. A query's answer is kept in the cache under its key, an enabled query
may be answered at any time and again; refetching on focus and stale times only
decide when. The wallet does nothing but confirm or reject; a gas estimate repeats the
simulated call and is one step with it.

## Runs

| Run | Checks | Instance and bounds |
|---|---|---|
| `escrow` | type, `Solvent`, `PayoutFunded`, `BooksBalance`, `PaidOnce`, `LogTellsTheStory`, `CommitmentsAreFixed`, `KeepsPromise` | 3 accounts, 2 tasks, rewards 0 to 2, balances 2, tokens that add 1 or withhold up to 3, `MaxUint` 5; 2,400,000 states |
| `indexer_safety` | `LeaseExcludes`, `ProjectionExact`, `OnlyFinal`, `KeepsMirror` | 2 instances, 3 chains over 6 blocks, confirmations 1, chunks of 2 blocks, 2 chunks and 3 events a run, lease 2 = run limit 2, lag 1, 1 fault; 240,000 states |
| `indexer_liveness` | `NoEventLost`, `LeaseNotStolen`, `CatchesUp`, `LeaseComesFree` | 2 instances that may overlap: run limit 3 > lease 2; one short chain over 4 blocks, chunks of 1, 1 fault, under `FairSpec`; 360,000 states |
| `artifact_checks` | `VerdictFits`, `RequestsBounded`, `VerifiedStays`, `ServedIsVerified` | both documents of a task, one per run, two contents and garbage, commitments replaced at will, 2 redirects, back-off 3, 1 fault, under `FairSpec`; 360,000 states |
| `read_api` | `DetailIsProven`, `WalkIsExact`, `CountedIsListed`, `RowsMatchEvents`, `WalkEnds` | 3 tasks of which the middle one moves, any subset of a chunk's events left out, pages of 1 and 2, 17 requests with filters, cursors and refusals, under fairness of the client; 450,000 states |
| `task_page` | `SubmittedWasVerified`, `ApprovedWasVerified`, `PageNeverGoesBack`, `ConfirmedIsShown` | creator and worker in one browser, a task accepted or submitted when the page opens, 2 loads, 1 result, 2 chains, 1 wallet request, under `FairSpec`; 260,000 states |
| `publish_form` | `PublishedSaysReward`, `AnnouncedIsOwn`, `ReceiptRefreshes` | 1 user, rewards 1 and 2 of which one is what the document says, allowances 0 to 2 at the start, another creator, 2 ids, 1 wallet request, under `FairSpec`; 400,000 states |
| `lab_flows` | `ReadyIsAccepted`, `VerifiedIsTaskTwo`, `LocksForGood`, `ReceiptIsShown` | Creator and a stranger, 2 chains, 3 ids, another creator, allowances 0 to 2 at the start, a read that fails, every read on its own, 1 wallet request, under `FairSpec`; 570,000 states |
| `task_market` | `CountedAreListed`, `ListIsExact` | 3 tasks of which the explorer may omit the second, pages of 2, an HTTP cache, RPC nodes that lag; 220,000 states |
| `dashboard` | `VerdictFitsTask`, `LoadEnds` | 2 loads, 2 results, 3 blocks, under `FairSpec`; 67,000 states |
| `lab_twice`, `replay_not_idempotent` | one property each, violated; see Findings | 2 wallet requests; run limit 4 > lease 2 |

Two tasks and three accounts give a nested call on another task than the pending
one, and creator, worker and bystander at once; a third task adds no new relation
since no function touches two tasks. Two instances of the indexer are enough to
overlap, and two chunks per run to stop between them. The chains put two events in
one block, an event on each side of every chunk boundary, more events than one run
may take, and none at all. One fault can hit every step; more faults only repeat
it, since every run starts from the database alone. The walk of `read_api` needs a
task on each side of the one that moves.

In the frontend two loads are enough to answer in the other order, since a load
remembers nothing of the others. One wallet request is enough for what is sent
and announced: a second begins from a state that differs from the first one's by
what is cached, which is why `Allowances` starts the runs in the middle of a
flow too, and `lab_twice` has two. A reward that fits the document and one that
does not, and verdicts that may come after any edit, show a stale verdict.
In `task_market` the task that may be omitted lies between two others, so that it
can leave a gap inside the page, be counted last, or fall off the page.
`Elsewhere` bounds what other programs set as allowance, `MaxChecks` the
verifications in flight, and `RequestsLeft` ends preparation once the wallet
requests are used up; the theorems on the publish form and on the task page hold
for any number of them.

`CHECK_DEADLOCK FALSE` in `escrow`: users need not do anything, and once
`MaxTasks` tasks are final nothing is left to do. In the other runs something is
always possible, and deadlock is checked.

In `artifact_checks` the document that must be verified is the one all others come
before, and the back-off is long enough for two documents, one per run and runs of up to
two minutes: each failing document comes back after the back-off and goes first,
so at most `Limit * (BackOff \div (RunLimit + 1) + 1)` documents can share the
queue. With the code's four documents and one hour that is between 124 and 244
documents that never verify; beyond them the oldest are no longer tried.

`BooksBalance` names the running totals over the task ids instead of a recursive
sum, which is what lets it be proved. Overlapping artifact runs are in no run: what
holds of them is theorem `VerdictsFit`. That an account is offered exactly what
the contract accepts is a fact about every task, not about a behaviour, and is
theorem `OffersFit`.

### Fairness

- `Indexer.FairSpec`: weak fairness of `Mine` and `Tick`, and of `Start` and the
  steps of each instance: Cron fires every minute for ever (`wrangler.jsonc`) and
  the platform runs what it started or lets it die (`Crashes`, never forced,
  bounded by `MaxFaults`). `RpcLag` is 0 there: a node that lags for ever behind the
  checkpoint makes every other run record an error, and health never settles.
- `ArtifactChecks.FairSpec`: the same of Cron, the clock and the steps of a run;
  hosts need not be fair, since the timeout cuts them off (`GiveUp`).
- `ReadApi.ApiSpec`: a client that began a walk asks for the next page. The
  indexer need not be fair: a walk ends because cursors fall.
- `TaskActionPanel.FairSpec`: a load goes on, since every fetch has a timeout or
  fails. Nothing is assumed of users, wallets or miners.
- `PublishForm.FairSpec`, `LabFlows.FairSpec`: a receipt that exists is found
  (`useWaitForTransactionReceipt` polls) and a read that was asked for is answered
  or fails at last, in the lab flows each one for itself; fairness of an answer with
  success is not assumed there. The liveness properties only speak of accounts that stay connected.
- `Dashboard.FairSpec`: the first load begins and loads go on.

### Further configurations

These are not part of the runs: each gives TLC a behaviour that a reader of the
documents might not expect, and TLC finds its property violated.

| Configuration | Property | What TLC shows |
|---|---|---|
| `MCIndexer`, `MCIndexerOverlap.cfg` | `LeaseExcludes` | a run of slow calls outlives its lease of four minutes (`indexer.ts:341`) and overlaps with the next (`backend/README.md:65`) |
| `MCIndexer`, `MCIndexerDense.cfg` | `CatchesUp` | a block with more than eight events is never passed, also with `LOG_CHUNK_SIZE` 1 (`backend/README.md:63-64`) |
| `MCIndexer`, `MCIndexerSilent.cfg` | `HealthNotices` | when Cron stops, health answers "healthy" for ever while final blocks wait (`docs/read-layer-architecture.md:67`) |
| `MCTaskPage`, `MCTaskPageStale.cfg` | `SendIsPrepared` | the wallet opens from a cached simulation for an intent that is no longer the simulated one (`frontend/README.md:113`) |
| `MCPublishForm`, `MCPublishFormStale.cfg` | `CreationIsReady` | `createTask` is handed to the wallet although the allowance read last is no longer exact (`frontend/README.md:110`) |
| `MCDashboard`, `MCDashboardTorn.cfg` | `ShowsOneBlock` | values of different blocks stand under the sentence that they are those of the latest (`task-dashboard.tsx:176`) |

## Proofs

All theorems hold for every value of the constants allowed by the named
assumptions of the modules. Type invariants that no run lists are proved here.

Every safety invariant and every action property that a passing run checks is
the subject of a theorem.

`TaskBountyProofs`. None of the safety properties is inductive alone. The
inductive invariant `IInv` says that the current world is well typed and its
tasks coherent, and that the stack is either empty, and the contract solvent, or
holds exactly one frame: the guard lets no second one in. For that frame
`FrameOK` says that the world it would restore is well typed, coherent, solvent
and not entered; that a pending `createTask` measured a balance of at least
`totalEscrowed` and has a valid payer, amount and document; and that a pending
payout is already off the books while the contract still holds its amount besides
`totalEscrowed`, until the token has moved it. The amount check of `createTask`
and solvency after a settlement follow from it. It gives `TypeCorrect`, `AlwaysSolvent`,
`PayoutsFunded` and `TasksCoherent`. `BooksAlwaysBalance` adds that the books
balance in both worlds; adding a reward at one id shifts the running totals from
that id on (`BooksShift`), which needs no induction.

`HInv` adds history: between transactions every task has been paid what it is
due and has told its story (`Told`), and so it was in the world a pending call
would restore. Inside a call the other tasks have only been worked on by
callbacks (`Worked`: accepted, submitted, or both), and the task of a pending payout
differs from what it was by exactly the settlement, and lacks its payment until
the token has moved it and its last event in any case (`Settling`, `Pending`).
`HistoryKept` is its theorem; `RewardsPaidOnce` and `EventsTellTheStory` follow
when the stack is empty. `CommitmentsFixed` and the refinement `PromiseKept`
compare the committed worlds before and after a step: only the step that empties
the stack, and a call without external call, changes the committed world, and
`Advances` says what it makes of it: deals moved along, and at most one of them
funded or settled with exactly its money, which is a step of `EscrowPromise`
under the mapping.
`LogsLawful` closes the loop to the indexer: the log of every task satisfies, between
transactions, what `Lawful` and `IdAssumption` ask of a chain's events of
that task, and the ids announced are those below `nextTaskId`. That they are
announced one by one follows from `PromiseKept`: a transaction funds at most one.
The interleaving of different tasks' events by block is the chain's order and
remains an assumption.

`IndexerProofs` has two groups of theorems.

How long a run may live matters for some of them: these assume `RunLimit <= Lease`,
which the code does not enforce (Further configurations). `LInv`: a working run holds
the lease and the time left on it is `Lease - age`, so a lease found free means nobody
works. It gives `Exclusion`. `BInv` adds that what a working run remembers of
`sync_state` is still true, since nobody else writes it: it has processed exactly up to
the checkpoint, and its chunk ends beyond the checkpoint and within the final
blocks. It gives `IndexedIsFinal` and `CheckpointNeverBack`. `OInv` adds that
nothing beyond the checkpoint is recorded and that each row is `TruthOf` the
recorded events of its task: every event is then projected once, after those
before it, so the projection never has to be idempotent. It gives `RowsFromEvents`,
whatever the explorer leaves out, and with `MayOmit = FALSE` `ExactProjection` and
`HealthyIsTrue`: a "healthy" of `/v1/health` means that rows, events and
snapshot are those of the newest final block the indexer has heard of. `MirrorKept` is
the refinement of `MirrorPromise`: by `OInv` the rows' timelines are exactly the
recorded events (`RowsShowEvents`) and each status is the mark of the task's last event
(`StagesStand`), hence both are those of the log up to the checkpoint (`Mirrored`),
before and after every step; so a step that moves the checkpoint shows the log up to
the new one, which `BInv` puts within the final blocks, and any other step shows
what was shown.

The others hold however many runs overlap. `LeaseKept`: no step takes a lease that
has not expired from its owner. `DInv` says that what a run is about to write is an
answer for exactly the blocks it is about to claim, that every recorded event is
one of the contract's and stands in the timeline of its row (`Timed`), and that all
events up to the checkpoint, and up to what each run has processed, are recorded
unless some were left out (`Covered`). The last part is what makes it inductive:
a late run sets the checkpoint back or forth, but only to blocks some run has
processed. It gives `NothingLost`, with `MayOmit = FALSE`.

Both rest on what a batch computes. `FoldLeft` of the library is a recursive function
on sets of places, and the induction theorems of the library take an operator the
provers cannot instantiate. So `ApplyInTurn` turns the fold into a function of
the number of events applied, and induction becomes the least element of a set of
numbers (`LeastNumber`, `Upwards`), from the well-foundedness of the naturals.
`Enumerated` counts with cardinalities instead: a strictly monotone map between
finite sets of one size is onto.

The read API is proved over the same state. `ApiIndexes`: requests change nothing of
the indexer, so its theorems carry over. `DetailsProven` needs `OInv`, which makes the
row that was read first true to the events of its time, and that events are only
ever added, so that what is read second still proves it. `CountedHaveRows` needs that the
snapshot is never ahead of the checkpoint and the checkpoint never goes back, and
that ids are handed out in turn: then the tasks counted are those created
(`CreatedInTurn`, again by cardinality). Both assume `RunLimit <= Lease`. `WalksAreExact`
assumes nothing of the runs: rows may even be set back between two pages. Its invariant
`Going` says that all that was listed lies at or above the cursor, and that each
task kept is listed or still below it.

`ArtifactProofs`. `AInv` adds to `VerdictFits` that every row a run has in hand
still stands in the table with the commitment the run remembers. That holds if
commitments are fixed, or if no other run works at the same time (`Alone`), and
one of the two is the hypothesis of `VerdictsFit`. `VerifiedForGood` needs `Alone`: a late
mismatch of an overlapping run withdraws a mark. Its invariant `Unmarked` says that no
run has a verified document in hand, except the one whose update took effect
without an answer. That the document at hand exists (`FirstExists`) rests on the
well-foundedness of the naturals from the library. `RunsAreBounded` has no hypothesis:
`CInv` counts for every run on its own that the requests it has made are covered by the
documents it has done with and the redirects of the one at hand.

`TaskPageProofs`. `IInv` is type correctness with `PageInv`: the page's view and
what each load has read are no further than the contract's task and agree with
it on what never changes again, a shown verdict is about the committed result,
and at most one load is under way, begun before anything older could be shown;
and with `PanelInv`: what the panel verified, what a passed simulation of
`submitWork` was about and what a wallet request asks for has been proven, and a
passed simulation of `approveTask` is about a proven committed result. It is needed because
sending only looks at the cached answer and the reviewed key, long after the
evidence was checked. It gives `PageTyped`, `SubmissionsVerified`,
`ApprovalsVerified` and `PageAdvances`; `OffersFit` needs no invariant.

`PublishProofs`. `PInv` follows a verdict from the verification in flight
(`ChecksShape`: judged by the reward in its key) to the form (`Judged`), the
cached simulation (`Simulated`) and the wallet request (`RequestsSay`). `LInv` adds
that the ids handed out are those below the next (`Booked`) and that a
mined creation made the task its receipt tells (`RequestsMade`). It gives
`FormTyped`, `PublishedAsSaid` and `AnnouncesOwn`.

`TaskMarketProofs`. `MInv` follows a list from the rows or the RPC through the HTTP
cache and the load to the page. By the time it is shown it is seldom the list of that
moment; what remains true is that there is a task it goes `through`: up to that one it misses
none that is not exempt (omitted, for a list of the indexer) or below a full page, and
unless the cache kept the list, that one is no earlier than the overview's count. The
rows are the projected tasks but for omitted ones (`RowsInv`), and what the cache keeps has
once been the answer (`KeptInv`). `MarketTyped`, `OneSource`, `CountedListed` and
`ListExact` follow, for any `MayOmit`: for an explorer that omits nothing they have no
exception but the cache's.

`LabProofs`. `LabInv` is type correctness with two facts: a request whose call made
task 2 is the Creator's and the id is gone (`MadeByCreator`), and what a panel
has noted as its submission has left the wallet (`NotedSubmissions`). The rest is about
the readiness sequences of the code: `ApprovalReady` and `CreationReady` say what holds
when no guard hits before "ready", and `ReadyPanelsAccepted` that on current reads
this is what the chain accepts. `VerifiedIsCreators` and `CreationLocked` follow.

`DashboardProofs`. `DInv` says that at most one load is in flight and the page
waits for it, that a load which verifies has already put its data on the page, and that
no verdict stands while a load goes on. So the commitment a verdict was reached for is
the one on the page when it arrives. It gives `VerdictsFitTask` and
`OneLoadAtATime`.

What proving changed. The projection's `CASE`s overlapped and are now chains of
`IF`, as the SQL statements are told apart one after the other. The answers of the
explorer and the pages of the API are defined by place and by rank instead of by a
sorting operator whose result is only determined by a choice. `CountedIsListed`
turned out to need that ids are handed out in turn, which was implicit in the
chains of the instance and is now `IdAssumption`. That `NoEventLost` and
`LeaseNotStolen` need no assumption on the length of runs was known from one
instance and is now known for all.

Only model-checked are the liveness properties `CatchesUp`, `LeaseComesFree`,
`ServedIsVerified`, `WalkEnds`, `ConfirmedIsShown`, `ReceiptRefreshes`,
`ReceiptIsShown` and `LoadEnds`: the prover has no rule for `ENABLED` and fairness.

## Findings

1. `lab_twice`. "Simulate again" resets the write and the submission of the
   creation panel also while its transaction is pending
   (`task-creation-panel.tsx:313`); a second `createTask` can be handed to the
   wallet until the public reads change, against
   `docs/frontend-task-creation-flow.md:61`.
2. `replay_not_idempotent`. When a run outlives its lease, the late run projects events that
   are indexed already, and the unconditional `UPDATE`s of `database.ts:135` and
   `:153` set status back until later events are replayed, against
   `backend/README.md:12`. `indexer_liveness` shows what survives: no event and no
   entry of a task's timeline is lost, no run releases another's lease, and the
   indexer catches up.

## Not modelled

- `wallet-panel.tsx`, `config/wagmi.ts`, the pages and their effects: rendering
  and third-party wallet state. What matters of them enters the page modules as the
  connected account and chain, which change at any time.
- URL and origin checks of `config.ts`: input validation without state. Its
  numeric ranges are the assumptions on the indexer's constants.
- The parsing of URIs, manifests, summaries and API answers, which is abstracted
  to the outcomes callers distinguish. The browser's download loop, the twin of the one
  in `ArtifactChecks`, is one step there.
- The `sync_runs` log, amounts and transaction hashes of rows, HTTP headers. The
  browser's HTTP cache is modelled for the task list only, without the age at which
  entries expire; a client that walks through pages (`ReadApi`) is one without a
  cache.
- Deployment and verification scripts, generated types.

## Plan

1. Contract, projection, indexer, artifact checks: done.
2. Read API and frontend: done, with first proofs.
3. Proofs of every safety invariant and action property of the runs: done.
4. Left: an abstract specification of what a page promises its reader (the task as
   it was at some block, never going back), for `TaskDetail` as `MirrorPromise` is for
   the indexer; in detail what `PROJECT.json` marks partly (browser downloads,
   `config.ts`).
