# Brain V2: a TLA+ model of the data path and the tenant lifecycle

Brain V2 is a multi-tenant commerce analytics backend. Vendor events (orders,
ads, shipments) enter through webhooks and scheduled pulls, pass through Kafka,
are archived raw ("bronze", ClickHouse), graduated into typed facts ("silver",
PostgreSQL) and read by the dashboards. Around that path sit the connector
lifecycle (OAuth, credentials), identity stitching and the erasure of data
subjects. The specifications here model the parts of that system that run
concurrently, fail half way, retry and must not lose data.

## 1. The system

| Component | State it keeps | Operations | Talks to |
|---|---|---|---|
| Webhook edge (`api-gateway/interfaces/route.webhook.ts`) | token buckets per vendor | receive, rate limit, map outcome to HTTP | gRPC to ingestion |
| Webhook intake (`ingestion-service/interfaces/grpc/webhook_servicer.py`, `application/framework/webhook_intake.py`) | `connector_webhook_events` | verify, dedupe, upsert, produce | PostgreSQL, Kafka |
| Pull ingest (`application/framework/ingest.py`, `cursor.py`) | fact rows, `sync_cursor` | fetch, normalise, upsert + cursor, produce | vendor API, PostgreSQL, Kafka |
| Raw archiver (`interfaces/consumers/raw_archiver_consumer.py`) | Kafka position and committed offset | insert into bronze, copy to S3, commit | Kafka, ClickHouse, S3 |
| Transform worker (`interfaces/consumers/transform_consumer.py`) | cursors, breaker cells, last batch | tick: query, graduate, dead-letter, advance | ClickHouse, PostgreSQL, Kafka |
| Realtime facts consumer (`api-gateway/infrastructure/realtime-facts-consumer.ts`) | Kafka offset | upsert order facts in PostgreSQL, then ClickHouse | Kafka, PostgreSQL, ClickHouse |
| Sync scheduler (`api-gateway/infrastructure/sync-scheduler.ts`) | timer handle, stopped flag | start, stop, tick | core-service |
| Connectors (`core-service/application/contexts/connectors`) | connector rows, OAuth state nonces, credential vault | connect, callback, sync, disconnect | custody, vendor API, PostgreSQL |
| Subject erasure (`core-service/application/contexts/consent`) | erasure requests, PII rows, keys, audit | erase in five tiers, notice window | PostgreSQL, ClickHouse, KMS |
| Identity stitching (`core-service/application/contexts/identity`, `domain/identity/union-find.ts`) | edges, cluster registry, `customer_pii` stamps | insert an edge, union-find, name the components, stamp | PostgreSQL |
| Membership (`core-service/application/contexts/onboarding`, `api-gateway/.../make-team-router.ts`) | users, workspaces, members, invitations | onboard, invite, accept, revoke, change a role, remove, transfer, delete | PostgreSQL |
| Idempotent mutations (`api-gateway/domain/idempotency.ts`) | responses under a key in Redis | check, store | Redis |
| Daily recompute (`analytics-service/.../recompute_daily.py`, `silver_freshness.py`) | daily metric rows behind a materialized view, freshness log | gate, delete, insert .. select | ClickHouse |
| Insight agents and model gateway (`intelligence-service`) | answer cache, spend meter, decision log | look up, ask the model at most twice, charge, log, store | model, ClickHouse |
| Metric engine (`analytics-service`, `brain_metrics`) | none (read side) | metric queries | ClickHouse |
| Dashboards (`apps/web`, `apps/mobile`) | UI state | | api-gateway |

The vendor event's path: edge -> intake -> Kafka `integrations.*` -> raw archiver
-> bronze -> transform worker -> silver; beside it, Kafka -> realtime facts
consumer -> silver. Components share PostgreSQL and ClickHouse tables; no
transaction spans two stores, so most of what is hard lies between two steps.

### What is hard, and what correctness means

- **Transform worker.** A per-stream cursor over an append-only table keyed by a
  timestamp: ties, late rows, replays, several workers, poison rows, outages.
  Correct: the cursor never passes a row nobody decided (it does pass late rows and
  rows that tie: section 6); silver keeps up with the cursor; tenants are isolated;
  every row is eventually passed.
- **Raw archiver.** Offsets of several partitions are committed together, a
  failed insert is neither retried nor rewound, inserts may be ambiguous.
  Correct: below a committed offset nothing is unseen, and nothing waits for ever
  behind a message that failed.
- **Webhook intake.** The Kafka produce happens inside the PostgreSQL
  transaction, and its failure is swallowed. Correct: what is acknowledged to
  the vendor is stored or parked, and the topic ends with the stored row.
- **Connectors.** Credential and row change in separate transactions, and a sync
  holds a connector it read long before it writes it, by statements that name a vendor
  and leave the workspace to row-level security. Correct: CONNECTED rows have usable
  credentials, disconnected ones stay disconnected, a sync changes its own row only.
- **Erasure.** Four stores, no transaction, retried from outside, concurrent
  with stitching and new data. Correct: "completed" means erased everywhere.
- **Realtime facts.** One message goes into two stores with different rules for
  what wins; deliveries repeat, members overlap, failures are passed over. Correct:
  both stores tell of the same message, in the end of the newest.
- **Stitching.** Clusters grow together under ids that must outlive them, runs
  overlap, and an erasure takes edges away below them. Correct: one id, one
  component; nobody carries the id of a stranger.
- **Membership.** Every call decides by a role it read in an earlier transaction.
  Correct: no row refers to a missing one, nobody is in without an invitation,
  a transfer never loses the owner.
- **Daily recompute.** DELETE and INSERT .. SELECT are two statements without a
  transaction, behind a freshness gate, runs overlap, and the dashboards read a
  ReplacingMergeTree without FINAL. Correct: the newest figure the dashboards were
  given of a date is never taken back, no date is left empty without a cause, and
  what the merges keep comes to be right.
- **Model gateway.** Threads share a cache and a meter without a lock, around a
  call that may hang. Correct: an answer is never older than it may be, nobody is
  charged too much, every request ends.

PROJECT.json lists every component with its sources and status, and under
"hazards" the line of code at which each difficulty bites.

## 2. Modules

| Module | Models | State | Used by |
|---|---|---|---|
| `CircuitBreaker` | `domain/transform/circuit_breaker.py` | operators on one breaker cell | `TransformGraduation` |
| `TransformGraduation` | `transform_consumer.py`, `graduate_raw_event.py` | bronze, cursors, silver, breaker cells, the batch in hand | `MCTransform`, proofs |
| `GraduationLedger` | the promise of the worker | an edge in time, rows arrived, late and settled, marks | implemented by `TransformGraduation` |
| `RawArchiver` | `raw_archiver_consumer.py` | log, owners, positions, committed offsets, bronze copies, S3 | `MCArchiver`, proofs |
| `WebhookIntake` | `route.webhook.ts`, `webhook_servicer.py`, `webhook_intake.py`, the upsert and produce of `ingest.py` | token bucket, calls, row locks, rows, topic | `MCWebhook`, proofs |
| `ConnectorLifecycle` | `connector-use-cases.ts`, `oauth-state.ts`, `sync-use-cases.ts` | OAuth states, connection rows, custody, facts, requests | `MCConnector`, proofs |
| `SubjectErasure` | `erase-subject.ts`, `clickhouse-eraser.ts`, `dek-vault.ts`, part of `stitch-clusters.ts` | request, PII row, ClickHouse rows and mutations, key, runs | `MCErasure`, proofs |
| `RealtimeFacts` | `realtime-facts-consumer.ts` | log, subscribed members, owner, committed offset, positions, the order in PostgreSQL and in the two ClickHouse tables | `MCRealtime`, proofs |
| `UnionFind` | `union-find.ts` | functions on a forest of parents and ranks | `IdentityStitch`, proofs |
| `IdentityStitch` | `stitch-clusters.ts`, the edges and stamps of `erase-subject.ts` | edges, registry, stamps, runs | `MCStitch`, proofs |
| `Membership` | `onboarding-use-cases.ts`, `make-team-router.ts`, the team, transfer and deletion use cases | workspace, users, members, invitations, calls | `MCMembership`, proofs |
| `DailyRecompute` | `recompute_daily.py`, `silver_freshness.py`, the view of `bootstrap-ch.sql` | facts, freshness log, base table, current and stale rows of the dashboards' table, runs | `MCDaily`, proofs |
| `InsightGateway` | `application/gateway/client.py`, its use by `GetMorningBrief` | cache, meter, threads | `MCInsight`, proofs |

`MC*` modules only add model values. `*Proofs` modules hold theorems: each is about the
module it is named after, except that `IntakeProofs` has those about the way of a webhook
(`WebhookIntake`, `RealtimeFacts`) and `SubjectProofs` those about the subjects of a
workspace (`SubjectErasure`, `UnionFind`, `IdentityStitch`). An
operator whose comment begins "A bug" is never used by the specification: it is a
mutation of the definition after it, listed in PROJECT.json, that shows the
property of its run can fail.

**TransformGraduation.** A stream is a (workspace and vendor, event type) pair, a
row of `raw_event_transform_state`. `BeginTick` reads the cursors once;
`FetchBatch` is the bronze query (`received_at > cursor`, older than the grace
period, `ORDER BY .. LIMIT`); `CircuitOpen`, `Graduate`, `SkipRow`, `Reject` and
`Retry` are the outcomes of `_process_one_row`; `SaveCursor` is the one cursor
write at the end of a batch. Workers share the stores and hold no lock. Time is
an abstract clock; `Archive` lands a row any time after its timestamp, and rows of a
stream may share one. `late` remembers the rows that landed when their grace period
was over: the worker owes them nothing, since its cursor may be past them. Of rows that
tie it owes one, since LIMIT or a failing row may part them. The connection is in
autocommit: every statement is a step.

**RawArchiver.** `Poll` hands a message to the owner of its partition; `Insert` /
`InsertFails` are the ClickHouse insert with the S3 copy after it; `Commit` is
`consumer.commit()` without arguments, which covers every partition the member
owns; `CommitFails` separates the commit that is caught from the one that ends
the loop. An insert may fail at any time: a ValueError of it is taken for a parse error
and committed (`skip`), after any other error the loop asks for the next message. A
rebalance may take a partition away from a member in mid-message, and a lost reply of an
insert leaves the row there. A member that died or left its loop is `dead`: the group
gives its partitions to another (`Reassign`), and nothing in `src/` starts it again.

**WebhookIntake.** `Post` is the route with its token bucket, `Verify` and
`Reject` the servicer's outcomes, `Upsert`, `Produce`, `Commit` the intake's
transaction, which holds the row of the event (`lock`) until it ends. The vendor
repeats what was not answered with a 2xx, may repeat what was, and may send a new
body under an old id. `HangUp` is a vendor that no longer waits while the call
goes on: the route sets no deadline.

**ConnectorLifecycle.** Each use case is a request with one step per write:
`PutCredential` then `ConnectRow`, `Seal` then `DisconnectRow`, and for a sync
`BeginSync`, `ReadToken`, `WriteFacts` or `RestoreConnected`. The facts are inserted
with the workspace of the sync, and `pulled` says that this was done, be it for an empty
pull; the statements on the connection row name the vendor only and reach what
row-level security shows (`Visible`). A credential is known by its account. `Die` ends
a request at any step.

**SubjectErasure.** One subject; overlapping runs of `eraseSubject` go through
claim, wipe (tier 1), delete and count per ClickHouse table (tiers 2 and 3), shred
(tier 4), audit (tier 5) and the final status. A DELETE is a mutation that dooms
the rows present and removes them later. `BypassRLS` tells the two kinds of
database role apart: under a role with row-level security `withSuperadmin` sees
no row of `customer_pii` and may insert none in `audit_log`. The passing run
takes a bypassing role, as the integration test does (`postgres`). `key` is "elsewhere"
when the vault has it under another salt version or in another process: the destroy call
answers not_found, and the tier is verified all the same. `KnownUser` are the calls that
name a user: the audit entry of any other names a sentinel that the foreign key of
`audit_log.user_id` refuses.

**RealtimeFacts.** One partition, as one workspace has. `Boot` is a start whose connect
and subscribe succeed; after a failed one the process runs on without the topic and never
tries again, so that for the group it is not there. `Join` gives the partition to a
subscribed member. `ProduceMessage` stands for the producers of the topic
(`webhook_intake.py`, `ingest.py`), the first of which `WebhookIntake` has in detail.
`Take` is the delivery and
its early returns (a message without value, not an order, not to be parsed or
mapped is `sound = FALSE`), `WritePostgres` the transaction, `InsertOrders` and
`InsertLines` the two ClickHouse inserts, `PostgresFails` and `InsertFails` the two
catch branches. A failed transaction may have been committed. kafkajs commits
between two messages what is resolved (`Commit`), nothing before that; a member
that lost the partition ends the message in its hand, as kafkajs lets it. A stored
order is the number of the message it tells of.

**UnionFind, IdentityStitch.** `Unite` is `union` with the path compression of its
two finds; `Forest` applies it to the edges of a list one after another, and
`BuildComponents` is compared with the components as graph theory has them, for every
table of edges in every order.
A run of `stitchClusters` is `ReadEdges` (BEGIN and the edges), `Resolve` (the
registry is read, the plan made), `Commit`; `Erase` is the part of tier 1 that
takes a subject's edges and stamp away. Creation times count as an order only and are
renumbered by rank when a run begins; a fresh id is the smallest unused one, a
UUID being one nobody has. `Built`, `Joined` and `Right` are tables, as sets of pairs,
that TLC computes once.

**Membership.** A call is a `Look` (role of the caller, status of the invitation),
then a write, each in a transaction of its own; the router's checks of caller and
target are further steps between, and so are the two role reads of a transfer. Foreign
keys are part of the writes: a delete they refuse is a call that ends, and the foreign
keys of tables outside the module may refuse any (`DeleteRefused`, `Reply`). `hit`
remembers that someone demoted, removed or
deleted an owner, which the code allows.

**DailyRecompute.** A run is `Begin` (gate and expenses), `Delete`, `Read` and
`Write`: INSERT .. SELECT sees the facts when it starts and its rows appear when it
ends. `older` and `beaten` say which statements began before or after: merges keep the
row of the statement that started last. In the dashboards' table `current` is that row
and `stale` what lies beside it until a `Merge` takes it away; `Given` is what
`query_gateway.py:193-199`, which reads without FINAL, returns of a date: all of them.
`WriteFailsInView` is an insert that reached the base table and not the view. `CallAll`
is `--all`.

**InsightGateway.** A thread goes through `Lookup`, `Evict`, `CheckCap`, the
attempts (`Answer`, `Unfaithful`, `Raises`, `TimesOut`), `ReadMeter` and
`WriteMeter` (the two halves of `+=`), `Log`, `Store`. Time is kept as ages, counted
to one tick past the largest that matters.

## 3. Runs

| Run | Question | Bounds | Result |
|---|---|---|---|
| `transform_worker` | Is a row ever passed undecided, silver ever behind, a tenant ever hit by another's failures? | 1 worker, 2 tenants, 4 kinds of payload, 2 rows, 3 instants, batch 2, grace 2, breaker opens at 2, 1 restart | holds |
| `transform_fleet` | Do two workers implement the ledger, and is every row passed in the end? | 2 workers, 1 stream, 2 rows, 2 instants, batch 1, grace 1, breaker opens at 1 | holds |
| `archiver_group` | Is a message skipped unseen, doubled without cause, or stuck? | 2 members, 2 partitions, 2 messages in one or both, 2 interruptions | holds |
| `webhook_intake` | Does the topic end with the row, and is every 2xx stored or parked? | 2 calls, 2 events (1 of interest), 2 bodies, 1 failure, 1 repeat | holds |
| `connector_requests` | Do states work once, do credentials stay where they belong, and does a sync change its own row only? | 2 requests, 2 workspaces, 2 vendors, 2 accounts, 2 states | holds |
| `connector_resurrected` | Does a disconnected row stay disconnected? | 2 requests | violated |
| `erasure_ladder` | Is "completed" evidence, is the window respected, does it get done? | 2 runs (one with a user), 2 tables, 2 faults, 2 late rows | holds |
| `daily_rollup` | Do the dashboards ever lose the newest figure, and is every gap explained and closed? | 2 runs (one a replay), 2 dates, 2 edits, 1 death or failed lookup | holds |
| `insight_gateway` | How old may an answer be, is the meter ever too high, does every request end? | 2 threads, 1 window, 4 requests, cap 2, entries of 2 ticks, attempts of 1 tick, 1 restart | holds |
| `identity_stitch` | Are components right, ids shared by the linked only, kept by the older, and one in the end? | 4 customers (one row late), 3 edges of a chain, 2 runs, 5 ids, 1 erasure | holds |
| `membership` | Do rows dangle, does anyone get in uninvited, is the owner lost? | 2 calls, 3 users, 1 invitation, 2 roles | holds |
| `realtime_facts` | Is a message skipped unseen, do the stores part, do they get to the newest message? | 2 members, 3 messages of 1 order, 2 timestamps, 2 interruptions | holds |

**Why the bounds are enough.** The hazards are pairwise: two rows of a stream
(one at the limit of the batch), two workers, members, threads or stitchers (one
slower), two requests (one between the steps of the other), one fault between two
steps. Each instance has the pair, the fault and what is needed to recover from it.
Three more are of that kind: `identity_stitch` needs four customers, so that two
clusters of two grow together by their largest node and an erasure splits a chain
in the middle; `realtime_facts` needs three messages, so that one is repeated
between two others; `membership` has three users, an owner, an invited one and a
third who acts meanwhile. With two invitations of one role `membership` holds as
well (9.2 million states, too many to keep as a run). The theorems of section 5
remove the bounds for the properties they state. Bounds without a counterpart in
the code (`MaxTime`, `MaxEvents`, `MaxRestarts`, `MaxMessages`, `MaxProduced`, `MaxInterruptions`,
`MaxFaults`, `MaxRepeats`, `MaxArrivals`, `Bodies`, `MaxEdits`, `MaxRequests`,
`MaxEdges`, `MaxErasures`, `MaxLog`) end the input: `CHECK_DEADLOCK FALSE` stands
where a system without input rests. `connector_requests` and `membership` use
symmetry; runs with liveness do not.

**Conditions of the passing runs.** In `transform_worker` and `transform_fleet` rows
land as late as they like and tie as they like; `NoSilentGap`, `ImplementsLedger` and
`SilverKeepsUp` say for which rows they promise what, and section 6 what happens to the
others. The dead-letter produce succeeds there (`DlqFaults = FALSE`) to keep the state
space small; the theorems cover both values. `daily_rollup` assumes that the `now()`
defaults of base table and view are those of the statement's start, and that no two
statements start in the same second. `erasure_ladder` has a role that bypasses row-level
security. Several properties name what they exclude (`late`, `Ties`, `torn`, `gone`,
`hit`, `calm`, `Blamed`): each of these was taken out once, and TLC then refuted the
property (for the ties of `SilverKeepsUp` it needs a third row).

## 4. Fairness

- *Workers, members, calls* run in loops or on a scheduler that does not stop:
  weak fairness of the step of each. Of the archiver's group only the coordinator is
  relied on, which takes the partitions of a dead member away (`Reassign`). Nothing
  under `src/` starts a consumer again whose loop has ended: `StartAgain` may happen and
  need not, and `EventuallyHandled` excuses a group of which nobody is left.
- *A statement tried again and again does not fail for ever*: strong fairness of
  the transform worker's fetch, upsert and cursor write. Without it a permanent
  outage of PostgreSQL refutes any progress.
- *No partition starves*: strong fairness of `Poll` per partition, which is what
  the Kafka fetcher's rotation gives.
- *The vendor keeps sending* an unanswered delivery, and finds a free call now and
  then: strong fairness of `Retry`. This is the vendor's behaviour, not the code's.
- *The erasure is called for again until it is done*: weak fairness of `Begin`.
  Nothing under `src/` calls `eraseSubject`; its callers are operators or a job to
  come. ClickHouse works off its mutations and the clock runs.

- *Realtime facts*: kafkajs runs its loop and commits (weak fairness of each member's
  `Step` and `CommitOffset`), and the group finds a subscribed member for the partition
  (weak fairness of some `Join`). Nothing makes a process boot, and none whose
  subscription failed subscribes later: `Boot` is not fair, and `EventuallyNewest`
  excuses a group without a subscribed member. A failed write is not retried, so none
  needs strong fairness.
- *Stitching*: the job is run again and again, a run goes on, and aborts come to an
  end; with aborts for ever, nothing would be stamped.
- *Daily recompute*: a run goes on, and nothing else is fair. Nothing in `src/` calls
  `--all`, so that it is called again and again is the antecedent of `EventuallyShown`;
  a replay alone would not do, for it writes what the log lists.
- *Model gateway*: threads run and time passes. The model owes nothing: the timeout
  ends an attempt it does not answer.

No fairness is assumed of failures, crashes, repeats or user requests, and
`ConnectorLifecycle` and `Membership` have no liveness property: nothing there must
happen.

## 5. Theorems

Checked by TLAPS, for every value of the constants that meets the named
assumptions of the modules.

| Module | Theorem | Says |
|---|---|---|
| `TransformGraduationProofs` | `TypeCorrect` | `WellFormed` always: types, and consistent breaker cells |
| | `NoGap` | `NoSilentGap` always |
| | `Refinement` | the worker implements `GraduationLedger` (`ImplementsLedger` of the runs) |
| | `Isolated` | `TenantIsolation` always |
| | `OneWriter` | under Solo, cursors never move back and `NoStaleUpsert` holds |
| | `KeepsUp` | under Solo, `SilverKeepsUp` always |
| `RawArchiverProofs` | `TypeCorrect`, `Monotone` | types; committed offsets never move back (`CommittedMonotone`) |
| | `NoneSkipped` | `NothingSkipped` always |
| | `Duplicates` | `DuplicatesBounded` always |
| `IntakeProofs` | `Types`, `Locking` | types of the intake; a row is held exactly by the call writing it |
| | `Acknowledged` | `NothingDropped` always |
| | `LogMatchesRow` | `LogFollowsRow` always |
| | `FactsTypes` | types of the consumer, and where its members may stand |
| | `NoMessageSkipped` | `NothingSkipped` of `RealtimeFacts` always |
| | `StoresTogether` | `StoresAgree` always |
| `ConnectorProofs` | `TypeCorrect`, `OneUse` | `TypeOK`, `StateUsedOnce` always |
| | `OwnCredential`, `OwnRows` | `ConnectedWhereAsked` always, and no step violates `OwnRowsOnly` |
| | `Agreement`, `Synced` | `NoHiddenCredential`, `SyncedMeansPulled` always |
| `SubjectProofs` | `TypeCorrect`, `Patience`, `Evidence` | `TypeOK`, `NothingBeforeWindow`, `CompletedMeansErased` of the erasure always |
| | `NeverWhenRefused` | no request is completed under row-level security, nor if no call names a user there is (section 6) |
| | `LadderOrder` | under a role that bypasses row-level security, `WipedFirst` always |
| | `ComponentsOfAnyList` | `BuildComponents` of any list of edges is the set of connected components |
| | `ComponentsAlwaysRight` | `ComponentsRight` always |
| | `StitchTypes` | `StitchTypeOK` always, the renumbered dates included |
| | `NoStrangersId` | `SameIdMeansLinked` always |
| | `OldestSurvives` | no step violates `OlderWins` |
| `MembershipProofs` | `TypeCorrect`, `NoDangling`, `Admission`, `Ownership` | types; `NoOrphans`, `MembersAdmitted`, `OwnerUnlessHit` always |
| `DailyProofs` | `TypeCorrect`, `Gaps`, `Freshness` | types; `GapsExplained` always, and no step violates `NeverOlderFigures` |
| `InsightProofs` | `TypeCorrect`, `Recent`, `Uncharged` | types; `AnswersAreRecent`, `NeverOvercharged` always |

**The inductive invariants**, and why the property alone is not enough:

- `NoGap`: a cursor is written at the end of a batch from what was decided inside
  it, and rows keep landing meanwhile. `GapInv` adds, for every worker in a batch,
  that all rows of the stream up to `last` and above the snapshot are decided or
  still in the batch or tie with one that is, that the snapshot itself was free of
  gaps, and that the batch lies beyond the grace period (`AllCold`), so that whatever
  lands below it from now on is `late`. The only condition on rows is in the property:
  no theorem assumes that rows are in time or do not tie.
- `Refinement` uses the same invariant: a cursor write maps to `MoveMark`, whose
  guard is what `GapInv` and `AllCold` provide.
- `OneWriter`: nothing locks a cursor, so the theorem is about the deployment the code
  assumes, one worker (`Solo`); with two, a stale snapshot moves a cursor back. `Fence`
  says that the snapshot of a stream the worker has not looked at yet is the cursor, and
  that what it has in hand lies beyond.
- `KeepsUp`: a lost cursor write makes the worker replay older rows over newer ones, so
  silver may go back for a while. `KeepInv` says that the batch is in order (`Sorted`),
  that a row upserted before that ties with none is in the batch again if a later one is,
  or is passed (`Whole`), and that silver reflects every such row behind the point the
  batch has reached (`Kept`). Late rows do no harm: one not passed is read in its order.
- `Isolated`: `IsolationInv` counts a failed row of the tenant for every cell
  that has failures or is not closed.
- `NoneSkipped`: the position runs ahead of the commit. `Seen` says that every
  event up to the position of a partition is archived, failed, or not committed and in
  the hand of the owner, who may have died with it (`InHand`).
- `Duplicates`: `Bounded` weighs a message by the rows it has, the members that hold it
  unarchived, and one if the position is
  still to pass it or its owner has stopped; a poll moves weight, and only
  an interruption, which is counted, adds to it.
- `LogMatchesRow`: while a call holds a row, topic and row differ. `LockInv` says
  who holds it, `LogInv` that the topic is what the row is about to be.
- `NoMessageSkipped`: as for the archiver, the position runs ahead of the offset. `DealtInv`
  says that all below a position or the offset is dealt with (written, failed, not sound,
  or passed by the first member), and so is what is in a hand once PostgreSQL has answered.
- `StoresTogether`: the stores differ between two of the three writes, and a message
  delivered again lags behind newer ones. `ShownInv` says, for every order that is not
  blamed, that each of the three rows shows a message of the order, none older than the
  committed ones or than the last message the owner has taken as far as that row;
  `StrayInv` that a member writing on without the partition has the order in its hand
  blamed for it.
- `OneUse`, `OwnCredential`, `Agreement`: a request carries its right to write between
  two steps; `StateInv`, `OriginInv` and `AgreeInv` say what a request in flight
  may still do and which updates of a connection are open.
- `Evidence`: a run decides on counts it took earlier. `EvidenceInv` says, for every
  run past a tier with `allZero` still true, what is gone for good by then, and
  that only rows outside its counts can have come since.
- `ComponentsOfAnyList`: union by rank keeps the tree sound only together with the ranks.
  `Forests` are the functions of parents whose rank rises from every child to its parent,
  so that no path meets a node twice and every path ends in a root before the nodes
  run out (`RootsAbove`), and in only one (`OneRoot`). `Finds` says that compression moves no root,
  `Unions` that a union makes two trees one. `Knows` ties the forest to the edges so far:
  the ends of each have one root, and a node is linked to its root; that roots are equal
  exactly for linked nodes follows (`KnowsAll`). The induction along the list, and along a
  path, is stated without an operator as parameter: strict inclusion of finite sets is
  well founded, so a set of numbers has a smallest member (`Smallest`), so what
  holds at 0 and is handed on holds throughout (`Upwards`), so what is computed step by
  step exists (`StepByStep`), as the recursive functions `Way` and `Forest` need it.
- `NoStrangersId`: an id travels through entries and plans before it shows on a row, and a
  plan outlives the edges it was made from. `CarryInv` says that any two customers that
  carry an id, on the row, in the registry or in a run's plan, are linked by edges seen so
  far; `RunInv` that a run's components are disjoint, linked inside, and what its plan is
  for. Only `Resolve` gives an id to a new carrier, and it takes it from a customer of
  the component, or one that is nowhere (`Unused`), for one component only.
- `OldestSurvives`: what a commit does to a customer was settled two statements earlier.
  `CalmInv` says that, as long as it is calm, one run is under way, every id on a row has an
  entry, whoever keeps the id of a customer of a component is in it (from `CarryInv`
  at the time of reading), and the plan for a component is the id of its oldest entry.
- `NeverWhenRefused`: with every audit entry refused no run reaches the final stamp, so the
  status can only become failed.
- `NoDangling`: a call writes by what it looked up before others wrote. `Aimed` says
  what a call in flight still has in its target and claim, whatever was deleted
  meanwhile; `NoOrphans` is inductive together with it and the types. `Admission`
  and `Ownership` need no more than that.
- `Freshness`: a statement reads early and writes late. `Dated` says that the row to be
  kept, or a hand, is no newer than the facts; `Queued` that of two statements under way
  one is among the `older` of the other and has read no newer facts; `Ahead` that the row
  to be kept of a date is no newer than what a statement under way has read, unless one
  that began later has written the date since; `Behind` that the stale rows of a date,
  and those a beaten statement will add, are no newer than the one to be kept. So what
  a merge takes away is never the newest figure.
- `Gaps`: the property is inductive with the types; `Explained` states it date by date,
  for the writes that meet dates another run has deleted since.
- `Recent`: the answer is given several ticks after the data was read. `Narrated` bounds
  the age of what a thread holds by the attempts it has made, `Kept` that of an entry
  by its own age.
- `Uncharged`: two threads may both add to what one of them read, so the meter may lose,
  but what a thread is about to add must have been paid. `Metered` says that a function
  exists that weighs every set of threads by what they have still to add, additively,
  such that meter and weight together are covered by `paid`: a sum over the threads
  without a recursive definition.

**Only model-checked.** The liveness properties (`Drained`, `EventuallyHandled`,
`Delivered`, `EventuallyErased`, `EventuallyShown`, `EveryRequestEnds`,
`EventuallyOneId`, `EventuallyNewest`): liveness under fairness and ENABLED are out of
this prover's reach. Every other property a passing run checks is a theorem. No module
declares a recursive operator.

## 6. What the models show of the code

Most of what the documents say of this code holds, and section 3 shows it. The
following was refuted by TLC on the modules as they are. The first has a run of its
own, `connector_resurrected`, and PROJECT.json quotes the lines; for the others the
definition is in the module, and putting it into a configuration of the module's MC
module shows the behaviour.

1. A sync that ends after a disconnect sets the row back to CONNECTED
   (`SyncKeepsStatus`).
2. Rows that land after the cursor has passed their timestamp, and rows of one
   `received_at` that LIMIT or a failing row splits, are skipped for good
   (`NothingPassedOver`). `received_at` is stamped at ingest and the archiver may lag for
   any time, while the worker waits 5 seconds.
3. A failed bronze insert is never delivered again once a later message commits, though
   the loop says "Only commit after successful CH insert" and "allow Kafka to re-deliver"
   (`raw_archiver_consumer.py:451`, `:466`). `NothingSkipped` without `m \in failed` is
   refuted; one that raises ValueError is even committed itself, as poison.
4. The stitcher stamps a row that was tombstoned after it read the edges, and nothing
   clears it (`TombstoneUnlinked`).
5. Under the deployed role tier 1 of the erasure does nothing and reports verified, so
   the later tiers run first (`WipedFirst`, with `BypassRLS = FALSE`; under the other kind of
   role it is the theorem `LadderOrder`).
6. A repeat of an old webhook body overwrites a newer one, though a duplicate is said to
   be a no-op (`DuplicateIsNoOp`).
7. A replay rewrites stale dates between two fresh ones, though `recompute_daily.py:60`
   says that dates not in the log are skipped (`ReplayWritesFreshDates`): the gate
   narrows the window to the first and last fresh date.
8. Two threads that find the same old cache entry both evict it, and the second raises
   KeyError, which `complete` does not list (`LookupNeverFails`).
9. A MANAGER may demote or remove an OWNER who was promoted between the check and the
   write, though `make-team-router.ts:73` says that a "MANAGER cannot change an OWNER"
   (`ManagersTouchNoOwner`).
10. A failed ClickHouse insert is not made up for by "the next re-delivery"
    (`realtime-facts-consumer.ts:513`): its offset is passed like that of any other
    message, and the order stays behind until a new message of it comes
    (`ClickHouseCatchesUp`).
11. A subscription that fails at boot is not retried, though the comment there says it
    will be: `run()` starts without a topic (`realtime-facts-consumer.ts:442-448`;
    `EventuallyListening`).
12. The dashboards may be given several rows of one date, older figures beside the newest:
    `query_gateway.py:193-199` selects without FINAL from a table that nothing optimizes
    (`OneRowPerDate`).
13. A completed erasure may leave the key: a destroy call that answers not_found or
    skipped counts as verified (`erase-subject.ts:424-438`), though `dek-vault.ts` says
    that destroying the key "renders ciphertext permanently unreadable" (`KeyGone`).

Seen while modelling, and not stated as a property:

- *Transform worker.* A mapper that raises KeyError or TypeError takes the retry branch
  (`transform_consumer.py:383`) and blocks its stream until the breaker opens, although
  `transform_registry.py:151-153` says mapper errors go to the dead letters. An outage
  opens the breaker in the same way, and rows that would have succeeded are
  dead-lettered. A dead-letter produce that fails is logged, and the cursor moves on. A
  stream without a row in `raw_event_transform_state` is never read, and nothing in
  `src/` inserts one. Two event types of one vendor write the same order, in an order
  nobody fixes.
- *Webhooks and pulls.* A webhook whose produce fails is accepted and never produced again
  (`webhook_intake.py:268`); a failed lookup of the shop is answered 200
  (`identity_resolver.py:129`). `ingest_batch` commits its cursor with the rows and
  produces after it, a failure being logged only; it has no caller. Two syncs of one
  connection upsert without versions: the slower one wins.
- *Erasure.* A first call of `eraseSubject` inserts the request and, in the same
  transaction, throws because the window is open: no request stays on record outside of
  tests. The model starts from a recorded one. A call without a user writes its audit
  entry for a sentinel user (`erase-subject.ts:207`) that nothing in `src/` inserts, so
  the foreign key refuses it and the request fails each time.
- *Raw archiver.* When the loop is left (`raw_archiver_consumer.py:464`: a commit that
  raises in the branch of poison messages) nothing in `src/` starts it again.
- *Realtime facts.* Only malformed messages are said to be skipped, but any transient error
  of PostgreSQL passes the offset too. The stores may part in the four ways `Blamed`
  names: after a failure, with a timestamp that goes back, after a member wrote on
  without the partition, and behind a death before the first commit
  (`fromBeginning` is false and nothing is committed until something is resolved).
- *Stitching.* Outside of tests nobody calls `stitchClusters` or `insertIdentityEdge`,
  and nothing inserts into `customer_pii`. After an erasure a component may split and
  both parts keep one id, or one of them gets a new one; runs that overlap may renew an
  id. `OlderWins` is therefore stated for the time before (`calm`).
- *Membership.* Two users who look at one invitation at once are both admitted, and a
  revoked invitation may become ACCEPTED. The update that sets EXPIRED is rolled back by
  the throw that follows it, so the invitation stays PENDING and `inviteTeamMember` keeps
  returning its token. Owners may demote or remove themselves, and two transfers at once
  leave two owners. Whoever has an entry in `audit_log` cannot delete the account, and a
  workspace with an erasure request cannot be deleted (`bootstrap-pg.sql:2585`, `:2841`).
  `deleteAccount` also fails for whoever invited somebody or created a workspace
  that exists, although `user-profile-use-cases.ts:144` says "FK preserves row, nulls
  invited_by_id".
- *Daily recompute.* A date whose facts vanish keeps its old row in the dashboards'
  table. Statements of one second tie. `--all` stops at
  the first workspace that raises and covers the dates between the first and last order
  only. A failed lookup of the expenses counts them as 0. `emit_silver_freshness` and the
  multi-currency guard have no caller in `src/`.
- *Model gateway.* The "monthly cap" is a sum since the process started, one per process.
  What the first of two attempts, a vetoed or a raised answer cost is not recorded, and two
  threads may lose an update of the meter. The gateway `health_server.py:104` builds has no
  decision-log writer. A cache key says nothing of the data, so a slow thread may put an
  older answer over a newer one, or evict one that is fresh. Purges have no caller.

## 7. Not modelled

Read-only parts (dashboards, fact analytics, metric queries, admin and store
browsers), single-statement settings, pure functions (PII gate, mappers, money,
normalizers), vendor clients, boot checks, deployment, and empty scaffolds.

Three components that do change state are left out for a reason of their own:
`ingest_batch` has no caller in `src/`, so which window it would continue from is
not to be told from the code (what it shares with the webhooks is in `WebhookIntake`);
the sync scheduler is started once and stopped once by `main`, one chain of timers with
a sequential tick, and the overlap of its syncs with those of users is in
`ConnectorLifecycle`; the idempotent mutations check, write and store without a lock,
so that two at once both write, and what they write is behind a stand-in.

Within the modelled parts: formats and payloads, logging, metrics, signatures
(deliveries are genuine), token contents, S3 compression and keys, the fields of an
order and the arithmetic on them, the SQL of a daily row, prompts and the validation of
an answer, the tier of a workspace, the cluster statistics, users of several workspaces.

## 8. Plan

Order: first what loses or corrupts data, then what schedules it, then the rest. The
modules of section 2 are done. Next:

1. Composition of `WebhookIntake` and `RealtimeFacts`: the topic of the first is the log
   of the second, so that one order in PostgreSQL has two writers, the intake and the
   consumer of its own message. Property: the row ends with the newest body.
2. Abstract specifications worth a refinement: `GraduationLedger` for `RawArchiver` and
   `RealtimeFacts` as well, which promise the same of their offsets, an atomic erasure
   for `SubjectErasure`, last-writer-wins for the two stores of `RealtimeFacts`.
3. Idempotent mutations, once their data plane is a real one; the pull, once it has a
   caller.
