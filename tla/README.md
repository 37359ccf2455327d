# Verification of the Lenso Feature Flag plugin

TLA+ specifications of the Feature Flag backend in this repository, TLC
configurations that model-check them on small instances, and theorems about
them that TLAPS checks for every value of the constants. Paths below are
relative to the repository's root; `core`, `d1` and `postgres` are
`crates/lenso-feature-flag-{core,d1-plugin,postgres-plugin}`.

## The system

| part | state it keeps | operations | who calls it |
|---|---|---|---|
| ruleset rules, `core/src/domain.rs` | none (pure) | `validate_ruleset`, `choose_variant` | the stores |
| service, `core/src/lib.rs` | configuration | `authorize`, then one handler per operation | applications, administrators, the agent tools |
| store contract, `core/src/store.rs` | flags, environments, rulesets, command rows, receipts | seven commands, three reads | the service |
| D1 store, `d1/src/storage.rs` | the tables, an epoch, a guard table | the contract, by two batches per command | the D1 plugin |
| Postgres store, `postgres/src/storage.rs` | the tables | the contract, by one transaction per command | the Postgres plugin |
| lifecycle, `d1/src/lib.rs`, `postgres/src/lib.rs` | prepared or not; the pool | `activate`, `deactivate` | the host |
| agent tools, `crates/lenso-feature-flag-admin-agent-tools-plugin` | none | eight tools, each one admin call | an agent |
| contracts, operators, smoke application | none of their own | generated types, DDL, a qualification harness | |

A request passes the service (caller list, Auth assertion, membership, access
decision, validation of keys and sizes), which hashes it and hands a store one
*command*: who asks, for which operation, under which idempotency key, and the
hash. The store either replays the response recorded under that key, refuses
with a domain failure, or writes the command row, the response and the
command's own rows together. Everything else a client sees is a backend
failure, which says nothing about whether the command took effect.

What is hard here is the D1 store. It has no interactive transactions: it reads
a *snapshot* batch, plans in memory, and submits one *write* batch. Other
clients run between the two. A guard statement compares an epoch that every
write batch advances, so a batch planned on outdated rows fails as a whole; a
submission that reports an error is reconciled by reading the command row, and
never resubmitted. The batch may have committed before the error, may commit
later, or never.

The Postgres store runs one transaction per command under READ COMMITTED, so
each statement reads what is committed when it runs. It relies on locks: the
unique index of the command rows, `FOR UPDATE` on the flag and then on the
environment, `FOR SHARE` on each evaluated flag. Rows that do not exist yet
cannot be locked, and a `COMMIT` may report an error before the server decides.

What has to hold, by part:

* rulesets: whatever publication accepts, evaluation serves, with a value of
  the flag's type, in exactly the published shares, rules before rollout before
  fallthrough;
* tables: histories without gaps or forks, revisions that count commands,
  receipts that are exactly the recorded evaluations and stay explained by the
  history, finality of archiving;
* replies: a success is the recorded response of that request, a retry gets the
  same answer, a refused command does not take effect later;
* D1: all of that although plan and write are two batches, and a client that
  keeps retrying is answered;
* Postgres: all of that although rows are read one statement at a time, and
  without deadlock;
* service: nobody acts on, or learns of, an organization without having been a
  member and permitted during the call, and the stores are asked only what they
  accept;
* listings: a client that follows the cursors sees every row once, as far as
  the store can promise it;
* lifecycle: after deactivation nothing runs on what it closed, and nothing
  waits for ever;
* agent tools: a definite refusal may be trusted after attempts of unknown
  outcome.

`PROJECT.json` lists the hazards of the code line by line with the properties
that watch over each.

## The modules

| module | what it is |
|---|---|
| `Rulesets` | `validate_ruleset`, `choose_variant` as operators |
| `RulesetDrafts` | a draft that grows entry by entry; the properties of the rules |
| `FlagDatabase` | requests, rows, `Plan` (the planning half of every command), `Commit`, the constraints, and what must hold of the tables together (`Sound`) |
| `StoreCalls` | calls, replies, failures |
| `FlagStore` | the abstract contract of a store |
| `D1Store` | the D1 store, batch by batch; it implements `FlagStore` |
| `D1Retries` | `D1Store` with clients that retry, under fairness |
| `PostgresStore` | the Postgres store, statement by statement; it implements `FlagStore` |
| `Service` | the service, from authorization to the answer, over `FlagStore` |
| `AgentTools` | the tools of an agent and the intents it drops, over `Service` |
| `Listing` | pages and cursors over the row numbers of both stores |
| `PostgresLifecycle`, `D1Lifecycle` | activation and deactivation with calls in flight |
| `Samples`, `MC*` | values and requests for TLC |
| `DatabaseTheorems` | what a ruleset and a plan guarantee; used by the proofs about rulesets, stores and the service |
| `RulesetProofs`, `FlagStoreProofs`, `D1Proofs`, `PostgresProofs`, `ServiceProofs`, `ListingProofs`, `LifecycleProofs` | theorems and proofs |

They compose as follows. `FlagStore` is what both stores implement and what
`Service` is built on: `Service` runs its actions as a module instance, and
`ImplementsStore` says that behind the service it behaves as specified. So a
property of `FlagStore` holds of a service over either store. `AgentTools` extends
`Service` with the callers' side. `Listing` and the two lifecycles are separate,
because they share with the stores only what they state at their top: the order
of row numbers, and the statements a call makes.

How they correspond to the code:

* A **request** stands for its hash: two requests are equal exactly when the
  code's hashes are, SHA-256 being taken as injective. Names, descriptions,
  timestamps and random identifiers are left out. There is one organization;
  `expected = 0` in `put_environment` is an absent `expected_revision`. The
  requests are those the handlers of the service let through: positive
  revisions, non-empty batches that name no flag twice.
* A **row** that does not exist has revision 0. `Plan(db, request)` is the code
  between the replay and the commit of each command, in the order of its
  checks; it is refused with the failure the code returns, or carries the rows
  to write and the response.
* `FlagStore` has three variables: the tables, the call of each client, and
  `abandoned`, the requests whose calls are over but whose transaction may
  still happen. `Execute` is a command's transaction, `Reply`, `Conflict` and
  `Refuse` are the definite answers, `Postpone` (Postgres only) asks the caller
  to come back for the recorded answer, `Fail` is the indefinite one.
* `D1Store` keeps the tables, `feature_epoch`, the `row_seq` of the flags, and
  for every client where its call stands: `snapshot`, `submitted` (the write
  batch is under way), `applied` (it committed, the answer is under way),
  `reconcile`. `stray` holds batches that nobody awaits any more. One D1 batch
  is one step. `Snapshot` covers the read batch and what follows it up to the
  submission, because nothing is awaited in between. `BatchApplies`,
  `BatchRejected`, `BatchLost`, `StrayArrives` and `StrayDropped` are the D1
  binding, which is not part of the repository: a batch is atomic, and one that
  reports an error was applied, will be, or never is. `AcknowledgeLost` is an
  answer that `D1Binding::batch` cannot read.
* The refinement maps `abandoned` to the requests of the stray batches that
  carry today's epoch. A stray batch with an older epoch can do nothing, so the
  contract has forgotten it; a batch that applies fences off all others, which
  is why `Execute` may forget any part of `abandoned`.
* `PostgresStore` keeps the committed tables and, for every client, its
  transaction: the next statement, the locks held and the rows `seen`. One
  statement that reads or waits is one step; those that only write rows the
  transaction already holds show their effect at the commit (`PlanOf`, the plan
  on the rows seen). The two reads of `evaluate_one` after the share lock are one
  step, because an environment is never deleted and a ruleset implies it. A
  statement runs when the locks it needs are `Granted`; an insertion waits for
  whoever inserted the same key, so a unique violation means that the other
  transaction has committed, and `OperationInProgress` that the command has just
  been recorded. The lock `SELECT ... FOR UPDATE` takes on a recorded command
  row is left out: nothing else wants it but a replay. Rollback after a refusal
  releases the locks at once. `orphans` are the transactions whose `COMMIT`
  reported an error; they keep their locks until the server commits them or
  rolls them back, and map to `abandoned`. The server itself (`Granted`,
  `CommitLost`, `OrphanCommits`, `OrphanRollsBack`) is not part of the repository.

* `Service` keeps, besides the store, the `session` of each client: `membership`
  and `permission` while the two services are asked, `authorized`, then
  `submitted` or `answered`. One stretch between two awaits is one step.
  `facts` are the memberships and permissions that hold; `Gain` and `Lose`
  change them at any time, and the membership and access services, which are
  not part of the repository, decide on what holds when they are asked. An
  assertion is one bit (genuine or not), an operation and a subject. The bounds
  of keys, texts and contexts are one verdict of a call; the bounds that relate
  the parts of a request (unique flags, positive revisions, lengths of a
  ruleset) are checked. `held` and `entitled` are auxiliary: they
  remember which facts held during each call and which requests entitled calls
  made. Row keys belong to one organization each, as in the tables.
* `AgentTools` adds the tools' names, execution classes and errors, and `dropped`,
  the intents agents gave up because of a definite answer. That a host runs an
  `Exclusive` tool alone is assumed of the host.
* `Listing` keeps the visible rows by their `row_seq`, the numbers each open
  transaction has drawn, and what each client has listed. Filters are
  represented by which rows match; a page is one SELECT, at one instant.
* `PostgresLifecycle` numbers the pools by generation. A call takes the handle
  of today's pool when it starts, keeps it through authorization, and asks it
  for a connection in `begin`. The pool (sqlx) is external: once closed it lends
  nothing, and `close` returns when every connection has come back.
* `D1Lifecycle` has the shared cell `prepared`, the calls with or without a
  binding, and the schema, which an operator may migrate at any time.

The definitions named as mistakes to detect (`RolloutStopsLate`,
`AdmitsUnfenced`, ...) are deliberately wrong variants of the definition that
follows them. No specification uses them; substituted for it, each must
make TLC find the property `PROJECT.json` pairs it with violated.

## The runs

| run | instance | result |
|---|---|---|
| `rulesets` (`MCRulesetDrafts`) | two types, two variants, two attributes, five rules over all four operators, shares -1, 1, 3, 4 of four buckets, at most two entries of each kind | passes, 95 thousand states |
| `rollout_overflow` (`MCRolloutOverflow`) | the same with shares 1 and the greatest integer | finds an accepted rollout outside its schema |
| `contract` (`MCFlagStore`) | one client, eight requests of five operations on one flag, after a setup with a second, published flag | passes, 164 thousand states |
| `d1_store` (`MCD1Store`) | two clients, one stray batch; empty tables, with creations that race and reuse a key, and tables in use; eleven requests | passes, 444 thousand states |
| `d1_retries` (`MCD1Retries`) | three clients, three requests, two faults of the binding | passes, 164 thousand states, with liveness |
| `postgres_store` (`MCPostgresStore`) | two clients, one orphan; empty tables, with two creations of one flag and two of one environment, and tables in use, with two batches in opposite orders; thirteen requests | passes, 266 thousand states |
| `service` (`MCService`) | one client, eleven calls of three operations: four entitled ones, and bad callers, assertions, revisions, texts and rulesets; three facts that come and go | passes, 275 thousand states |
| `agent_tools` (`MCAgentTools`) | two clients, a publication and an archival that excludes it, undecodable and unknown tools | passes, 530 thousand states (symmetric in the clients) |
| `listing_postgres` (`MCListing`) | one pager, two transactions, five numbers, limits 1 and 2 | passes, 109 thousand states |
| `listing_d1` (`MCListingD1`) | one pager, six numbers, any batch of rows | passes, 31 thousand states |
| `postgres_lifecycle` (`MCPostgresLifecycle`) | three calls, one connection, two generations | passes, 1304 states, with liveness |
| `d1_lifecycle` (`MCD1Lifecycle`) | two calls, the right and a wrong binding | passes, 352 states, with liveness |

What each property says stands above its definition. In short: `rulesets` checks
that valid rulesets always serve, that shares are exact and that missing
attributes and appended entries change nothing they should not; `contract`
checks the tables, the replies (`RepliesJustified`: a success is what was recorded, a
conflict is one) and three action properties; `d1_store`
checks the refinement of the contract and the facts it rests on; `d1_retries`
checks that everyone who retries is answered, and consistently; `postgres_store`
checks the refinement, that what a transaction has seen still holds
when it commits (`LocksSuffice`), and that waiting is never circular.

`service` checks who gets a command recorded (`CommandsEntitled`) and who learns
anything (`AnswersEntitled`). Both are stated with what held *during* the call:
the code does not promise more, since a permission revoked after it was asked
for does not stop the command. `InvalidRequestsInvalid` shows that the catch-all
of the error mappings is never reached, and `ImplementsStore` that validation is
complete. The two listing runs show what separates the stores: a D1 listing
has no holes, a Postgres listing may skip a row whose transaction was open when a
page was read (`SkippedWereOpen`), although a *complete* listing has every row there
was when it began (`InitialRowsListed`). `postgres_lifecycle` shows that
deactivation and every call return although calls outnumber connections, because
no call needs two; `d1_lifecycle` that a deactivated plugin, which does not wait
for its calls, falls silent. `agent_tools` shows that an agent may drop what it was
definitely refused, and that this rests on refusals for want of permission and
`operation_in_progress` being distinguishable from the others.

`rollout_overflow` shows a real disagreement. The request schema bounds
`basis_points` by 1 and 10000. The code bounds each share from below and the
*sum* from above, in `i64` arithmetic that wraps in a release build: shares 1
and `i64::MAX` are accepted. The theorem `ValidatedRulesetServes` shows that such
a ruleset still serves every context.

The types of `RulesetDrafts`, `FlagStore`, `Listing` and the lifecycles are proved
and not checked again by the runs.

### Bounds

* `MCD1Store` and `MCPostgresStore` start from two databases, empty tables and
  tables that a setup has filled. Each is asked its own requests, a
  constraint of the run (`Suited`): the creations are interesting where nothing
  exists yet, the others where something does.
* Requests in a run are finite and each takes effect at most once, so revisions
  are bounded without a guard. Every interaction the properties tell apart
  needs two commands that meet; the D1 runs have two clients and a stray
  batch, that is, three write batches in flight at once.
* `MaxStray` bounds the batches that nobody awaits. More of them would only
  repeat what one does: arrive late, be rejected, or never arrive.
* `MaxOrphans` does the same for transactions of unknown outcome. Two clients are
  enough for a cycle of two waiting transactions; a longer one would need a
  third client, and is excluded by the proof of `PostgresNeverDeadlocks`.
* In `contract` one client is enough for concurrency, because a call that fails
  leaves its request in `abandoned`, from where it may take effect during later
  calls.
* One client is enough in `service` for the same reason, and since facts change
  between any two steps of a call; one pager in the listings, because pagers do not
  affect each other. `MaxSeq` leaves room for three pages of the smaller limit
  with rows inserted before, between and after them.
* `MaxGenerations` is 2 so that a call can outlive its pool and meet the
  next activation; one connection for three calls makes every wait happen.
* `MaxFaults` bounds the failures of the binding in `d1_retries`; a binding
  that fails for ever answers nobody. Rejections by the guard are not bounded.
* `BasisPoints` is 4 (2 in the store runs) instead of 10000 and `MaxInteger`
  127 (7 in the overflow run) instead of `i64::MAX`; validation only compares
  and adds.

### Fairness

`D1Retries` states weak fairness of `Work` (a batch that the
binding has accepted completes, and the code after it runs: one async call with
no lock or queue in it) and of `Retry` (the client follows the failure message,
"retry only with the same idempotency key"). Nothing is assumed of stray
batches or of who wins a race. `RetriesConverge` holds because a batch is only
rejected by one that applied, and each command applies once. Without retries
there is no such guarantee: one rejection answers a call with a failure.

`PostgresLifecycle` assumes that the services asked for authorization and the
statements of a transaction answer or fail (weak fairness of `Authorize` and
`Finish`), that a closed pool refuses whoever waits for it, that `close` returns
when it can, and that the pool serves waiting calls in turn, hence strong fairness of
`Acquire`: a connection that keeps coming free reaches everyone. It assumes
neither that new calls stop nor that a wait for a connection is ever cut short.
`D1Lifecycle` assumes weak fairness of each call's next step, as above.

## What is proved

For every value of the constants, under the named assumptions in `Rulesets`,
`FlagDatabase`, `StoreCalls`, `D1Store`, `Service`, `AgentTools`, `Listing` and the
lifecycles (TLC evaluates all of them in the runs). None bounds a set of clients, requests or keys.

1. `ValidatedRulesetServes`: `choose_variant` never fails on what
   `validate_ruleset` accepts. The scan of the rollout can only stop at an
   entry whose variant was looked up, and a rollout without negative shares
   cannot fail in the conversion; the total, which may have wrapped, is not
   needed.
   `RulesetProofs` adds what `choose_variant` serves, for drafts of any length.
   The running sum of a rollout (`Upper`) is a recursive function; its equations
   come from `RecursionUpTo` (a function defined by recursion up to n exists), and
   what is said of it for every entry from `UpToInduction`, which puts the
   statement into a set, so that no operator is a parameter.
   `BucketDecides` says which entry a bucket of the rollout falls to, and hence
   `DraftsShareBuckets`: each entry gets exactly its share of the buckets *if*
   the rollout promises no more than there are (`RolloutWithinBuckets`).
   That condition is what `rollout_overflow` violates; `DraftsWithinBuckets` shows that
   nothing but a sum beyond `MaxInteger` can violate it, and
   `SchemaDraftsShareBuckets` that the bounds of the request schema (`SchemaBounds`)
   exclude it, with the code's constants: there the shares are exact without
   condition. So the two theorems and the run delimit the disagreement
   from both sides. `DraftsKeepDecisions` is that what a rule, or an entry, decided
   survives every extension at the end: `GrownRulesDecide` and
   `GrownRolloutDecides` compare the scans of a draft and of its extension.
   `DraftsIgnoreMissingAttributes` compares the scan of all rules with that of the
   rules left when those that ask for an attribute the context lacks are gone.
2. `CommitSound`: committing the plan of a command whose key is not recorded
   takes `Sound` tables to `Sound` tables. `Sound` is the inductive invariant of
   the tables: the six named parts of `Consistent`, the types, finiteness (which
   cardinalities need) and `AbsentRows`, without which a flag could be created
   with the archived bit already set. Its lemmas say, for each kind of command,
   which rows its plan holds (`PlanRows`), and then treat one part of
   `Consistent` at a time. `CommitEffects` gives what a single commit can
   change; from it follow `CommitKeepsEvidence`, `CommitKeepsArchived` and
   `CommitEvaluatesLatest`, for the action properties of every layer.
3. `FlagStoreProofs`: `Served` (typed, sound tables, replies that are recorded)
   is inductive for `FlagStore`, one step per action; the state properties of
   `contract` follow from it, `StoreReceiptsExplained` among them, the three action
   properties from it and those three lemmas.
4. `D1Proofs`: `Fenced`, that every batch in flight whose epoch is today's is
   the plan of today's tables and its command is not recorded, is inductive for
   `D1Store`. With it every step of `D1Store` is a step of `FlagStore` or a
   stutter (`D1Implements`). A batch with an older epoch is not admitted; one
   with today's is exactly an `Execute`. `Sequenced` adds the bookkeeping of
   epochs and `row_seq`, from which `D1Epochs`, `D1FlagsListLast` and
   `D1GuardSuffices` follow. `D1Typed` adds the types of every client's step.
   `RetriesAreCalls` is that the specification of `D1Retries`, with its faults and its
   fairness, implies `D1Store`'s, so that all of this holds of clients that retry.
   `RetriesAnswered` is the safety half of their convergence: once a command is
   recorded, a call for it can neither be refused (the replay comes first) nor
   get another answer than the recorded one.
   `D1BatchesOfActivePlugin` is about the lifecycle of the same plugin: a binding is had
   only by calls that began while the plugin was active (`Bindings`), since
   `prepared` is set after the await that verifies the schema.
5. `PostgresProofs`: under READ COMMITTED only its locks protect what a transaction
   has read, so the inductive invariant (`Isolated`) follows each transaction
   statement by statement. `Warranted` says what it has seen, checked and locked
   by its next step; `Exclusion` that no two transactions hold conflicting
   locks; `LocksOrdered` at which steps each kind of lock is held. A transaction at its
   COMMIT has locked every row it advances (`Protected`), so it advances none that
   another has locked (`Apart`), and what a commit leaves alone (`Undisturbed`) keeps
   the others' warrants (`WarrantKept`). The unlocked reads of an evaluation stay
   valid because a publication must lock the flag it is for, and an environment
   never goes away. A warrant to commit is a plan on the tables of that instant
   (`CommitPlans`): hence `PostgresLocksSuffice`, and `PostgresImplements` with one
   lemma per statement. `PostgresNeverDeadlocks` holds for any number of
   clients: whoever blocks a transaction has fewer tables left to lock
   (`BlockersAhead`), so among any waiting clients the furthest is blocked by none.
   `PostgresTablesSound` is the part of `Isolated` that a reader of the tables sees.
6. `ServiceProofs`: `ServiceInvariant` follows a call through its phases. The
   request of a session past a check is `Credited` with the fact that check
   found, `Vetted` with its caller and assertion, and a submitted one is
   `Asked` of the store; so what the store may still do (its pending calls and
   `abandoned`) stays within `entitled`. Every action of `Service` is an action of
   `FlagStore` or a stutter, because a submitted request is valid and therefore
   one of `Requests` (`ArrivalsAssumption`).
   `ServiceInvalidRequests` needs `AnswersNamed` as well: the tables stay `Sound`
   (`CommitSound`), so a ruleset that an evaluation reads is valid and serves a
   variant, and the failures left to each operation's plan (`RefusalsNamed`) all
   have a name in that operation's errors. The same invariant gives
   `ServiceTablesSound`. `ServiceTyped` adds `Exchanges`, the types
   of what the store is asked and replies.
   `ToolsAreCallers` is that `AgentTools` implies `Service`: whatever holds of the
   service holds of its use through tools. `ToolsRefusedForGood` is about the
   agents themselves.
   `Turns` says that a mutation is the only tool in progress; so when a plan refuses
   its command nobody else waits for it, what was abandoned of it is fenced off,
   and the command is `Gone`: no row is of it, and it is not outstanding unless its
   key is recorded for another request. A request rejected by validation needs
   `RejectionsAssumption`: the bounds of the configuration were never wider. (The run
   `agent_tools` leaves rejected requests out, for size; `service` has them.)
7. `ListingProofs`: `ListingInvariant` says that what a pager listed lies at or
   behind its cursor, that open and visible rows have different numbers below
   `next`, and that a row behind the cursor is listed, archived, or was open. For D1
   the invariant adds that nothing is ever open.
8. `LifecycleProofs` (Postgres): a pool is closed unless it is the current
   generation's, and a running call holds a connection of a pool that was open when
   it got it and cannot finish closing before the connection is back.
9. Layer by layer: what the contract promises of replies, evidence, archived flags
   and evaluations is proved of the D1 store, of the Postgres store and of the
   store behind the service as well (`D1RepliesJustified`, `PostgresArchivedIsFinal`,
   `ServiceEvaluationsCurrent`, ...), as formulas of the module instance `Contract`
   or `Store`. They are consequences of the refinements (`D1Implements`,
   `PostgresImplements`, `ServiceImplementsStore`); the proofs take the step of the
   layer to a step of the contract (`StepImplements`, `NextStep`) and from there to
   a single commit (`TablesStep`, `StoreStep`). `ServiceOkRecorded` is the end of
   the chain: a caller who is told that its command succeeded finds it recorded,
   with its own identity and body.

Only model-checked: the four liveness properties (`RetriesConverge`,
`DeactivationReturns`, `CallsReturn`, `FallsSilent`), which need fairness and hence
`ENABLED`. Every other property of a passing run is a theorem, with one
difference that the items above explain: TLC checks `RolloutShares` as it stands,
on drafts whose shares cannot overflow, and the theorems state it under the
condition that it needs in general.

## Not modelled

* The configuration checks of the plugins (lengths and alphabets of names, number
  formats): they run once, before a plugin exists, and nothing is in flight.
* The generated contracts (types and client stubs without behaviour of their
  own), the schema operators (calls into the host's migration kits), and the
  smoke application (a test harness).
* The wording of errors, the value of SHA-256, signatures, clocks and time
  stamps, identifiers, and the bounds of single texts.
* Hosts: how calls are scheduled, when a plugin is activated, and whether an
  `Exclusive` tool runs alone. What is assumed of them is stated above.
