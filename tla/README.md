# A TLA+ model of NitipCuy

NitipCuy lets a traveller (a *jastipper*) publish a trip with spare capacity and
lets customers order against it. It is a TypeScript monorepo: a pure domain
(`packages/domain`), use cases (`packages/application`), adapters over
PostgreSQL through Prisma (`packages/adapters`) and a Next.js application
(`apps/web`). Paths below are relative to the repository.

Nothing runs in the background: every state change happens inside an HTTP
request, several instances serve requests at once, and all they share is the
database (the payment, logistics and evidence adapters still keep theirs in memory).
What is hard about the system is therefore what happens between the
statements of concurrent transactions, between a commit and its response, and
between a check and the moment it is relied upon.

## 1. Inventory

| Component | State it keeps | Operations | Hard behaviours | What makes it correct |
|---|---|---|---|---|
| **Order submission** `marketplace-foundation.ts` 612-738, `prisma-marketplace.ts` 52-329 | `trip_offer.version`, `remaining_capacity`; `order_request`; `order_submission_idempotency` | `SubmitOrderRequest` | serializable transactions retried on conflict, snapshot older than the locks, lost responses, a clock that moves between checks, key retention | capacity is conserved; one order per revision; one order per retained key; truthful answers; orders only of eligible sellers inside the window |
| Order terms `order-request.ts` | none | normalization | bounds of decimals | pure |
| **Trip offers and moderation** `domain/marketplace.ts`, `marketplace-foundation.ts` 322-482 | `trip_offer.status`, `version` | create draft, submit, approve, reject | concurrent decisions on one version | a decision is taken on the version it was made for; history only moves forward |
| Public discussion, 484-610 | `public_question`, `public_answer` | ask, answer | two answers at once; time sampled before the transaction | one answer per question, by the owner, on a published trip |
| Jastipper profiles, 272-320 | `jastipper_profile` | create | two creations at once | one profile per account |
| Account resolution, 225-269 | `account`, `external_identity` | match or create | two first logins at once | one account per identity |
| **Sessions** `postgres-session-authority.ts` | `browser_session`, `account.session_version` | create, validate, rotate, revoke, revoke all, revoke one | rotation racing reuse, logout or account-wide revocation; sliding expiry | one active session per family; nothing revoked comes back |
| OAuth login `postgres-oauth-attempts.ts`, `auth/google/callback/route.ts` | `oauth_attempt`, the attempt cookie | start, callback | duplicated, late or crossed callbacks; a failure after each commit | an attempt opens one session, in its browser and for who signed in |
| Abuse protection `postgres-abuse-protection.ts` | `abuse_rate_limit_bucket` | evaluate | READ COMMITTED counters, cleanup of expired windows by every request | a row admits its maximum at most; its denial is audited once |
| Generic idempotency `idempotency.ts`, `idempotency-support.ts` | in-memory claims | execute | crash between effect and completion; expiry | an operation runs at most once per live key |
| Payment gateway, reconciliation; logistics gateway | commands given to a provider | initiate, refund, release, dispatch, assess | a provider that throws after acting; amounts | no command is repeated blindly; held means reconciled |
| Evidence lifecycle `in-memory-evidence-lifecycle.ts` | intents, quarantined and accepted objects | issue, upload, scan, accept, delete | checks before an `await` relied on after it | nothing unscanned or rejected is accepted; nothing accepted is deleted early |
| Trip schedule validation `trip.ts` | none | validate | equality at boundaries | validator and CHECK constraints agree |
| Trip discovery `trip-discovery.ts` | none | page | pages read while trips are published | a published trip is not lost |
| HTTP perimeter | none | the subjects and limits of a route | - | no route lacks a subject its policy needs |
| Runtime wiring, pages, tooling | none | - | - | not modelled: request by request, no shared state |

How they interact: a route of `apps/web` evaluates an abuse policy, validates the
session cookie, parses the input and calls one use case; the use case runs its
work inside `PrismaMarketplaceUnitOfWork.execute`, which is one database
transaction at a time. Components meet only in rows: order submission reads the
session and account rows that the session authority changes, the profile an
operator suspends and the trip that moderation published.

`PROJECT.json` lists every component with its status, and under `hazards` each
hard behaviour at the line where it bites.

## 2. Modules

| Module | Role |
|---|---|
| `OrderSubmission` | the use case, the unit of work and PostgreSQL, one action per statement group |
| `OrderBook` | what order submission promises, without workers or transactions |
| `OrderSubmissionInvariant` | the inductive invariant |
| `OrderSubmissionProofs` | the theorems, checked by TLAPS |
| `MCOrderSubmission` | instances for TLC |
| `Sessions` | the session authority: transactions over a snapshot, single statements, clocks |
| `SessionFamilies` | what sessions promise, without transactions |
| `SessionsInvariant` | the inductive invariant |
| `SessionsProofs` | its theorems |
| `SessionsRefinement` | that `Sessions` implements `SessionFamilies` |
| `MCSessions` | instances for TLC |
| `TripOffers` | profiles, drafts, moderation and the public discussion, with what readers are served |
| `TripCatalogue` | what offers and discussions promise, without transactions |
| `TripSchedule` | the schedules the domain accepts beside those the tables accept |
| `TripOffersProofs` | the inductive invariant, its theorems and the refinement |
| `MCTripOffers` | instances for TLC, and the comparison of schedules |
| `OAuthLogin`, `MCOAuthLogin` | Google login from its start to the session; the instance |
| `Logins` | what logging in promises, without callbacks or transactions |
| `OAuthLoginProofs` | its inductive invariant, theorems and the refinement |
| `AttemptWindows` | the rows, windows and limits that counters are kept by |
| `AbuseProtection`, `MCAbuseProtection` | the shared rate-limit counters; the instance |
| `AttemptCounters` | what the counters promise, each evaluation one step |
| `AbusePolicies` | the policies of the routes and the limits they make |
| `AbuseProtectionProofs` | the inductive invariant of the counters, theorems and the refinement |
| `IdempotencyStore` | claims and outcomes of idempotent calls, whatever they execute |
| `Gateways`, `MCGateways` | payment and logistics commands over the store; the instance |
| `CommandRegister` | what idempotent commands promise to who gives them |
| `PaymentProtection` | the assessment of a payment |
| `GatewaysProofs` | the inductive invariant of the commands, its theorems, the refinement, and the theorems of the assessment |
| `EvidenceLifecycle`, `MCEvidenceLifecycle` | evidence from intent to deletion over the store; the instance |
| `EvidenceVault` | what the evidence lifecycle promises, without calls or keys |
| `EvidenceLifecycleProofs` | its inductive invariant, theorems and the refinement |

### 2.1 Order submission

A *worker* is one HTTP request of some instance. Its actions follow
`SubmitOrderRequest.execute` statement by statement:

| Action | Code | Ends early with |
|---|---|---|
| `Submit` | the route calls the use case | |
| `Begin` | `$transaction` opens, the first statement fixes the snapshot | |
| `Authenticate` | `authoritativeNow`, `requireCurrentActor` | `SESSION_INACTIVE` |
| `Claim` | `claim`: advisory try-lock, idempotency row, deletion of an expired row | `IDEMPOTENCY_IN_PROGRESS`, `REPLAYED`, `IDEMPOTENCY_CONFLICT` |
| `LockSeller` | `findById`, `requireOrderEligible`, `lockEligibleSeller` | the eligibility codes |
| `Sample` | capacity check, start of `reserveCapacity`'s `SELECT ... FOR UPDATE` | `CAPACITY_UNAVAILABLE` |
| `Reserve` | the row lock, the window check on the sampled clock, the guarded `UPDATE` | `OFFER_REVISION_STALE` |
| `Persist` | `create`, audit, outbox, `complete`, COMMIT | lost COMMIT answer: `UNAVAILABLE` |
| `Return` | the response leaves | |
| `SerializationFailure`, `Conflict` | `isRetryableTransactionConflict`, at most `MaxAttempts` executions (3 in the code) | `UNAVAILABLE` |
| `TransactionLost` | `maxWait`, the 5 s timeout, a lost connection; not retried | `UNAVAILABLE` |
| `Crash` | the process dies at any point | |
| `Tick`, `EndSession`, `Suspend` | the clock, sessions, operators | |

Variables: `trip`, `orders`, `record`, `current`, `selling` are the tables (only
the columns that orders read or change); `view[w]` is what a transaction has
read; `pc`, `attempt`, `request`, `answer` are the worker's own. Rows are written
in `Persist`, which is the commit: until then the transaction's writes are
invisible to the others except through the locks, and the locks are read off
`pc` (`KeyLockedByOther`, `SellerLocked`, `TripLockedByOther`).

What is assumed of PostgreSQL, each at the place the code relies on it: a
transaction reads the snapshot its first statement took; locking or writing a row
that changed since fails with 40001, which Prisma reports as P2034; a duplicate
primary key fails with P2002; row and transaction-scoped advisory locks last until
the transaction ends; the clock in the target list of a `SELECT ... FOR UPDATE` is
evaluated below the row lock, hence before any wait for it (`Sample` and `Reserve`
are separate steps); serializable isolation may fail any statement. The conflicts
of serializable isolation are only *allowed* here, never relied upon, so
everything shown holds under repeatable read as well.

Abstractions: accounts, keys and trips are model values; terms keep the service
mode and the capacity in units of 10 g; a request fingerprint is the pair of trip
and terms (SHA-256 is taken to be injective); an order's id is its place in commit
order; audit and outbox rows commit with the order and are left out.

`OrderBook` is the promise: orders enter one at a time, against the current
revision, inside the window, within capacity, while the seller may sell, at most
once per retained key, and only from a desk to which a current session admitted
the customer (`Admit`, `Leave`, `EndSession`). The refinement maps `now`, `trip`,
`orders`, `selling`, `current` to themselves. A worker's open transaction is a
customer at a desk (`Admitted`), who is admitted if the snapshot shows her session
current and leaves when the transaction ends, so that a retry must be admitted anew:
a session that has ended before an attempt buys nothing in it. The rest of the
concurrency, the retries and the failures are stutters.

### 2.2 Sessions

A *worker* is again a request; it executes one operation of
`PostgresSessionAuthority` at a time. `session` is the table `browser_session` in
the order of creation, and a session's id, row and token are one thing: the index
into it. `view[w]` is the snapshot a transaction reads.

| Action | Code |
|---|---|
| `Begin` | `$transaction` opens and its first statement fixes the snapshot |
| `Create` | `create`: a new family, of an account that is active in the snapshot |
| `ValidateRotated` | `validate`, status ROTATED: the ACTIVE rows of the family are revoked |
| `ValidateUnusable` | `validate`, not entitled or expired: the row is closed |
| `ValidateUsable` | `validate`, accepted: the idle expiry slides, capped by the absolute one |
| `Rotate` | `rotate` with `createPersistedGrant`: ROTATED, and a successor |
| `RevokeAll` | `revokeAll`: the account's version grows, its ACTIVE rows are revoked |
| `Revoke` | `revoke` and `revokeById`: one statement on what is committed |
| `Fail` | conflict, timeout, lost connection or crash: rollback, not retried |
| `Tick`, `Suspend` | clocks, operators |

`Fail` stands for a process that dies as well: nothing of a session operation
outlives its transaction. A worker is never blocked in the model; waiting for a row
lock ends in the commit or in the conflict that `RowsUnchanged` describes.

Assumed of PostgreSQL: the snapshot of the first statement; an `UPDATE` of a row
that changed since the snapshot fails (`RowsUnchanged`, `AccountUnchanged`); unique
`parent_session_id`; the CHECK `created_at < idle_expires_at` on a new row. Rows a
predicate did not see are not locked (no predicate locks), so nothing shown relies
on more than repeatable read. What a transaction writes is invisible until it
commits and a row it has written cannot be written by another one, so writing and
committing are one step. The clock is different: `this.now()` is read *between* the
first statement and the commit, on the clock of the instance (`Skew`), twice in
`rotate`. `Readings` is therefore every instant between the two, shifted by the
skew.

The CHECK on expiry order also refuses to touch a row whose instance's clock lags
the creating one by more than the idle lifetime. The model lets that update happen,
which only adds behaviour.

`SessionFamilies` is the promise. A family is one record: the expiry it was opened
with, its head (the session whose token is accepted, 0 once the family has ended)
and its idle expiry. Families are opened, used and renewed in time, and ended; no
action brings an ended family back. The refinement (`families` in `Sessions`) maps
a family's first row to its `endsAt` and its ACTIVE row to its head.

### 2.3 Trip offers and the discussion

A *worker* is a command in flight. Its transaction keeps of its snapshot what its
subject needs (`Snapshot`), and writes in its commit.

| Action | Code |
|---|---|
| `Request` (`Receive`) | the route authenticates the actor and the use case samples its clock |
| `Begin` | an attempt's transaction opens |
| `CreateProfile`, `CreateDraft` | `CreateJastipperProfile`, `CreateTripDraft` with `createPublishedTrip`'s rules |
| `SubmitForModeration`, `Moderate` | `save` with its version, `recordModerationDecision` |
| `Ask`, `AnswerQuestion` | the discussion, stamped with the instant sampled at the request |
| `Refuse`, `Retry`, `Fail` | refusals; conflict or unique violation; the last attempt, another error, a crash |
| `Tick`, `Withdraw` | the clock; grants, profiles, sessions that end |

`Projects`, `ListedBefore` and `Behind` are what readers are served: `mapPublishedTrip`
with its validation and `searchPublished` with its cursor. `TripSchedule` holds three
readings of one schedule: the domain's (`ValidSchedule`), `trip_offer`'s CHECKs
(`StorableSchedule`) and `order_request`'s (`OrderableSchedule`).

`OptimisticConcurrencyError` of `save` cannot occur under SERIALIZABLE (the row that
moved is a conflict first), so a moved row is a `Retry`. The three attempts of the
unit of work are any number here, which no safety property depends on. No login in
`src` grants a PHISHING_RESISTANT session, which moderation demands: `Assured`
accounts have one as the tests give it to them.

`TripCatalogue` is the promise: an offer is drafted and decided once, a published
one is discussed, a question gets one answer.

### 2.4 Google login

An *attempt* stands for its row and the four secrets made with it; a *worker* is a
callback. A callback carries the cookie of whichever browser opens its URL, the
state of one attempt and a code that may be of another.

| Action | Code |
|---|---|
| `Start` | `/auth/google/start`: `oauth_attempt`, the cookie |
| `Deliver` | the callback's URL is opened |
| `ReadAttempt`, `RejectAttempt`, `ExpireAttempt`, `Consume`, `FailUnconsumed` | `consume`; without the commit's acknowledgement the route keeps the cookie |
| `Exchange`, `FailExchange` | `GoogleOidcClient`: the code, its PKCE verifier and nonce |
| `ReadIdentity`, `CreateAccount`, `MatchAccount`, `RetryResolve` | `resolveGoogleIdentity` under the unit of work, three attempts |
| `OpenSession` | the session authority's `create`, whose inside is `Sessions` |
| `FailConsumed`, `Respond`, `Crash` | errors after consumption, the response with or without the cookie's removal |

Whether an attempt is in time and unseals is a choice (both outcomes are explored).

`Logins` is the promise: somebody who has signed in for a login may get an account,
and the login opens one session of it, in the browser it was started in, while the
account is active. What has been redeemed is who has signed in; cookies, callbacks,
retries and failures are stutters. That the account is active when its session opens
is `StillActive`, `create`'s own reading of the account
(`postgres-session-authority.ts:80`): `MatchAccount` has seen it active in an earlier
transaction, and an operator may suspend it between the two.

### 2.5 Abuse protection

A *worker* is an evaluation, one READ COMMITTED transaction; `writes` are the rows
it has written and holds locked. `Begin` fixes its time (`CURRENT_TIMESTAMP`),
`Select` and `Sweep` are the cleanup (at most `BatchSize` expired rows, oldest first;
a locked one is waited for),
`Count` is the upsert of one limit in the order of the axes, `Decide` the audit claims and the
commit, `Abort` any end without effect. `admitted` and `audits` are history, kept
per row: the evaluations it let through and the denials it had audited.

`AbusePolicies` holds the policies of all routes and the limits `buildAbuseLimits`
makes of a request's context. Its ASSUMEs are evaluated by the run: no route is
refused for want of a subject, what counts against a target counts against an
account or network as well, and the network is always counted.

`AttemptCounters` is the promise: an evaluation counts its attempt in all rows of its
limits in one step, and admits it if every one of them has room; expired rows may be
forgotten. `AbuseProtection` takes this step at its commit (`Decide`), whatever rows
it has written, waited for or found locked before; an evaluation that ends otherwise
has counted nothing.

### 2.6 Idempotent commands

`IdempotencyStore` is `executeIdempotently` over `InMemoryIdempotencyStore`, one
action per await: `Claim`, then what the extending module executes, then `Complete`
or `RequireRecovery`; `Broken` is a store that does not answer or a caller that dies
at any of them. `Gateways` executes payment and logistics commands: `Perform` gives
the command to the provider, `Throw` fails before or after doing so. The mocks never throw once
configured; `idempotency-contract.test.ts` runs executions that do.

`PaymentProtection` is `assessPaymentProtection`, branch by branch, with the amounts
as integers; release, refund, settlement and chargeback matter by whether one of
them shows anything. A PENDING collection is AWAITING_CONFIRMATION before any amount is
looked at (`payment-reconciliation.ts:116`), also when the observation already shows
money; `docs/product/order-lifecycle.md:199` asks for reconciliation of contradictory
evidence without naming that case. The theorems say it is neither held nor failed.

`CommandRegister` is the promise, without claims or lost callers: a key takes a
command while nothing is kept under it and every earlier command under it has been
answered; a command's receipt is answered first in the step that keeps it, and again
only until its retention ends. A command whose outcome nobody learned stays
unanswered, and its key is closed for good.

### 2.7 Evidence lifecycle

`EvidenceLifecycle` is the other client of `IdempotencyStore`. Each operation is
split where it awaits: what is checked before the claim (`CreateUploadIntent`,
`Accept`, `DeleteExpired`) and what happens after it (`PerformCreate`,
`PerformAccept`, `PerformDelete`). `UploadToQuarantine` and `RecordScanResult` come
from storage and scanner whenever they like.
`Effect` is what the effect of an acceptance finds, in the order in which the code
looks: evidence accepted by now is answered with its object, and only otherwise is
its upload inspected again, to be promoted or to fail. `AcceptancesAgree` is about
that order: an acceptance that loses the race must not fail on the cleared upload.

What the code does at three races and nothing promises otherwise: two intents of
different classifications made at once get the first one's; an acceptance that loses
to the deletion is answered with the reference of an object that is gone; a
verification that changed between check and effect leaves the client's key in need
of recovery.

`EvidenceVault` is the promise: one record per evidence, without calls. An evidence is
announced, its bytes wait in quarantine, they are promoted if at that instant they are
admitted and the last scan found these very bytes clean, and they are gone only after
their retention. The object references, the idempotency keys and the order of the
checks are not part of it.

### 2.8 Runs

| Run | Instance | Shows |
|---|---|---|
| `order_contention` | 2 workers, 1 trip with 2 units closing at 1, keys reused for other terms, 3 attempts, seller may be suspended | nothing oversold, one order per revision, true answers, stale means closed, refinement |
| `order_retention` | 2 workers, 1 key, 2 trips, retention 1, clock to 3 | a retained key buys once and replays; the inductive invariant |
| `order_eligibility` | 1 worker, every kind of request that must be refused, revocation and suspension | refused requests, and sessions that ended before an attempt, never enter the book |
| `order_liveness` | 2 fair workers after 1 unit | every submission ends |
| `session_races` | 2 workers, 1 account that may be suspended, 3 sessions, 1 account-wide revocation, clock at rest | chains, reuse, total revocation, current acceptance |
| `session_expiry` | 2 workers whose clocks differ by 1, 2 sessions, idle lifetime 2, absolute 3, one tick | refinement to families: bounded idling, one expiry per family, no return |
| `trip_offers` | 2 workers in step, one trip from profile and draft to its discussion beside a published one of the same day, a valid and an invalid schedule, 1 question, one tick, grant, profile and session may be withdrawn | one decision, one answer, everything published projects and is listed, refinement to the catalogue |
| `discussion_skew` | 2 workers, the second one's clock ahead by 1, a published trip | **violation**: a stored answer predates its question (2.10) |
| `oauth_login` | 2 browsers, 2 logins, 2 people (one may be suspended), 2 callbacks in flight | one session per attempt, of its browser and its person; one account per identity; refinement to `Logins` |
| `abuse_protection` | 3 evaluations, 1 network and 2 accounts, limits of 1, windows of 1 and 2, batch 1, two ticks | no row admits more than its limit, one audit, no deadlock without cleanup; refinement to `AttemptCounters`; the ASSUMEs of `AbusePolicies` |
| `gateway_calls` | 3 calls, one order, three operations (refunds may throw, releases have no receipt), 2 payloads, retention 1, clock to 2 | nothing repeated blindly, true answers, claims end; refinement to `CommandRegister`; the comparison of `PaymentProtection` with its reference |
| `evidence_lifecycle` | 4 calls, 1 evidence, 2 keys, an image and another file, 3 references, every lifetime 1 | nothing unclean promoted and nothing twice, acceptances agree, objects match records, retention kept; refinement to `EvidenceVault` |

Two workers suffice for the first two: the code has only pairwise conflicts (one
holder of a key, of a trip row), and a third worker with `MaxAttempts = 1` was
tried on the contention instance with the same result. The clock passes the
opening, the closing and the expiry of a key in the runs that are about them.
Workers are interchangeable, so the safety runs use symmetry where their clocks
agree; the liveness run does not.

Three sessions are a family rotated twice (the reused token is then the
grandparent of the ACTIVE one), or a rotated family beside a new one; two workers
are a rotation and what races it. One account suffices for the races, since no
operation reads rows of two; the theorems are for any number. In `session_expiry`
the skew makes clock 2 reachable with one tick, which is the idle lifetime of a
session created at 0, and a rotation at 1 or 2 is where a successor that forgot its
family's expiry would differ.

The other instances are as small as the conflicts they are about. Two workers are
what any two commands on one row, or two callbacks of one URL, need. Two
attempts, browsers and people let a code, a state and a cookie of different
logins meet in one callback. Three evaluations are a circle of two and a third
that cleans up; unequal windows let a row of one axis expire while the other
counts on. Three calls are a first, one that is refused or replayed, and one
after the retention (the clock passes it once from a completion at 0 and at 1).
Four evidence calls are an intent, two acceptances and a deletion; the intent and one
promotion take two references, and a second promotion would take the third. Runs that stop
because a bound is reached (`MaxTime`, `MaxCount`, `MaxPerformed`, calls that are
spent) say CHECK_DEADLOCK FALSE; nothing else in them can stop.

Fairness (`order_liveness`): a worker that can take its next step or time out
eventually does one of them. Node runs runnable continuations, and Prisma's
transaction timer (`prisma-transaction.ts`, 5 s) fires whatever the database does:
a wait for a row lock therefore ends. No fairness is assumed of clients, conflicts
or the clock. In `gateway_calls`, while calls are claiming, executing or recording, one of
them goes on (less than that each of them does, and enough since every call has few
steps): nothing in `executeIdempotently` waits for another call (a claim in
progress is refused, not awaited), so all it needs is that the store and the
provider answer; where they do not is `Broken`, and `ClaimsEnd` names it.

Each property is paired in `PROJECT.json` with a bug it notices:

| Bug | Noticed by |
|---|---|
| capacity is not checked before the reservation | `TypeOK` |
| the row is written although it changed since the snapshot | `CapacityConserved` |
| a reservation does not increment the version | `OneOrderPerRevision` |
| the fingerprint covers the trip only | `HonestAnswers` |
| a lost race is reported as a stale revision | `StaleMeansClosed` |
| the seller is checked without a share lock | `SellerEligibleAtCommit` |
| the window is checked on the first clock reading only | `ImplementsOrderBook` |
| own trips are not excluded | `ImplementsOrderBook` |
| the session is not checked | `ImplementsOrderBook` |
| the idempotency table has no primary key | `OneOrderPerKey` |
| retention is counted from the first clock reading | `RetainedOrdersReplay` |
| the advisory lock is not taken | `IndInv` |
| transactions have no timeout | `EverySubmissionEnds` |
| a rotated session stays ACTIVE | `FamiliesAreChains` |
| a row is written although it changed since the snapshot | `AcceptedWhileActive` |
| reuse revokes the child of the reused token only | `ReuseEndsFamily` |
| the account's session version is not compared | `RevocationIsTotal` |
| a successor gets an absolute lifetime of its own | `ImplementsFamilies` |
| `save` does not increment the version | `TypeOK` of `TripOffers` |
| `save` does not compare the row it read | `DecidedOnce` |
| drafts are not validated | `PublishedTripsProject` |
| pages are ordered by date only | `PagingMissesNothing` |
| answers have no unique index | `ImplementsCatalogue` |
| a login goes on with the candidate account | `TypeOK` of `OAuthLogin` |
| an attempt is consumed although its row moved | `OneSessionPerAttempt` |
| the browser's binding is not compared | `SessionOfItsLogin` |
| identities have no unique index | `OneAccountPerIdentity` |
| a session is created for an account suspended since it was matched | `ImplementsLogins` |
| the limit is compared with the count before this attempt | `AdmittedWithinLimit` |
| a denial is audited without a claim | `DenialAuditedOnce` |
| limits are counted in the order of the request | `CountersNeverDeadlock` |
| a row that another evaluation has locked is not waited for | `ImplementsCounters` |
| a key that needs recovery can be claimed again | `NeverBlindlyRepeated` |
| the payload is not compared | `AnswersTruthful` |
| an error propagates without being recorded | `ClaimsEnd` |
| a result is replayed at the instant its retention ends | `ImplementsRegister` |
| the effect relies on the first inspection | `AcceptedIsClean` |
| a deletion leaves the object in storage | `StoredWhileAccepted` |
| the effect promotes evidence that is accepted already | `StoredWhileAccepted` |
| the effect inspects the upload without looking whether it is accepted | `AcceptancesAgree` |
| deletion does not wait for the end of retention | `KeptUntilExpiry` |
| an upload is taken after its intent has expired | `ImplementsVault` |

### 2.9 Proofs

`OrderSubmissionProofs` proves, for any sets of workers, accounts, keys, trips and
requests, any offers, capacities, retention period and number of attempts (the
assumptions are the ASSUMEs of `OrderSubmission`: the constants have their types,
and "no row" and "no request" are not a row or a request):

- `Invariance`: `Spec => []IndInv`, and from it `TypeCorrect`, `RevisionsSoldOnce`,
  `KeysBuyOnce`, `RetainedReplay`, `AnswersAreHonest`, `StaleIsClosed`;
- `SellersAreEligible`: the action property;
- `CapacityIsConserved`: what is left of a trip and what its orders reserved make what
  was published;
- `OrderBookImplemented`: the refinement.

The properties are not inductive. That a key buys once, for example, rests on what
the worker about to commit has *read*: either it saw no row, and the primary key
refuses it if one has appeared (`KeyTaken`); or it saw an expired row and deleted
it, and then the advisory lock guarantees that the row is still that one
(`HoldsKey`) and that the order it names ended before this one was reserved.
`IndInv` therefore adds three layers: what the tables say of each other
(`BookInv`: a row names an order, an order is named by its row or is older than
the retention period), what a transaction may rely on at each place (`WorkerInv`:
the snapshot is a past of the database, in which the session was current once it was
checked; each lock freezes the rows it covers), and
the exclusion of locks (`LocksExclude`). Each action is proved to preserve the
layers it can disturb; commit (`Persist`) is the long case.

What the orders of a trip reserved is a sum, and the provers do no induction over data.
`CapacityConserved` therefore says that some running total, a function from the number
of orders in commit order to what they have reserved, starts at 0, grows with each
order of the trip by what it reserves, and ends at what is missing of the capacity. A
commit extends the function by one place. `RunningTotalsAgree` proves that there is
no choice in it: two running totals of the same orders are equal (at the least place
where they differed, their last steps would be the same), so the function is the sum.

`SessionsProofs` and `SessionsRefinement` prove, for any workers, accounts, skews
and lifetimes (idle at most absolute, as the constructor checks):

- `SessionInvariance`: `Spec => []SessionInv`, and from it `SessionTypes` and
  `RotationsFormChains`;
- `ReuseEndsTheFamily`, `RevocationReachesAll`, `AcceptanceIsCurrent`: the action
  properties;
- `FamiliesImplemented`: the refinement.

`SessionInv` adds to the properties where rows come from (`FamiliesHaveRoots`: a
family is named after its first row, whose expiry all share; `VersionsArePast`) and
what a snapshot still says at the commit: rows have only moved on
(`SeesThePast`), and a family with an ACTIVE row now had one in the snapshot
(`EndedStaysEnded`). The last is why reuse is final: if the family is alive, the
transaction that saw the reused token saw an ACTIVE row too; either that row is
unchanged and is the one to be revoked, or it has been rotated and the update fails.
`MovesOn` says what every change of the table has in common, and the actions are
proved through it.

`TripOffersProofs` proves, for any accounts, trips, schedules, requests, commands in
flight and clocks:

- `OfferTypes`, `OffersAreDecidedOnce`: the invariants;
- `CatalogueImplemented`: the refinement to `TripCatalogue`;
- `PagesMissNothing`: the action property of the paging;
- `AgreedClocksProject`: where the clocks of all instances agree (`SameClock`), every
  published trip projects. The run `discussion_skew` shows that the hypothesis is
  needed, the theorem that nothing else is.

Its `IInv` adds what a command relies on at its commit although it read it before:
the question it answers is still there, and an offer it saw published has not moved
(nothing moves a published offer here: order submission, which changes a published
row's version and capacity but none of what is read of it, is the other module). The
refinement needs no more: a decision commits only on the row that was read
(`Unmoved`), and an answer only where there is none (`AnswerKeyFree`). For
`AgreedClocksProject`, `TimesOK` adds that no question is stamped later than now on
the common clock, so that what is answered afterwards is stamped afterwards.
Assumed: stored rows are valid (`RowAssumption`), ids are totally ordered
(`IdAssumption`).

`OAuthLoginProofs` proves `LoginTypes`, `LoginsOpenOneSession`,
`SessionsAreOfTheirLogin`, `IdentitiesAreUnique` and the refinement `LoginsImplemented` for any number of browsers, callbacks, logins and people. Its
`IInv` adds to them that a call past the consumption of an attempt excludes any other
such call and any session of that attempt (`CallsExclude`, `SessionsExclude`), and
what each step has established: the cookie's binding, that the code was of this
attempt and has been redeemed, that the account is the identity's. `Later` says what
no step takes back, and one lemma (`Moves`) lifts it over all the calls that did not
move. `LoginTypes` adds the types of what a call has read and of what was redeemed
(`CallsTyped`, `RedeemedOK`). For the refinement `IInv` is enough: an account is created
for who has redeemed a code, and a session opens on the account of that person, which
`OpenSession` reads again.

`AbuseProtectionProofs` proves `LimitHolds`, `DenialsAreAuditedOnce`,
`CountersAvoidDeadlock` and the refinement `CountersImplemented` for any
policy, number of instances and subjects. Writes not yet committed make this hard:
`IInv` says that a pending write is of the row as committed (`WritesAreCurrent`),
that two evaluations never hold writes of one row (`WritersExclude`, the row lock),
and that a row's counter and flag are true to what was admitted and audited
(`RowsAreTrue`). A further invariant says what an evaluation still has to count and what
it has written (`EvaluationsOK`): if its cleanup deleted nothing, what it holds lies
before what it waits for in the order of the axes, so that of any evaluations that wait
the one at the latest axis waits for none of the others. For the refinement, what a
commit writes is computed from the rows as they were before it, because nobody else
could write them since (`WritersExclude` again).

`GatewaysProofs` proves `GatewayTypes`, `CommandsAreNotRepeatedBlindly`,
`AnswersAreReceipts` and the refinement `RegisterImplemented` for any calls, keys, payloads, operations and retention. In its
`IInv` a call that executes, completes or fails owns the PENDING record of its key,
alone (`OwnersExclude`), and where a record can be claimed, now or after its expiry,
every earlier command under its key has been reported and its retention ends no later
(`SettledBut`): an unknown outcome leaves RECOVERY_REQUIRED, which never expires. The refinement adds
`Unreported`: what a call is about to record as completed has been answered to nobody,
so that the register keeps a receipt in the very step that answers it first.

The module also proves `HeldIsReconciled`, `FailureShowsNoMoney` and
`CollectedMoneyNeedsItsHold` about `PaymentProtection`, for all amounts.

`EvidenceLifecycleProofs` proves `EvidenceTypes`, the safety properties of
`evidence_lifecycle` (`PromotedIsClean`, `ObjectsMatchRecords`, `AcceptancesAlwaysAgree`,
`RetentionIsKept`) and the
refinement `VaultImplemented` for any
evidence, calls, contents, policy and lifetimes. Its `IInv` adds that accepted
evidence has nothing in quarantine, so that no later scan can change what was decided, that
no two records have one object (`ObjectsOwned`), and what a call's checks before its
claim found and its effect relies on (`CallOK`): that the evidence is known, or that
the object it deletes is the accepted one and its retention is over (`Removable`).
Of the checks before its claim the acceptance relies only on the evidence being known:
its inspection is made again.
Nor does any of this rest on the idempotency store's exclusion. In the refinement
every part of the vault is read off one record of the table, and its private object
off storage, through the reference the record has; that no two records have one object
makes a promotion or a deletion a step of one evidence alone.
That acceptances agree rests on `Agreed`, an invariant on top of `IInv`: what an
acceptance has returned, has been answered, or left under its key in the store is the
object of the evidence in its fingerprint. A replay is given it because the store
compares fingerprints, and `Kept` says that it stays the object.
Assumed: references are results, and what a call is about can be fingerprinted
(`NameAssumption`).

Only model-checked:

- `EverySubmissionEnds` and `ClaimsEnd`, since liveness under fairness is outside what
  TLAPS proves;
- the ASSUMEs of `AbusePolicies`, `MCTripOffers` and `MCGateways`, which compare
  definitions over bounded inputs.

Every invariant, action property and refinement that a passing run checks is a theorem,
`PublishedTripsProject` where clocks agree, as they do in its run. The type invariants of
`Gateways` and `EvidenceLifecycle` are proved and no run spends its time on them; that of
`Sessions` is a conjunct of `SessionInv`, which is proved and no run checks either.

### 2.10 Finding

`discussion_skew`: a published trip can become unreadable. A question and its answer
are stamped by the instances that execute them (`marketplace-foundation.ts:496` and
`:548`); no command and no table compares the two, but the projection that serves a
trip validates its whole discussion through `createPublishedTrip`, which rejects an
answer earlier than its question (`trip.ts:255`). With two clocks that differ by more
than it takes to answer, the trip's page and every search page it is on fail from
then on. It takes a question asked on the fast instance and answered on the slow one.

## 3. Not modelled

- Formatting, parsing, HTTP headers, rendering, wiring and repository tooling: no
  shared state, no control beyond a request. The perimeter's checks of origin, headers
  and bodies are functions of one request.
- Audit and outbox rows: written in the commit they belong to, read by nothing. (The
  audit of a denial is modelled, since it is claimed.)
- The customer's session must be current in the snapshot of the attempt that orders
  (2.1). One that ends after it does not stop the order: no lock covers it and no
  document promises it. The same goes for a moderator's grant.
- Logging out with a ROTATED token finds nothing and changes nothing
  (`postgres-session-authority.ts:203` asks for ACTIVE), so that the family goes on;
  no document says what it should mean.
- A browser keeps one attempt cookie: a second login started in it makes the first
  one's callback fail, and that failure clears the second one's cookie
  (`callback/route.ts:48`). The model does it; no property speaks of it, since any
  callback may fail.
- Capacity in `OrderSubmission` is counted in units; that the column is a DECIMAL read
  back as a floating-point number is data.
- A trip that arrives at the instant it departs is valid, publishable and never
  orderable (`order_request_schedule_order`): `ArrivalAtDepartureIsNeverOrdered` in
  `MCTripOffers` says that these are the only such schedules, and the theorem
  `ArrivalAtDepartureIsNeverCopied` of `TripOffersProofs` says it of any instants.
- Abuse protection cleans up expired rows before it counts, in order of expiry and not
  of axes: around the end of a window two evaluations can wait for each other, and the
  victim's request is answered 503. And an evaluation delayed past the end of its
  window may count on a row made anew, and admit its limit and audit its denial a
  second time. No property speaks of either: the limit and the audit are properties of
  a row, not of a window, and `CountersNeverDeadlock` excepts cleanups.
- The session authority's transactions are retried by nobody: a conflict is an error.

## 4. Plan

Done: order submission, sessions, trip offers with the discussion and discovery,
Google login, abuse protection, idempotent commands with payment assessment, and the
evidence lifecycle, each with its run and an abstract specification it is shown to
implement; the proofs of 2.9.

Left, in order of what they would add:

1. The composition of sessions with order submission, where a session is the flag
   `current` today, and of trip offers with the offers that order submission takes as
   fixed.
2. The perimeter's request checks as operators over bounded requests.
