# A verification project for Aletheia Lite

TLA+ models of the audit pipeline of this repository, TLC configurations that
check them on small instances, and proofs, checked by TLAPS, of the properties
that matter most for every value of the constants. Paths below are relative to
`src/`.

## The system

`AuditPipeline` (core/pipeline.py) decides about one request at a time and keeps
a record of every decision. A request goes through

    circuit breaker -> token guard -> zero standing privileges -> Gate C1
        -> trifecta (under the breaker) -> swarm detector -> _finalize

and `_finalize` signs a receipt that names the receipt before it, appends it to
the audit ledger, records the decision in the decision store, and returns.

| Component | State | Operations | Talks to |
|---|---|---|---|
| audit ledger, core/audit.py | SQLite table, one connection, a lock | append, last_hash, all, verify_integrity, close | called by the pipeline and the `verify` command |
| receipt signer, core/receipts.py | `_last_hash`, a key | issue; verify_receipt, verify_chain | seeded from `audit.last_hash()` |
| decision store, core/decisions.py | SQLite table, one connection, a lock | record, recent, get, stats, close | written by the pipeline, read by the dashboard |
| circuit breaker, guards/circuit_breaker.py | state, failures, time opened, a lock | allow, call, record_success, record_failure, state, snapshot | wraps the trifecta |
| token guard, guards/token_velocity.py | deque per agent, a lock | check, usage | guard 2 |
| authority gates, guards/zero_standing_privileges.py and Gate C1 | the grant table | enforce, confused_deputy_check | manifest |
| trifecta, core/trifecta.py, scout, nitpicker, judge | none | evaluate | the text detectors |
| swarm detector, detectors/swarm_detector.py | log-likelihood per principal, a lock | observe, reset | guard 4 |
| rate limiter, core/rate_limit.py | deque per client, a lock | check, reset | dashboard |
| dashboard, dashboard/server.py | its token | /events, /stats | rate limiter, decision store |
| policy manifest, core/manifest.py | a signed file | sign_manifest, load_manifest, default_manifest | read by the command line, used by the gates and the judge |
| signing keys, core/tpm.py | a key file | load or create, sign | the receipt signer |
| text de-obfuscation, core/sanitize.py, core/text_normalization.py, core/canonicalization.py | none | sanitize, normalize_text | scout |
| code scan, core/sandbox.py; spectral rigidity, detectors/spectral_rigidity.py | none | scan_code; score | scout |
| command line, core/__main__.py | none | check, verify, dashboard | all of them |

What is hard: nothing in `process` holds a lock across two components, so
requests interleave between any two of them; `issue` is not locked at all;
every process has its own chain head, its own breaker and its own detectors
over shared files; a store may fail between an INSERT and its commit, or a
process die between two stores; the guards read the clock before they lock; the
dashboard's three reads of the store are not one transaction; the key file is
looked for, created and written in separate steps; what the detectors match is
the result of half a dozen rewritings that only compose in one order.
`hazards` in PROJECT.json lists each at its line.

What makes the parts correct: the ledger verifies, a row is stored once, an
answer is durable, no decision lacks its receipt (ledger and store); state and
counter agree and an outage ends (breaker); the window that ends now exceeds no
budget, no rejection is needless (guards); what passes was granted (gates); the
verdict follows the agents and grows with the evidence (trifecta), and a disguise hides
no words of a text (de-obfuscation, spectrum); a swarm is caught (detector);
every request ends, and is recorded with its reason (pipeline); only a policy
that was signed is honoured, and the command succeeds only under it (manifest,
command line); a key that is settled stays (keys); the statistics never
overstate what passed, and are never computed lower than on a page already sent
(dashboard).

## Modules

| Module | Models | State and actions against the code |
|---|---|---|
| HashChain | the promise of the audit log | `chain` is the ledger, `Extend` an issue-and-append in one step, `Breaks` the walk of verify_integrity |
| ReceiptLedger | `_finalize` by several threads of several processes | `ledger`, `decisions` are committed rows; `auditTxn`, `decisionTxn` the open transactions; `head` is `_last_hash`; one action per locked section, two for `issue`, and the ways a write fails |
| CircuitBreaker | the breaker | `Look` is `_maybe_half_open`, `Enter` and `Leave` the two ends of `call`; `Succeed`, `Fail`, `Abandon` how func ends |
| SwarmDetector | the per-principal tests | `Observe`; `streak` is a history variable |
| TokenVelocity | the token guard for one key | `ReadClock` before the lock, `Check` and `Usage` under it; `granted` is a history variable |
| RateLimiter | the rate limiter for one key, and Retry-After | the same shape; `rejectedAt` and `granted` are history variables |
| Dashboard | the dashboard process, over a store that the service writes | extends RateLimiter; `step` is how far a thread's request has come, `read` how many rows each of its SELECTs saw, `lock` the store's, which stats() releases before the page is built and sent (`Send`); `Commit` is the service's |
| SigningKey | the key file of a data directory and the processes that start there | `exists` and `content` are the file, `phase` and `key` each process's constructor; one action per call that touches the file |
| PipelineStart | what a pipeline finds when it is constructed again | extends SwarmDetector, one detector per process and agent, and SigningKey: a start loads or makes the key and begins with fresh detectors |
| Authority | enforce and Gate C1 | operators on a grant table and a request |
| Trifecta | scout, nitpicker, judge and the scoring they are made of | operators on what the detectors find; scores are integers, the code's floats times 6000 |
| Manifest | signed policies | operators on a file and a trusted key: `Verifies` is _verify_envelope |
| Sanitize | sanitize and normalize_text | operators on a text, one per step |
| Sandbox | scan_code | operators on a program, the set of constructs it holds |
| SpectralRigidity | the drift flag | `Collapsed` says that the adjacency matrix has a rank below three |
| Evaluation | the command `check`, from the manifest to the exit code | composes the six modules before it: `BuildPipeline` and `BuildFails` are _build_pipeline, `Authorize` guard 3 and Gate C1, `Evaluate` the trifecta with the forced block, `Exit` the end of _cmd_check |
| Pipeline | `process` in a service of several threads | composes ReceiptLedger, CircuitBreaker and SwarmDetector by INSTANCE: every step is an action of theirs together with the locals of `process`, held in `run`; `Raises` is an exception of the request's own content that nothing catches |
| HashChainProofs, ReceiptLedgerProofs, CircuitBreakerProofs, PipelineStartProofs (with SwarmDetector's and SigningKey's), EvaluationProofs (with Trifecta's and SpectralRigidity's), TokenVelocityProofs, DashboardProofs (with RateLimiter's), PipelineProofs | the theorems | |
| MC... | instances for TLC | each configuration belongs to one of them |

Operators whose name has a suffix, as `Start_Genesis`, are wrong variants of the
definition that follows them. No specification uses them: they show that a
property can fail, by taking the definition's place.

### Abstractions

* A receipt is its hash and its prev_hash. A hash covers a fresh uuid, so
  hashes are distinct; receipts are signed by the code that builds them, so the
  signature check never decides. `issue` numbers the receipts.
* SQLite is modelled from how the stores use it: an INSERT opens a transaction
  that only this connection's commit or close ends; while one is open, another
  process's write waits for its timeout and raises. A commit that raises may
  leave the transaction open or roll it back: both are explored.
* Time is counted in whole units. The breaker reads it only to compare the time
  since the last trip with its timeout, so that time is what the model keeps,
  and not beyond the timeout; the failure counter is not kept beyond the limit.
* Logarithms in the swarm detector are integers; the run uses the defaults
  (0.15, 0.65, 0.05, 0.05) times 1000.
* A pattern of a grant is the set of resources it covers.
* An Ed25519 signature is the key that made it and the policy it was made over;
  canonical JSON gives two policies the same bytes only when they are equal.
* A text is a sequence of symbols of the kinds the code tells apart: plain
  letters, a character that looks like one, an invisible one, the space, and the
  prefix of a data URI. Which blob decodes to which text is a table. One phrase
  stands for all the words some pattern knows; what the patterns then find
  belongs to the case. A program is the set of constructs it holds; which texts
  are programs is a table, and the eight words of `_looks_like_code`, which are
  looked for in the text as it was sent, are a set of short texts (`Markers`).
* A request has flaws: its fields, its token count, its declared resources, its
  principal or what the receipt takes over may raise an exception in the call
  that uses it (`RaisesAt`). What raises under the breaker is a detector error,
  and what SQLite refuses to bind or to write is a storage error.
* The drift flag is decided by how many eigenvalues are not zero, which for a
  symmetric matrix is its rank; the module computes that from the minors of
  order three, exactly, where the code compares floats with a tolerance.
* `write_bytes` opens the key file, which empties it, and writes 32 bytes at
  once: the file is missing, empty or whole.
* The trifecta's factor 6000 makes every weight and threshold of the five files
  a whole number. In Pipeline the trifecta returns any verdict or raises, and
  the token guard accepts or rejects: what they decide is in their own modules.

## Runs

| Run | Instance | Shows |
|---|---|---|
| ledger_serial | 1 thread, 5 receipts, 3 storage errors, 2 crashes | an error costs at most one break; until the first, tampering is detected and the ledger implements HashChain |
| ledger_shared | 2 threads and a second process, 3 receipts, 1 storage error, 1 crash | answers are durable, decisions audited, no row twice; the ledger may fork but has no hole |
| breaker | 3 callers, limit 5, timeout 8, with fairness | state and counter agree; the breaker tries again, and closes after an outage |
| start | 2 processes, one agent, every stream of requests, starts, stops and deaths | no more keys than processes, a settled key is final; evidence is bounded, streaks are caught |
| velocity | 2 threads, token counts -1, 0, 2 and 3, budget 2, rate 2, window 2, until time 4 | the window that ends now is within its rate, and its budget if no count was negative; no needless rejection |
| dashboard | 2 threads, 2 requests a window of 2, until time 3, 2 decisions committed meanwhile, with fairness | the Retry-After header is enough, the window that ends now is within its limit; `total_through` is never overstated, what is listed is counted, totals are never computed lower than on a page already sent, the store's lock is released |
| evaluation | every grant table over 2 agents, `*` and 3 patterns; 32000 combinations of findings around every threshold; every text of up to 4 of 7 symbols; every kind of program in the metadata, with texts that look like code and are, or only seem; every way to put a manifest together from 4 policies and 2 keys | the policy is one that was signed, and exit code 0 means a pass under it; the gates agree; what passes was granted by name; the verdict follows the agents and grows with the evidence, but for a match that displaces a denied category; a disguise hides nothing but code in the action itself, and is noticed, as a collapsed text is |
| pipeline | 2 threads, 2 requests of 6 kinds, 1 storage error, 1 crash, with fairness | what passes passed every gate, a block has its reason, a request is recorded unless its own content raised where nothing catches it, load is shed only when tripped, every request ends |

The bounds are enough for what can happen. A break needs two receipts and shows
at the third. Two threads suffice for every overlap of a read and a write, and a
third worker, in another process, sees it. An error leaves a transaction open,
the next append finds it, and one more passes through a state with both. A
window's edge needs one entry at it, one inside and one after it. The breaker's
limit is the default; its timeout only has to outlast a call. Two commits put
one between any two of the dashboard's three reads and one more after it. Two
processes meet at the key file in every order, and each may start again any
number of times. Four symbols are enough for a disguised blob of three, and for
a text whose matrix has a rank of three. What larger instances could add to the
safety and action properties is settled by the proofs; liveness is settled for
these instances.

`CHECK_DEADLOCK FALSE` is said where the system really stops: an evaluation
is one run of a command, and ends. Everywhere else some thread can always go on.

Runs that find the code in disagreement with what the repository says of it
(`findings` in PROJECT.json has the quotations):

| Run | What happens |
|---|---|
| ledger_break | two threads chain to the same receipt, or append out of order; `verify` rejects a ledger nobody touched |
| breaker_early_close | a call admitted before the trip closes the breaker long before its timeout |
| evaluation_default | the default manifest grants everything to `*`, which Gate C1 does not look up: every request naming a resource is blocked |
| pipeline_malformed | a token count that does not convert raises out of `process`: no verdict and no record (so do the other flaws of `RaisesAt`) |

The ledger has two more ways to the same broken walk, which the modules contain
and no separate run repeats: two processes, each with its own head, over one
file; and an append that fails after the head moved, so that the next receipt
names one that was never stored (this one ledger_serial counts). Also visible in
the modules: HALF_OPEN admits as many trials as there are callers; waiting
exactly the limiter's `retry_after` is not enough, since an entry one window old
still counts (the header adds a second, and is enough); only the best-scoring
category is compared with the deny-list, so that one more match in a category
that is not denied may displace a denied one and turn BLOCK into OBSERVE
(`Displacing`; nothing but the deny-list's block is lost); code in the action is
looked for in the action as it was sent, so that an invisible character in one
of its words or a blob around it leaves only the obfuscation, OBSERVE where the
code was BLOCK (`VerdictOfWords`); a negative token count makes room in the
budget that stays when it has left the window; a page may be overtaken by a
newer one after both have left the store; `total_through`, the difference of two
SELECTs, may be too small by the blocks committed between them, and even -1; a
request with a wrong token counts against its client's rate; an empty key file,
left by a death in the middle of a write, is refused by every later start until
somebody removes it; two processes that start together on a new data directory
may keep a key each, and the one in the file is the last one written; a file
whose fields do not convert leaves `check` with exit code 1, one that does not
verify with 2; a decoded payload is not de-obfuscated a second time; the drift
flag depends on the rank alone, and `theta_bk` decides nothing.

### Fairness

`CircuitBreaker.FairSpec`: time passes; each thread keeps entering calls when
the breaker lets it (requests keep coming, otherwise nobody looks at an open
breaker); a call ends, since the trifecta is a terminating function. Nothing is
assumed of how it ends. `Pipeline.FairSpec`: a request being processed goes on;
no fairness of the clock or of other requests is assumed, which is the point:
nothing in `process` waits for either. A write waits for SQLite's write lock at
most its timeout, and then raises. `Dashboard.DashboardSpec`: a request that was
accepted goes on in its thread; nobody has to send one, and no time has to pass.
The fairness is weak, though a thread's read is disabled while another holds the
lock: the lock must be released whichever thread gets it, or starves for it.

## Proofs

* **HashChainProofs.** The invariant says that the hashes in the chain are
  distinct and that each row names the row before it. The walk's verdict is that
  invariant's second half. Removal and exchange are detected because a hash that
  names row i cannot name another row.
* **ReceiptLedgerProofs.** `TypeCorrect` and the store invariant hold for any
  threads, processes, errors and crashes: what is committed or in an open
  decision transaction has its receipt committed. `AnswersStayDurable` and
  `DecisionsStayAudited` follow. `LinksAlwaysResolve` needs that, without errors
  and crashes, each chain head and each receipt's prev_hash is stored or in
  flight. The serial theorems assume `SerialService` (there is at most one
  worker), and speak of the time before the first storage error; their invariant
  ties the head to the last row by the worker's program counter, which is what a
  second thread breaks. The refinement maps `ledger` to `chain`: an append is an
  `Extend`, every other step stutters.
  `SerialBreaksBounded` counts the breaks that the rows would have if the open
  transaction were committed, plus one if the next receipt is going to miss the
  tail: only an error adds one, and the error that adds it has been counted. The
  count of the committed rows alone is not inductive, since a row left behind
  may bring its break in much later. `EveryRowOnce` needs no serial service: the
  hashes of a process's rows, committed or left behind, are distinct, and no
  receipt in flight is among them. Both invariants together make the rows a
  linked list in the sense of HashChainProofs, whose lemmas then give
  `SerialTamperingIsDetected`.
* **CircuitBreakerProofs.** `TrippedIffExhausted` is inductive only with the
  type invariant and the fact that HALF_OPEN implies an exhausted counter. The
  timeout theorem assumes one caller, whose program counter rules out a late
  success.
* **PipelineStartProofs.** Of the detectors: the invariant bounds the evidence
  from both sides and relates it to the streak: the evidence is at least the
  streak times the increment, less the distance to the lower boundary. Of the
  keys: their number is bounded because a process creates one only if it looked
  while there was no file, so the invariant adds the processes that have looked
  and not yet created to the keys there are, and no process joins them once the
  file exists. It needs the set of processes to be finite. `SettledKeyStays`
  holds of every step by itself, with the types. Of the two together:
  `StartImplementsKey` maps a start to a step of SigningKey and the rest to a
  stutter, and a fresh detector satisfies the detectors' invariant, so both sets
  of theorems survive the composition.
* **EvaluationProofs.** One invariant says what each phase of the command still
  knows of the phases before it: the policy in force is the default or what the
  author signed, the objections are those of this policy, and the verdict is
  milder than a block only without any. The manifest's part rests on
  `CasesAssumption`, that a file carries no signature but one its author made;
  whatever else is in the file may be anybody's. The command line never
  passes a trusted key, so that for it the key in the file decides, which
  docs/THREAT_MODEL.md and load_manifest's docstring accept; the trusted key is
  that of other callers. `PassAlwaysMeansGranted` and
  `GatesAlwaysAgree` then compare the rules by which the two gates look grants
  up, for any table and any patterns. `DefaultAlwaysBlocksNamed` follows: what the
  run evaluation_default shows for one request is true of every request that
  names a resource.
  The scoring's theorems are arithmetic over the thresholds and caps of five
  files. `HintsAreAlwaysHeeded` and `BlocksAreAlwaysCorroborated` rest on what the
  judge's combined score is, the higher of the agents' two, with a bonus when
  both object; `EvidenceCanNeverHelp` proves every stage monotone in every finding: the
  pattern weight, the ratchets, the escalation, the ceiling, the deny-list, the
  ruling. `MatchGrows` is about one more match of the lexicon: a top category
  that is denied stays so if the match is in a denied category; in another one
  it may not, and the theorem then compares with the verdict under an empty
  deny-list. `CollapseIsAlwaysNoticed` expands the minors of order three of the
  adjacency matrix: where one class is next to all others, every product of a
  minor has a factor outside that class's row and column, and is zero; two
  classes make no minor of order three. It rests on `TextsAssumption`, that a
  text is made of characters and every character has its classes.
  `DisguiseCanNeverHelp` takes the steps of the de-obfuscation one by one. An
  invisible character is stripped and a look-alike folded, so a text hidden that
  way has the same cleaned form (`HiddenIsCleaned`) and is suspicious; a blob is
  its own longest run, so the text it decodes to stands at the end of the
  cleartext (`WrappedIsDecoded`, `NormalizedAfterSpace`), and whatever phrase was
  heard is still heard. What is found in the disguised request is then no
  better, except that a blob may hide the drift; the obfuscation it adds instead
  weighs less, and `ScoutGrows` and `CombinedGrows` show that no threshold lies
  between. Code in the action itself is left out of the comparison, since the
  scan goes by the text as it was sent; what the obfuscation weighs alone is
  enough for OBSERVE. The payload must not be disguised itself, which is what decoding only
  once leaves open; for invisible characters and look-alikes alone that
  condition falls away (`HidingCanNeverHelp`). The folds of the community
  modules are taken at the one operator they are used with (FlattenSeq), whose
  recursive function is expanded step by step.
* **TokenVelocityProofs.** The deque is trimmed at times that may come out of
  order, so it does not hold the entries of any one window. The invariant says
  that it is what is left of everything ever granted after some entries, all
  expired by now, went from its front; and that its total is within the limits.
  Every grant in the window that ends now is then among the entries left, and
  the sum over a part of a sequence of costs is at most the sum over all of it,
  if none is negative. The pipeline passes any integer of a request's metadata to
  the guard, so that this is a condition of the property (`NoneNegative`) and not
  of the model; the rate needs no condition. Sums are recursive functions over the natural numbers; the
  facts about them are proved by taking the least number at which one fails
  (`LeastNatural`, from the well-foundedness of inclusion among finite sets).
  `RejectionsAlwaysJustified` needs the other side: what is left in the deque that
  a thread trimmed, if nobody overtook it, lies wholly in its own window.
* **DashboardProofs.** The limiter's invariant has the same shape, with counts
  for sums, and adds that once the newest rejection's wait is over the oldest
  hit expires; that the header rounds the wait up to a whole second more is what
  makes it enough where `retry_after` is not. `DashboardImplementsLimiter` maps
  each step of a request to a step of RateLimiter or a stutter, and carries both
  results to the dashboard (`DashboardKeepsRate`). For the store: what a thread
  has read is a prefix of the table, the prefixes of its SELECTs grow, only the
  thread between the SELECTs of stats() holds the lock, and what a page
  sent so far has shown is at most what that thread has counted. `ThroughNeverOverstated` compares the
  two prefixes, `EventsAlwaysCounted` the first and the second, and
  `TotalsNeverFall` needs the lock: without it a slow thread returns from stats() with an older
  prefix than a page sent meanwhile. That pages overtake one another after the
  lock is released is no part of it.
* **PipelineProofs.** `Sound` says what `process` knows of its request at each
  step: a block is forced exactly when a gate objected, the verdict follows from
  that and the trifecta's, and a request that reaches `_finalize` unblocked has
  no violation. `PassesEveryGate` and `BlocksAreExplained` speak only of the
  last two steps, and are not inductive without the others. The stores, the
  breaker and the detectors may do anything that their modules let them.
  `ShedsOnlyWhileTripped` adds that the breaker is closed exactly while its
  failures are below the limit, also across the restarts that reset it.
  `ImplementsReceiptLedger` maps every step of `process` to a step of
  ReceiptLedger or a stutter; through it `LedgerInvariant` and
  `PipelineStoresAreSound` hold of the whole pipeline what ReceiptLedgerProofs
  says of `_finalize` alone. So do `PipelineLinksResolve` (no hole in the ledger
  without a failure or a crash) and `SerialPipelineImplementsHashChain`: with at
  most one request at a time the pipeline implements HashChain until the first
  storage error. That hypothesis is needed, since two overlapping requests read
  the same tail, as the run ledger_break shows. `RequestsAlwaysRecorded` counts.
  Its invariant follows each request: one worker has it, from `issue` on that
  worker's receipt is about it, and before that no receipt is. A request that
  ends is then in both stores if `_finalize` returned (the ledger's invariant),
  and stays there; otherwise an exception of its own content, a storage error or a crash has
  been counted for it, the crash once for each worker.
  `PipelineTrippedIffExhausted` and `PipelineCatchesStreaks` are the breaker's
  and the detectors' own results again, now across the restarts that empty them:
  a streak of n suspicious requests has added n increments to a start above the
  lower boundary, so it meets the upper one before it covers the distance.
  `PipelineImplementsBreaker` maps each step to a step of CircuitBreaker, a crash
  or a new process. With one worker nobody runs while the breaker is open, so it
  keeps its timeout but for restarts (`SerialPipelineKeepsTimeout`); with two a
  late success closes it (breaker_early_close).
  `PipelineTypeCorrect` needs the request invariant, since the number of
  requests that raised is bounded by the requests that have ended.

Assumptions on constants: `HomeAssumption`, `BoundsAssumption`,
`LimitsAssumption` (max_failures is positive), `RatesAssumption` (increments and
boundaries on their sides of zero, which the constructor checks for the rates
and not for alpha and beta), `GuardAssumption`, `LimiterAssumption`,
`PatternsAssumption` (the pattern `*` covers everything), `CategoriesAssumption`,
`RequestsAssumption`, `PartsAssumption` (the pipeline gives its parts what they
assume, and has finitely many threads), `CasesAssumption` (among the rest, what
the detectors find is a natural number of things), `TextsAssumption`,
`AlphabetAssumption` (what a character folds to, and what blobs are made of, is
neither folded nor stripped; a blob decodes to a text of characters),
`DashboardAssumption`, `DetectorsAssumption`. TLC evaluates each of them in some
run.

Only model-checked: the liveness properties (AlwaysTriesAgain,
ClosesAfterOutage, LockIsReleased, EveryRequestEnds), which are beyond the
prover.

## Not modelled

The regular expressions of the pattern bank, the escalation probe, the safety
bounds and the lexicon: what they find in a text is an input of Evaluation. The
floating-point values of the eigenvalues, which only make a reported score. The
content of a signature, a receipt and a key. Requests' fingerprints, which are
recorded and never compared. The hardware-derived key of core/receipts.py, which
the pipeline does not use. Configuration, logging, rendering, the demo and the
release scripts hold no state of the pipeline's; the values they give are
constants of the modules.

## Plan

Done: every module has its runs, and every invariant and action property the
passing runs check is a theorem.

A next step would be liveness of the whole pipeline on larger instances, which
is TLC's alone, and the parts that are inputs so far: the pattern bank and the
escalation probe over their own tokens.

A run asks one question of one component. A component that joins shares the run
of the component it extends, or takes the place of the run that shows least.
