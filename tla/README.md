# didicafe, specified in TLA+

didicafe is a captive-portal daemon for a cybercafé: staff sells tokens, a
customer enters one on the portal, and the daemon lets the customer's device
(MAC and IP) through the firewall for the time the token bought. This directory
holds TLA+ models of the daemon's core, the TLC runs that check them on small
instances, and proofs, checked by TLAPS, that hold for every instance.

Paths below are relative to the repository's root. Line numbers of every
modelled definition are in `PROJECT.json` under `map`.

## 1. Inventory

| Part | Code | State it keeps | Operations |
|---|---|---|---|
| Session lifecycle | `src/services/session.rs`, `src/main.rs` | none of its own: it moves rows and firewall elements | create, migrate, disconnect, cleanup ticker, start-up restore |
| Token and session tables | `src/db/mod.rs`, `src/db/models.rs`, `migrations/` | rows of `plan`, `token`, `session`, `settings`, `audit_log` (SQLite, WAL, foreign keys on) | one method per statement; only `create_session` is a transaction of two |
| Firewall | `src/firewall/` | the kernel's nftables set of (MAC, IP) with timeouts | add element, delete element, create table and set |
| Portal handlers | `src/web/portal.rs` | none | splash page, `POST /portal/auth`, success, status |
| Portal and login CSRF stores | `src/services/csrf.rs` | one token and its creation time per MAC (portal) or per IP (login) | `generate`, `get_or_generate`, `validate` |
| Rate limiters | `src/services/rate_limit.rs` | attempt times per IP, bans per IP, each behind its own lock | `check_and_record` |
| Admin sessions | `src/services/admin_session.rs`, `src/web/extractors.rs` | session id, expiry, CSRF token | create, validate, remove |
| Token generation | `src/services/token.rs` | none | format check, batch generation, look-up |
| Admin pages and API | `src/web/admin.rs`, `src/web/api.rs` | none | login, logout, plans, settings, token batches, revoke, disconnect, lists, statistics |
| Captive portal detection | `src/web/captive.rs`, `src/web/cpd.rs` | none | reads the session of a client; redirects |
| Routing, middleware, errors | `src/web/mod.rs`, `src/web/error.rs` | none | routers, headers, admin network filter |
| Configuration | `src/config.rs` | read once | parsing, validation, CIDR test |
| Network helpers | `src/net/` | none | MAC from ARP, MAC syntax |
| Server | `src/main.rs` | none | start-up order, TLS accept loop, shutdown |

**How they interact.** Every request is a tokio task; the ticker is one more.
They share `AppState`: the SQLite pool, the firewall (an `nft` process per
command), the in-memory stores. Nothing locks a token or a session across two
awaits, so each database statement and each `nft` command of one task can fall
between any two of another. The kernel's set lives outside the process: it
survives a restart of the daemon, and not a reboot.

**What is hard.**
- Interleaving: two requests with one token; a request against revoke,
  disconnect or the ticker, which walks over a snapshot of the rows.
- Partial failure: handlers stop half-way (an error, or the client hangs up and
  hyper drops the handler's future) and nothing is undone; `deauthorize_client`
  reports success whatever `nft` said.
- Restart: three copies of the truth (token row, session row, kernel element)
  are brought back in step from the session rows alone.
- Numeric edges: clamped remaining time against the grace period, an `nft`
  timeout that must not be 0, windows and bans at their boundary.
- Memory: maps keyed by client that are pruned only by certain calls.

**What makes each part correct.**
- Lifecycle and tables: one active session per device; a token is consumed only
  for a session and buys one period; access only for those who paid, and for all
  of them; a restart cuts short by no more than the grace; what is over gets closed; the purge
  respects the foreign key.
- CSRF stores: a form token is accepted once, within its time, for the client it
  was given to; a rendered form stays usable.
- Rate limiters: no more than the allowed attempts pass in any window; a ban is
  served; memory is bounded per address.
- Admin sessions: nothing is accepted after logout or timeout.
- Token generation: unique codes of the format the portal accepts; no code
  is answered that is not in the table or that somebody else has.
- Admin API: edits that do not overlap are kept; settings are those of one form.
- Reads: lists, filters and badges agree on a token's status, what a customer is
  told agrees with the firewall, and the chart with what was sold.
- Configuration: whatever file is accepted, requests end at a page, the admin's
  listener is for the allowed networks, and codes can be entered.

`PROJECT.json` lists the hazards with their lines.

## 2. `Sessions`: the life of a token and its sessions

**State.** `token` and `session` are the two tables, `fw` the kernel's set (the
second at which an element times out, 0 for none), `now` the wall clock, `req`
the program counters and locals of the `POST /portal/auth` handlers, `admin` the
disconnect handler, `job` the one loop that runs over a snapshot of the active
rows (the ticker's while the daemon is up, the restore's while it boots), `mode`
whether the daemon runs.

**Actions.** One per await:

| Actions | Code |
|---|---|
| `ValidateUnused`, `ValidateActive` | `portal_auth` up to the answer of `validate_token` |
| `CreateAuthorize`, `CreateInsert`, `CreateRedeem` | `create_session`, its three calls |
| `MigrateFind`, `MigrateFindsNothing`, `MigrateDeauthorize`, `MigrateClose`, `MigrateAuthorize`, `MigrateInsert` | `migrate_session`, its five calls |
| `InsertRefused`, `RequestFails` | the foreign key's refusal; a call that fails, a dropped future |
| `RevokeToken`; `DisconnectRead`, `DisconnectDeauthorize`, `DisconnectMark` | the admin API |
| `TickerStart`, `TickerSkip`, `TickerDeauthorize` | `cleanup_ticker` |
| `BootStart`, `BootRestore`, `BootExpire` | the restore in `main` |
| `ExpireSession`, `ExpireToken`, `JobStepFails`, `LoopEnd`, `PurgeSessions`, `PurgeTokens`, `PurgeFails` | shared by both loops |
| `Crash`, `Tick` | the daemon dies (kernel's set kept, or lost with a reboot); a second passes |

The handlers hold copies of the rows they fetched. The model keeps the row's id
instead: the columns a handler uses are written once, by the INSERT, and a
purged row keeps them (status `"purged"`).

**Abstractions.**
- Time is in whole seconds, as in the database's timestamps and `nft`'s
  timeouts. The code drops fractions of a second twice (the stored deadline and
  the remaining time), so "before the deadline" below means more than a second
  before it.
- All tokens have one duration and are generated before the model starts.
- CSRF, rate limit and token format are passed: they come before the first read
  of this state.
- `purge_expired_sessions` may run after any round of the ticker (the code: once
  an hour) and `Retention` is in seconds (the code: days, at least 1).
- Only the portal's clients are in `fw`: the element that login adds for the
  manager's own device is left out here and modelled in `AdminAccess`.
- `init_ruleset` creates the table and the set when they are missing and keeps
  the elements, so `BootStart` does not change `fw`.
- The clock does not jump.

**Environment, as constants.** `Faults` and `Crashes` say what may fail,
`AdminActs` what the admin does, `AddRefreshes` whether `nft add element` on an
element already there restarts its timeout (kernels differ), `SlowHandlers`
whether a second may pass inside a handler.

### Runs

All runs use `MCSessions`, which adds the symmetry sets. No run disables
deadlock checking: the ticker can always start a round.

| Run | Checks | Instance, and why it is enough |
|---|---|---|
| `sessions_safety` | `TypeOK`, `OneActivePerMac`, `ConsumedTokenHasSession`, `ReferentialIntegrity`, `NeverExpiredEarly`, `RestoredFirewall` | 2 handlers, 2 devices, 2 tokens, 2 rows; failing calls of handlers, reboots at every point of them, both admin calls, retention 0, so that purge, revoke and redeem meet, and a period of 2, so that a restart finds half of one. Two rows are one for each token, or two for one token. Nothing that writes the tables reads the kernel's set, so a process that dies alone does to them what a reboot does |
| `sessions_serial` | `AccessIsPaidFor`, `OnePaidPeriod`, `ImplementsPaidTokens` | 1 handler at a time, 3 rows (create and migrate twice), both kernels, disconnect in between; the ticker's and the purge's statements may fail |
| `sessions_cleanup` | `ExpiredEventuallyCleaned` | grace 0, `nft delete` may fail, disconnect, under `FairSpec`; no symmetry, as it is a liveness check |

Three runs expect a violation. Each is a disagreement of the code with its own
documents, described under `findings` in `PROJECT.json`:

| Run | The code |
|---|---|
| `sessions_token_twice` | two devices redeem one token at a time, both get in |
| `sessions_grace_cleanup` | with a grace period the ticker expires nothing, as the remaining time it compares with `-grace` is clamped at 0 |
| `sessions_early_expiry` | with a grace period a restart expires sessions that are still running: `remaining > grace` decides who is restored, and the rest is marked expired (`ExpiredOnlyWhenOver`) |

`LiveSessionOnline`, and `NeverExpiredEarly` with a grace period, are checked in the run
`views` (below), whose daemon is this module with a grace of 1 and reboots, one
address for each device and no second that passes inside a handler. What the run leaves
out is proved: `NeverExpiredEarly` for all constants, `LiveSessionOnline` for any number
of addresses and slow handlers (`RunningSessionsAreOnline`).

**Where a property stops holding** (tried with TLC, and why a run is bounded so):
- A token that is revoked while a request is between `validate_token` and
  `redeem_token` becomes active: the UPDATE does not look at the status.
- An `nft` error in `deauthorize_client` is swallowed: a disconnect reports success
  and the client stays in until the element times out.
- With a grace period, a restart marks a session expired while up to that many
  seconds of it are left (`remaining > grace` in `main`): ten with the delivered file.
  `NeverExpiredEarly` says that it is never more, and that the ticker takes none;
  `ExpiredOnlyWhenOver`, which the documents promise, fails.
- `AccessIsPaidFor` needs every request that has let its client in to go on to the
  INSERT, unless the set is lost too: a handler that stops after `authorize_client`
  leaves access with no session, and so does an INSERT that is refused because the
  token was revoked and purged meanwhile. And it needs requests within a second: the
  element's seconds are counted from later than the row's deadline.
- `RestoredFirewall` is about reboots: a daemon that only dies finds the old set,
  and the restore removes nothing from it.
- `LiveSessionOnline` needs a kernel that restarts the timeout (else a second
  token redeemed on the same device keeps the first one's), a grace period (else
  the ticker, from its snapshot, takes a client off who has just redeemed a new
  token), and no disconnect of a row that is already closed (it removes the same
  client's new element).
- A session that the admin disconnects while its migration is in flight is migrated
  all the same: `migrate_session` looks at the status once.
- `OnePaidPeriod` needs requests at a time to carry different tokens
  (`sessions_token_twice`), and none that stops between the INSERT and `redeem_token`.

**Fairness.** `FairSpec` adds weak fairness of `JobStep`, the ticker's and the
restore's steps: the tokio interval keeps firing, a round has no wait without
end, and a failed call only skips a row. Nothing is assumed of customers, the
admin or the clock.

### The abstract specification: `PaidTokens`

`PaidTokens` has no rows and no handlers: a token's period starts once
(`Redeem`), one device holds it, another takes over what is left once the first is
off the network (`Migrate`), a period can be given up (`Release`), a device cut off
(`Cut`), and time ends access (`Elapse`). `SessionsRefinement` maps `Sessions` to
it: the period and its holder are read off the rows, except inside a handler,
where they begin with the kernel's element: `create_session` authorizes first and
inserts later, `migrate_session` closes the old row two awaits before the new one
exists. `sessions_serial` checks the mapping (`ImplementsPaidTokens`) for one
request at a time. With two at a time it fails, as `sessions_token_twice` shows;
with failures a device stays in without a period (the first point above).

### Proofs: `SessionsProofs`

For any sets of clients, tokens, rows and handlers, any durations, all failures,
restarts, kernels and admin calls, from `ConstantsAssumption` alone where no condition
is named:

- `InductiveInvariant`: `TypeOK` and `FetchedRowsExist`. `TypeOK` is not
  inductive by itself: a handler that closes or copies "its" row keeps the types
  only if the row was ever inserted. `FetchedRowsExist` says so for every row id
  held by a handler, the admin or a loop, and `RowsAreKept` that no step ever
  takes an inserted row's columns away.
- `TypeCorrect`: `TypeOK`. Part of it is that a migration never carries on with a
  remaining time of 0.
- `OneSessionPerDevice`: only the two INSERTs make a row active, and their
  transaction closes the device's other rows (`InsertClosesTheMac`); all other
  writes leave fewer active rows (`FewerActive`).
- `ForeignKeyHolds`: a token row goes only if no row in the table names it, and an
  INSERT needs the token row, so the purge's two statements may interleave with
  anything.
- `NoTokenConsumedForNothing`: strengthened by `RedeemersHaveSession`,
  what a handler at `create_redeem` has already inserted
  (`RedeemersStep`), which survives crashes because the order is authorize,
  insert, redeem.
- `NeverEarlierThanTheGrace`: `NeverExpiredEarly`, for every `Grace`. The loops decide
  on a row and expire it later; the clock only moves on (`ExpiringStep`, with
  `Latest` for the deadline each of the two loops goes by), and only `ExpireSession`
  sets `expired` (`OnlyExpireSessionExpires`).
- `RebootRestoresTheSet`: `RestoredFirewall`, for `Reboots` (no crash of the process
  alone, no failing loop). `RestoreInv` says what the restore has done at any point of
  its walk: who is in the set is there for a row it is done with
  (`GrantedToRunning`), and the running rows it is done with are in the set
  (`RunningGranted`). No condition on handlers: a reboot ends them anywhere.
- `RunningSessionsAreOnline`: `LiveSessionOnline`, for `Attended`, the conditions named
  under "Where a property stops holding". `OnlineInv` adds what a handler between two
  awaits has already done (`LetIn`, `Leaving`), that no element outlives a whole period
  from now (`WithinAPeriod`), and that with a grace period no loop but the restore
  expires anything (`NobodyTakenOff`, from `NothingDue`).

Only model-checked: `ExpiredEventuallyCleaned`, a liveness property, which is outside
the prover's reach.

### Proofs: `SessionsRefinementProofs`

What a token buys, with the conditions each theorem needs and no others; TLC shows a
violation for each one that is dropped:

| Theorem | Assumes | Because |
|---|---|---|
| `OnePeriodWhenApart` | `[]Apart`: no two requests carry a token at a time; `SaleRecorded`: none stops between the INSERT and `redeem_token` | two requests redeem one token (`sessions_token_twice`); a request that stops there leaves the token unused |
| `AccessEndsWithItsRow` | no slow handlers; `LetInIsRecorded`: a request that let its client in goes on to the INSERT, and is not refused, unless the set is lost | the element is set for seconds counted from later than the row's deadline; otherwise there is access and no row |
| `SessionsImplementPaidTokens` | `Exact`: `Serial`, no slow handlers, no revoke, and `nft delete` does not fail | another request may let the old device in again before a migration is over; a device that is migrated away from stays in the set |

The first two are about all behaviours otherwise: any number of requests at a time, in
the second even with the same token, every failure anywhere else, crashes, reboots,
disconnects and revokes. Before they were proved TLC checked them with two requests at a
time, two tokens, three rows and all failures (1.7 million states), and with two requests and a
reboot (0.4 million). `OnePeriodWhenSerial` and
`AccessEndsWithThePeriod` are the same under `Serial` (requests do not overlap, do not
fail, and the daemon stays up) and `Prompt` (`Serial`, no slow handlers, no revoke),
which speak of the constants alone and are what `sessions_serial` has.
All of them leave the ticker, its failures, the purges and both kernels
as they are, for any numbers of devices, tokens and rows and any times.

- `PeriodInv` strengthens `OnePaidPeriod` by what a handler relies on since it read:
  the token of `CreateAuthorize` and `CreateInsert` has no row (`UnusedUnsold`,
  `NotSoldTwice`), and the row of a migration is the only active one of its token until
  it is closed, and then there is none (`OldIsTheOne`).
- `AccessInv` is `Backed` (each element stands for a row of its device, or for a request
  that is about to insert one, and does not outlive that row's deadline) with `Timely`
  (the deadlines that handlers hold are right). The step is taken for the elements a step
  writes (`NewElementBacked`, `RestoredBacked`) and for those it leaves
  (`StillBacked`).
- `PromptInv` adds `UpToTime` to `PeriodInv`: tokens expire with their period, and the
  deadlines and remaining times that handlers hold are still right. From it follows that
  no INSERT is refused (`InsertNotRefused`), so that `LetInIsRecorded` holds
  (`PromptRecords`).
- `RefinementInv` adds `OldOff`, and what the mapping says of a token in each state
  (`Reading`, which follows from the rest). The steps are then taken one by one
  (`AuthorizeRedeems`, `AuthorizeMigrates`, `InsertRefines`, `QuietRefines`,
  `OtherRefines`): redeeming maps to `Redeem` at `CreateAuthorize`, not at the INSERT;
  migrating to `Migrate` at `MigrateAuthorize`; closing a row to `Release` or a stutter;
  a delete in the kernel to `Cut`; a second to `Elapse`.

## 3. `RateLimiter`: attempts and bans

**State.** `attempts`, `known` and `bans` are the two hash maps (`known` are the
keys of the first), `call` the calls of `check_and_record` in flight, `now` the
monotonic clock. The rest is history: `records` numbers the attempts, so that two
in one second stay two, as in the code's vector; `passed` and `strays` are the
attempts let through, by whether the address was banned at that moment; a call's
`ban` is the ban in force when it began.

**Actions.** A call reads the clock (`Start`), checks the ban under the read lock
(`CheckBan`), drops expired bans under the write lock (`PruneBans`), and does the
rest under the lock of the attempts in one step: `RecordBan`, `RecordThrottled` or
`RecordAllowed`, by the number of recent attempts. The ban is inserted under a
nested lock; nobody can look at the bans between that and the end of the step and
tell the difference. `Stall` bounds how old a call's clock may be when it acts.
Portal and admin login have a limiter each; this is one of them.

| Run | Checks | Instance, and why it is enough |
|---|---|---|
| `ratelimit` | `TypeOK`, `AllowedPerWindow`, `BanServed`, `AttemptsBounded` | 2 parallel calls with clocks up to a second old, 2 addresses, allowance 1, ban at 3 attempts, a window of 3 s and a ban of 4 s, a sweep at 2 entries; 7 attempts in 6 s, so that an address is throttled, banned, and back |

The run disables deadlock checking: the model stops at its bounds, `MaxTime` and
`MaxRecords`. There is no liveness here: a call waits for nothing but locks that
are held for a few statements.

An attempt that has passed the check before a parallel call sets the ban is counted
and may be let through during it (`strays`). The attempts of addresses that never
come back are dropped only by the sweep, when the map's size is a multiple of its
threshold; what is bounded, and checked, is the memory per address.

`AllowedPerWindow` counts over a stretch of `Assured` seconds, the smaller of
`Window - Stall` and `BanDuration - 2 * Stall`. The code promises no more than that:
the sweep or the pruning of a call with a newer clock forgets an attempt that a call
with a clock `Stall` seconds old would still count; and a ban set with an old clock
ends early, after which all that it cleared is forgiven. Both limits are exact: for a
stretch one second longer TLC finds a counterexample, with a long ban for the first
and a long window for the second. With calls that do not stall and the delivered 60
and 900 seconds the stretch is the whole window; `AppConfig::validate` does not demand
that a ban be as long as a window. The `strays` are not counted.

### Proofs: `RateLimiterProofs`

From `LimitsAssumption`, for any addresses, calls and limits:

- `BanIsServed`, for any `Stall`. The inductive invariant `BanInv` says what may
  have become of the ban that a call met when it began: it is still there, or was
  replaced by one that ends at most `Stall` earlier (set by a call with an older
  clock), or it is over up to `Stall`.
- `MemoryPerAddressIsBounded`, with `KeptFinite`: every outcome leaves an address
  a part of what it had, or fewer attempts than lead to a ban.
- `WindowIsRespected`, for any `Stall`, window and ban. Its invariant `Covered` says
  that an allowed attempt is still among those kept, or is older than matters even to
  a call with an old clock, or its address is banned until it will be. So whoever is
  let through unbanned was counted together with all of its stretch
  (`StretchIsCounted`); an attempt recorded late, with a clock before attempts
  recorded already, falls into their stretches too, and the lemma covers those.

## 4. `FormTokens`: the forms' CSRF tokens

**State.** `store` is the hash map (an entry per client: the portal keys it by MAC,
the login form by IP; the two stores are instances of one model), `req` the
handlers in flight, `now` the monotonic clock. Tokens are numbers in the order they
were generated, as the code's are random and do not repeat. `accepted` and `pages`
are history: the tokens `validate` accepted, and the forms a client was sent since
its last POST, with whether another request of the client ran beside (`alone`).

**Actions.** `Get` begins a handler; `GetHit` and `GetMiss` are `get_or_generate`'s
look under the read lock; `Generate` the write lock of `generate`, prune included;
`generate` reads the clock just before the lock and the model under
it: an entry may be older than the model's by that wait.
`Deliver` sends the page (the template awaits the settings first). A POST's
`validate` is one step, `PostRejected` or `PostAccepted`; afterwards the handler
generates a token for the page it answers, or answers a redirect or 429 without
one. `Abort` drops a handler.

| Run | Checks | Instance, and why it is enough |
|---|---|---|
| `forms` | `TypeOK`, `ReloadKeepsForm`, `AcceptedOnce` | 2 clients, 2 requests at a time, 3 tokens, TTL 2 of 3 s: a token is reused, expires, is replaced, and pruned by another client's request |

What the code does not promise, and `ReloadKeepsForm` therefore exempts by `alone`:
two *overlapping* first loads both generate, so the first page's form is dead, the
very case that the comment at `src/services/csrf.rs:59-63` describes. The comment
at `src/services/csrf.rs:27` ("replaced on each GET /portal") is older than
`get_or_generate`. No liveness: nothing waits.

### Proofs: `FormTokensProofs`

From `TtlAssumption`, for any clients, handlers and bounds:

- `TokenAcceptedOnce`: `TokensInv` says that what is stored was not accepted, and
  that no two clients are kept one token; the second half is needed for the first
  when a token is accepted.
- `FormSurvivesReload`: `ReloadKeepsForm` is not inductive: what a handler will send
  or replace is decided earlier. `SendInv` says that a lone handler holds the
  store's entry, `GenerateInv` that one about to generate has no good form of its
  client to replace, `AloneInv` that a lone handler has nobody of its client beside.

## 5. `AdminAccess`: who acts as the manager

**State.** `store` is the map of `AdminSessionStore` (ids that were removed are
remembered, as random ids do not come back), `jar` and `forms` are what the
manager's browsers hold: the cookie, and the CSRF tokens in open pages. `device` is
the kernel's element of the browser's own device, `audit` counts the rows of the
audit log, `req` holds the requests in flight. History: `over` are the ids that were
given up, `lost` counts the logins whose row the database refused, and an entry's
`timed` tells whether its login's nft command set the device's timeout.

**Actions.** Every lock of the store and every await is a step. A login that has
passed the form's token and the rate limit (`FormTokens`, `RateLimiter`) writes its
row (`LoginAudit`), ends the session its cookie names (`LoginReplace`), adds the
device to the kernel's set (`LoginAuthorize`) and opens a session (`LoginCreate`).
The row may be refused and the command may come to nothing (no ARP entry, an nft
error, a kernel that leaves the timeout of an element alone): the login goes on;
the cookie is set when the answer arrives (`Answer`), which may be after another
answer's. `Logout` has no extractor. Any other request starts with `Call`, `Page` or
`SubmitForm`; `Validate` is `AdminSession`, and once more the first half of
`CsrfToken`, `ReadCsrf` its second half, which takes the lock again, and `Act` the
handler. `Dropped` stops a request at an await, `Restart` empties the memory but not
the kernel's set or the browsers.

| Run | Checks | Instance, and why it is enough |
|---|---|---|
| `admin` | `TypeOK`, `RefusedOnceOver`, `FormOfOwnSession`, `LoginOnRecord`, `ManagerOnline` | 1 browser with 2 parallel requests, 2 sessions, time-out 2 of 3 s, restarts: a login from an old session, a form of the session before, an expiry between two locks |

No session is drawn twice and `Starts` keeps logins to the ids there are; time is
bounded by `MaxTime`. With two browsers nothing is shared but the store, entry by
entry.

What the code does not promise, and the properties therefore do not say:
- A request that has passed its extractor goes on when its session ends.
- When a logout falls between `CsrfToken`'s two locks the page's token is the empty
  string; a form that carries it is accepted if its own session ends in the same gap
  (the exception in `FormOfOwnSession`).
- `login_submit` passes over an error of `audit_log` (`.ok()`, `admin.rs:347`), and so
  does a refused login: a session may be without its row, although
  `src/docs/CAPABILITIES.md:123` says "Every action in the admin panel is recorded:
  logins, ...". `LoginOnRecord` counts such logins (`lost`) and says what is left: a
  session opens only after its row was tried.
- A manager whose device was not found, or for whom nft failed, is logged in and
  not online; on a kernel that keeps the timeout of an element it finds, a second
  login leaves the device the rest of the first one's time, which may be over before
  the session is. `ManagerOnline` is about logins whose command set the timeout.
- The device stays in the kernel's set after a logout, for the rest of a fixed
  seven days, while `session_timeout_seconds` only has to be positive: hence
  `Timeout <= AccessTimeout` in `ManagerOnline`.
- Entries that expire and are never presented again stay in memory.

### Proofs: `AdminAccessProofs`

All five properties, for any browsers, requests, ids and times, from
`ConstantsAssumption` alone.

- `AccessInvariant` (`AccessInv`) carries `TypeCorrect`, `OverIsRefused` and
  `FormsBelongToSessions`. The two properties are not inductive: whether a request gets
  through depends on the store's entry, and that entry on what was done to the session.
  `StoreTells` relates the two, `IdsDrawn` says that whoever names an id names one that
  was drawn, and `LateStopped` that a request sent too late is still before its guard.
- `SessionsAreOnRecord`: `RecordInv` counts the logins that are on record, or were
  refused their row, and have not drawn an id yet. Nothing makes `Sid` or `Request` finite; the set of drawn ids is.
- `ManagersAreOnline`: `OnlineInv` follows the device's time from `LoginAuthorize` over
  `LoginCreate` to the answer with the cookie, which may come late or not at all; it
  needs that no device has more than a new login would give it, so that another login
  on the same device, whether its command works or not, takes no time away.

## 6. `Views`: what customers are told

`Views` EXTENDS `Sessions` and adds reads and a browser. `StatusJson`,
`ShowsCountdown` and `Captive` are `portal_status`, the success and status pages and
`captive_api`: all find the session by MAC, and none asks the kernel. `page` is the
countdown a client has open: `Render` once a second, `SyncSend`, `SyncArrives` and
`SyncFails` the fetch of `status.json` and its answer, up to `FetchSeconds` late.
`ViewTick` is a second for the daemon, the kernel and the browsers together.

| Run | Checks | Instance, and why it is enough |
|---|---|---|
| `views` | `PageTypeOK`, `ToldTheTruth`, `CountdownEnds`, and of `Sessions` `LiveSessionOnline`, `NeverExpiredEarly` | 2 devices, 2 tokens, 3 rows: redeem and migrate, a second token on the same device; reboots; period 2 of 4 s, a sync every second that may fail or come a second late, so that an answer prolongs a countdown and the next one ends it late |

`MaxPages` bounds the countdowns open at one time: one is enough, as a countdown
reads only its own answers; `MaxTime` bounds the clock.

`ToldTheTruth` is said of quiet states (the daemon up, nothing in flight). Its run
leaves out, because the code does not keep it there:
- disconnect and revoke: `disconnect` on a page that is behind takes the same
  client's newer element, and a failed `nft delete` is passed over;
- `Grace = 0`: the ticker's delete, from its snapshot, may hit a client who has just
  redeemed a second token;
- two addresses: the views look at the MAC, the kernel at MAC and IP, so a client
  whose address changed is told that it is connected and is not, until it enters its
  code again (and a customer who redeems a second token on a new address closes the
  first row, but leaves the first element to its timeout);
- slow handlers: a second may pass between computing the deadline and the kernel's
  start of the timeout.

Liveness is not claimed for the browser: `CountdownEnds` is a bound on time, so a
safety property.

### Proofs: `ViewsProofs`

Every step of `Views` is a step of `Sessions` or leaves it alone (`ViewsAreSessions`),
so that all theorems about `Sessions` hold here.

- `PagesAreTyped` and `CountdownsEnd`: for anything the daemon does. `CountdownInv` bounds
  what the page shows by what the server said last, and the age of an answer under way.
- `CustomersAreToldTheTruth`: for `Truthful`, which is the list above as a formula
  (`Attended` and `Reboots` of `SessionsProofs`, no slow handlers, no failing delete, no
  revoke, one address per device). The half "a running session is online" is
  `RunningSessionsAreOnline`; the other half is `TruthInv`: every element in the set
  belongs to an active row that it does not outlive, or to a request about to insert it
  (`OnRecord`), with the handlers' deadlines still exact (`Punctual`). TLC finds a violation for
  each condition that is dropped. `views.cfg` satisfies all of them.

## 7. `Catalogue`: batches, lists, figures

**State.** `tokens` is the table's rows in insertion order; `coming` the tokens that
requests have read as unused and will redeem; `handler` the batches being inserted;
`walk` a manager who goes through the pages of the list; `handed` and `sold` are
history. Time is in days, as figures and retention are; creation times have seconds
of their own, as lists are sorted by them.

**Actions.** `GenerateStart` draws all codes, `GenerateInsert` is one INSERT,
`GenerateFails` a code that is taken or an error. `Validate`, `Redeem`,
`ExpireToken`, `RevokeToken` and `PurgeTokens` are what `Sessions` has in detail.
`WalkStart`, `WalkCount` and `WalkList` are the page requests of a manager who looks
for a token, of two statements each; forms insert rows and the purge deletes them
between any two. ORDER BY names the creation time only: `tie` is what SQLite's scan
orders the rows of one second by, whatever that is, the same for each page. `Matches` is the WHERE clause of each filter, `Badge` the status
column selected with it, `SoldToday` and `SoldOn` the figures.

| Run | Checks | Instance, and why it is enough |
|---|---|---|
| `catalogue` | `TypeOK`, `HandedOutOnce`, `FiltersPartition`, `WalkMissesNothing`, `ChartKeepsSales` | 2 codes, so that batches of 2 collide within and with each other; a page per row; 3 days with a week and a retention of 2; rows of one second in either order, so that a new row comes before or behind the one that is there, as with two seconds |

`MaxBatch`, `Week`, `Retention`, `PerPage`, `MaxDay` and `MaxSecond` are the bounds,
and `OneBatchPerWalk`, the run's constraint: while pages are turned one batch at most is
being inserted, as two would insert no other rows than one after the other do. The
theorems know no such bound.

What the code does not promise:
- One taken code fails a whole batch, and the rows inserted before it stay in the
  table without having been answered.
- A token may be missed at the very end of the list: a row that is inserted between
  the last page's COUNT and its SELECT pushes it to a page that the count has not
  known of. And the purge of a row pulls the ones behind it one place forward, past the
  page that the manager asks for next (`cut`). `WalkMissesNothing` says that nothing
  else makes a walk miss a token.
- Only the list of all is walked. On the others a token may also leave the list, by its
  status, which moves rows as a deletion does.
- `ChartKeepsSales` needs `Retention >= Week`: with a retention of less than 7 days
  the chart's older bars shrink. Revenue takes a plan's present price.
- The API's token and session lists filter by the stored status, where the pages
  reconcile it with the deadline.
- A change of a plan changes the duration of tokens already sold and not yet redeemed.

### Proofs: `CatalogueProofs`

All five properties, for any codes, managers, batch sizes, page sizes and days.
DELETE keeps the order of the rows that stay, which `Delete` states by the places they
move from; the lemmas on it (`RowsDeleted`, `CodesDeleted`, ...) carry most steps.

- `CodesAreHandedOutOnce`: `BatchInv` adds that codes in the table are unique, and that
  what a batch has inserted so far is in the table, answered to nobody and inserted by
  no other batch (`Batches`).
- `ChartForgetsNoSale`, for `Week <= Retention` (TLC finds a violation without it; the
  code checks only that the retention is positive): `ChartInv` says so for each
  day of the chart and those to come (`SalesKept`), with `ComingAreNew`: a token that a
  request is about to redeem has not been counted yet.
- `WalksMissNothing`: `OnTheWay` says that the token looked for has a rank beyond the
  pages that were read. No step but a purge that cuts the walk lowers a rank
  (`RankNeverFalls`: whatever was before the row can be mapped, one to one, to rows that
  are before it afterwards); with `BehindThePage` a token that is not on a page is
  behind it, and if that page is the last one, rows have come since it was counted. The
  page arithmetic (`MorePages`) is a lemma.
- `FiltersDivideTheTokens` needs the types only.

## 8. `Configuration` and `Settings`

`Configuration` has one variable, the file; the rest are functions of it. `Accepted`
is `Config::validate` section by section, with texts reduced to empty, good and bad,
and the numbers as they are. An address is the set of its bits that are 1, so that `&` is
an intersection and the mask `u32::MAX << n` is `HighBits`, which keeps the shift's
wrap-around. From an accepted file follow the listeners and their
routes (`RoutesOf`, `Answers`, `Follow`), the CIDR test with its wrapping shift
(`InCidr`), and the format of the codes from the generator (`Generated`) through
keyboard and formatter (`Spellings`, `Formatted`) to the check (`Entered`,
`ValidTokenFormat`).

`Settings` EXTENDS it: `SettingsStart` and `SetSetting` are the form's six upserts,
one await each, `SetSettingFails` an error or a dropped request. A toggle of a plan is
`ToggleRead` and `ToggleWrite`, an edit the single `UpdatePlan`. `Effective` overlays
the rows on the file, `Palette` is the theme's arithmetic.

| Run | Checks | Instance, and why it is enough |
|---|---|---|
| `settings` | `TypeOK`, `PagesPresentable`, `SettingsOfOneForm`, `EditNotUndone`, `RequestsEnd`, `AdminForAllowedNetworks`, `CodesEnterable` | the delivered file and all pairs of changes to network or to format options, single changes of the rest; addresses of 3 bits, prefixes of 0 to 4; codes with small letters, a dash, a blank inside and at either end, and lengths 6, 8 and 10; 2 parallel requests, six settings forms of which two are accepted, six plan forms of which two are |

The last three properties are about the configuration alone and are invariants of the
same run: its initial states are the files, and `LoadConfig` refuses or starts.

What the code does not promise:
- Without TLS (`combined`) the network filter is not installed, although the
  configuration's comment reads as if it always restricted the admin's pages.
- Prefixes and alphabets with small letters are accepted, and so are blanks. A code with a
  small letter, or with a blank at an end, cannot be entered at all (`to_uppercase`,
  `trim`), and the browser's formatter cuts at twelve characters and fits only a format
  of four, four and four. `CodesEnterable` says exactly which codes can be entered and
  which cannot, with `<=>`, and the run has files of each kind. A change of the format makes
  codes already sold unenterable.
- Settings forms that overlap, or one that stops half-way, leave a mixture until the
  next form is stored alone; a page whose read of the settings fails shows the file's
  values.
- A toggle writes back what it read: an edit in between is undone (`edit.torn`).
- `grace_period_seconds` is not validated (`Sessions` says what a positive one does).
- The delivered `config/didicafe.toml` holds a password hash that is known to be weak,
  and is refused until it is replaced.

### Proofs: `SettingsProofs`

For any files, forms and plans, any number of requests at a time, any width of an
address; from `ConfigurationAssumption` and `SettingsAssumption`, which say what forms
and colours look like, and that the file read at the start was accepted.

- `EditsAreNotUndone`: `PlanInv`, what a toggle holds is the plan as edited last, unless
  the edit found the toggle in flight.
- `SettingsAreOfOneForm`: `SettingsInv`. A form that is alone in flight has stored the
  rows before `next` (`SavingInv`), and until a form has stored a row the rows are those
  of the form that is shown (`ShownInv`); the form that overlapped another one never is.
- `PagesArePresentable`: rows only ever come from accepted forms (`RowsInv`); the rest is
  arithmetic on colours (`ColorParts`, `TonesInOrder`, `PaletteInOrder`, `ShortColor`).
- `AdminPagesStayInside`: `MaskOfPrefix` is where the shift matters: it keeps the first
  `len` bits for every `len` in `1..Width`, and would keep them all for 0.
- `RequestsComeToAPage`: an answer is `Ended`, `Direct` (a page that redirects nowhere) or
  `Indirect`, and following a redirect leads one step on (`FollowLeadsOn`); so two
  redirects after the first answer are enough.
- `CodesCanBeEntered`: a generated code is prefix, dash, half, dash, half (`CodeShape`,
  from `FiveParts`), and what has that shape is valid (`ShapeIsValid`). Each spelling
  differs from it in capitals and blanks behind (`Spells`). That the codes named can be
  entered: `trim` and `to_uppercase` take the differences away (`TrimLeaves`,
  `SpelledIsEntered`); the formatter keeps the characters at `Places`, `PlacesCounted`
  counts how many there are up to each, so that the twelve kept ones are known by
  position (`KeptPlaces`) and the dashes come back where they were (`FormatterRestores`).
  That no others can: what `portal_auth` makes of any text has no small letter and no
  blank at an end (`EnteredHasNoBlankEnds`), and what the formatter makes of any text is
  capitals and digits with dashes in the fifth and the tenth place (`KeptIsAlphanumeric`,
  from `RankIsOnto`; `FormattedIsGrouped`), so that the two dashes of a code settle the
  length of its prefix and of its halves (`FormattedExactly`). For this the formatter's
  `replace` and the server's `trim` are defined by places and their ranks, not by
  recursion over the text.


## Plan

Done in this order, most important first:

- `Sessions`, its runs and `SessionsProofs`.
- `RateLimiter`, its runs and `RateLimiterProofs`.
- `FormTokens`, its run and `FormTokensProofs`.
- `AdminAccess`: sessions of the manager, and the manager's own device.
- `Views` and, on their own, `PaidTokens` with `SessionsRefinement`.
- `Catalogue`: batches, lists, figures.
- `Configuration` and `Settings`: pure functions of the file, and the forms that write.

Left, in this order:

1. Proofs: an abstract specification with a device that stays in for no period, which
   requests that fail or overlap would implement as well.
2. The server: accept loop, TLS handshakes and draining.

## What is proved and what is only checked

Every invariant and action property of the passing runs is a theorem for all values of
the constants; `ExpiredEventuallyCleaned`, a liveness property, stays with TLC, because
the prover has no ENABLED and so no fairness. Each theorem's conditions
beyond the named assumptions on constants are in its ASSUME, and stated with the
reasons in the module's section above. Each inductive invariant was an invariant of a TLC run
before it was proved.

## Not modelled

- ARP look-up and MAC syntax (`src/net/`): text of another program. A client is a
  MAC and an IP; `AdminAccess` (`Found`) and `Views` (`inArpTable`) have a device that
  is not found.
- The audit log's page and its purge, the list of sessions, the creation of plans:
  single statements on which no other part depends.
- Accepting connections, TLS, and shutdown. `main` waits for the portal's requests
  when TLS is on, cuts the admin's, and without TLS drops all of them at once, though
  it logs that it drains; the ticker is not awaited. For the models each of these is
  the crash they have anyway: a handler stops between two steps.
- HTML, styles, the manager's scripts, response headers, texts of errors, TOML's
  syntax and defaults: no property here is about them.
- The deployment files, which configure other programs.
