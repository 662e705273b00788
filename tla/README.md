# NexusController: TLA+ specifications

NexusController is one Flask process (one gunicorn worker, many threads) that
watches a fleet of NAS boxes and hypervisors: it polls them, keeps one shared
fleet snapshot, turns snapshots into notifications, and lets administrators edit
the registry, the logins and the acknowledgements underneath. Its state is a
handful of JSON files and some dictionaries shared by threads. The program has
few algorithms and many interleavings, so that is what these modules are about:
a request authorised before the login it uses is gone, a build of several
seconds that ends after the edit it does not know, an acknowledgement written
between a snapshot and the cycle that judges it.

## 1. The system

| Part | State | Operations | Talks to |
|---|---|---|---|
| Node registry (`app.py` `load_nodes` … `node_repin`) | `nodes.json`, guarded by `_REG_LOCK` | enroll, edit, pause (with a window), re-pin, delete | seeds / evicts the poll cache, busts the fleet snapshot, drops acks |
| Virt poller (`adapters/virt.py`) | `_cache` under `_lock` | `_poll_once` loop, `collect`, `fetch`, `seed_cache`, `evict_cache` | reads the registry, serves the fan-out |
| Fleet snapshot (`app.py` `_refresh_fleet`, `_build_fleet`) | `_fleet_cache`, `_build_lock` | cached or fresh view, fan-out, `expire_pauses`, `_refresh_registry_from_results` | reads registry and adapters, writes `last_seen` back |
| Notifier (`_monitor_cycle`, `monitoring.py`) | `_mon` (memory), event ring | debounce, fire, change, recover, silent drop | one snapshot per cycle, acks, webhooks |
| Acknowledgements | `acks.json` under `_ACK_LOCK` | add, delete, prune | notifier, `node_delete` |
| Logins, tokens, presets (`app.py` 270–1190) | `controller-auth.json` under `_CFG_LOCK`; signed cookies at the browsers | login, `require_login`, user / token / preset management | every request |
| Login throttle | `_login_fails` under a lock | check, record, clear | `api_login`, `sso_callback` |
| Single sign-on (`sso.py`) | keys, enrolment, cache of used assertions | enroll, callback | starts sessions |
| Service checks (`checks.py`) | `checks.json` (no lock), results in memory | add, edit, delete, sweep | notifier's cycle |
| Certificate sweep | in-memory cache | sweep | host conditions |
| Webhooks | a section of the auth file | `notifications_save`, `_dispatch`, `send_webhook`, routing by tag and severity | notifier |
| History (`history.py`) | SQLite | sample, prune, forecast, availability | monitor loop |
| Backup and restore (`backup.py`), TLS install | all files | export, import; certificate + key | files |
| WebSocket bridge | two pump threads | connect, pump, close | a host's console |
| JSON files (`write_json_atomic`, `load_json`) | every `*.json` | load, atomic save, sweep of stale temp files | all of the above |
| Collectors (`collectors/`) | `_sessions` per kind of appliance; the process's default socket timeout (VMware) | log in, read, keep the session, log in again | poller, probes |
| Overview (`compute_rollup`, `board_state`, `scoped_fleet`) | none | health lists, tile colours, counts, tag scope | fleet snapshot, acks |
| Ed25519 (`ed25519.py`) | none | `verify` | single sign-on |
| Adapters, agent, metrics, templates | none of their own | translate one API's answer; render | fan-out, browser |

**What is hard here.** (a) Threads: handlers lock one file for one
read-modify-write, but authorisation, lookups, probes and fan-outs happen
before, so decisions are made on state that may be gone. (b) Three caches in a
row (poll cache, fleet snapshot, `_mon`), each refreshed by its own thread.
(c) Conditions that are *hidden* (outage, pause, first poll pending) look the
same as conditions that are *cleared*. (d) Kills, full disks and restarts: some
state is in files, some in memory.

**What makes the parts correct.** Files are never torn, and edits under a lock
are never lost. A fresh fleet view shows what was answered before it was asked
for; the caches converge. Every notification is news, is debounced and keeps its
cooldown, and a standing condition is told in the end. A preset in use stays. An
assertion starts one session before it expires; a locked-out caller is let in
again; a token goes to the pinned host only; files that belong together match when
nobody writes and no accident between two of them is unrepaired; whoever was told
of a condition hears that it is over, unless a post to him failed. Three things
that the repository promises of logins and edits do not hold under overlap: that an
administrator remains, that a password change ends the login's other sessions, and
that an edit shows in the next view. They are runs that are violated (section 3),
beside what does hold. The full list of hazards, with the property that watches
each or the reason why none does, is `hazards` in `PROJECT.json`.

## 2. The modules

| Module | Models |
|---|---|
| `Monitor` | monitor thread, acks, pause, deletion, hosts, clock, restart |
| `MonitorHistory` | `Monitor` with the events of each cycle and history variables that follow only the events |
| `MonitorPromises` | `Monitor` with the history needed to hold it against the documentation |
| `MonitorProofs` | the theorems about `MonitorHistory` |
| `Auth` | logins, cookies, tokens, presets, overlapping requests |
| `AuthProofs` | the theorems about `Auth` |
| `FleetCache` | registry, virt poller, poll cache, build lock, snapshot, viewers, admins |
| `Checks` | service checks: definitions, results, sweep, requests |
| `JsonStore` | abstract: a document changed by whole edits, each on top of the one before |
| `JsonFile` | `load_json`, `write_json_atomic`, locks, failures, kills, `sweep_stale_tmp` |
| `JsonFileProofs` | the theorems about `JsonFile`, the refinement included |
| `LoginThrottle` | failed logins per address and name, attempts that overlap |
| `WsBridge` | the WebSocket bridge: pinned connect, handler thread, pump thread |
| `Pins` | registry edits as lookup, probe and write; the sweep of expiry dates |
| `Sso` | configuration, enrolment, callbacks, the cache of used assertions |
| `Collector` | the conversation of a poll or probe with an appliance, kept sessions |
| `Delivery` | from a cycle's events to the webhooks |
| `StateFiles` | certificate and key, backup and restore: several files, one after the other |
| `Lists` | two idioms of the pure functions: `sum`, and a comprehension with a condition |
| `Ed25519`, `Trends`, `Overview` | pure functions, each with its reference definition |
| `Questions` | asks the pure functions every question of a bounded set |
| `MCStores`, `MCLive`, `MCParts` | put components without common state into one model each, for TLC, with the symmetry sets |
| `FleetCacheProofs`, `ChecksProofs` | the theorems about `FleetCache` and `Checks` |
| `LiveProofs` | the theorems about `WsBridge`, `Pins`, `LoginThrottle` and their composition `MCLive` |
| `QuestionsProofs` | the theorems about `Trends`, `Overview` and `Questions` |
| `PartsProofs` | the theorems about `Sso`, `Collector`, `Delivery` and `StateFiles`, and their composition `MCParts` |

Definitions named `X_Something` just above `X` are deliberate faults: variants
of `X` with a plausible bug, used to confirm that a property notices it. They
are not part of any specification.

### Monitor
The variables `streak`, `active`, `cool`, `detail`, `seeded` are the dictionary
`_mon`; `acks` and `left` are `acks.json`; `results` is the fan-out the thread
holds between `_refresh_fleet` and `_monitor_cycle`. One loop iteration is two
actions, `BuildFleet` and `Seed` / `MonitorCycle`: requests act in between,
which is where an ack can be written for a snapshot it did not see. The cycle
itself is atomic (`_mon_lock`, `_ACK_LOCK`), with its order kept: prune acks,
silent drop, streaks, fire, recover. `acks_add` (lookup, then write) and
`node_delete` (registry, then acks) are two steps each, as in the code. Absolute
times are replaced by the distance to the deadline, which is all the code looks
at; a streak saturates at `FLAP_CYCLES` because it is only compared with it.
Abstractions: one outage text, so `cert_changed` is merged with unreachable;
tunables do not change; `SubKeys` stands for all conditions a reachable host
reports.

### Auth
A request is *free*, has passed the password check (*login*: the record it read
is stamped into the cookie later) or is past `require_login` (*authed*), with the
name and role found there. Each handler is one action because it loads, checks
and saves in one `_CFG_LOCK` section; the gap before it is the point. A request is
identified by its session, by an API token, or by a token with a cookie beside it
(`via`). In the last case `_resolve_identity` never looks at the cookie, any one
ever issued; `change_password` then takes the login's name from it
(`session.get('user')`), and `_users_update_locked` stamps it (`Restamp`). `inc`
(incarnation of a name), `pwv` (password version) and `revived` (the cookie was
stamped when it was not the caller's current session) are history fields. Operator
and viewer are one role, since these handlers treat them alike. Cookies are never
forgotten: a browser may keep any. Left out: the filtering of answers by tag
scope (the binding of logins to scope presets is there), cross-site refusal,
audit.

### FleetCache
A record's content is a version number, a row carries the version it was made
from, so "shows the edit" is a comparison. Threads pass `Ask`, `Enter` (the
build lock, with the rule that a queued caller may take a snapshot made while it
waited), `Load`, `FetchOne`, `Refresh`, `Store`. Admin requests are the registry
write followed by their remaining steps in the code's order: `node_update` seeds
then busts, `node_repin` busts then evicts, `node_delete` evicts then busts,
`nodes_add` seeds, enrolls, busts. The poller loads, collects host by host and
then drops entries of hosts it did not know. `known` and `floor` are history:
what had been answered when a view was asked for. `_health_since` is left out;
the same build rewrites it.

### Checks
A check is a target and a pin; a target is up or down, and a probe finds which.
The monitor thread loads definitions and paused hosts, probes, stores the
results (dropping those of checks it did not load), builds the fleet with the
pinned checks folded in (`Attach`) and hands the rest to the cycle as entities
of their own (`Cycle`). Requests load the file, save their changed copy, probe
and store, one step each, because no lock joins them; `checks_run` skips the
save. `alerts` is what the last cycle was told; `Monitor` takes it from there.
Reading definitions and results is one step in `Attach` and in `Cycle`. The
invalidation of the fleet snapshot after a store is left out: the monitor builds
a snapshot of its own in any case.

### JsonFile
`Enter`, `LoadChange`, `Open`, `Dump`, `Fsync`, `Replace`, `Fail`, and `Kill` /
`Start` at any point. `guarded`, chosen at the start, says whether the file is
one edited under a lock (auth, registry, acks) or not (`checks.json`). A file is torn, written (page cache) or
synced; a kill may tear what was not synced. Durability of the directory entry
after power loss is not claimed: the code does not sync the directory.

### LoginThrottle
`fails` is `_login_fails` with ages for time stamps, since the code only ever
subtracts. The check before the password hash (`LoginBegin`, `LoginRefused`) and
the record after it are separate lock sections, so attempts overlap. The check
prunes what it looks at, and only that, because Python's `or` stops at the first
spent key. A success clears the name's budget and leaves the address's.

### WsBridge
One bridge, from the route to its end. `main` is where the handler is, `pump`
where the second thread is. A message that is passed on changes nothing and is
no step. `upstream.recv()` has no timeout: the pump moves only when the node
hangs up, sends, or our end is closed by the handler.

### Pins
An edit is in flight between its lookup and its write under `_REG_LOCK`. A pin
remembers the URL it was captured from (`src`, history); `mixed` holds the hosts
whose last edits overlapped. The sweep works on the list of records it was given
and forgets hosts that are not in it. A URL is https or not, and a certificate
stands for its fingerprint and its date. The kinds of credentials do not matter
here: any edit that probes writes URL and pin together.

### Sso
A configuration is an issuer and whether its key is usable, as key, kid, issuer
and audience are replaced together. A callback passes `Arrive` (the 404 test),
`VerifyBegin` (configuration and clock are read) and `VerifyEnd` (signature,
claims, `_remember`), and uses the early reading to the end. `uses` counts the
acceptances of an assertion in one life of the process, before its expiry and
after; a restart forgets `_seen`, and nothing is claimed across it. `Late` are the
callbacks that still check an assertion on a reading from before its expiry. The
issuer's clock may be ahead of ours.

### Collector
Six kinds of appliance are records of the sorts of reads a poll makes and of
whether the session is kept; `Begin`, `Login`, `Read`, `Rejected` and `Finish`
are the shape they share. A poll (`VirtAdapter.collect`) and the probes of edits
(`VirtAdapter.probe`) run on threads of their own against one cache. The appliance
drops sessions, changes its password and fails calls until it *settles*.

### Delivery
A cycle's events are what `Monitor` establishes of them (news only), for any
course of severities. The webhooks are read once per batch, the tags are those
of the fan-out, a post is delivered or lost, and edits come in between.
`belief` follows what the readers of a hook were told; `excused` marks pairs for
which the code makes no promise: a post was lost, the hook or the tags changed,
the pair was dropped in silence, the process was restarted. Severities are two.

### StateFiles
A file is the generation of its content; certificate and key of one generation
match, and so do auth file and registry (the auth file holds the key of the
registry's secrets). A job is the list of the writes it still has to make, in the
code's order: temp files and two replaces for an upload, in-place writes for a
generated pair, one replace per member for a restore (certificate, key, auth file,
registry: the payload of a bundle is dumped with sorted keys). Uploads overlap and use the
same temp names; any write may fail; the process may be killed. `doubt` is
history: what such an accident has left unrepaired.

### Ed25519, Trends, Overview, Questions
`Ed25519` keeps every statement of `ed25519.py` on the curve
-x^2 + y^2 = 1 + 6 x^2 y^2 over the field of 13 elements, with a base point of
order 5: of the same shape (p mod 8 = 5, a = -1, d not a square, cofactor), small
enough for all keys, all R, all scalars to twice the order and all hashes. The
reference is the group law by its definition. `Trends` keeps quotients as
fractions; floating point is left out. Its sums and filtered lists are the loops
of `Lists`, functions of the turn, so that they can be reasoned about. What
`forecast_capacity` takes for the usage of now is an argument (`used_now`), as the
page may have a newer reading than the last sample. `Overview` reduces an envelope
to what rollup, health list and wallboard ask of it. `Questions` draws a question in
its initial state and answers it in one step.

## 3. Runs

| Run | Result | Shows |
|---|---|---|
| `notifier_history` | holds | tracked state and messages agree; events are news; cooldown; debounce |
| `notifier_liveness` | holds | the notifier catches up with a standing condition; orphan acks go |
| `ack_lasts` | violated | a cycle prunes the ack of a fault that stands: hidden by a pause or an outage, or newer than the snapshot |
| `stores` | holds | logins: presets never dangle, and a cookie that nothing stamped anew is of the current password, over two overlapping requests. Files: no torn file and no stale temp file, guarded or not; a guarded file implements `JsonStore` |
| `admin_remains` | violated | two overlapping requests leave no administrator |
| `sessions_end` | violated | a request for the caller's own record, authorised before his password was changed, makes its old session valid again |
| `fleet_cache` | holds | a fresh view shows every answered edit; no build undoes an edit |
| `fleet_liveness` | holds | caches converge to the registry; maintenance windows end |
| `edits_shown_next` | violated | an answered edit missing from the next view |
| `checks` | holds | results come to say what is true; a failing check reaches the notifier |
| `live` | holds | throttle: the budget is overrun by less than the number of threads, a lock-out ends. Bridge: the token goes to the pinned host only, neither thread outlives the other and nothing stays open. Pins: a pin was seen at the record's own URL unless edits overlapped; expiry dates come to say what is true, also of removed hosts |
| `parts` | holds | an assertion is used once before it expires, afterwards by callbacks that were late and by no other, and only under a configuration in force; no probe stores a password the appliance never took, a stale session never fails a poll; webhooks keep up with what stands; certificate and key, auth file and registry go together, named accidents excepted until they are repaired; signatures, averages, forecasts and the overview agree with their references |

`stores`, `live` and `parts` each hold several components that share no state: the
variable `part` picks the one that moves, so every behaviour is one of that
component alone. The pure functions are one more part, with a fresh question per
behaviour.

The violated runs quote a comment or README sentence; `findings` in
`PROJECT.json` gives the line and what the counterexample shows.

Disagreements met on the way that have no run of their own:

* Edits of `checks.json` are made under no lock (`app.py:2054`), so that of two
  overlapping ones the second save drops the first. `Checks` and `JsonFile`
  (`guarded = FALSE`) contain it; only whole files are promised of it.
* A check pinned to a host that is deleted goes on being probed and alerts
  nowhere (`app.py:1990`). `FailuresReachMonitor` says exactly that: a failing
  check reaches the notifier if and only if its host is there.
* An assertion can be exchanged a second time just after its expiry.
  `sso.py:244` says "Assertions are single-use. The cache only has to outlive an
  assertion's own lifetime", but a callback judges expiry by a clock reading from
  before the slow signature check: callback A is accepted, callback B has read the
  clock in time, the assertion expires, callback C with another assertion purges
  the first, and B finds it unused. Nothing but such late callbacks gets in:
  `ReplaysBounded` says that every further acceptance uses one up, so that there
  are never more of them than threads.
* A second way to the end of `sessions_end` needs no overlap: an administrator's
  API token with an old cookie beside it, in a `PUT` of his own record. The cookie
  is stamped although nobody judged it. `AuthProofs!RecheckingEndsSessions` proves
  that a look at the cookie before it is stamped closes both.
* `vmware.py:12` says that "a default socket timeout caps both the connect and each
  subsequent SOAP call". The default belongs to the process. Let polls A and B enter
  `_socket_timeout` one after the other: A remembers none, B remembers A's 30
  seconds. A leaves and puts none back, so that B's next connection is uncapped; B
  leaves and puts 30 seconds back, and they stay for every socket of the process.
  Even a lone poll gives its timeout to each socket that another thread opens
  meanwhile. Nothing of the promise survives an overlap, so there is no model of it.
* A re-pin in flight over a change of the URL pairs the new URL with the old
  host's certificate; two certificate uploads at once can install one's
  certificate with the other's key; a restore cut short leaves a set that does
  not go together. `PinFromOwnUrl` and `FilesGoTogether` except these accidents by
  name: they do not show that the accidents are harmless, only that nothing else
  has their effect, and that one edit, upload or restore alone repairs them.
* A host moved from https to http, or paused, keeps its last expiry date: the
  sweep skips it and forgets only hosts that are gone.

**Bounds.** Every bound is a constant. One host with one own condition and the
outage condition suffices for the notifier: pairs of different hosts never
interact in `_monitor_cycle`, and the proofs cover any number. Two texts give a
change, `FLAP_CYCLES = 2` (the code's default) and a cooldown of 2 ticks give
streaks and cooldowns that span cycles. Two logins, two requests and one preset
are the smallest instance with an actor, a victim and a race; `MaxGen`,
`MaxInc`, `MaxCookies`, `MaxTokens` bound what otherwise counts without end. The
fleet runs use three threads at the build lock (so that one queues behind
another's queue), two admins and two edits. Two targets tell a stale result
from a current one, two admins and two edits let requests overlap. The file part of
`stores` has three writers, two edits each and two kills. `sessions_end` needs three
cookies: the old one as issued, as stamped, and the one of the password change.

`live`: two login threads are the least that overlap, with budgets of one or two
failures and a window of two ticks; two editors make an edit overlap another or a
deletion, two URLs (one of them https) and two certificates give a move, a
renewal and a plain-http host. `parts`: two callbacks and two assertions make a
replay, and a purge of the one by the other's callback; with a lifetime of one tick
and a clock of two readings an assertion expires under way, so that a second
acceptance does occur in the run; a
poller and a probe share the sessions of two passwords, with as many session
names as can be in use at once; one hook (hooks do not interact) and two pairs
make a digest of two events; two jobs overlap, one kill can fall on either. The
threads of `stores` and of `parts` are interchangeable, which TLC is told. Issuers
and assertions are so too until one is signed: `MCParts` has the first assertion
signed be `FirstJti`, by `FirstIssuer`.

`CHECK_DEADLOCK FALSE` is set throughout: with the bounds on edits, cookies and
kills used up, a bridge closed or a question answered, nothing may be left to do,
which is no fault of the program.

**Fairness.** `Monitor!FairSpec`: the monitor thread is a `while True` loop that
catches every exception, so building and cycling are weakly fair; time passes;
`node_delete` past its registry write runs to its end. Requests, faults and
outages are not fair. `FleetCache!FairSpec`: monitor and poller loop for ever; a
thread inside the build goes on; an admin request finishes; `Enter(Monitor)` is
*strongly* fair because viewers may take `_build_lock` again and again while the
monitor queues, and Python's lock does not starve a waiter for ever in practice
though it gives no queue order. Viewers need no fairness. `Checks!FairSpec`: the
monitor loops, and a request past its load ends (every probe has a timeout).
`MCLive!Fairness`: time passes; the bridge's handler goes on, because its receive
has a timeout of 30 seconds; the pump goes on only when its receive returns, so
data from a silent node is *not* assumed; the monitor thread sweeps for ever.
Nothing is assumed of logins, edits, browsers or nodes.

## 4. Proofs

All for any sets of hosts, names, threads, texts and any bounds, from the named
`ASSUME`s of the modules only.

* `MonitorProofs`: `TypeCorrect`, `ToldCorrect`, `EventsNews`, `CooldownHolds`,
  `DebounceHolds`. The inductive invariant `HInv` joins the type invariant with
  the relation between `_mon` and the history: an active pair's `detail` is what
  was told; an inactive one was hushed or had its all-clear; a running cooldown
  is at least what is left of it by the history's clock; a streak at work means
  the pair was in the previous snapshot. The action properties follow from
  `HInv` at the step.
* `AuthProofs`: `AuthType`, `PresetsCorrect`, `SessionsCorrect`.
  `SessionsFollowPassword` alone is not inductive: a login that has checked an
  old password holds a cookie to be. `AInv` therefore says of every cookie,
  issued or in flight, that it is *sound*: revived, of an earlier incarnation, or
  of a generation not above the current one, and of the current password if the
  generations agree.
* `AuthProofs`, stale cookies: `RecheckingEndsSessions`. `PasswordChangeEndsSessions`
  has a counterexample (`sessions_end`). With the steps restricted to those in
  which the cookie that a handler stamps is the caller's current session
  (`CookieRechecked`), no cookie is ever revived (`NoneRevived`), and the sentence of
  the README holds for any number of logins, tokens, cookies and requests.
* `AuthProofs`, stale authorisation: `RecheckingGoverns`, `OneThreadGoverns`. An
  administrator need not remain (`admin_remains`), and a token may be minted for a
  login that is gone. Both theorems say that the gap between `require_login` and
  the handler is the only cause: `RecheckingGoverns` restricts the steps to those
  in which a handler runs on a role that is still the caller's (`Rechecked`, what
  a second look under `_CFG_LOCK` would give), `OneThreadGoverns` allows one request
  at a time and nothing else. Either way some login is always an administrator and
  every token has its login. `GovernedStep` takes the handlers one by one.
* `JsonFileProofs`: `JsonFileType`, `FileNeverTorn`, `NoTempLeftBehind`,
  `GuardedFileImplementsStore`. `FInv` ties each temp file to its writer's
  position and content; `GInv` adds that only the lock holder is past `Enter`
  and that what it loaded is still the file's content, which is what makes
  `Replace` a step of `JsonStore` and everything else a stutter.

* `FleetCacheProofs`: `FleetType`, `RegistryKept`, `FreshViewsCurrent`. `FleetInv`
  says of the requests under way that they know no later edit than the registry
  and that a host to be enrolled is in one request's hands only (`OpsOk`); that
  `known` and every thread's `floor` are within the registry (`KnownOk`); and that
  the build of the lock's holder, once it has loaded, holds no row of a host that
  was gone when its request began, and no older row of a live one (`BuildOk`).
  A fresh view is served after its own build only, so it is current by `BuildOk`
  at `Store`; the registry moves on because `Refresh` starts from the file again.
* `ChecksProofs`: `ChecksType`, with the ids in `checks.json` among those that
  were given out. It rests on the copies held by requests (`RequestsOk`), because
  a copy is written over whatever was saved since, and on what the sweep has
  loaded (`SweepOk`).
* Quiet times: `QuietRoundsTellTheTruth` (`ChecksProofs`), `QuietFleetAgrees`
  (`FleetCacheProofs`), `QuietSweepsTellTheTruth` (`LiveProofs`). A liveness
  property of these components says that a truth is reached; that it is reached
  needs fairness and is TLC's. What a round leaves behind, and that it is kept, is
  safe, and is proved for any number of hosts, checks and threads: from *any*
  reachable moment at which nothing is under way, and for as long as nobody edits,
  whatever the caches held before, each cycle of the notifier is told of exactly the
  failing checks it should hear of; each poll that ends leaves the poll cache as the
  registry has it, and then each snapshot that is stored agrees with the registry;
  each sweep that ends leaves a true expiry date. The last asks only that the one
  host stays as it is, while others are edited, deleted and renewed.
  The inductive invariants (`QuietInv`; `QuietPolls` and then `QuietBuilds`;
  `SweepKnows`) say what a round has found so far. The hypotheses are temporal (`[][Quiet]_vars`, `[]DateIs(h, u, c)`) and the
  specifications without fairness, where any quiet stretch followed by stuttering
  is a behaviour too: what is proved holds of every quiet stretch, not only of one
  that lasts for ever. `ResultsCatchUp`, `FailuresReachMonitor`,
  `EventuallyConsistent` and `ExpiryConverges` add that the round comes.
* `LiveProofs`, the bridge: `BridgeTokenOnlyToPinned`. The handler past the
  comparison (`upgrade`) has an open connection to the pinned host; before the
  dial there is none and no token was sent.
* `LiveProofs`, pins: `PinsPinFromOwnUrl`. Two edits of one host in flight both
  know of each other (`AloneIsAlone`), so the URL that a re-pin alone has read is
  still the record's when it writes (`RepinSeesUrl`).
* `LiveProofs`, the throttle: `ThrottleBudgetKept`. For each key, the recent
  failures plus the attempts past the check are less than the budget plus the
  number of threads; a check lets an attempt pass below the budget, and a record
  turns an attempt into a failure. What `Recent` keeps is counted by an induction
  over its loop (`KeptDefined`, `KeptCounts`): `IntervalInduction` takes the set of
  good indices as a set, and gets its least counterexample from `WFMin`.
* `PartsProofs`, single sign-on: `SsoReplaysBounded`, `SsoAcceptedUnderConfig`. An
  accepted assertion is in `seen` under its own expiry for as long as it is
  valid (`Remembered`): every purge uses a reading of the clock that is not ahead of
  it. Whoever purges an expired one is not late for it, nobody becomes late
  afterwards, and each further acceptance ends a late callback, so acceptances and
  late callbacks together never exceed the threads (`Forgotten`). A callback's copy
  of the configuration was in force since it arrived (`CallbacksOk`).
* `PartsProofs`, collectors: `CollectorSavedWasRight`, `CollectorCalmPolls`. A
  session in the cache belongs to a password the appliance has taken
  (`SessionsOk`), and a conversation that began in calm reads with a live session
  once it has logged in. A login finds an unused session by counting
  (`ImageSize`, `FreshSession`): there are more session names than passwords and
  probes, an assumption on the model's supply of names and not on the code.
* `PartsProofs`, webhooks: `DeliveryHooksKeepUp`. Whoever is not right about a
  condition is still to be told of it by the batch under way
  (`RightOrUnderway`); the batch's events say what stands (`EventsTrue`), and a
  hook or a host's tags that have changed since the batch was made are excused
  (`BatchCurrent`).
* `PartsProofs`, files: `FilesStayTogether`. A job on the certificate that runs
  alone is at one of the stages of `UploadProgress` or `GenerateProgress`, each
  with what is on the disk by then; one that was overlapped has put the pair in
  doubt; a restore runs alone and still has in its list what the disk lacks of the
  bundle (`RestoreOk`).
* `QuestionsProofs`: the pure functions for every input, where the run has bounded
  ones. A loop of the code is a function of the turn; `TurnInduction` and `LoopRuns`
  show what it holds after so many turns by a least counterexample among the *set*
  of turns, which needs no operator as a parameter. From there `Total` is additive,
  monotone, and may be exchanged (`TotalSwap`), and each item of a comprehension has
  an origin that met the condition (`SelectedOrigin`).
  * `ForecastsSound`: n Σxy - Σx Σy is the sum of the products of differences over
    all pairs (`LeastSquares`, an identity proved turn by turn), so the slope is the
    reference's, and its sign is that of rises that all point one way (`PairSign`).
  * `SamplesConserved`: the buckets are a partition of the rows
    (`PartitionTotal`), the latest row is in the last of them (`BucketRange`), and
    quotients grow with their dividends (`Quotients`), which orders the points.
  * `OverviewsConsistent`: a tile is red for the same envelopes that the rollup
    counts (`TileReasons`), and the counted sets are disjoint (`RollupTiles`). A
    preset has at least one tag, which `scope_presets_save` sees to.
  * `TrendsAreSound`, `OverviewIsConsistent`: what `Questions` answers, hence what
    the run `parts` checks.
* `LiveImplementsParts`, `PartsImplementParts`: a step of the composed models is a
  step of one component and a stutter of the others, so that what is proved of
  each holds in them (`LiveSafe`, `PartsSafe`), and what TLC checks on them is
  about the components as specified.

The proofs changed the models in four places:

* Without any webhook `NotifierCycle` of `Delivery` opened a batch that no post
  could close, where the loop of `_dispatch` has no turn and the thread goes on;
  `DeliveryTypeOK` and `HooksKeepUp` were true of it, but the notifier stood still.
* `board_state` and `health_entries` were `CASE`s whose arms overlap, which TLA+
  leaves undetermined though TLC takes the first: no value could be proved of them.
  They begin with `IF`s now, in the order of the code's returns.
* `ExpiryConverges` allowed the host to hop between https URLs that serve the same
  certificate. A sweep may then read the URL that was just left, which may serve
  another by now, and so again and again; the property is stated for a host that
  stays at one URL.
* `forecast_capacity` took the last sample for the usage of now, where the code has
  a parameter; the answer is sound for both.

The assumptions are that the sets of hosts, check ids and https URLs are not empty
(placeholders are chosen from them), that requests, addresses and names of the
throttle and the callbacks of single sign-on are finite (they are counted), that the first generation of files is
among the generations, that `NoValue` is no number and a row's time is a natural
one (`TrendsAssumption`, `QuestionsAssumption`), and that the placeholders of no
scope and of a lost preset are not the empty set of tags (`OverviewAssumption`).

Model-checked only:

* liveness, as fairness and ENABLED are out of the prover's reach:
  `NotifierCatchesUp`, `OrphanAcksPruned`, `EventuallyConsistent`,
  `MaintenanceEnds`, `ResultsCatchUp`, `FailuresReachMonitor`, `LockoutEnds`,
  `NeitherOutlives`, `ExpiryConverges`;
* `VerifiesEquation`: it rests on the associativity of the curve's addition and on
  square roots modulo p, and TLC asks every key, R and scalar of the small curve;
* the documented promises that the code does not keep (`ack_lasts`,
  `admin_remains`, `sessions_end`, `edits_shown_next`), which have counterexamples.

## 5. Not modelled

* The agent, metrics and templates, and the `build_metrics` functions of the
  collectors, translate data and keep no state.
* Proxying and fleet actions forward one request.
* SQLite, the WSGI server, the kernel, hosts and browsers are external and appear
  through what the code sees of them.
* A password reset from the command line edits the auth file from a second
  process, outside `_CFG_LOCK`; an unguarded file of `JsonFile` shows what that
  means, `Auth` does not contain it.
* The audit log, the cross-site guard, validation and normalisation of inputs,
  and the encryption of bundles and secrets.
* The process-wide socket timeout of the VMware collector (section 3).
* Run-time changes of the notifier's tunables, and the time of a condition's first
  sighting (`_health_since`).

## 6. Plan

1. Promises about logins that are deleted and created again while requests and
   cookies of the earlier one are about (`app.py:520`), and about views made from
   two reads of the auth file (`app.py:580`); the password reset from the command
   line as a second process beside `Auth`.
2. The safe core of the remaining liveness properties, as for the quiet times:
   `NotifierCatchesUp` (a condition that stands through `FLAP_CYCLES` snapshots is
   told in the next) and `LockoutEnds` (an address without new failures is let in
   after the window).
3. `Ed25519`: double-and-add for every scalar, by `TurnInduction`, from the laws of
   the group as assumptions on its addition.
4. The `build_metrics` functions of the collectors and the drill-in proxy, as pure
   functions beside `Overview`.
