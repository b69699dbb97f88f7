# hamon in TLA+

ha-mon records the group telegrams of KNX installations.  One Node.js process
keeps a KNXnet/IP tunnel to every site listed in `hamon.yml`, decodes what it
hears and stores it in InfluxDB.  This directory models the parts of it whose
correctness depends on the order in which things happen, checks the models with
TLC and proves theorems about them with TLAPS.

- [The system](#the-system): the inventory
- [The modules](#the-modules): what each models and how it reads against the code
- [What is checked](#what-is-checked): the runs, their bounds, the fairness
- [What is proved](#what-is-proved)
- [Where the code and its comments differ](#where-the-code-and-its-comments-differ)
- [What is not modelled](#what-is-not-modelled)
- [The plan](#the-plan)

Run a check with `tlc -config <run>.cfg MC<Module>.tla`, a proof with
`tlapm <Module>Proofs.tla`.  `PROJECT.json` lists the runs, the source lines of
every definition, and for each property a mutant: a change of the model of the
kind a plausible bug would be, under which TLC finds the property violated.

## The system

### Inventory

| part | source | state it keeps | operations |
|---|---|---|---|
| supervisor | `src/src/service.js` | the entries last applied (`originalDoc`), the worker of each, failure and crash counts, back-off timers, DNS watches, the save timer | start, connected / timeout / error / stopped / exit of a worker, back-off over, address changed, kpipe line, reload, save, signal |
| state file | `src/src/sitestate.js` | a record per site, in memory and in `tmp/site-state.json` | `set`, `retain`, `stillBlocked`, `needsPrecheck`, `save`, `load` |
| site | `src/src/site.js` | recovery and first-connection timers, the stop in progress, what has been reported, the datapoints and the MQTT client | `start`, the connection's handlers, `finish`, `stop`, `exit`, `check` |
| worker thread | `src/src/connection.js`, `InlineWorker` in `service.js` | none of its own | the site's hooks as messages, the exit message, uncaught errors |
| tunnel shim | `src/src/ultimate-shim.js` | client, connection state, `closing`, whether an error of this outage was passed on, the last sequence number | start, connected, error, disconnected, indication, read, write, `checkNow`, `Disconnect` |
| dedupe | `src/src/dedupe.js` | per group address the last value written, the value held, a timer | `push`, `flush`, `flushAll` |
| data secure | `src/src/datasecure.js`, `secrets.js` | the last sequence number per sender | `open` |
| datapoints, values | `datapoint.js`, `payload.js`, `dptrange.js`, `dptnames.js` | `current_value` of each address | decode a telegram, encode a write, refuse a text or a number |
| mapping rules | `strtodpt.js` | the rules loaded last in this thread | `loadmapping`, `mapstring`, `mapaddress`, `addressRules`, `mappingSignature` |
| unmapped telegrams | `site.js`, `logUnmapped()` | the payloads reported of each address, the other site's addresses | one line or none per telegram |
| event writers | `db.js`, `dbv2.js` | none that outlives a call | one point per event |
| MQTT writer | `mqwrite.js` | none that outlives a call | write, read, on, off; a record in `actions` |
| freshness detector | `src/freshness-detector.sh`, `liveness-audit.sh` | a restart cool-down per stale site, the uplink's state | one pass every few minutes |
| restart script | `src/hamon-restart.sh` | none | stop, wait out the gateways, start, report |
| VPN scripts | `src/utils/vpn-*.sh`, `l2tp-watch.sh` | failure counters in a file | probe, reconnect |
| hapi | `src/pivpn/**` | enrolment requests as files, the Pi's VPN profile and the one to go back to | request, approve, fetch, swap, agent commands |

### How the parts interact

The main thread (`service.js`) runs one callback at a time.  It starts one
worker thread per enabled site, or runs the site in the main thread itself
(`threads: false`, `InlineWorker`).  A worker posts messages (`connected`, its
name for a timeout, `{ stopped, reason }`), an `error` event and at last `exit`;
they arrive in that order, but at any later time: the entry, the record or the
worker they concern may have been replaced meanwhile.  The other way there is
one message that changes anything, `{ exit: true }`.  Changes of
`hamon.yml` and `dptmappings.txt` arrive by a file watcher, single restarts by the named pipe `tmp/kpipe`, a shutdown by a
signal.  The state file carries holds, back-offs and the time of the last
connection over a restart of the process, and is read by `hamon-restart.sh` and
`freshness-detector.sh`, which act on ha-mon only through systemd and the pipe.

In a worker, `site.js` awaits a DNS look-up and, if the site has not connected
lately, the gateway's description, and then opens a connection through
`ultimate-shim.js`.  The library reconnects by itself; the site only counts time
(`timerHandle` from the first error of an outage, `firstConnectHandle` before
the first connection) and gives up when one of the two timers goes off.
A telegram comes from the gateway, which repeats what is not acknowledged, through the shim's
filter and `datasecure.js`; the datapoint decodes it before the site's `onEvent()` runs, which hands
what the datapoint holds to `dedupe.js` and that to the event writer, or reports the telegram as
UNMAPPED.  MQTT messages go the other way through the same datapoints.  Which addresses a site
has, and as what, comes from its ETS export and `dptmappings.txt`.

### What is hard, and what makes each part correct

- *Supervisor*: reports of workers that have been replaced; a DNS answer that
  races the back-off timer; every path that ends a worker must leave a timer, a
  worker or a hold, and only one of them.  Correct: no enabled site drops out
  silently, no site is in two hands, erroring sites back off, held sites stay held.
- *State file*: changes are written 500 ms later, the process may be stopped or
  killed at any moment.  Correct: memory and file agree once no save is due, and
  what a restarted ha-mon does follows from what the last one knew.
- *Site and shim*: `stop()` may come at any of the awaits, with or without a
  tunnel, and the gateway may never confirm; an error is judged one turn of the
  event loop later, when the tunnel may be up again.  Correct: nothing is left
  behind, an outage whose errors are hidden is being timed, a site told to exit exits,
  and what the main thread sees of it is what the main thread relies on.
- *Dedupe*: a late timer, a change of value and a stop coincide.  Correct: the
  first and last value of every run is stored, in order, under its own time.
- *Telegrams*: repeats, lost ACKs, frames that overtake each other, new tunnels whose numbers start again, telegrams
  played back or forged.  Correct: none is passed on twice or swallowed, no old secured one is taken for new.
- *Datapoints*: one `current_value` that telegrams, held repeats and MQTT writes share.  Correct: a
  stored point has its own telegram's value.
- *Mapping*: files are saved at any time, reported by polling, reloads put off; a site reads its
  files at its start and uses them when it connects.  Correct: no save is lost, a running site
  stores by the file as it is.
- *MQTT and UNMAPPED*: texts at the ends of ranges, two limits on a report.  Correct: no wrong value on the bus, nothing
  left out without a reason.
- *Freshness detector, VPN scripts*: passes that overlap, counters in files, an uplink
  that is down.  Correct: no restart storm, no site ignored for ever.
- *Hapi*: the VPN profile is replaced over the VPN itself, with a power loss at
  any step; server, client and operator share files without locks.  Correct: a Pi
  is never left without a usable profile, no request answered to another's secret.

`hazards` in PROJECT.json names the places in the code where these bite.

## The modules

| module | models | composed of |
|---|---|---|
| `SiteState` | `sitestate.js`, as operators on records | |
| `WorkerView` | a worker as the main thread sees it: a record and its possible steps | |
| `WorkerContract` | the abstract specification of one worker: its view changes only as `WorkerView` allows | `WorkerView` |
| `Supervisor` | `service.js` with any number of sites and workers | `SiteState`, `WorkerView` |
| `UltimateShim` | `ultimate-shim.js` over the library as an environment | |
| `SiteWorker` | `site.js` on the knxultimate stack, in a thread or inline; implements `WorkerContract` | `UltimateShim`, `WorkerView` |
| `Dedupe` | `dedupe.js`, one group address | |
| `Pipeline` | an address from the tunnel to InfluxDB: `datapoint.js`, `onEvent()`, dedupe, event writer; implements `Dedupe` | `Dedupe` |
| `Telegrams` | a gateway, UDP, `indication()` of the shim and `datasecure.js` | |
| `Mapping` | `strtodpt.js`, the table of `site.js`, and the watch and reload of `service.js` | |
| `Values` | `payload.js`, `dptrange.js` and the conversions of `dbv2.js` and `db.js`, as operators | |
| `Traffic` | `mqwrite.js` down to the bus, and `logUnmapped()` of `site.js` | `Values` |
| `MC*` | the instances TLC checks | |
| `*Proofs` | the theorems | |

`WorkerContract` is the seam: `Supervisor` lets its workers do whatever
`WorkerView!Step` allows, and `SiteWorker` is shown, by TLC on one instance and
by proof in general, to do nothing else.  So what is checked of `Supervisor` with
these abstract workers holds of `service.js` over real sites.

### Supervisor

| variable | code |
|---|---|
| `phase` | whether the process runs; `shuttingDown` |
| `doc`, `handle` | `originalDoc.locations`, and `loc["worker"]` of each entry |
| `failures`, `crashes`, `noisy` | `failures`, `crashes`, and whether `crashAt` is less than `CRASH_QUIET` ago |
| `pending`, `dnsWatch` | the objects of those names: a back-off timer, and the repeated look-up of `watchDns()` |
| `mem`, `saveDue`, `disk` | `siteState.sites`, `saveTimer`, the file |
| `worker` | `threads`, each with its view |
| `used` | how much of the bounds is used up |
| `upLately` | history, for one property only |

Each action is a callback of the main thread, whole: `HandleConnected`,
`HandleTimeout`, `HandleError`, `HandleStopped`, `HandleExit` (the handlers of
`start_worker()`), `TimerFires` (the back-off), `DnsChanges`, `Kpipe`, `Reload`,
`Boot` (the first run), `SaveFires`, `Signal`, `StopTimeout`; beside them the
environment's `Crash`, `Quiet` and `WeekPasses` (time passing) and the workers'
own steps.

How the data is abstracted.  An entry of `hamon.yml` is whether it is enabled
and one value for all the other fields of `CHANGE_FIELDS`, which `compareLoc()` compares.  A time is what the code
asks of it: `lastConnected` is never, recent or old against `PRECHECK_DAYS`;
`nextRetry` exists exactly while a site is down.  The length of a wait is left out
(a timer that is set may go off at any later time), which allows every order the
real lengths allow and more.  A worker identity is reused once no thread
and no entry refers to it.  `failures` and `crashes` stop counting at
`FailureCap`, above `RestartFree`, where nothing distinguishes them any more.

`restart()` walks the entries with a `for ... in` that ends at the matching one; for a name
that is not there it falls through with the last entry it saw (service.js:406-415).
`RestartTargets` says just that, with any entry in the place of the last.

### UltimateShim and SiteWorker

| variable | code |
|---|---|
| `state`, `closing`, `errorForwarded`, `client` | the fields of those names in `UltimateConnection` |
| `probing` | `localAddress()` has been asked and has not answered |
| `lib`, `autoReconnect` | what KNXUltimate does, and its option that `LibRefused` turns off |
| `judging` | the `setImmediate()` in which an error is judged |
| `stage` | where `start()` waits: not begun, for DNS, for the description, over |
| `firstTimer`, `recovery` | `firstConnectHandle`, `timerHandle` |
| `inited`, `mqtt`, `gas` | the datapoints, the MQTT client, one entry of dedupe |
| `attached` | the connection is there with the site's handlers on it |
| `finished`, `stopping`, `hook` | `finished`, the promise of `stop()`, what `finish()` will report |
| `gone`, `told`, `outbox` | exited; `{ exit: true }` posted; what was posted and not yet taken |

The library is external: it may connect, fail, lose the tunnel with or without
an error, be refused its secure session during the handshake, and takes any time over it.  It is
assumed not to say `connected` after `Disconnect()`.  The shim calls the site's handlers
synchronously, so an event, the shim's reaction and the site's are one action
(`TunnelUp == LibConnects /\ OnConnected`).  `inline` chooses between the two
ways a site is carried: in a thread the process of the thread ends with `exit`,
inline what was scheduled still runs afterwards (`Runs`).  In a thread an exit
message that arrives while an error hook's `stop()` is under way swallows the
error, because it is thrown one turn later (`ExitWhileStopping`).  A message and
the `exit` after it are appended in one step: nothing can come between
them.

### Dedupe

`now` is the clock, `g` the entry of the address, `timers` the times at which
timers are due, `heard` and `written` the histories.  Two things a unit test with
a fake clock does not have: the event loop may run a timer up to `Lateness` after
it is due, with telegrams in between, and a telegram may come after `flushAll()`.
Addresses are independent entries of a Map, so there is one.  The clock does not
go backwards, which `Date.now()` may.  Objects (`rgb`) are never `===` to one
another and so never repeat: they are values each heard once.

### Pipeline

`current` is `current_value`, `posted` the updates that `Datapoint.write()` leaves to `setImmediate()`.  The datapoint listens
to `event_<ga>`, which the shim emits before `event`, so `OnEvent` decodes first and pushes what
was decoded (`OnEventEarly`, the other order, is a mutant).  `HearRead` is a GroupValue_Read: `onEvent()` pushes it like any
telegram, with the value the datapoint holds.  A value that does not decode is `Unset`; `Storable` are those
the event writer makes a number of.  Dedupe is the module above, unchanged: `EXTENDS`, and each step's dedupe half
is an action of it.

### Telegrams

The gateway sends one telegram at a time with a sequence number (`seq`, `waiting`), repeats it once, and gives up the tunnel without an ACK.
`air` is what is under way over UDP: frames may be lost, arrive twice or late.  KNXUltimate acknowledges and passes on all it gets.
`lastSeq` is the shim's, `dsLast` the `lastSeq` of `DataSecure`.  Decryption and the MAC are the kind of
a telegram (`forged` fails the MAC, `nokey` has none), for the model is about when what is noted.  `Indication` is
the whole handler in the code's order: not group data, repeat, note the number, Data Secure, event.

### Mapping

`file`, `export` and `stamp` are the disk; `unseen`, `gap` and `deferred` the watch of `service.js` with `last_time`
and the timer of the deferred reload; `mapsig` and `noted` what the last reload compared; `rules`, `groups` the workers' copies.
A site is `starting`, `loaded` once `start()` has read its files, `running` after the first connection, when
`initDatapoints()` builds the table.  `oneThread` chooses whether `strtodpt.js` is one module for all sites.  A rule is what it matches: a name rule
is the set of names it fits, an address rule an address.  The table is computed by operators in the order of the code:
`Extended`, `Ruled`, `Typed`.  The filters of `mappingSignature()` and `addressRules()` are written without `SelectSeq`, of which
the prover knows nothing: `LinesAt` is the lines at a set of indices, `AddedBy` the first address rule with a DPT.  Restarts for other changes of `hamon.yml` are `Supervisor`'s.

### Values and Traffic

Numbers are in tenths, which is enough for rounding, halves and ranges; a text is what the patterns of `payload.js` tell of it.  `Definition` is KNXUltimate's
table of DPTs (subtype, base type, bits), a constant.  `Message` is the whole `message` handler: the record for `actions`, which comes
before any refusal, and what reaches the bus.  `Further` and `First` are the two halves of
`logUnmapped()`.  A worker has one message, or unmapped telegrams (`Fresh`): the two share no
state, and one message changes nothing another reads.

## What is checked

### Runs that pass

| run | instance | distinct states | properties |
|---|---|---|---|
| `supervisor_commands` | 1 site, 3 workers, 2 configurations, one with a DNS name; 1 reload or kpipe line; errors and holds | 896 643 | `TypeOK`, `WatchOnlyWhileWaiting`, `NoSiteForgotten`, `ErrorsBackOff`, `DisabledWokenLate`, `HoldNamesFailed` |
| `supervisor_restart` | 1 site, 2 workers, 2 configurations; 2 stops or crashes, 1 week; timeouts and all holds, fairness | 447 369 | `FileKeepsUp`, `OneKeeperPerSite`, `HoldLasts`, `RecentSiteNotBlocked`, `EventuallyServed` |
| `site_worker` | one site, thread or inline, with and without precheck, fairness | 9 264 | `TypeOK`, `LeavesNothing`, `OutageIsTimed`, `TimerMeansOutage`, `KeepsContract`, `NeverStuck`, `ToldLeaves` |
| `dedupe` | window 3, lateness 1, clock to 7, 6 telegrams, 2 values | 1 127 202 | `TypeOK`, `InOrder`, `CornersKept`, `HeldInTime`, `Thinned` |
| `pipeline` | window 2, clock to 4, 4 telegrams of 2 values or undecodable, 1 read, 1 MQTT write | 426 013 | `PipelineTypeOK`, `StoredAsHeard`, `LostOnlyToReads`, `KeepsDedupe` |
| `telegrams` | 2 senders, 3 telegrams of 7 kinds, 2 tunnel numbers, 3 Data Secure numbers, 2 tunnels or workers | 2 338 702 | `TypeOK`, `ReplaysBarred`, `PassedOnce`, `NothingSwallowed` |
| `mapping` | 2 sites, 4 files and 2 exports, 3 addresses, 4 DPTs, 2 saves, fairness | 435 409 | `TypeOK`, `NoSaveLost`, `RulesInForce`, `ExportNotStale`, `SavesApplied` |
| `traffic` | 8 kinds of DPT, 15 texts, all commands, tunnel up or down; 4 addresses not stored, 3 payloads, limits 2 and 2 | 13 904 | `TypeOK`, `NeverWrong`, `ActionsMatchEvents`, `UnmappedReported` |

What they show:

- **`NoSiteForgotten`**.  Through a reload or a kpipe line at any moment, with the replaced
  worker's reports still to come, every enabled site keeps what its record
  promises: a timer if it is down, a worker or an unread ending if it is starting, one of the three if it is
  connected.  There is one exception, and it is real (TLC finds it at once without that disjunct): the late `connected` of a replaced worker over its
  successor's hold, [below](#where-the-code-and-its-comments-differ).
- **`WatchOnlyWhileWaiting`**.  A DNS watch never outlives the back-off timer, so it cannot restart a
  site that is running.
- **`ErrorsBackOff`**.  A site that connects and errors again and again is not
  restarted at once more than `RestartFree` times in a noisy spell, though each
  connection clears its failure count and kpipe may have left it two workers.
- **`DisabledWokenLate`, `HoldNamesFailed`**.  What a late report may do wrong,
  pinned down: a disabled site that rests is only woken by the ending of a worker of another
  entry, or by the DNS look-up of a site that is no longer listed; and a hold goes down under another
  entry than the one that failed only if that worker is no longer the one the entry names.
  Both are proved, so the one site of the run and its single reload or kpipe line are no limit to them.
- **`OneKeeperPerSite`**.  Without reload and kpipe a site is in exactly one hand.
  It does not hold with either of them (`one_worker`).
- **`FileKeepsUp`, `HoldLasts`, `RecentSiteNotBlocked`**.  The state file is
  never behind once no save is due, and over stops and crashes at any moment
  (the 500 ms before a save included) no worker starts for an entry the file holds, and
  no site is blocked that its record says connected within a week.
- **`EventuallyServed`**.  Without reload and kpipe an enabled site that is not held gets a worker again and again.
  The exception of `NoSiteForgotten` needs one of them.
- **`KeepsContract`**.  Through stops, timers, awaits and library events in every
  order: one ending at most, `exit` last, no timeout while the link is up, no
  hold once it has been up.
- **`LeavesNothing`, `ToldLeaves`**.  Stopped at any point, even while the local
  address is being found, a site leaves no tunnel and no MQTT client, and it does
  stop, though the gateway never confirms.
- **`OutageIsTimed`, `TimerMeansOutage`, `NeverStuck`**.  The shim passes on only the first
  error of an outage; the recovery timer runs from it, and is cleared by a connection.
- **`CornersKept`, `InOrder`, `HeldInTime`, `Thinned`**.  Dedupe loses no first or last value of a
  run, never writes out of order, holds nothing longer than the window plus the
  event loop's lateness, and does thin long runs.
- **`StoredAsHeard`, `KeepsDedupe`**.  Though telegrams, MQTT writes and reads share one `current_value`, a
  stored point has the value its own telegram carried; and the site uses dedupe as `Dedupe` specifies, so all of
  the line above holds behind the datapoint.
- **`LostOnlyToReads`**.  A corner of a run on the bus is stored or held unless a GroupValue_Read came
  next to it.  The exception is real: `held_read`.
- **`ReplaysBarred`, `PassedOnce`, `NothingSwallowed`**.  The repeat filter and the replay check, each
  with state of its own, between them pass a telegram at most once and drop no fresh one, over lost ACKs, new tunnels and
  restarts; but for `Shadowed`, below.
- **`NoSaveLost`, `SavesApplied`**.  A save inside `RELOAD_GAP`, with or without another after it, is applied in the end.
- **`RulesInForce`, `ExportNotStale`**.  `mappingSignature()` compares neither too little nor in another
  order than the table depends on, through loads that race saves, own restarts and a shared module; and no
  site has an export older than the one that was compared.
- **`NeverWrong`**.  What parsing, rounding and the ranges let through is the number in the text.
- **`ActionsMatchEvents`**.  The record of an MQTT write and the point its echo would make agree, on
  both versions of InfluxDB.
- **`UnmappedReported`**.  The two limits and the other site's addresses leave out what they say and nothing else.

### Bounds, and why they are enough

*Sites.*  Sites share nothing but the process and, in one thread, the mapping rules.
`Mapping` therefore has two sites.  `Supervisor` has one: the only place where one entry's handling
reaches another is the fall-through of `restart()`, and the model has it (`RestartTargets`);
what it may wake is `DisabledWokenLate`, which is proved for any number of sites.
*Workers.*  Three let a
site have its worker, a replacement, and one more started by a late report, with
the first still to exit; where neither reload nor kpipe occurs, two are enough, and
more would only wait.  *Counts.*  `RestartFree = 1` instead of 3, with
`FailureCap = 2`: at once, then waiting; nothing else depends on the counts.
The lengths of the waits, which grow with them, are left out.  *Reloads, kpipe lines, stops, weeks.*
One reload or kpipe line meets any state of a site, and each such line starts the
same race anew; two stops give a run that starts from a file written by a run
that started from a file.  *Queue.*  Only `connected` can repeat in a worker's
queue.  The supervisor's runs let one be unread (`LinkUp`), the site's two (`MaxUnread`).
*Dedupe.*  Six telegrams within just over two windows let a repeat be held,
replaced, flushed late, overtaken by a change and repeated again, and let four
spare points be written.  *Pipeline.*  Four telegrams and a window of two let a repeat be held, read over and overtaken, with
an MQTT write before or after; the dedupe half is checked on its own with more.
*Telegrams.*  Three telegrams and two numbers let one be repeated, the next come, and a third have the first one's number again:
with `SeqMod = 2` every collision the 256 numbers allow happens within the bound.  `Shadowed` needs `SeqMod - 1`
ignored frames, here one.  *Mapping.*  Two saves are a save and one inside the gap it opened, an edit and its undoing, or a change of each
of two files; the four files hold rules for one site, for all, two rules in both orders, a bad line, and an override
after a good one.  *Traffic.*  One DPT of each kind the code tells apart, with ranges from each of its sources; texts at, just inside and
just outside a range, and on halves.  Two payloads of two addresses reach both limits, and one more of each goes beyond.

Deadlock is not checked: a site may be held, a process down with its bounds used
up, a worker gone, a history full; all of them rightly stop.

### Fairness

- `supervisor_restart`: the event loop takes every message it has
  (`HandleReport`), back-off timers and the save timer go off, a worker told to exit exits.  Node's
  event loop and timers give the first three; the last is `ToldLeaves` of `SiteWorker`.
  Nothing is assumed of gateways, DNS, signals or people.
- `site_worker`: the continuations of `start()` run (a DNS look-up and the
  description request have their own timeouts), the shim gets an address or an
  error, an attempt of the library comes to something (it has a timeout), the
  `setImmediate` of an error runs, timers go off, `stop()`'s own wait ends, messages are taken.
  Nothing is assumed of the gateway: it need not answer or confirm a disconnect.
- `mapping`: `fs.watchFile` polls, so a save of a watched file is reported (`Changed`), and
  the timers of the gap and of the deferred reload go off.  Nothing is assumed of editors or of the sites.

Each is weak fairness of one callback, which stays enabled until it has run.

## What is proved

For every value of the constants, by TLAPS (SMT, Zenon and LS4).

| theorem | module | states |
|---|---|---|
| `TypeCorrect` | `SupervisorProofs` | `[]TypeOK` |
| `WatchCorrect` | `SupervisorProofs` | `[]WatchOnlyWhileWaiting` |
| `FileCorrect` | `SupervisorProofs` | `[]FileKeepsUp` |
| `ErrorsCorrect` | `SupervisorProofs` | `ErrorsBackOff` |
| `HoldsCorrect` | `SupervisorProofs` | `HoldNamesFailed` |
| `DisabledCorrect` | `SupervisorProofs` | `DisabledWokenLate` |
| `NoSiteForgottenCorrect` | `SupervisorSiteProofs` | `NoSiteForgotten`, with any commands |
| `OneKeeperCorrect` | `SupervisorSiteProofs` | `MaxCommands = 0`: `[]OneKeeperPerSite` |
| `HoldLastsCorrect` | `SupervisorSiteProofs` | `MaxCommands = 0`: `HoldLasts` |
| `RecentSiteCorrect` | `SupervisorSiteProofs` | `MaxCommands = 0`: `RecentSiteNotBlocked` |
| `TypeCorrect` | `SiteWorkerProofs` | `[]TypeOK` |
| `NothingLeft` | `SiteWorkerProofs` | `[]LeavesNothing` |
| `OutagesTimed` | `SiteWorkerProofs` | `[]OutageIsTimed` |
| `TimersMeanOutages` | `SiteWorkerProofs` | `[]TimerMeansOutage` |
| `ContractKept` | `SiteWorkerProofs` | `Spec => KeepsContract`: the refinement of `WorkerContract` |
| `TypeCorrect` | `DedupeProofs` | `[]TypeOK` |
| `OrderCorrect` | `DedupeProofs` | `[]InOrder` |
| `NothingLost` | `DedupeProofs` | `[]CornersKept` |
| `HeldIsWritten` | `DedupeProofs` | `[]HeldInTime` |
| `RunsThinned` | `DedupeProofs` | `[]Thinned` |
| `PipelineTypeCorrect` | `PipelineProofs` | `[]PipelineTypeOK` |
| `Refinement` | `PipelineProofs` | `PipelineSpec => KeepsDedupe`: the refinement of `Dedupe` |
| `StoredCorrect` | `PipelineProofs` | `[]StoredAsHeard` |
| `LossBounded` | `PipelineProofs` | `[]LostOnlyToReads` |
| `TypeCorrect` | `TelegramsProofs` | `[]TypeOK` |
| `ReplaysNeverPass` | `TelegramsProofs` | `[]ReplaysBarred` |
| `NeverPassedTwice` | `TelegramsProofs` | `[]PassedOnce` |
| `NoneSwallowed` | `TelegramsProofs` | `[]NothingSwallowed` |
| `TypeCorrect` | `MappingProofs` | `[]TypeOK` |
| `RulesRight` | `MappingProofs` | `[]RulesInForce` |
| `SavesKept` | `MappingProofs` | `[]NoSaveLost` |
| `ExportsFresh` | `MappingProofs` | `[]ExportNotStale` |
| `FilesWhole` | `MappingProofs` | in a thread of its own no site is built from part of a file |
| `LinesKept` | `MappingProofs` | a settled site was built from its lines of the file as it is, but for `early`; one that read a part of a file or an older export too |
| `TypeCorrect` | `TrafficProofs` | `[]TypeOK` |
| `NoWrongValue` | `TrafficProofs` | `[]NeverWrong` |
| `AllReported` | `TrafficProofs` | `[]UnmappedReported` |
| `ActionsRight` | `TrafficProofs` | `[]ActionsMatchEvents` |

*Supervisor.*  The assumptions are those the module names: `None` is no
worker, entry, record or fingerprint, and `FailureCap > RestartFree`.  `TypeOK` is
inductive; `WatchOnlyWhileWaiting` and `FileKeepsUp` are inductive together with it.
The two properties are proved one lemma per shared operation (`Restart`,
`ScheduleRestart`, `CancelPending`, ...) and then per action.
The three action properties rest on `TakenByHandler`: a report is taken by the
handler of its kind alone, which needs that there is no worker while ha-mon is down
(`Idle`).  `HoldsCorrect` adds `InForce`, that the worker an entry names was started for that
very entry; a worker it no longer names may run for any earlier one, and
`HoldNamesFailed` without that condition fails with two commands.

*Supervisor, site by site* (`SupervisorSiteProofs`).  `NoSiteForgotten` speaks of reports that are still unread, so it needs to know what an
outbox can be at all (`Outboxed`: `connected` first, one ending, `exit` last) and that the worker an entry names is of its site
(`HandlesRight`).  With these `AllRemembered`, the promises of all records but `connected`, is inductive through every handler, `Boot` and
`Reload`.  What is recorded connected can lapse (`Lapsed`: no timer and no keeper): each step is shown to leave a site
lapsed only if it was (`Carried`), but for `HandleConnected`, where `ConnectedRemembers` says what must have come before: the worker was told to exit,
for otherwise it or its ending is still there, and the site was held, for otherwise its record had promised more.  All this holds with any commands.  The other three do not (`one_worker` is the counterexample), and assume `MaxCommands = 0`: ha-mon
runs, stops, crashes and starts again with no reload and no kpipe line.  `OneHand` then ties record, timer
and worker of a site to one another: of all that speak for it (`Speaks`: not yet down to their `exit`) there is one, or a timer, or a hold,
and nobody else.  `OneKeeperPerSite` counts these; `HoldLasts` and `RecentSiteNotBlocked` are single steps from it, for a
worker that starts was preceded by a hand that was not a hold.

*SiteWorker.*  `LeavesNothing` is not inductive: that nothing is open when a site
has gone follows from what `start()`, the shim and `stop()` keep true of one
another in between.  `IInv` says it in three parts.  `StageInv`: before
the connection is created there is nothing of it.  `LinkInv`: how the shim's
`state` and the library agree, and that `closing` means there is no way back up.
`StopInv`: what a stop in progress has already done, which tunnel it
waits for, and that in the main thread a site that is gone has finished for
good.  From it `Refines` shows that every step is a step of the contract on `View` or
leaves it alone; the steps are classified by what changes in the view (`Quiet`,
`ComesUp`, `GoesDown`, `EndsWith`, `Obeys`), and `Moves` turns each into one of the contract's.

*Dedupe.*  `IInv` adds `EntryInv`: there is exactly one timer
while something is held and none otherwise, and what is held is the last sample
heard, equal to the one before it and later than every point.  Without that `CornersKept` is not inductive:
replacing what is held loses a sample, which must be inside a run.
`Thinned` compares four points that may be far apart; `ThinInv` says of each only how it stands to the two before it:
it is an end of a run, or came a window after one of them.  Two, because a repeat that arrives when the window is over writes what was held first,
in the same instant.  That no earlier point can be later than those is `Timely`.

*Pipeline.*  `Refinement` takes one action at a time: each is `Push`, one of dedupe's own actions, or leaves its variables
alone.  `PInv` is dedupe's invariant with `Aligned`: the two histories have one entry for each telegram, and that of a write
holds what it carried.  `StoredAsHeard` follows at once; `LostOnlyToReads` uses dedupe's `CornersKept`, and that a
corner on the bus which is no corner for dedupe has a read beside it.

*Telegrams.*  `ReplaysBarred` needs `NotedInv`: of what was passed, no number is above the
sender's in `dsLast`.  `PassedOnce` needs `RepeatInv`: as long as nothing overtakes, the newest telegram indicated, should the gateway
repeat it, still has the number in `lastSeq`.
`NothingSwallowed` needs that equal numbers are far apart.  `TunnelFrom` says where the tunnel's telegrams begin, that any two less than `SeqMod` apart differ
in number as they should, and that all before the one awaited have been indicated; `KeptOf`, that a number kept in `dsLast` is that
of a telegram the same sender did send.  So what `indication()` takes for a repeat is one, or the `SeqMod - 1` frames between were all
ignored, which is `Shadowed`.

*Mapping.*  `IInv` is `Shape`, `Seen` (what the last reload did not see is on its way), `Exports` (an mtime is noted before the export
is read), `Lines` (the signature of what a site was built with is the one the reload compares) and `Wholes`.  Together `Seen` and `Lines`
give `LinesKept`, the half of `RulesInForce` about time.  The other half is about data: `SameTable`, that files with equal signatures give equal tables.
Of a signature we know the indices it was taken from in ascending order (`AscendingLists`, by induction over the length of the file; the
library's induction theorems cannot be applied by these provers, so `Least` derives the least element of a set of naturals from `WFMin`, and each induction is
an argument about the least counterexample).  Every look-up of `initDatapoints()` is for the first line of a kind that only lines of the signature can be of
(`LookUps`), and `FirstCarried` takes the first such line of one file to that of the other.  `Tables` adds that a site's table is that of
its export and the file it read; `RulesRight` puts the three together.

*Traffic.*  `NoWrongValue` is a theorem about operators: `Parsed` (a number comes of no other text), `RoundNear`
(`Math.round` in tenths) and `RangeType`.  `Explained` is the inductive part of `UnmappedReported`: the reason
an address is quiet stays true, because the count never falls and the other site's addresses are read only once.
`ActionsRight` needs only what the last message was: both event writers and `actions` are functions of it.

*What the proofs changed.*  `LogValue` in `Traffic` and the shim's `Drop` in `Telegrams` were `CASE` expressions whose arms overlapped; TLC takes the first
that is true, the language any.  They are written without overlap now.  `None` in `Telegrams` is also assumed
to be no reason and no frame, which its proofs use.

### Only model-checked

Liveness (`EventuallyServed`, `NeverStuck`, `ToldLeaves`, `SavesApplied`) is out of the prover's
reach and stays with TLC.  Every invariant and action property of the passing runs is a theorem.

## Where the code and its comments differ

Each of these has a run in which TLC finds the comment's claim violated.

| run | the comment | what happens |
|---|---|---|
| `one_worker` | service.js:19 "sites run one per worker thread" | a worker reports its timeout, a kpipe line replaces it, and then the report is handled: a second worker starts for the site |
| `live_site` | sitestate.js:51-53, a live site gets "never a block" | `lastConnected` is the time the link came up: a tunnel up for more than a week counts as not connected lately |
| `site_held` | site.js:454 "held repeats are written, not lost" | telegrams still come in while the tunnel is being closed; one held then is lost with the thread |
| `held_read` | dedupe.js:8 "the last value before a quiet spell or a change is never lost" | a GroupValue_Read is pushed like a value and takes the place of a held write; the event writer drops reads |

More were read in the code while it was modelled and have no run of their own.

- *Supervisor.*  The late report of
  `one_worker` after a reload that disables the entry starts a worker for it, as
  `requestRestart()` (service.js:338) does not look at `enabled`; and a hold is
  recorded under the entry in force when the message is handled
  (service.js:391), which may be one that was never tried.  The DNS look-up of a site that was taken out of `hamon.yml` goes on
  (service.js:569 touches only the file), and an address change then makes `restart()` (service.js:408-415) start the last
  site of the list, enabled or not.  `DisabledWokenLate` and `HoldNamesFailed` show what these ways are and that there is no other.
  A report during the shutdown may set the save timer again, which writes `running: true` (service.js:189); a site
  taken out of `hamon.yml` (service.js:569) has a record again with its worker's next report.
- *Supervisor, a site nobody keeps.*  kpipe or a reload replaces worker W1 by W2 while W1's `connected` is still in the queue; W2 stops
  with `dns`, `unreachable` or `config`, and the site is held; then W1's `connected` is handled, which sets the record without looking at who
  sent it (service.js:277-281); and W1 exits as it was told.  The site is enabled and recorded connected, with no timer, no worker and
  no hold.  Nothing in `service.js` starts it again before its entry or GA file changes, kpipe names it or ha-mon restarts; the state file says
  connected meanwhile.  Outside it `freshness-detector.sh` (42-58) may: it sends a kpipe line for a stale site that the file does not say is down or held.  `NoSiteForgotten` excepts just this step (`HoldOverwritten`), and is proved: there is no other way.
- *Dedupe.*  "At most once per window" (dedupe.test.js:3): the window counts from the last point's own time, so a repeat that
  was held and written may be followed by the next one soon after; `Thinned` is what holds.
- *Shim.*  Frames that are ignored do not move `lastSeq` (ultimate-shim.js:305-315): behind 255 of them the next group telegram counts
  as a repeat.  `Shadowed` in `Telegrams`.
- *MQTT.*  mqwrite.js:45-48 says a refused write is not logged to `actions`; only one whose text has no number is.  A number out of range, an
  unknown command, on or off for what is no DPT1, and a write without a tunnel are recorded though nothing is sent.  An empty payload is
  the number 0 for most DPTs (payload.js:22), which `NeverWrong` leaves out; for DPT1 it is the numeric 0 that mqwrite.js:97 wants to avoid.
  Any text that is not one of the five for on turns a DPT1 off (payload.js:25), a misspelt one too: `NeverWrong` is about numbers.
  A site name with a hyphen never matches the topic (`\w+`).
- *Mapping.*  An edit that a site reads at a restart of its own and that is undone before the reload is never seen (`early`).  In one thread a
  site that has read a good file and not yet connected gets the rules that another site's failed load left behind (`Whole(built[s])`).  Both
  are excepted in `RulesInForce`, which fails without either exception.  A blank line in a file with CRLF line ends throws; `mappingSignature()` trims
  the owner and `maprule()` does not.  One bad line holds every site that starts until its entry changes.
- *InfluxDB 1.*  `db.js` ignores the time of a held value.

## What is not modelled

- *In `service.js`*: `reload()` is one action; a `hamon.yml` caught half written, or an
  exception between two sites, are left out.  So are the
  lengths of the back-off, `siblingsOf()`, and the `check` message.
- *In `sitestate.js`*: a save that fails (it is logged), the display-only fields.
- *In `site.js`*: the `knx` stack, the survey lines, the tunnel-version
  query, and `check()`, which only asks the shim to look.
- *In `ultimate-shim.js`*: the secure options and their keys, log levels, `read()` with its callback, and `checkNow()`.
- *`secrets.js`*: six refusals in a row, each with its message; there is no order of events in it, only the guards themselves.
- *Parsing the ETS export*: an export is a table.  `parsexml()` gives back what it has when a node makes it throw, and skips two-level addresses.
- *Files* are read and saved in one step: an editor half-way is not there.
- *Scripts and hapi*: programs of their own in shell and Python, which meet ha-mon only through systemd, `tmp/kpipe` and the state file;
  `Supervisor` takes what they do (a stop, a kill, a kpipe line at any moment) as given.
- *Libraries*: `knx` and its patch, `knxultimate`, `mqtt`: an environment.

## The plan

Done: the supervisor with its state file, the site and its worker, the shim, dedupe, the pipeline, telegrams, mapping
and traffic, with their proofs.  What would add most, in this order:

1. **Backoff**: `backoffDelay()`, `noteCrash()` and `CRASH_QUIET` with real
   times.  Even the shortest back-off, 15 minutes, exceeds `CRASH_QUIET`, 10 minutes,
   so a site comes back from it to a count that starts anew.
2. **FreshnessDetector** over an abstract ha-mon: cool-downs, uplink hold, the sites it must leave
   to ha-mon; composed with `Supervisor`'s kpipe action.
3. **HamonRestart**: `hamon-restart.sh` reading the state file that `Supervisor` writes.
4. **VpnSwap** and **Enrolment**: power loss at any step of `hapi-vpn-swap.sh`;
   server, box and operator over shared files.

Theorems next: those of these modules as they come; and of the present ones, what remains of `OneKeeperPerSite` under reloads, when a site may be in
two hands but only one worker is the entry's.
