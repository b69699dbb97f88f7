----------------------------- MODULE Supervisor -----------------------------
(***************************************************************************)
(* src/src/service.js: the main thread of ha-mon, which starts one worker  *)
(* per site, restarts it with a back-off, applies hamon.yml and kpipe, and *)
(* keeps the state file.                                                   *)
(*                                                                         *)
(* The main thread runs one callback at a time: every action here is one   *)
(* callback, whole.  A worker runs on its own, talks to the main thread    *)
(* through a queue that keeps its order (the last thing in it is "exit"),  *)
(* and is spoken to only by postMessage({ exit: true }), which it takes up *)
(* some time later.  Times are what the code compares them with: a wait is *)
(* over at any moment after it began.                                      *)
(***************************************************************************)
EXTENDS SiteState, WorkerView, FiniteSets, Functions

CONSTANTS Site,         \* the names hamon.yml can list
          Worker,       \* identities of worker threads; one is reused once nothing refers to it
          NamedCfg,     \* the configurations whose dns field is a name, not an address
          Faults,       \* bound: the ways a worker may end of itself
          RestartFree,  \* RESTART_FREE: restarts without a delay
          FailureCap,   \* bound: the failure and crash counts stop counting here
          MaxCommands,  \* bound: reloads of hamon.yml and restarts asked for through kpipe
          MaxStops,     \* bound: times ha-mon is told to stop or is killed
          MaxWeeks      \* bound: how often PRECHECK_DAYS go by

ASSUME ConstantsAssumption ==
  /\ NamedCfg \subseteq Cfg
  /\ Faults \subseteq {"dns", "unreachable", "config", "timeout", "error"}
  /\ None \notin Worker
  /\ RestartFree \in Nat
  /\ FailureCap \in Nat /\ FailureCap > RestartFree

VARIABLES
  phase,          \* "down", "up", and once a signal has arrived "stopping", or
                  \* "stoppingOne" if there was one thread then (see SaveFires)
  doc,            \* originalDoc.locations: the entry last applied for each site
  handle,         \* loc["worker"] of that entry
  failures,       \* consecutive restarts without a connection
  crashes,        \* worker errors in the current noisy spell
  noisy,          \* the last error is less than CRASH_QUIET ago (crashAt)
  pending,        \* the back-off timer is set
  dnsWatch,       \* the DNS name is being looked up meanwhile
  mem,            \* siteState.sites
  saveDue,        \* saveTimer is set
  disk,           \* tmp/site-state.json
  worker,         \* the worker threads: `threads` and what each of them is doing
  used,           \* how much of the bounds is used up
  upLately        \* history: sites whose KNX link was up within PRECHECK_DAYS

counts == <<failures, crashes, noisy>>
waits  == <<pending, dnsWatch>>
file   == <<mem, saveDue, disk>>
vars   == <<phase, doc, handle, counts, waits, file, worker, used, upLately>>

-----------------------------------------------------------------------------
(* The worker threads, each as WorkerView has it (SiteWorker shows that     *)
(* site.js and connection.js keep to it).                                   *)

\* mutant: the reason is taken for the state
ReasonAsState(reason) == reason

\* HOLD_REASONS
HoldState(reason) == IF reason = "config" THEN "misconfigured" ELSE "blocked"

WorkerRec == [site : Site, entry : Entry,
              precheck : BOOLEAN, told : BOOLEAN, life : Lives, outbox : Seq(Reports)]

ASSUME NoWorkerAssumption == None \notin WorkerRec

\* `threads`
Threads == {w \in Worker : worker[w] # None}

Working(w) == w \in Threads /\ worker[w].life # "ended"

\* an identity no thread has and no entry still holds
FreeWorkers == {w \in Worker : worker[w] = None /\ w \notin Range(handle)}

\* start_worker(): what a new thread for entry e of site s is given, r being
\* the record of s so far
NewWorker(s, e, r) ==
  [site |-> s, entry |-> e, precheck |-> NeedsPrecheck(r), told |-> FALSE,
   life |-> "starting", outbox |-> <<>>]

\* worker w does something of its own
WorkerDoes(w, v) ==
  /\ worker' = [worker EXCEPT ![w] = v]
  /\ UNCHANGED <<phase, doc, handle, counts, waits, file, used>>

\* the KNX link of w comes up.  Bound: not again before the main thread has
\* taken up the last time it did
LinkUp(w) ==
  /\ Working(w)
  /\ worker[w].life # "connected"
  /\ "connected" \notin Range(worker[w].outbox)
  /\ WorkerDoes(w, Up(worker[w]))
  /\ upLately' = upLately \cup {worker[w].site}

LinkDown(w) ==
  /\ Working(w)
  /\ worker[w].life = "connected"
  /\ WorkerDoes(w, Down(worker[w]))
  /\ UNCHANGED upLately

End(w, e) ==
  /\ Working(w)
  /\ e \in EndingsOf(worker[w])
  /\ WorkerDoes(w, Ended(worker[w], e))
  /\ UNCHANGED upLately

Obey(w) ==
  /\ Working(w)
  /\ worker[w].told
  /\ WorkerDoes(w, Obeyed(worker[w]))
  /\ UNCHANGED upLately

-----------------------------------------------------------------------------
(* Handlers of the main thread.                                            *)

\* the next thing worker w has to say is r
Says(w, r) == w \in Threads /\ worker[w].outbox # <<>> /\ Head(worker[w].outbox) = r

\* the workers once w's report has been taken
Heard(w) == [worker EXCEPT ![w].outbox = Tail(@)]

Enabled(s) == doc[s] # None /\ doc[s].enabled

HasDnsName(s) == doc[s] # None /\ doc[s].cfg \in NamedCfg

\* count up, to the bound
Bump(n) == IF n < FailureCap THEN n + 1 ELSE FailureCap

\* restart(): a name that is no longer in hamon.yml leaves the loop at its
\* last entry, whichever that is
RestartTargets(s) == IF doc[s] # None THEN {s} ELSE {t \in Site : doc[t] # None}

\* restart(s), with the failure counts fails and the workers ws: neither a
\* worker that is still there nor the entry's enabled is looked at
Restart(s, fails, ws) ==
  \E t \in RestartTargets(s), w \in FreeWorkers :
    /\ worker' = [ws EXCEPT ![w] = NewWorker(t, doc[t], mem[t])]
    /\ handle' = [handle EXCEPT ![t] = w]
    /\ mem' = [mem EXCEPT ![t] = SetState(@, "starting", fails[t], None)]
    /\ saveDue' = TRUE

\* mutant: the DNS lookup is left running
CancelTimerOnly(s) ==
  /\ pending' = [pending EXCEPT ![s] = FALSE]
  /\ UNCHANGED dnsWatch

\* cancelPending(s)
CancelPending(s) ==
  /\ pending' = [pending EXCEPT ![s] = FALSE]
  /\ dnsWatch' = [dnsWatch EXCEPT ![s] = FALSE]

\* mutant: the change is not saved
ScheduleUnsaved(s, fails, watch) ==
  /\ pending' = [pending EXCEPT ![s] = TRUE]
  /\ dnsWatch' = [dnsWatch EXCEPT ![s] = watch]
  /\ mem' = [mem EXCEPT ![s] = SetState(@, "down", fails[s], None)]
  /\ UNCHANGED saveDue

\* mutant: a site whose name is watched gets no timer
ScheduleOrWatch(s, fails, watch) ==
  /\ pending' = [pending EXCEPT ![s] = ~watch]
  /\ dnsWatch' = [dnsWatch EXCEPT ![s] = watch]
  /\ mem' = [mem EXCEPT ![s] = SetState(@, "down", fails[s], None)]
  /\ saveDue' = TRUE

\* scheduleRestart(s): wait, and watch the DNS name meanwhile if watch
ScheduleRestart(s, fails, watch) ==
  /\ pending' = [pending EXCEPT ![s] = TRUE]
  /\ dnsWatch' = [dnsWatch EXCEPT ![s] = watch]
  /\ mem' = [mem EXCEPT ![s] = SetState(@, "down", fails[s], None)]
  /\ saveDue' = TRUE

\* requestRestart(s), where fails counts this request already.  The shortest
\* delay is longer than DNS_RECHECK, so a name is always watched
RequestRestart(s, fails, ws) ==
  /\ failures' = fails
  /\ \/ /\ fails[s] <= RestartFree
        /\ Restart(s, fails, ws)
        /\ UNCHANGED waits
     \/ /\ fails[s] > RestartFree
        /\ ScheduleRestart(s, fails, HasDnsName(s))
        /\ worker' = ws
        /\ UNCHANGED handle

\* message { connected }
HandleConnected(w) ==
  /\ Says(w, "connected")
  /\ LET s == worker[w].site IN
       /\ failures' = [failures EXCEPT ![s] = 0]
       /\ mem' = [mem EXCEPT ![s] = SetState(@, "connected", 0, None)]
  /\ saveDue' = TRUE
  /\ worker' = Heard(w)
  /\ UNCHANGED <<phase, doc, handle, crashes, noisy, waits, disk, used, upLately>>

\* message <name>: the worker timed out
HandleTimeout(w) ==
  /\ Says(w, "timeout")
  /\ LET s == worker[w].site
     IN  RequestRestart(s, [failures EXCEPT ![s] = Bump(@)], Heard(w))
  /\ UNCHANGED <<phase, doc, crashes, noisy, disk, used, upLately>>

\* noteCrash(): the errors of s in this noisy spell, with the one just reported
CrashCount(s) == IF noisy[s] THEN Bump(crashes[s]) ELSE 1

\* mutant: the errors are counted but not raised to the failure count
HandleErrorUnraised(w) ==
  /\ Says(w, "error")
  /\ LET s == worker[w].site
     IN  /\ crashes' = [crashes EXCEPT ![s] = CrashCount(s)]
         /\ noisy' = [noisy EXCEPT ![s] = TRUE]
         /\ RequestRestart(s, [failures EXCEPT ![s] = Bump(@)], Heard(w))
  /\ UNCHANGED <<phase, doc, disk, used, upLately>>

\* mutant: an error of a site that is recorded connected is put down to a replaced
\* worker and dropped
HandleErrorUnlessConnected(w) ==
  /\ Says(w, "error")
  /\ LET s == worker[w].site
         c == CrashCount(s)
         f == IF failures[s] > c - 1 THEN failures[s] ELSE c - 1
     IN  IF mem[s] # None /\ mem[s].state = "connected"
         THEN worker' = Heard(w) /\ UNCHANGED <<counts, handle, waits, mem, saveDue>>
         ELSE /\ crashes' = [crashes EXCEPT ![s] = c]
              /\ noisy' = [noisy EXCEPT ![s] = TRUE]
              /\ RequestRestart(s, [failures EXCEPT ![s] = Bump(f)], Heard(w))
  /\ UNCHANGED <<phase, doc, disk, used, upLately>>

\* 'error': noteCrash(), then requestRestart()
HandleError(w) ==
  /\ Says(w, "error")
  /\ LET s == worker[w].site
         c == CrashCount(s)
         f == IF failures[s] > c - 1 THEN failures[s] ELSE c - 1
     IN  /\ crashes' = [crashes EXCEPT ![s] = c]
         /\ noisy' = [noisy EXCEPT ![s] = TRUE]
         /\ RequestRestart(s, [failures EXCEPT ![s] = Bump(f)], Heard(w))
  /\ UNCHANGED <<phase, doc, disk, used, upLately>>

\* message { stopped, reason }: held, under the fingerprint of the entry that
\* is in force now
HandleStopped(w) ==
  \E r \in Reasons :
    /\ Says(w, r)
    /\ LET s == worker[w].site IN
         /\ CancelPending(s)
         /\ mem' = [mem EXCEPT ![s] =
                      SetState(@, HoldState(r), failures[s],
                               IF doc[s] = None THEN None ELSE Fingerprint(doc[s]))]
    /\ saveDue' = TRUE
    /\ worker' = Heard(w)
    /\ UNCHANGED <<phase, doc, handle, counts, disk, used, upLately>>

\* shuttingDown
Stopping == phase \in {"stopping", "stoppingOne"}

\* the process is gone: all that is left is hamon.yml and the file
ProcessEnds ==
  /\ phase' = "down"
  /\ handle' = [s \in Site |-> None]
  /\ failures' = [s \in Site |-> 0]
  /\ crashes' = [s \in Site |-> 0]
  /\ noisy' = [s \in Site |-> FALSE]
  /\ pending' = [s \in Site |-> FALSE]
  /\ dnsWatch' = [s \in Site |-> FALSE]
  /\ mem' = NoSites(Site)
  /\ saveDue' = FALSE
  /\ worker' = [w \in Worker |-> None]

\* 'exit': the thread is gone, and ha-mon with it if it was the last one of
\* a shutdown
HandleExit(w) ==
  /\ Says(w, "exit")
  /\ \/ /\ Stopping /\ Threads = {w}
        /\ ProcessEnds
        /\ UNCHANGED <<doc, disk, used, upLately>>
     \/ /\ ~(Stopping /\ Threads = {w})
        /\ worker' = [worker EXCEPT ![w] = None]
        /\ UNCHANGED <<phase, doc, handle, counts, waits, file, used, upLately>>

\* the back-off timer of scheduleRestart()
TimerFires(s) ==
  /\ pending[s]
  /\ CancelPending(s)
  /\ \/ Enabled(s) /\ Restart(s, failures, worker)
     \/ /\ ~Enabled(s)
        /\ mem' = [mem EXCEPT ![s] = SetState(@, "disabled", failures[s], None)]
        /\ saveDue' = TRUE
        /\ UNCHANGED <<handle, worker>>
  /\ UNCHANGED <<phase, doc, counts, disk, used, upLately>>

\* mutant: the timer is left running
DnsChangesKeepsTimer(s) ==
  /\ dnsWatch[s]
  /\ dnsWatch' = [dnsWatch EXCEPT ![s] = FALSE]
  /\ failures' = [failures EXCEPT ![s] = 0]
  /\ Restart(s, failures', worker)
  /\ UNCHANGED <<phase, doc, crashes, noisy, pending, disk, used, upLately>>

\* watchDns() found a new address
DnsChanges(s) ==
  /\ dnsWatch[s]
  /\ CancelPending(s)
  /\ \/ /\ pending[s]
        /\ failures' = [failures EXCEPT ![s] = 0]
        /\ Restart(s, failures', worker)
     \/ ~pending[s] /\ UNCHANGED <<failures, handle, mem, saveDue, worker>>
  /\ UNCHANGED <<phase, doc, crashes, noisy, disk, used, upLately>>

\* mutant: any site of hamon.yml
KpipeRegardless(s) ==
  /\ phase # "down"
  /\ used.command < MaxCommands
  /\ doc[s] # None
  /\ CancelPending(s)
  /\ Restart(s, failures,
             [w \in Worker |-> IF w = handle[s] /\ w \in Threads
                               THEN [worker[w] EXCEPT !.told = TRUE] ELSE worker[w]])
  /\ used' = [used EXCEPT !.command = @ + 1]
  /\ UNCHANGED <<phase, doc, counts, disk, upLately>>

\* a line "<site>" on kpipe: stop the worker of the entry, restart at once
Kpipe(s) ==
  /\ phase # "down"
  /\ used.command < MaxCommands
  /\ Enabled(s)
  /\ CancelPending(s)
  /\ Restart(s, failures,
             [w \in Worker |-> IF w = handle[s] /\ w \in Threads
                               THEN [worker[w] EXCEPT !.told = TRUE] ELSE worker[w]])
  /\ used' = [used EXCEPT !.command = @ + 1]
  /\ UNCHANGED <<phase, doc, counts, disk, upLately>>

-----------------------------------------------------------------------------
(* hamon.yml, the file and the process.                                    *)

\* what hamon.yml can say; it lists at least one site
Docs == {d \in [Site -> Entry \cup {None}] : \E s \in Site : d[s] # None}

\* the site that was given worker w
HiredFor(hire, w) == CHOOSE s \in DOMAIN hire : hire[s] = w

\* the workers after `hire` gave each of its sites a new worker and the
\* workers in `dismissed` were told to exit
Staff(d, hire, dismissed) ==
  [w \in Worker |->
     IF w \in Range(hire)
     THEN LET s == HiredFor(hire, w) IN NewWorker(s, d[s], mem[s])
     ELSE IF w \in dismissed THEN [worker[w] EXCEPT !.told = TRUE] ELSE worker[w]]

\* mutant: only switching a site on or off counts as a change
Switched(new) ==
  {s \in Site : doc[s] # None /\ new[s] # None /\ new[s].enabled # doc[s].enabled}

\* compareLoc() and the mtime of the GA file: the sites whose entry new changes
Changed(new) == {s \in Site : doc[s] # None /\ new[s] # None /\ new[s] # doc[s]}

\* reload(): ConnectionService(false, new) and originalDoc = new.  A change of
\* the entry restarts the site; a change of threads, dedupe or dptmappings
\* (soft: the sites it concerns) only a site whose worker is in `threads`.
\* Nothing is done about the worker of a site that is no longer listed
Reload(new, soft) ==
  LET changed == Changed(new)
      running == {s \in Site : doc[s] # None /\ new[s] # None /\ handle[s] \in Threads}
      redone  == changed \cup (soft \cap running)
      added   == {s \in Site : doc[s] = None /\ new[s] # None}
      starts  == {s \in redone \cup added : new[s].enabled}
      idle    == (redone \cup added) \ starts
      fails   == [s \in Site |-> IF s \in changed THEN 0 ELSE failures[s]]
      noted   == [s \in Site |->
                    IF s \in starts THEN SetState(mem[s], "starting", fails[s], None)
                    ELSE IF s \in idle THEN SetState(mem[s], "disabled", fails[s], None)
                    ELSE mem[s]]
  IN  /\ phase # "down"
      /\ used.command < MaxCommands
      /\ doc' = new
      /\ failures' = fails
      /\ crashes' = [s \in Site |-> IF s \in changed THEN 0 ELSE crashes[s]]
      /\ pending' = [s \in Site |-> s \notin changed /\ pending[s]]
      /\ dnsWatch' = [s \in Site |-> s \notin changed /\ dnsWatch[s]]
      /\ \E hire \in Injection(starts, FreeWorkers) :
           /\ handle' = [s \in Site |-> IF s \in starts THEN hire[s]
                                        ELSE IF s \in idle \/ new[s] = None THEN None
                                        ELSE handle[s]]
           /\ worker' = Staff(new, hire, {handle[s] : s \in redone \cap running})
      /\ mem' = Retain(noted, {s \in Site : new[s] # None})
      /\ saveDue' = TRUE
      /\ used' = [used EXCEPT !.command = @ + 1]
      /\ UNCHANGED <<phase, noisy, disk, upLately>>

EnabledIn(d) == {s \in Site : d[s] # None /\ d[s].enabled}

\* the sites of d that stay blocked: the file holds them for this very entry
BlockedIn(d) == {s \in EnabledIn(d) : StillBlocked(disk.sites[s], Fingerprint(d[s]))}

\* the failure counts kept from the last run
KeptFailures(d) ==
  [s \in Site |->
     IF s \in EnabledIn(d) /\ disk.sites[s] # None /\ disk.sites[s].state # "connected"
     THEN disk.sites[s].failures ELSE 0]

\* the sites of d that were waiting out a back-off and are not due a gateway check
BackoffIn(d) ==
  {s \in EnabledIn(d) \ BlockedIn(d) :
     /\ disk.sites[s] # None
     /\ disk.sites[s].state = "down"
     /\ ~NeedsPrecheck(disk.sites[s])}

\* the sites of d at the end of the first run: those of `waiting` wait on, with
\* those of `watched` looked up, and those `hire` names have been started
FirstRun(d, waiting, watched, hire) ==
  /\ pending' = [s \in Site |-> s \in waiting]
  /\ dnsWatch' = [s \in Site |-> s \in watched]
  /\ handle' = [s \in Site |-> IF s \in DOMAIN hire THEN hire[s] ELSE None]
  /\ worker' = [w \in Worker |->
       IF w \notin Range(hire) THEN None
       ELSE LET s == HiredFor(hire, w) IN NewWorker(s, d[s], disk.sites[s])]
  /\ mem' = [s \in Site |->
       IF d[s] = None THEN None
       ELSE IF s \in BlockedIn(d) THEN disk.sites[s]
       ELSE SetState(disk.sites[s],
                     IF s \in DOMAIN hire THEN "starting"
                     ELSE IF s \in waiting THEN "down" ELSE "disabled",
                     KeptFailures(d)[s], None)]

\* the first run: the sites carry on from the state file.  Whether what is
\* left of a back-off is still ahead, and longer than DNS_RECHECK, is open
Boot(d) ==
  /\ phase = "down"
  /\ phase' = "up"
  /\ doc' = d
  /\ failures' = KeptFailures(d)
  /\ \E waiting \in SUBSET BackoffIn(d) :
     \E watched \in SUBSET {s \in waiting : d[s].cfg \in NamedCfg},
        hire \in Injection(EnabledIn(d) \ (BlockedIn(d) \cup waiting), Worker) :
       FirstRun(d, waiting, watched, hire)
  /\ saveDue' = TRUE
  /\ UNCHANGED <<crashes, noisy, disk, used, upLately>>

\* the batched save, 500 ms after the first change.  A shutdown with one
\* thread is over before: its timeout is 450 ms for each thread
SaveFires ==
  /\ saveDue
  /\ phase # "stoppingOne"
  /\ saveDue' = FALSE
  /\ disk' = [running |-> TRUE, sites |-> mem]
  /\ UNCHANGED <<phase, doc, handle, counts, waits, mem, worker, used, upLately>>

\* sigHandler(), first signal: save with running: false, tell every thread
Signal ==
  /\ phase = "up"
  /\ used.stop < MaxStops
  /\ used' = [used EXCEPT !.stop = @ + 1]
  /\ disk' = [running |-> FALSE, sites |-> mem]
  /\ \/ /\ Threads = {}
        /\ ProcessEnds
     \/ /\ Threads # {}
        /\ phase' = IF Cardinality(Threads) = 1 THEN "stoppingOne" ELSE "stopping"
        /\ saveDue' = FALSE
        /\ worker' = [w \in Worker |-> IF w \in Threads
                                       THEN [worker[w] EXCEPT !.told = TRUE] ELSE None]
        /\ UNCHANGED <<handle, counts, waits, mem>>
  /\ UNCHANGED <<doc, upLately>>

\* the shutdown's own timeout, or a second signal
StopTimeout ==
  /\ Stopping
  /\ ProcessEnds
  /\ UNCHANGED <<doc, disk, used, upLately>>

\* ha-mon is killed, or the power goes
Crash ==
  /\ phase = "up"
  /\ used.stop < MaxStops
  /\ used' = [used EXCEPT !.stop = @ + 1]
  /\ ProcessEnds
  /\ UNCHANGED <<doc, disk, upLately>>

\* CRASH_QUIET without an error of s
Quiet(s) ==
  /\ noisy[s]
  /\ noisy' = [noisy EXCEPT ![s] = FALSE]
  /\ UNCHANGED <<phase, doc, handle, failures, crashes, waits, file,
                 worker, used, upLately>>

\* PRECHECK_DAYS since the connection last recorded for s
WeekPasses(s) ==
  /\ used.week < MaxWeeks
  /\ LastConnected(mem[s]) = "recent" \/ LastConnected(disk.sites[s]) = "recent"
  /\ mem' = [mem EXCEPT ![s] = Aged(@)]
  /\ disk' = [disk EXCEPT !.sites[s] = Aged(@)]
  /\ upLately' = {t \in upLately : t = s => \E w \in Threads : /\ worker[w].site = s
                                                               /\ worker[w].life = "connected"}
  /\ used' = [used EXCEPT !.week = @ + 1]
  /\ UNCHANGED <<phase, doc, handle, counts, waits, saveDue, worker>>

-----------------------------------------------------------------------------
Init ==
  /\ phase = "down"
  /\ doc = [s \in Site |-> None]
  /\ handle = [s \in Site |-> None]
  /\ failures = [s \in Site |-> 0]
  /\ crashes = [s \in Site |-> 0]
  /\ noisy = [s \in Site |-> FALSE]
  /\ pending = [s \in Site |-> FALSE]
  /\ dnsWatch = [s \in Site |-> FALSE]
  /\ mem = NoSites(Site)
  /\ saveDue = FALSE
  /\ disk = [running |-> FALSE, sites |-> NoSites(Site)]
  /\ worker = [w \in Worker |-> None]
  /\ used = [command |-> 0, stop |-> 0, week |-> 0]
  /\ upLately = {}

WorkerStep(w) ==
  \/ LinkUp(w)
  \/ LinkDown(w)
  \/ \E e \in Faults : End(w, e)
  \/ Obey(w)

HandleReport(w) ==
  \/ HandleConnected(w)
  \/ HandleTimeout(w)
  \/ HandleError(w)
  \/ HandleStopped(w)
  \/ HandleExit(w)

Next ==
  \/ \E w \in Worker : WorkerStep(w) \/ HandleReport(w)
  \/ \E s \in Site : TimerFires(s) \/ DnsChanges(s) \/ Kpipe(s) \/ Quiet(s) \/ WeekPasses(s)
  \/ \E new \in Docs : Boot(new) \/ \E soft \in SUBSET Site : Reload(new, soft)
  \/ SaveFires
  \/ Signal
  \/ StopTimeout
  \/ Crash

Spec == Init /\ [][Next]_vars

\* the event loop runs every callback that is due, a timer that is set goes
\* off, and a worker told to exit does; a gateway, a person or a signal owes
\* nothing
Fairness ==
  /\ \A w \in Worker : WF_vars(HandleReport(w)) /\ WF_vars(Obey(w))
  /\ \A s \in Site : WF_vars(TimerFires(s))
  /\ WF_vars(SaveFires)

FairSpec == Spec /\ Fairness

-----------------------------------------------------------------------------
\* TypeOK: every variable keeps the shape the code gives it.
TypeOK ==
  /\ phase \in {"down", "up", "stopping", "stoppingOne"}
  /\ doc \in [Site -> Entry \cup {None}]
  /\ handle \in [Site -> Worker \cup {None}]
  /\ failures \in [Site -> Nat]
  /\ crashes \in [Site -> Nat]
  /\ noisy \in [Site -> BOOLEAN]
  /\ pending \in [Site -> BOOLEAN]
  /\ dnsWatch \in [Site -> BOOLEAN]
  /\ mem \in [Site -> Rec \cup {None}]
  /\ saveDue \in BOOLEAN
  /\ disk \in [running : BOOLEAN, sites : [Site -> Rec \cup {None}]]
  /\ worker \in [Worker -> WorkerRec \cup {None}]
  /\ used \in [command : Nat, stop : Nat, week : Nat]
  /\ upLately \in SUBSET Site

\* w has ended and ha-mon has yet to hear why
Unreported(w) == w \in Threads /\ Range(worker[w].outbox) \cap Endings # {}

\* w serves s: it is at work and nobody told it to exit
Serves(w, s) == Working(w) /\ worker[w].site = s /\ ~worker[w].told

\* the workers s depends on: at work, or with an ending still to be heard
Keepers(s) == {w \in Threads : worker[w].site = s /\ (Working(w) \/ Unreported(w))}

\* this step takes report r of w; after "exit" there is no w
Takes(w, r) ==
  Says(w, r) /\ worker'[w] # None /\ worker'[w].outbox = Tail(worker[w].outbox)

\* this step starts worker w
Starts(w) == worker[w] = None /\ worker'[w] # None

IsHeld(s) == mem[s] # None /\ mem[s].state \in Held

StateOf(s) == IF mem[s] = None THEN "disabled" ELSE mem[s].state

\* a worker serves s or has yet to say why it ended
Tended(s) == \E w \in Keepers(s) : Serves(w, s) \/ Unreported(w)

\* s has what its record promises: its timer while it is down, a worker while it
\* is starting, one of the two while it is connected; a hold promises nothing
KeepsPromise(s) ==
  /\ StateOf(s) # "disabled"
  /\ StateOf(s) = "down" => pending[s]
  /\ StateOf(s) = "starting" => Tended(s)
  /\ StateOf(s) = "connected" => pending[s] \/ Tended(s)

Forgotten(s) == phase = "up" /\ Enabled(s) /\ ~KeepsPromise(s)

\* this step takes the "connected" of a worker of s that was told to exit, and
\* with it overwrites the hold of s
HoldOverwritten(s) ==
  /\ IsHeld(s)
  /\ \E w \in Worker : Takes(w, "connected") /\ worker[w].site = s /\ worker[w].told

\* The DNS name of a site is only looked up while its back-off timer runs:
\* every path that clears or replaces the timer stops the lookup (scheduleRestart,
\* cancelPending), so no address change can restart a site behind the timer's back.
WatchOnlyWhileWaiting == \A s \in Site : dnsWatch[s] => pending[s]

\* While no save is due, the file says what ha-mon knows: no handler changes a
\* site's state without asking for a save (setState, the end of ConnectionService).
FileKeepsUp == phase # "down" /\ ~saveDue => disk.sites = mem

\* No enabled site that is not held is left without a timer, a worker that serves it
\* and an ending still to be heard, and none has less than its record promises,
\* whatever reload, kpipe and late reports of replaced workers do; but for one way:
\* the late "connected" of a worker that was told to exit takes away the hold its
\* successor has reported (service.js:277-281), and the site stays "connected".
NoSiteForgotten ==
  [][\A s \in Site :
       Forgotten(s)' => \/ HoldOverwritten(s)
                        \/ Forgotten(s) /\ StateOf(s)' = StateOf(s)]_vars

\* A site whose worker keeps erroring is not restarted at once more than
\* RestartFree times in a noisy spell, however often it connects in between
\* (noteCrash): the immediate restart an error leads to is within that count.
ErrorsBackOff ==
  [][\A w, v \in Worker :
       Takes(w, "error") /\ Starts(v) => crashes'[worker[w].site] <= RestartFree]_vars

\* nothing of s is going on: no timer, and no thread of the entry in force
Rests(s) == ~pending[s] /\ \A w \in Threads : worker[w].site = s => worker[w].entry # doc[s]

\* A site whose entry is not enabled, and which rests, is only woken by the late
\* ending of a worker of another entry (requestRestart does not look at the entry)
\* or by the look-up of a site that is no longer listed (restart then takes
\* another site): not by kpipe, a timer, a look-up of its own or its old worker.
DisabledWokenLate ==
  [][\A s \in Site :
       /\ doc[s] # None /\ doc'[s] = doc[s] /\ ~Enabled(s) /\ phase' # "down"
       /\ Rests(s) /\ ~Rests(s)'
       => \/ \E w \in Worker : /\ Takes(w, "timeout") \/ Takes(w, "error")
                               /\ worker[w].site # s \/ worker[w].entry # doc[s]
          \/ \E t \in Site : doc[t] = None /\ dnsWatch[t] /\ ~dnsWatch'[t]]_vars

\* A hold goes down under the entry in force when the report is heard (stopped).
\* That is the entry that failed whenever the worker is still the one ha-mon
\* has for the site, whatever reload, kpipe and late reports did before.
HoldNamesFailed ==
  [][\A w \in Worker, r \in Reasons :
       LET s == worker[w].site
       IN  Takes(w, r) /\ handle[s] = w => mem'[s].fp = Fingerprint(worker[w].entry)]_vars

\* Without reload and kpipe a site is in exactly one hand: one worker while it
\* is starting or connected, its back-off timer alone while it is down, nobody
\* while it is held or disabled (requestRestart, scheduleRestart, stopped).
OneKeeperPerSite ==
  phase = "up" =>
    \A s \in Site :
      /\ Cardinality(Keepers(s)) = IF StateOf(s) \in {"starting", "connected"} THEN 1 ELSE 0
      /\ pending[s] <=> StateOf(s) = "down"

\* Without reload and kpipe, no worker is started for an entry the file holds
\* its site for, in this run of ha-mon or a later one, after a stop or a crash
\* (stopped, stillBlocked): a held site waits for its entry to change.
HoldLasts ==
  [][\A w \in Worker : Starts(w) =>
       LET r == disk.sites[worker'[w].site]
       IN  r # None /\ r.state \in Held => r.fp # Fingerprint(worker'[w].entry)]_vars

\* A site whose record says it connected within PRECHECK_DAYS is not blocked for
\* a gateway that does not answer, whichever run of ha-mon saw it connect.
RecentSiteNotBlocked ==
  [][\A w \in Worker :
       Takes(w, "unreachable") => LastConnected(mem[worker[w].site]) # "recent"]_vars

\* Without reload and kpipe, an enabled site that is not held is served again and
\* again: no sequence of timeouts, errors and waits leaves it without a worker for
\* good.  (With kpipe, what NoSiteForgotten excepts is such a sequence.)
EventuallyServed ==
  \A s \in Site :
    []<>(\/ phase # "up" \/ ~Enabled(s) \/ IsHeld(s)
         \/ \E w \in Worker : Serves(w, s))

-----------------------------------------------------------------------------
(* What the comments of the code say and the code does not keep.           *)

\* service.js:19, "sites run one per worker thread": no two workers serve one site.
OneWorkerPerSite ==
  \A s \in Site : Cardinality({w \in Worker : Serves(w, s)}) <= 1

\* sitestate.js:52, a site that connected within PRECHECK_DAYS "gets the normal
\* back-off, never a block": one whose KNX link was up within them is live.
LiveSiteNotBlocked ==
  [][\A w \in Worker : Takes(w, "unreachable") => worker[w].site \notin upLately]_vars
=============================================================================
