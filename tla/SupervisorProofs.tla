------------------------- MODULE SupervisorProofs -------------------------
(* Proofs about Supervisor for every value of its constants.               *)
EXTENDS Supervisor, TLAPS

-----------------------------------------------------------------------------
(* The records of SiteState and the operators on workers keep their types. *)

LEMMA SetStateType ==
  ASSUME NEW r \in Rec \cup {None}, NEW state \in States, NEW n \in Nat,
         NEW fp \in Prints \cup {None}
  PROVE  SetState(r, state, n, fp) \in Rec
BY NoRecAssumption DEF SetState, LastConnected, Rec, Ages

LEMMA AgedType ==
  ASSUME NEW r \in Rec \cup {None}
  PROVE  Aged(r) \in Rec \cup {None}
BY DEF Aged, Rec, Ages

LEMMA BumpType ==
  ASSUME NEW n \in Nat
  PROVE  Bump(n) \in Nat
BY ConstantsAssumption DEF Bump

LEMMA NewWorkerType ==
  ASSUME NEW s \in Site, NEW e \in Entry, NEW r \in Rec \cup {None}
  PROVE  NewWorker(s, e, r) \in WorkerRec
BY DEF NewWorker, NeedsPrecheck, WorkerRec, Lives

LEMMA HeardType ==
  ASSUME TypeOK, NEW w \in Worker, NEW r, Says(w, r)
  PROVE  Heard(w) \in [Worker -> WorkerRec \cup {None}] /\ Heard(w)[w] \in WorkerRec
<1>1. worker[w] \in WorkerRec
  BY DEF TypeOK, Says, Threads
<1>2. Tail(worker[w].outbox) \in Seq(Reports)
  BY <1>1 DEF Says, WorkerRec
<1>3. [worker[w] EXCEPT !.outbox = Tail(@)] \in WorkerRec
  BY <1>1, <1>2 DEF WorkerRec
<1>. QED
  BY <1>3 DEF Heard, TypeOK

LEMMA RestartType ==
  ASSUME TypeOK, NEW s \in Site, NEW fails \in [Site -> Nat],
         NEW ws \in [Worker -> WorkerRec \cup {None}], Restart(s, fails, ws)
  PROVE  /\ worker' \in [Worker -> WorkerRec \cup {None}]
         /\ handle' \in [Site -> Worker \cup {None}]
         /\ mem' \in [Site -> Rec \cup {None}]
         /\ saveDue'
<1>. PICK t \in RestartTargets(s), w \in FreeWorkers :
       /\ worker' = [ws EXCEPT ![w] = NewWorker(t, doc[t], mem[t])]
       /\ handle' = [handle EXCEPT ![t] = w]
       /\ mem' = [mem EXCEPT ![t] = SetState(@, "starting", fails[t], None)]
       /\ saveDue' = TRUE
  BY DEF Restart
<1>1. t \in Site /\ doc[t] \in Entry /\ w \in Worker
  BY DEF RestartTargets, FreeWorkers, TypeOK
<1>2. NewWorker(t, doc[t], mem[t]) \in WorkerRec
  BY <1>1, NewWorkerType DEF TypeOK
<1>3. SetState(mem[t], "starting", fails[t], None) \in Rec
  BY <1>1, SetStateType DEF TypeOK, States
<1>. QED
  BY <1>1, <1>2, <1>3 DEF TypeOK

LEMMA RequestRestartType ==
  ASSUME TypeOK, NEW s \in Site, NEW fails \in [Site -> Nat],
         NEW ws \in [Worker -> WorkerRec \cup {None}], RequestRestart(s, fails, ws)
  PROVE  /\ failures' \in [Site -> Nat]
         /\ worker' \in [Worker -> WorkerRec \cup {None}]
         /\ handle' \in [Site -> Worker \cup {None}]
         /\ pending' \in [Site -> BOOLEAN]
         /\ dnsWatch' \in [Site -> BOOLEAN]
         /\ mem' \in [Site -> Rec \cup {None}]
         /\ saveDue' \in BOOLEAN
<1>1. CASE Restart(s, fails, ws) /\ UNCHANGED waits
  BY <1>1, RestartType DEF RequestRestart, TypeOK, waits
<1>2. CASE /\ ScheduleRestart(s, fails, HasDnsName(s))
           /\ worker' = ws
           /\ UNCHANGED handle
  <2>1. SetState(mem[s], "down", fails[s], None) \in Rec
    BY SetStateType DEF TypeOK, States
  <2>2. HasDnsName(s) \in BOOLEAN
    BY DEF HasDnsName
  <2>. QED
    BY <1>2, <2>1, <2>2 DEF RequestRestart, ScheduleRestart, TypeOK
<1>. QED
  BY <1>1, <1>2 DEF RequestRestart

-----------------------------------------------------------------------------
(* Type correctness: one lemma per group of actions.                       *)

LEMMA InitType == Init => TypeOK
<1>. SUFFICES ASSUME Init PROVE TypeOK
  OBVIOUS
<1>1. NoSites(Site) \in [Site -> Rec \cup {None}]
  BY DEF NoSites
<1>2. disk \in [running : BOOLEAN, sites : [Site -> Rec \cup {None}]]
  BY <1>1 DEF Init
<1>3. worker \in [Worker -> WorkerRec \cup {None}]
  BY DEF Init
<1>. QED
  BY <1>1, <1>2, <1>3 DEF Init, TypeOK

LEMMA WorkerDoesType ==
  ASSUME TypeOK, NEW w \in Worker, NEW v \in WorkerRec, WorkerDoes(w, v),
         upLately' \in SUBSET Site
  PROVE  TypeOK'
BY DEF WorkerDoes, TypeOK, counts, waits, file

\* What a worker does of itself keeps its type.
LEMMA StepType ==
  ASSUME NEW v \in WorkerRec, NEW u,
         \/ u = Up(v)
         \/ u = Down(v)
         \/ \E e \in Endings : u = Ended(v, e)
         \/ u = Obeyed(v)
  PROVE  u \in WorkerRec
<1>1. v.outbox \in Seq(Reports) /\ "connected" \in Reports /\ "exit" \in Reports
  BY DEF WorkerRec, Reports
<1>2. CASE u = Up(v)
  <2>1. Append(v.outbox, "connected") \in Seq(Reports)
    BY <1>1
  <2>. QED
    BY <1>2, <2>1 DEF Up, WorkerRec, Lives
<1>3. CASE u = Down(v)
  BY <1>3 DEF Down, WorkerRec, Lives
<1>4. ASSUME NEW e \in Endings, u = Ended(v, e)
      PROVE  u \in WorkerRec
  <2>1. e \in Reports
    BY DEF Reports
  <2>2. v.outbox \o <<e, "exit">> \in Seq(Reports)
    BY <1>1, <2>1
  <2>. QED
    BY <1>4, <2>2 DEF Ended, WorkerRec, Lives
<1>5. CASE u = Obeyed(v)
  <2>1. Append(v.outbox, "exit") \in Seq(Reports)
    BY <1>1
  <2>. QED
    BY <1>5, <2>1 DEF Obeyed, WorkerRec, Lives
<1>. QED
  BY <1>2, <1>3, <1>4, <1>5

LEMMA WorkerStepType ==
  ASSUME TypeOK, NEW w \in Worker, WorkerStep(w)
  PROVE  TypeOK'
<1>1. worker[w] \in WorkerRec /\ worker[w].site \in Site
  BY DEF WorkerStep, LinkUp, LinkDown, End, Obey, Working, Threads, TypeOK, WorkerRec
<1>2. \A e \in Faults : e \in Endings
  BY ConstantsAssumption DEF Endings, Reasons
<1>3. PICK u : /\ WorkerDoes(w, u)
               /\ \/ u = Up(worker[w])
                  \/ u = Down(worker[w])
                  \/ \E e \in Endings : u = Ended(worker[w], e)
                  \/ u = Obeyed(worker[w])
  BY <1>2 DEF WorkerStep, LinkUp, LinkDown, End, Obey
<1>4. u \in WorkerRec
  BY <1>1, <1>3, StepType
<1>5. upLately' \in SUBSET Site
  BY <1>1 DEF WorkerStep, LinkUp, LinkDown, End, Obey, TypeOK
<1>. QED
  BY <1>3, <1>4, <1>5, WorkerDoesType

LEMMA ProcessEndsType ==
  ASSUME TypeOK, ProcessEnds
  PROVE  /\ phase' = "down"
         /\ handle' \in [Site -> Worker \cup {None}]
         /\ failures' \in [Site -> Nat]
         /\ crashes' \in [Site -> Nat]
         /\ noisy' \in [Site -> BOOLEAN]
         /\ pending' \in [Site -> BOOLEAN]
         /\ dnsWatch' \in [Site -> BOOLEAN]
         /\ mem' \in [Site -> Rec \cup {None}]
         /\ saveDue' \in BOOLEAN
         /\ worker' \in [Worker -> WorkerRec \cup {None}]
BY DEF ProcessEnds, NoSites

LEMMA HandleReportType ==
  ASSUME TypeOK, NEW w \in Worker, HandleReport(w)
  PROVE  TypeOK'
<1>0. w \in Threads /\ worker[w] \in WorkerRec /\ worker[w].site \in Site
  <2>1. w \in Threads
    BY DEF HandleReport, HandleConnected, HandleTimeout, HandleError, HandleStopped,
           HandleExit, Says
  <2>. QED
    BY <2>1 DEF Threads, TypeOK, WorkerRec
<1>. DEFINE s == worker[w].site
<1>1. CASE HandleConnected(w)
  <2>1. Heard(w) \in [Worker -> WorkerRec \cup {None}]
    BY <1>1, HeardType DEF HandleConnected
  <2>2. SetState(mem[s], "connected", 0, None) \in Rec
    BY <1>0, SetStateType DEF TypeOK, States
  <2>. QED
    BY <1>0, <1>1, <2>1, <2>2 DEF HandleConnected, TypeOK, waits
<1>2. CASE HandleTimeout(w)
  <2>. DEFINE f == [failures EXCEPT ![s] = Bump(@)]
  <2>1. Heard(w) \in [Worker -> WorkerRec \cup {None}]
    BY <1>2, HeardType DEF HandleTimeout
  <2>2. f \in [Site -> Nat]
    BY <1>0, BumpType DEF TypeOK
  <2>3. RequestRestart(s, f, Heard(w))
    BY <1>2 DEF HandleTimeout
  <2>. HIDE DEF f, s
  <2>4. s \in Site
    BY <1>0 DEF s
  <2>. QED
    BY <1>2, <2>1, <2>2, <2>3, <2>4, RequestRestartType DEF HandleTimeout, TypeOK
<1>3. CASE HandleError(w)
  <2>. DEFINE c == CrashCount(s)
              n == IF failures[s] > c - 1 THEN failures[s] ELSE c - 1
              f == [failures EXCEPT ![s] = Bump(n)]
  <2>1. Heard(w) \in [Worker -> WorkerRec \cup {None}]
    BY <1>3, HeardType DEF HandleError
  <2>2. c \in Nat \ {0}
    <3>1. Bump(crashes[s]) \in Nat \ {0}
      BY <1>0, ConstantsAssumption DEF TypeOK, Bump
    <3>. QED
      BY <3>1 DEF CrashCount
  <2>3. n \in Nat
    BY <1>0, <2>2 DEF TypeOK
  <2>4. f \in [Site -> Nat]
    BY <1>0, <2>3, BumpType DEF TypeOK
  <2>5. /\ RequestRestart(s, f, Heard(w))
        /\ crashes' = [crashes EXCEPT ![s] = c]
        /\ noisy' = [noisy EXCEPT ![s] = TRUE]
    BY <1>3 DEF HandleError
  <2>. HIDE DEF f, n, c, s
  <2>6. s \in Site
    BY <1>0 DEF s
  <2>7. crashes' \in [Site -> Nat] /\ noisy' \in [Site -> BOOLEAN]
    BY <2>2, <2>5, <2>6 DEF TypeOK
  <2>. QED
    BY <1>3, <2>1, <2>4, <2>5, <2>6, <2>7, RequestRestartType DEF HandleError, TypeOK
<1>4. CASE HandleStopped(w)
  <2>1. PICK r \in Reasons :
          /\ Says(w, r)
          /\ CancelPending(s)
          /\ mem' = [mem EXCEPT ![s] =
                       SetState(@, HoldState(r), failures[s],
                                IF doc[s] = None THEN None ELSE Fingerprint(doc[s]))]
          /\ saveDue' = TRUE
          /\ worker' = Heard(w)
          /\ UNCHANGED <<phase, doc, handle, counts, disk, used, upLately>>
    BY <1>4 DEF HandleStopped
  <2>2. Heard(w) \in [Worker -> WorkerRec \cup {None}]
    BY <2>1, HeardType
  <2>3. (IF doc[s] = None THEN None ELSE Fingerprint(doc[s])) \in Prints \cup {None}
    BY <1>0 DEF TypeOK, Fingerprint, Prints, Entry
  <2>4. HoldState(r) \in States
    BY DEF HoldState, States, Held
  <2>5. SetState(mem[s], HoldState(r), failures[s],
                 IF doc[s] = None THEN None ELSE Fingerprint(doc[s])) \in Rec
    BY <1>0, <2>3, <2>4, SetStateType DEF TypeOK
  <2>. QED
    BY <1>0, <2>1, <2>2, <2>5 DEF CancelPending, TypeOK, counts
<1>5. CASE HandleExit(w)
  BY <1>5, ProcessEndsType DEF HandleExit, TypeOK, counts, waits, file
<1>. QED
  BY <1>1, <1>2, <1>3, <1>4, <1>5 DEF HandleReport

LEMMA SiteStepType ==
  ASSUME TypeOK, NEW s \in Site,
         TimerFires(s) \/ DnsChanges(s) \/ Kpipe(s) \/ Quiet(s) \/ WeekPasses(s)
  PROVE  TypeOK'
<1>1. CASE TimerFires(s)
  <2>1. CASE Enabled(s) /\ Restart(s, failures, worker)
    BY <1>1, <2>1, RestartType DEF TimerFires, CancelPending, TypeOK, counts
  <2>2. CASE /\ mem' = [mem EXCEPT ![s] = SetState(@, "disabled", failures[s], None)]
             /\ saveDue' = TRUE
             /\ UNCHANGED <<handle, worker>>
    <3>1. SetState(mem[s], "disabled", failures[s], None) \in Rec
      BY SetStateType DEF TypeOK, States
    <3>. QED
      BY <1>1, <2>2, <3>1 DEF TimerFires, CancelPending, TypeOK, counts
  <2>. QED
    BY <1>1, <2>1, <2>2 DEF TimerFires
<1>2. CASE DnsChanges(s)
  <2>1. CASE /\ failures' = [failures EXCEPT ![s] = 0]
             /\ Restart(s, failures', worker)
    <3>1. failures' \in [Site -> Nat]
      BY <2>1 DEF TypeOK
    <3>2. /\ worker' \in [Worker -> WorkerRec \cup {None}]
          /\ handle' \in [Site -> Worker \cup {None}]
          /\ mem' \in [Site -> Rec \cup {None}]
          /\ saveDue'
      BY <2>1, <3>1, RestartType DEF TypeOK
    <3>. QED
      BY <1>2, <3>1, <3>2 DEF DnsChanges, CancelPending, TypeOK
  <2>2. CASE UNCHANGED <<failures, handle, mem, saveDue, worker>>
    BY <1>2, <2>2 DEF DnsChanges, CancelPending, TypeOK
  <2>. QED
    BY <1>2, <2>1, <2>2 DEF DnsChanges
<1>3. CASE Kpipe(s)
  <2>. DEFINE ws == [w \in Worker |-> IF w = handle[s] /\ w \in Threads
                                      THEN [worker[w] EXCEPT !.told = TRUE] ELSE worker[w]]
  <2>1. ASSUME NEW w \in Worker, w \in Threads
        PROVE  [worker[w] EXCEPT !.told = TRUE] \in WorkerRec
    BY <2>1 DEF Threads, TypeOK, WorkerRec
  <2>2. ws \in [Worker -> WorkerRec \cup {None}]
    BY <2>1 DEF TypeOK
  <2>3. Restart(s, failures, ws)
    BY <1>3 DEF Kpipe
  <2>4. used' \in [command : Nat, stop : Nat, week : Nat]
    BY <1>3 DEF Kpipe, TypeOK
  <2>. HIDE DEF ws
  <2>. QED
    BY <1>3, <2>2, <2>3, <2>4, RestartType DEF Kpipe, CancelPending, TypeOK, counts
<1>4. CASE Quiet(s)
  BY <1>4 DEF Quiet, TypeOK, waits, file
<1>5. CASE WeekPasses(s)
  <2>1. mem' \in [Site -> Rec \cup {None}]
    BY <1>5, AgedType DEF WeekPasses, TypeOK
  <2>2. disk' \in [running : BOOLEAN, sites : [Site -> Rec \cup {None}]]
    <3>1. Aged(disk.sites[s]) \in Rec \cup {None}
      BY AgedType DEF TypeOK
    <3>. QED
      BY <1>5, <3>1 DEF WeekPasses, TypeOK
  <2>3. used' \in [command : Nat, stop : Nat, week : Nat]
    BY <1>5 DEF WeekPasses, TypeOK
  <2>4. upLately' \in SUBSET Site
    BY <1>5 DEF WeekPasses, TypeOK
  <2>. QED
    BY <1>5, <2>1, <2>2, <2>3, <2>4 DEF WeekPasses, TypeOK, counts, waits
<1>. QED
  BY <1>1, <1>2, <1>3, <1>4, <1>5

LEMMA HiredType ==
  ASSUME NEW S, NEW T, NEW hire \in Injection(S, T), NEW w \in Range(hire)
  PROVE  HiredFor(hire, w) \in S
<1>1. hire \in [S -> T]
  BY DEF Injection
<1>2. \E s \in DOMAIN hire : hire[s] = w
  BY DEF Range
<1>. QED
  BY <1>1, <1>2 DEF HiredFor

LEMMA ReloadType ==
  ASSUME TypeOK, NEW new \in Docs, NEW soft \in SUBSET Site, Reload(new, soft)
  PROVE  TypeOK'
<1>. DEFINE changed == Changed(new)
            running == {s \in Site : doc[s] # None /\ new[s] # None /\ handle[s] \in Threads}
            redone  == changed \cup (soft \cap running)
            added   == {s \in Site : doc[s] = None /\ new[s] # None}
            starts  == {s \in redone \cup added : new[s].enabled}
            idle    == (redone \cup added) \ starts
            fails   == [s \in Site |-> IF s \in changed THEN 0 ELSE failures[s]]
            noted   == [s \in Site |->
                          IF s \in starts THEN SetState(mem[s], "starting", fails[s], None)
                          ELSE IF s \in idle THEN SetState(mem[s], "disabled", fails[s], None)
                          ELSE mem[s]]
            dismissed == {handle[s] : s \in redone \cap running}
<1>1. fails \in [Site -> Nat]
  BY DEF TypeOK
<1>2. noted \in [Site -> Rec \cup {None}]
  <2>1. ASSUME NEW s \in Site
        PROVE  /\ SetState(mem[s], "starting", fails[s], None) \in Rec
               /\ SetState(mem[s], "disabled", fails[s], None) \in Rec
    <3>. HIDE DEF fails
    <3>. QED
      BY <1>1, SetStateType DEF TypeOK, States
  <2>. HIDE DEF fails, starts, idle
  <2>. QED
    BY <2>1 DEF TypeOK
<1>3. PICK hire \in Injection(starts, FreeWorkers) :
        /\ handle' = [s \in Site |-> IF s \in starts THEN hire[s]
                                     ELSE IF s \in idle \/ new[s] = None THEN None
                                     ELSE handle[s]]
        /\ worker' = Staff(new, hire, dismissed)
  BY DEF Reload
<1>4. handle' \in [Site -> Worker \cup {None}]
  <2>1. hire \in [starts -> FreeWorkers] /\ FreeWorkers \subseteq Worker
    BY DEF Injection, FreeWorkers
  <2>. HIDE DEF starts, idle
  <2>. QED
    BY <1>3, <2>1 DEF TypeOK
<1>5. worker' \in [Worker -> WorkerRec \cup {None}]
  <2>1. starts \in SUBSET Site /\ \A s \in starts : new[s] # None
    BY DEF Changed
  <2>2. FreeWorkers \in SUBSET Worker /\ mem \in [Site -> Rec \cup {None}]
    BY DEF FreeWorkers, TypeOK
  <2>3. ASSUME NEW w \in Range(hire)
        PROVE  LET s == HiredFor(hire, w) IN NewWorker(s, new[s], mem[s]) \in WorkerRec
    <3>1. HiredFor(hire, w) \in starts
      BY HiredType
    <3>. HIDE DEF starts
    <3>. QED
      BY <2>1, <2>2, <3>1, NewWorkerType DEF Docs
  <2>4. ASSUME NEW w \in dismissed
        PROVE  [worker[w] EXCEPT !.told = TRUE] \in WorkerRec
    <3>1. worker[w] \in WorkerRec
      BY DEF Threads, TypeOK
    <3>. QED
      BY <3>1 DEF WorkerRec
  <2>. HIDE DEF starts, dismissed
  <2>. QED
    BY <1>3, <2>3, <2>4 DEF Staff, TypeOK
<1>6. mem' \in [Site -> Rec \cup {None}]
  <2>1. mem' = Retain(noted, {s \in Site : new[s] # None})
    BY DEF Reload
  <2>. HIDE DEF noted
  <2>. QED
    BY <1>2, <2>1 DEF Retain
<1>7. /\ doc' \in [Site -> Entry \cup {None}]
      /\ failures' \in [Site -> Nat]
      /\ crashes' \in [Site -> Nat]
      /\ pending' \in [Site -> BOOLEAN]
      /\ dnsWatch' \in [Site -> BOOLEAN]
      /\ saveDue' \in BOOLEAN
      /\ used' \in [command : Nat, stop : Nat, week : Nat]
  BY <1>1 DEF Reload, Docs, TypeOK
<1>8. UNCHANGED <<phase, noisy, disk, upLately>>
  BY DEF Reload
<1>. QED
  BY <1>4, <1>5, <1>6, <1>7, <1>8 DEF TypeOK

LEMMA BootType ==
  ASSUME TypeOK, NEW d \in Docs, Boot(d)
  PROVE  TypeOK'
<1>1. PICK waiting \in SUBSET BackoffIn(d) :
        \E watched \in SUBSET {s \in waiting : d[s].cfg \in NamedCfg},
           hire \in Injection(EnabledIn(d) \ (BlockedIn(d) \cup waiting), Worker) :
          FirstRun(d, waiting, watched, hire)
  BY DEF Boot
<1>2. PICK watched \in SUBSET {s \in waiting : d[s].cfg \in NamedCfg},
           hire \in Injection(EnabledIn(d) \ (BlockedIn(d) \cup waiting), Worker) :
        FirstRun(d, waiting, watched, hire)
  BY <1>1
<1>. DEFINE S == EnabledIn(d) \ (BlockedIn(d) \cup waiting)
<1>3. S \in SUBSET Site /\ \A s \in S : d[s] # None
  BY DEF EnabledIn
<1>4. disk.sites \in [Site -> Rec \cup {None}]
  BY DEF TypeOK
<1>5. KeptFailures(d) \in [Site -> Nat]
  BY <1>4 DEF KeptFailures, Rec
<1>6. worker' \in [Worker -> WorkerRec \cup {None}]
  <2>1. ASSUME NEW w \in Range(hire)
        PROVE  LET s == HiredFor(hire, w) IN NewWorker(s, d[s], disk.sites[s]) \in WorkerRec
    <3>1. HiredFor(hire, w) \in S
      BY HiredType
    <3>. HIDE DEF S
    <3>. QED
      BY <1>3, <1>4, <3>1, NewWorkerType DEF Docs
  <2>. QED
    BY <1>2, <2>1 DEF FirstRun
<1>7. handle' \in [Site -> Worker \cup {None}]
  BY <1>2 DEF FirstRun, Injection
<1>8. mem' \in [Site -> Rec \cup {None}]
  <2>1. ASSUME NEW s \in Site, NEW state \in States
        PROVE  SetState(disk.sites[s], state, KeptFailures(d)[s], None) \in Rec
    BY <1>4, <1>5, SetStateType
  <2>2. "starting" \in States /\ "down" \in States /\ "disabled" \in States
    BY DEF States
  <2>. QED
    BY <1>2, <1>4, <2>1, <2>2 DEF FirstRun
<1>9. pending' \in [Site -> BOOLEAN] /\ dnsWatch' \in [Site -> BOOLEAN]
  BY <1>2 DEF FirstRun
<1>. QED
  BY <1>5, <1>6, <1>7, <1>8, <1>9 DEF Boot, TypeOK, Docs

LEMMA ProcessStepType ==
  ASSUME TypeOK, SaveFires \/ Signal \/ StopTimeout \/ Crash
  PROVE  TypeOK'
<1>1. CASE SaveFires
  BY <1>1 DEF SaveFires, TypeOK, counts, waits
<1>2. CASE Signal
  <2>1. /\ disk' \in [running : BOOLEAN, sites : [Site -> Rec \cup {None}]]
        /\ used' \in [command : Nat, stop : Nat, week : Nat]
        /\ UNCHANGED <<doc, upLately>>
    BY <1>2 DEF Signal, TypeOK
  <2>2. CASE ProcessEnds
    BY <2>1, <2>2, ProcessEndsType DEF TypeOK
  <2>3. CASE ~ProcessEnds
    <3>1. ASSUME NEW w \in Threads
          PROVE  [worker[w] EXCEPT !.told = TRUE] \in WorkerRec
      BY DEF Threads, TypeOK, WorkerRec
    <3>2. /\ phase' = IF Cardinality(Threads) = 1 THEN "stoppingOne" ELSE "stopping"
          /\ saveDue' = FALSE
          /\ worker' = [w \in Worker |-> IF w \in Threads
                                         THEN [worker[w] EXCEPT !.told = TRUE] ELSE None]
          /\ UNCHANGED <<handle, counts, waits, mem>>
      BY <1>2, <2>3 DEF Signal
    <3>3. worker' \in [Worker -> WorkerRec \cup {None}]
      BY <3>1, <3>2
    <3>4. phase' \in {"stoppingOne", "stopping"}
      BY <3>2
    <3>. QED
      BY <2>1, <3>2, <3>3, <3>4 DEF TypeOK, counts, waits
  <2>. QED
    BY <1>2, <2>2, <2>3 DEF Signal
<1>3. CASE StopTimeout
  BY <1>3, ProcessEndsType DEF StopTimeout, TypeOK
<1>4. CASE Crash
  BY <1>4, ProcessEndsType DEF Crash, TypeOK
<1>. QED
  BY <1>1, <1>2, <1>3, <1>4

\* Every variable of the supervisor keeps its shape, for any sites, workers,
\* configurations and bounds.
THEOREM TypeCorrect == Spec => []TypeOK
<1>1. TypeOK /\ [Next]_vars => TypeOK'
  <2>. SUFFICES ASSUME TypeOK, [Next]_vars PROVE TypeOK'
    OBVIOUS
  <2>1. CASE UNCHANGED vars
    BY <2>1 DEF vars, counts, waits, file, TypeOK
  <2>2. CASE Next
    BY <2>2, WorkerStepType, HandleReportType, SiteStepType, ReloadType, BootType,
       ProcessStepType DEF Next
  <2>. QED
    BY <2>1, <2>2
<1>. QED
  BY InitType, <1>1, PTL DEF Spec

-----------------------------------------------------------------------------
(* The DNS lookup runs only beside the back-off timer.                     *)

\* RequestRestart either leaves timer and lookup alone or sets the timer.
LEMMA RequestRestartWatch ==
  ASSUME TypeOK, WatchOnlyWhileWaiting, NEW s \in Site, NEW fails, NEW ws,
         RequestRestart(s, fails, ws)
  PROVE  WatchOnlyWhileWaiting'
BY DEF RequestRestart, ScheduleRestart, WatchOnlyWhileWaiting, TypeOK, waits

LEMMA CancelPendingWatch ==
  ASSUME TypeOK, WatchOnlyWhileWaiting, NEW s \in Site, CancelPending(s)
  PROVE  WatchOnlyWhileWaiting'
BY DEF CancelPending, WatchOnlyWhileWaiting, TypeOK

LEMMA WatchStep ==
  ASSUME TypeOK, WatchOnlyWhileWaiting, Next
  PROVE  WatchOnlyWhileWaiting'
<1>. USE DEF waits
<1>1. ASSUME NEW w \in Worker, WorkerStep(w)
      PROVE  WatchOnlyWhileWaiting'
  BY <1>1 DEF WorkerStep, LinkUp, LinkDown, End, Obey, WorkerDoes, WatchOnlyWhileWaiting
<1>2. ASSUME NEW w \in Worker, HandleReport(w)
      PROVE  WatchOnlyWhileWaiting'
  <2>1. worker[w].site \in Site
    BY <1>2 DEF HandleReport, HandleConnected, HandleTimeout, HandleError, HandleStopped,
                HandleExit, Says, Threads, TypeOK, WorkerRec
  <2>2. CASE HandleConnected(w)
    BY <2>2 DEF HandleConnected, WatchOnlyWhileWaiting
  <2>3. CASE HandleTimeout(w)
    BY <2>1, <2>3, RequestRestartWatch DEF HandleTimeout
  <2>4. CASE HandleError(w)
    BY <2>1, <2>4, RequestRestartWatch DEF HandleError
  <2>5. CASE HandleStopped(w)
    BY <2>1, <2>5, CancelPendingWatch DEF HandleStopped
  <2>6. CASE HandleExit(w)
    BY <2>6 DEF HandleExit, ProcessEnds, WatchOnlyWhileWaiting
  <2>. QED
    BY <1>2, <2>2, <2>3, <2>4, <2>5, <2>6 DEF HandleReport
<1>3. ASSUME NEW s \in Site, TimerFires(s) \/ DnsChanges(s) \/ Kpipe(s)
      PROVE  WatchOnlyWhileWaiting'
  BY <1>3, CancelPendingWatch DEF TimerFires, DnsChanges, Kpipe
<1>4. ASSUME NEW s \in Site, Quiet(s) \/ WeekPasses(s)
      PROVE  WatchOnlyWhileWaiting'
  BY <1>4 DEF Quiet, WeekPasses, WatchOnlyWhileWaiting
<1>5. ASSUME NEW new \in Docs, NEW soft \in SUBSET Site, Reload(new, soft)
      PROVE  WatchOnlyWhileWaiting'
  <2>. DEFINE changed == Changed(new)
  <2>1. /\ pending' = [s \in Site |-> s \notin changed /\ pending[s]]
        /\ dnsWatch' = [s \in Site |-> s \notin changed /\ dnsWatch[s]]
    BY <1>5 DEF Reload
  <2>. QED
    BY <2>1 DEF WatchOnlyWhileWaiting
<1>6. ASSUME NEW new \in Docs, Boot(new)
      PROVE  WatchOnlyWhileWaiting'
  <2>1. PICK waiting \in SUBSET BackoffIn(new) :
          \E watched \in SUBSET {s \in waiting : new[s].cfg \in NamedCfg},
             hire \in Injection(EnabledIn(new) \ (BlockedIn(new) \cup waiting), Worker) :
            FirstRun(new, waiting, watched, hire)
    BY <1>6 DEF Boot
  <2>2. \E watched \in SUBSET waiting :
          /\ pending' = [s \in Site |-> s \in waiting]
          /\ dnsWatch' = [s \in Site |-> s \in watched]
    BY <2>1 DEF FirstRun
  <2>. QED
    BY <2>2 DEF WatchOnlyWhileWaiting
<1>7. CASE SaveFires \/ Signal \/ StopTimeout \/ Crash
  BY <1>7 DEF SaveFires, Signal, StopTimeout, Crash, ProcessEnds, WatchOnlyWhileWaiting
<1>. QED
  BY <1>1, <1>2, <1>3, <1>4, <1>5, <1>6, <1>7 DEF Next

\* A site's name is looked up only while its back-off timer is set.
THEOREM WatchCorrect == Spec => []WatchOnlyWhileWaiting
<1>1. Init => WatchOnlyWhileWaiting
  BY DEF Init, WatchOnlyWhileWaiting
<1>2. TypeOK /\ WatchOnlyWhileWaiting /\ [Next]_vars => WatchOnlyWhileWaiting'
  BY WatchStep DEF vars, waits, WatchOnlyWhileWaiting
<1>. QED
  BY TypeCorrect, <1>1, <1>2, PTL DEF Spec

-----------------------------------------------------------------------------
(* The file has what memory has, or a save is due.                         *)

LEMMA FileStep ==
  ASSUME TypeOK, FileKeepsUp, Next
  PROVE  FileKeepsUp'
<1>. USE DEF file, counts, waits
<1>1. ASSUME NEW w \in Worker, WorkerStep(w)
      PROVE  FileKeepsUp'
  BY <1>1 DEF WorkerStep, LinkUp, LinkDown, End, Obey, WorkerDoes, FileKeepsUp
<1>2. ASSUME NEW w \in Worker, HandleReport(w)
      PROVE  FileKeepsUp'
  <2>1. CASE HandleConnected(w) \/ HandleStopped(w)
    BY <2>1 DEF HandleConnected, HandleStopped, FileKeepsUp
  <2>2. CASE HandleTimeout(w) \/ HandleError(w)
    <3>1. saveDue'
      BY <2>2 DEF HandleTimeout, HandleError, RequestRestart, Restart, ScheduleRestart
    <3>. QED
      BY <3>1 DEF FileKeepsUp
  <2>3. CASE HandleExit(w)
    BY <2>3 DEF HandleExit, ProcessEnds, FileKeepsUp
  <2>. QED
    BY <1>2, <2>1, <2>2, <2>3 DEF HandleReport
<1>3. ASSUME NEW s \in Site, TimerFires(s) \/ Kpipe(s) \/ DnsChanges(s) \/ Quiet(s)
      PROVE  FileKeepsUp'
  BY <1>3 DEF TimerFires, Kpipe, DnsChanges, Quiet, Restart, FileKeepsUp
<1>4. ASSUME NEW s \in Site, WeekPasses(s)
      PROVE  FileKeepsUp'
  <2>1. /\ mem' = [mem EXCEPT ![s] = Aged(@)]
        /\ disk'.sites = [disk.sites EXCEPT ![s] = Aged(@)]
        /\ UNCHANGED <<phase, saveDue>>
    BY <1>4 DEF WeekPasses, TypeOK
  <2>. QED
    BY <2>1 DEF FileKeepsUp
<1>5. ASSUME NEW new \in Docs, NEW soft \in SUBSET Site, Boot(new) \/ Reload(new, soft)
      PROVE  FileKeepsUp'
  <2>1. saveDue' = TRUE
    BY <1>5 DEF Boot, Reload
  <2>. QED
    BY <2>1 DEF FileKeepsUp
<1>6. CASE SaveFires \/ Signal \/ StopTimeout \/ Crash
  BY <1>6 DEF SaveFires, Signal, StopTimeout, Crash, ProcessEnds, FileKeepsUp
<1>. QED
  BY <1>1, <1>2, <1>3, <1>4, <1>5, <1>6 DEF Next

\* Whatever happens to the sites, once no save is due the state file agrees
\* with what ha-mon knows of them.
THEOREM FileCorrect == Spec => []FileKeepsUp
<1>1. Init => FileKeepsUp
  BY DEF Init, FileKeepsUp
<1>2. TypeOK /\ FileKeepsUp /\ [Next]_vars => FileKeepsUp'
  BY FileStep DEF vars, file, FileKeepsUp
<1>. QED
  BY TypeCorrect, <1>1, <1>2, PTL DEF Spec

-----------------------------------------------------------------------------
(* Errors back off.  What a step starts is a worker that was not there, so   *)
(* only the handler of an error both takes an error and starts a worker.     *)

\* while ha-mon is down there is no worker and no timer
Idle ==
  phase = "down" => /\ \A w \in Worker : worker[w] = None
                    /\ \A s \in Site : ~pending[s]

\* A restart leaves the workers that are there as they were.
LEMMA RestartKeeps ==
  ASSUME TypeOK, NEW s \in Site, NEW fails, NEW ws, Restart(s, fails, ws),
         ws \in [Worker -> WorkerRec \cup {None}],
         NEW w \in Worker, worker[w] # None
  PROVE  worker'[w] = ws[w]
BY DEF Restart, FreeWorkers

LEMMA RequestRestartKeeps ==
  ASSUME TypeOK, NEW s \in Site, NEW fails, NEW ws, RequestRestart(s, fails, ws),
         ws \in [Worker -> WorkerRec \cup {None}],
         NEW w \in Worker, worker[w] # None
  PROVE  worker'[w] = ws[w]
BY RestartKeeps DEF RequestRestart

\* Being told to exit changes nothing else about a worker.
LEMMA ToldType ==
  ASSUME NEW u \in WorkerRec
  PROVE  LET v == [u EXCEPT !.told = TRUE]
         IN  /\ v \in WorkerRec /\ v # None
             /\ v.outbox = u.outbox /\ v.site = u.site /\ v.entry = u.entry
BY NoWorkerAssumption DEF WorkerRec

LEMMA HireIsFree ==
  ASSUME NEW S, NEW hire \in Injection(S, FreeWorkers)
  PROVE  Range(hire) \subseteq FreeWorkers
BY DEF Injection, IsInjective, Range

\* A worker with something to say is a thread of a site.
LEMMA SpeakerType ==
  ASSUME TypeOK, NEW w \in Worker, NEW r, Says(w, r)
  PROVE  worker[w] \in WorkerRec /\ worker[w].site \in Site
BY DEF TypeOK, Says, Threads, WorkerRec

LEMMA IdleStep ==
  ASSUME TypeOK, Idle, Next
  PROVE  Idle'
<1>. USE DEF file, counts, waits
<1>1. ASSUME NEW w \in Worker, WorkerStep(w)
      PROVE  Idle'
  BY <1>1 DEF WorkerStep, LinkUp, LinkDown, End, Obey, WorkerDoes, Working, Threads, Idle
<1>2. ASSUME NEW w \in Worker, HandleReport(w)
      PROVE  Idle'
  <2>1. CASE HandleExit(w)
    BY <2>1 DEF HandleExit, ProcessEnds, Says, Threads, Idle
  <2>2. CASE HandleConnected(w) \/ HandleTimeout(w) \/ HandleError(w) \/ HandleStopped(w)
    <3>1. worker[w] # None /\ phase' = phase
      BY <2>2 DEF HandleConnected, HandleTimeout, HandleError, HandleStopped, Says, Threads
    <3>. QED
      BY <3>1 DEF Idle
  <2>. QED
    BY <1>2, <2>1, <2>2 DEF HandleReport
<1>3. ASSUME NEW s \in Site, TimerFires(s) \/ DnsChanges(s)
      PROVE  Idle'
  BY <1>3 DEF TimerFires, DnsChanges, CancelPending, Idle, TypeOK
<1>4. ASSUME NEW s \in Site, Kpipe(s) \/ Quiet(s) \/ WeekPasses(s)
      PROVE  Idle'
  BY <1>4 DEF Kpipe, Quiet, WeekPasses, Idle
<1>5. ASSUME NEW new \in Docs, NEW soft \in SUBSET Site, Boot(new) \/ Reload(new, soft)
      PROVE  Idle'
  <2>1. phase' # "down"
    BY <1>5 DEF Boot, Reload
  <2>. QED
    BY <2>1 DEF Idle
<1>6. CASE SaveFires \/ Signal \/ StopTimeout \/ Crash
  BY <1>6 DEF SaveFires, Signal, StopTimeout, Crash, ProcessEnds, Stopping, Idle
<1>. QED
  BY <1>1, <1>2, <1>3, <1>4, <1>5, <1>6 DEF Next

LEMMA Lengths ==
  ASSUME NEW S, NEW o \in Seq(S), NEW p
  PROVE  /\ Len(o) \in Nat
         /\ o # <<>> => Len(Tail(o)) < Len(o)
         /\ p = o => Len(p) = Len(o)
         /\ \A e \in S : p = Append(o, e) => Len(p) > Len(o)
         /\ \A e, f \in S : p = o \o <<e, f>> => Len(p) > Len(o)
OBVIOUS

\* Only the handler of a worker's reports takes one.
LEMMA TakenByHandler ==
  ASSUME TypeOK, Idle, Next, NEW w \in Worker, NEW r, Takes(w, r)
  PROVE  HandleReport(w)
<1>. USE DEF file, counts, waits
<1>1. /\ worker[w] # None /\ worker'[w] # None
      /\ Len(worker'[w].outbox) < Len(worker[w].outbox)
      /\ worker'[w].outbox # worker[w].outbox
      /\ worker'[w] # worker[w]
  <2>1. worker[w].outbox \in Seq(Reports) /\ worker[w].outbox # <<>>
    BY SpeakerType DEF Takes, Says, WorkerRec
  <2>2. worker'[w].outbox = Tail(worker[w].outbox)
    BY DEF Takes
  <2>3. Len(Tail(worker[w].outbox)) < Len(worker[w].outbox) /\ Len(worker[w].outbox) \in Nat
    BY <2>1, Lengths
  <2>4. \A p : p = Tail(worker[w].outbox) => Len(p) < Len(worker[w].outbox)
    BY <2>3
  <2>5. \A p : p = worker[w].outbox => ~(Len(p) < Len(worker[w].outbox))
    BY <2>3
  <2>. QED
    BY <2>2, <2>4, <2>5 DEF Takes, Says, Threads
<1>2. ASSUME NEW x \in Worker, WorkerStep(x)
      PROVE  FALSE
  <2>. DEFINE o == worker[w].outbox
  <2>1. PICK u : worker' = [worker EXCEPT ![x] = u]
    BY <1>2 DEF WorkerStep, LinkUp, LinkDown, End, Obey, WorkerDoes
  <2>2. w = x /\ worker'[w] = u
    BY <1>1, <2>1 DEF TypeOK
  <2>3. worker[w] \in WorkerRec /\ o \in Seq(Reports)
    BY <1>1 DEF TypeOK, WorkerRec
  <2>4. \/ u = Up(worker[w])
        \/ u = Down(worker[w])
        \/ \E e \in Faults : u = Ended(worker[w], e)
        \/ u = Obeyed(worker[w])
    BY <1>2, <2>1, <2>2 DEF WorkerStep, LinkUp, LinkDown, End, Obey, WorkerDoes, TypeOK
  <2>5. \/ u.outbox = o
        \/ u.outbox = Append(o, "connected")
        \/ \E e \in Faults : u.outbox = o \o <<e, "exit">>
        \/ u.outbox = Append(o, "exit")
    BY <2>3, <2>4 DEF Up, Down, Ended, Obeyed, WorkerRec
  <2>6. \A e \in Faults : e \in Reports
    BY ConstantsAssumption DEF Reports, Endings, Reasons
  <2>. HIDE DEF o
  <2>7. "connected" \in Reports /\ "exit" \in Reports
    BY DEF Reports
  <2>8. Len(o) \in Nat /\ \/ Len(u.outbox) = Len(o)
                          \/ Len(u.outbox) > Len(o)
    BY <2>3, <2>5, <2>6, <2>7, Lengths
  <2>. QED
    BY <1>1, <2>2, <2>8 DEF o
<1>3. ASSUME NEW x \in Worker, HandleReport(x), x # w
      PROVE  FALSE
  <2>1. CASE HandleConnected(x) \/ HandleStopped(x) \/ HandleExit(x)
    BY <1>1, <1>3, <2>1
       DEF HandleConnected, HandleStopped, HandleExit, ProcessEnds, Heard, TypeOK
  <2>2. CASE HandleTimeout(x) \/ HandleError(x)
    <3>1. /\ worker[x].site \in Site
          /\ Heard(x) \in [Worker -> WorkerRec \cup {None}]
      BY <2>2, SpeakerType, HeardType DEF HandleTimeout, HandleError
    <3>2. \E fails : RequestRestart(worker[x].site, fails, Heard(x))
      BY <2>2 DEF HandleTimeout, HandleError
    <3>3. worker'[w] = Heard(x)[w]
      BY <1>1, <3>1, <3>2, RequestRestartKeeps
    <3>. QED
      BY <1>1, <1>3, <3>3 DEF Heard, TypeOK
  <2>. QED
    BY <1>3, <2>1, <2>2 DEF HandleReport
<1>4. ASSUME NEW t \in Site, TimerFires(t) \/ DnsChanges(t)
      PROVE  FALSE
  <2>1. worker' = worker \/ \E fails : Restart(t, fails, worker)
    BY <1>4 DEF TimerFires, DnsChanges
  <2>2. worker \in [Worker -> WorkerRec \cup {None}]
    BY DEF TypeOK
  <2>3. ASSUME NEW fails, Restart(t, fails, worker)
        PROVE  worker'[w] = worker[w]
    BY <1>1, <2>2, <2>3, RestartKeeps
  <2>. QED
    BY <1>1, <2>1, <2>3
<1>5. ASSUME NEW t \in Site, Kpipe(t)
      PROVE  FALSE
  <2>. DEFINE ws == [u \in Worker |-> IF u = handle[t] /\ u \in Threads
                                      THEN [worker[u] EXCEPT !.told = TRUE] ELSE worker[u]]
  <2>1. Restart(t, failures, ws)
    BY <1>5 DEF Kpipe
  <2>2. ws \in [Worker -> WorkerRec \cup {None}]
    BY ToldType DEF Threads, TypeOK
  <2>. HIDE DEF ws
  <2>3. worker'[w] = ws[w]
    BY <1>1, <2>1, <2>2, RestartKeeps
  <2>. QED
    BY <1>1, <2>3, ToldType DEF ws, TypeOK
<1>6. ASSUME NEW new \in Docs, NEW soft \in SUBSET Site, Reload(new, soft)
      PROVE  FALSE
  <2>1. PICK hire, dismissed :
          Range(hire) \subseteq FreeWorkers /\ worker' = Staff(new, hire, dismissed)
    BY <1>6, HireIsFree DEF Reload
  <2>2. w \notin Range(hire)
    BY <1>1, <2>1 DEF FreeWorkers
  <2>. QED
    BY <1>1, <2>1, <2>2, ToldType DEF Staff, TypeOK
<1>7. ASSUME NEW t \in Site, Quiet(t) \/ WeekPasses(t)
      PROVE  FALSE
  BY <1>1, <1>7 DEF Quiet, WeekPasses
<1>8. ASSUME NEW new \in Docs, Boot(new)
      PROVE  FALSE
  BY <1>1, <1>8 DEF Boot, Idle
<1>9. ASSUME SaveFires \/ Signal \/ StopTimeout \/ Crash
      PROVE  FALSE
  <2>1. \/ worker' = worker
        \/ worker' = [x \in Worker |-> None]
        \/ worker' = [x \in Worker |-> IF x \in Threads
                                        THEN [worker[x] EXCEPT !.told = TRUE] ELSE None]
    BY <1>9 DEF SaveFires, Signal, StopTimeout, Crash, ProcessEnds
  <2>. QED
    BY <1>1, <2>1, ToldType DEF TypeOK, Threads
<1>. QED
  BY <1>2, <1>3, <1>4, <1>5, <1>6, <1>7, <1>8, <1>9 DEF Next

\* A site's error is followed by an immediate restart only within the count.
LEMMA ErrorStep ==
  ASSUME TypeOK, Idle, Next,
         NEW w \in Worker, NEW v \in Worker, Takes(w, "error"), Starts(v)
  PROVE  crashes'[worker[w].site] <= RestartFree
<1>. DEFINE s == worker[w].site
            c == CrashCount(s)
            f == IF failures[s] > c - 1 THEN failures[s] ELSE c - 1
<1>1. HandleError(w)
  BY TakenByHandler
     DEF HandleReport, HandleConnected, HandleTimeout, HandleStopped, HandleExit, Takes, Says,
         Reasons
<1>2. s \in Site
  BY <1>1, SpeakerType DEF HandleError
<1>3. c \in Nat /\ failures[s] \in Nat /\ crashes'[s] = c
  <2>1. c \in Nat
    BY <1>2, BumpType DEF CrashCount, TypeOK
  <2>2. crashes' = [crashes EXCEPT ![s] = c]
    BY <1>1 DEF HandleError
  <2>. QED
    BY <1>2, <2>1, <2>2 DEF TypeOK
<1>4. RequestRestart(s, [failures EXCEPT ![s] = Bump(f)], Heard(w))
  BY <1>1 DEF HandleError
<1>5. worker' # Heard(w)
  <2>1. Heard(w)[v] = worker[v] /\ worker'[v] # worker[v]
    BY DEF Heard, TypeOK, Takes, Says, Threads, Starts
  <2>. QED
    BY <2>1
<1>6. [failures EXCEPT ![s] = Bump(f)][s] = Bump(f)
  BY <1>2 DEF TypeOK
<1>7. Bump(f) <= RestartFree
  BY <1>4, <1>5, <1>6 DEF RequestRestart
<1>. HIDE DEF c
<1>8. f \in Int /\ f >= c - 1
  BY <1>3
<1>. HIDE DEF f
<1>9. c <= RestartFree
  BY <1>3, <1>7, <1>8, ConstantsAssumption DEF Bump
<1>. QED
  BY <1>3, <1>9

\* However often a site connects in between, it is not restarted at once more
\* than RestartFree times for errors in a noisy spell.
THEOREM ErrorsCorrect == Spec => ErrorsBackOff
<1>1. Init => Idle
  BY DEF Init, Idle
<1>2. TypeOK /\ Idle /\ [Next]_vars => Idle'
  BY IdleStep DEF vars, waits, Idle
<1>3. TypeOK /\ Idle /\ [Next]_vars =>
        [\A w, v \in Worker :
           Takes(w, "error") /\ Starts(v) => crashes'[worker[w].site] <= RestartFree]_vars
  BY ErrorStep DEF vars
<1>. QED
  BY TypeCorrect, <1>1, <1>2, <1>3, PTL DEF Spec, ErrorsBackOff

-----------------------------------------------------------------------------
(* A hold names the entry that failed.  That rests on the handles: the       *)
(* worker an entry still names was started for that very entry.              *)

InForce ==
  \A w \in Threads : handle[worker[w].site] = w => worker[w].entry = doc[worker[w].site]

\* ws has no worker that is not there, and each at its site and entry
SameStaff(ws) ==
  \A w \in Worker :
    ws[w] # None => /\ worker[w] # None
                    /\ ws[w].site = worker[w].site /\ ws[w].entry = worker[w].entry

LEMMA HeardStaff ==
  ASSUME TypeOK, NEW w \in Worker, NEW r, Says(w, r)
  PROVE  SameStaff(Heard(w))
<1>1. worker[w] \in WorkerRec /\ Heard(w)[w] \in WorkerRec
  BY SpeakerType, HeardType
<1>2. Heard(w)[w].site = worker[w].site /\ Heard(w)[w].entry = worker[w].entry
  BY <1>1 DEF Heard, TypeOK, WorkerRec
<1>3. \A x \in Worker : x # w => Heard(w)[x] = worker[x]
  BY DEF Heard, TypeOK
<1>. QED
  BY <1>1, <1>2, <1>3, NoWorkerAssumption DEF SameStaff

\* The same staff under the same handles is as much in force.
LEMMA SameStaffInForce ==
  ASSUME TypeOK, InForce, SameStaff(worker'), UNCHANGED <<handle, doc>>
  PROVE  InForce'
BY DEF SameStaff, InForce, Threads

LEMMA RestartInForce ==
  ASSUME TypeOK, InForce, NEW s \in Site, NEW fails, NEW ws, Restart(s, fails, ws),
         ws \in [Worker -> WorkerRec \cup {None}], SameStaff(ws), UNCHANGED doc
  PROVE  InForce'
<1>1. PICK t \in Site, h \in FreeWorkers :
        /\ worker' = [ws EXCEPT ![h] = NewWorker(t, doc[t], mem[t])]
        /\ handle' = [handle EXCEPT ![t] = h]
  BY DEF Restart, RestartTargets
<1>2. /\ worker'[h].site = t /\ worker'[h].entry = doc[t]
      /\ \A w \in Worker : w # h => worker'[w] = ws[w]
  BY <1>1 DEF FreeWorkers, NewWorker
<1>3. ASSUME NEW w \in Worker, worker'[w] # None, handle'[worker'[w].site] = w
      PROVE  worker'[w].entry = doc[worker'[w].site]
  <2>1. CASE w = h
    BY <1>2, <2>1
  <2>2. CASE w # h
    <3>1. /\ worker[w] # None
          /\ worker'[w].site = worker[w].site /\ worker'[w].entry = worker[w].entry
      BY <1>2, <1>3, <2>2 DEF SameStaff
    <3>2. handle[worker[w].site] = w
      BY <1>1, <1>3, <2>2, <3>1 DEF TypeOK, WorkerRec
    <3>. QED
      BY <3>1, <3>2 DEF InForce, Threads
  <2>. QED
    BY <2>1, <2>2
<1>. QED
  BY <1>3 DEF InForce, Threads

LEMMA RequestRestartInForce ==
  ASSUME TypeOK, InForce, NEW s \in Site, NEW fails, NEW ws, RequestRestart(s, fails, ws),
         ws \in [Worker -> WorkerRec \cup {None}], SameStaff(ws), UNCHANGED doc
  PROVE  InForce'
BY RestartInForce, SameStaffInForce DEF RequestRestart

\* What a worker does of itself leaves every worker at its site and entry.
LEMMA WorkerStepStaff ==
  ASSUME TypeOK, NEW w \in Worker, WorkerStep(w)
  PROVE  SameStaff(worker') /\ UNCHANGED <<phase, doc, handle, pending>>
<1>1. worker[w] \in WorkerRec
  BY DEF WorkerStep, LinkUp, LinkDown, End, Obey, Working, Threads, TypeOK
<1>2. PICK u : /\ WorkerDoes(w, u)
               /\ \/ u = Up(worker[w])
                  \/ u = Down(worker[w])
                  \/ \E e \in Faults : u = Ended(worker[w], e)
                  \/ u = Obeyed(worker[w])
  BY DEF WorkerStep, LinkUp, LinkDown, End, Obey
<1>3. u.site = worker[w].site /\ u.entry = worker[w].entry
  BY <1>1, <1>2 DEF Up, Down, Ended, Obeyed, WorkerRec
<1>4. \A x \in Worker : worker'[x] = IF x = w THEN u ELSE worker[x]
  BY <1>2 DEF WorkerDoes, TypeOK
<1>5. UNCHANGED <<phase, doc, handle, pending>>
  BY <1>2 DEF WorkerDoes, waits
<1>. QED
  BY <1>1, <1>3, <1>4, <1>5, NoWorkerAssumption DEF SameStaff

LEMMA HandleReportInForce ==
  ASSUME TypeOK, InForce, NEW w \in Worker, HandleReport(w)
  PROVE  InForce'
<1>1. CASE HandleExit(w)
  BY <1>1 DEF HandleExit, ProcessEnds, InForce, Threads, TypeOK
<1>2. ASSUME HandleConnected(w) \/ HandleTimeout(w) \/ HandleError(w) \/ HandleStopped(w)
      PROVE  InForce'
  <2>1. /\ worker[w].site \in Site /\ UNCHANGED doc
        /\ Heard(w) \in [Worker -> WorkerRec \cup {None}]
        /\ SameStaff(Heard(w))
    BY <1>2, SpeakerType, HeardType, HeardStaff
       DEF HandleConnected, HandleTimeout, HandleError, HandleStopped
  <2>2. CASE HandleConnected(w) \/ HandleStopped(w)
    BY <2>1, <2>2, SameStaffInForce DEF HandleConnected, HandleStopped
  <2>3. CASE HandleTimeout(w) \/ HandleError(w)
    BY <2>1, <2>3, RequestRestartInForce DEF HandleTimeout, HandleError
  <2>. QED
    BY <1>2, <2>2, <2>3
<1>. QED
  BY <1>1, <1>2 DEF HandleReport

LEMMA ReloadInForce ==
  ASSUME TypeOK, InForce, NEW new \in Docs, NEW soft \in SUBSET Site, Reload(new, soft)
  PROVE  InForce'
<1>. DEFINE running == {s \in Site : doc[s] # None /\ new[s] # None /\ handle[s] \in Threads}
            redone  == Changed(new) \cup (soft \cap running)
            added   == {s \in Site : doc[s] = None /\ new[s] # None}
            starts  == {s \in redone \cup added : new[s].enabled}
            idle    == (redone \cup added) \ starts
            dismissed == {handle[s] : s \in redone \cap running}
<1>1. doc' = new
  BY DEF Reload
<1>2. /\ \A s \in Site : new[s] # None /\ new[s] # doc[s] => s \in starts \cup idle
      /\ dismissed \subseteq Threads
  BY DEF Changed
<1>3. PICK hire \in Injection(starts, FreeWorkers) :
        /\ handle' = [s \in Site |-> IF s \in starts THEN hire[s]
                                     ELSE IF s \in idle \/ new[s] = None THEN None
                                     ELSE handle[s]]
        /\ worker' = Staff(new, hire, dismissed)
  BY DEF Reload
<1>. HIDE DEF starts, idle, dismissed
<1>4. ASSUME NEW w \in Worker, worker'[w] # None, handle'[worker'[w].site] = w
      PROVE  worker'[w].entry = new[worker'[w].site]
  <2>1. CASE w \in Range(hire)
    BY <1>3, <2>1 DEF Staff, NewWorker
  <2>2. CASE w \notin Range(hire)
    <3>1. worker[w] # None /\ worker[w] \in WorkerRec
      BY <1>2, <1>3, <1>4, <2>2 DEF Staff, TypeOK, Threads
    <3>2. worker'[w].site = worker[w].site /\ worker'[w].entry = worker[w].entry
      BY <1>3, <2>2, <3>1, ToldType DEF Staff
    <3>3. worker[w].site \notin starts \cup idle
      BY <1>3, <1>4, <2>2, <3>1, <3>2, ConstantsAssumption DEF Injection, Range, WorkerRec
    <3>4. handle[worker[w].site] = w /\ new[worker[w].site] = doc[worker[w].site]
      BY <1>2, <1>3, <1>4, <3>1, <3>2, <3>3, ConstantsAssumption DEF WorkerRec
    <3>. QED
      BY <3>1, <3>2, <3>4 DEF InForce, Threads
  <2>. QED
    BY <2>1, <2>2
<1>. QED
  BY <1>1, <1>4 DEF InForce, Threads

LEMMA SiteStepInForce ==
  ASSUME TypeOK, InForce, NEW s \in Site, TimerFires(s) \/ DnsChanges(s) \/ Kpipe(s)
  PROVE  InForce'
<1>1. SameStaff(worker) /\ worker \in [Worker -> WorkerRec \cup {None}]
  BY DEF SameStaff, TypeOK
<1>2. CASE TimerFires(s) \/ DnsChanges(s)
  <2>1. \/ UNCHANGED <<handle, doc, worker>>
        \/ UNCHANGED doc /\ \E fails : Restart(s, fails, worker)
    BY <1>2 DEF TimerFires, DnsChanges
  <2>. QED
    BY <1>1, <2>1, RestartInForce, SameStaffInForce
<1>3. CASE Kpipe(s)
  <2>. DEFINE ws == [w \in Worker |-> IF w = handle[s] /\ w \in Threads
                                      THEN [worker[w] EXCEPT !.told = TRUE] ELSE worker[w]]
  <2>1. Restart(s, failures, ws) /\ UNCHANGED doc
    BY <1>3 DEF Kpipe
  <2>2. ws \in [Worker -> WorkerRec \cup {None}] /\ SameStaff(ws)
    BY ToldType DEF SameStaff, Threads, TypeOK
  <2>. HIDE DEF ws
  <2>. QED
    BY <2>1, <2>2, RestartInForce
<1>. QED
  BY <1>2, <1>3

LEMMA InForceStep ==
  ASSUME TypeOK, InForce, Next
  PROVE  InForce'
<1>1. ASSUME NEW s \in Site, Quiet(s) \/ WeekPasses(s)
      PROVE  InForce'
  BY <1>1 DEF Quiet, WeekPasses, InForce, Threads
<1>2. ASSUME NEW new \in Docs, Boot(new)
      PROVE  InForce'
  <2>1. PICK hire :
          worker' = [w \in Worker |->
                       IF w \notin Range(hire) THEN None
                       ELSE LET s == HiredFor(hire, w) IN NewWorker(s, new[s], disk.sites[s])]
    BY <1>2 DEF Boot, FirstRun
  <2>2. doc' = new
    BY <1>2 DEF Boot
  <2>. QED
    BY <2>1, <2>2 DEF NewWorker, InForce, Threads
<1>3. CASE SaveFires \/ Signal \/ StopTimeout \/ Crash
  <2>1. \/ worker' = [w \in Worker |-> None]
        \/ UNCHANGED <<handle, doc, worker>>
        \/ /\ UNCHANGED <<handle, doc>>
           /\ worker' = [w \in Worker |-> IF w \in Threads
                                          THEN [worker[w] EXCEPT !.told = TRUE] ELSE None]
    BY <1>3 DEF SaveFires, Signal, StopTimeout, Crash, ProcessEnds
  <2>2. ASSUME UNCHANGED <<handle, doc>>,
               worker' = [w \in Worker |-> IF w \in Threads
                                           THEN [worker[w] EXCEPT !.told = TRUE] ELSE None]
        PROVE  SameStaff(worker')
    BY <2>2, ToldType DEF SameStaff, Threads, TypeOK
  <2>. QED
    BY <2>1, <2>2, SameStaffInForce DEF InForce, Threads
<1>. QED
  BY <1>1, <1>2, <1>3, WorkerStepStaff, SameStaffInForce, HandleReportInForce, SiteStepInForce, ReloadInForce
     DEF Next

\* A hold is noted under the entry in force: that of the worker, if it has the handle.
LEMMA HoldStep ==
  ASSUME TypeOK, Idle, InForce, Next, NEW w \in Worker, NEW r \in Reasons,
         Takes(w, r), handle[worker[w].site] = w
  PROVE  mem'[worker[w].site].fp = Fingerprint(worker[w].entry)
<1>. DEFINE s == worker[w].site
<1>1. HandleStopped(w)
  BY TakenByHandler
     DEF HandleReport, HandleConnected, HandleTimeout, HandleError, HandleExit, Takes, Says,
         Reasons
<1>2. s \in Site /\ worker[w].entry \in Entry /\ worker[w].entry = doc[s]
  BY SpeakerType DEF Takes, Says, Threads, InForce, WorkerRec
<1>3. PICK q \in Reasons :
        mem' = [mem EXCEPT ![s] = SetState(@, HoldState(q), failures[s],
                                           IF doc[s] = None THEN None ELSE Fingerprint(doc[s]))]
  BY <1>1 DEF HandleStopped
<1>4. doc[s] # None
  BY <1>2, NoneAssumption
<1>5. mem'[s].fp = Fingerprint(doc[s])
  BY <1>2, <1>3, <1>4 DEF SetState, HoldState, Held, TypeOK
<1>. QED
  BY <1>2, <1>5

\* Whatever was reloaded, restarted or heard late before, a hold that a site's
\* present worker asks for is noted under the entry it ran with.
THEOREM HoldsCorrect == Spec => HoldNamesFailed
<1>1. Init => Idle /\ InForce
  BY DEF Init, Idle, InForce, Threads
<1>2. TypeOK /\ Idle /\ InForce /\ [Next]_vars => (Idle /\ InForce)'
  BY IdleStep, InForceStep DEF vars, waits, Idle, InForce, Threads
<1>3. TypeOK /\ Idle /\ InForce /\ [Next]_vars =>
        [\A w \in Worker, r \in Reasons :
           LET s == worker[w].site
           IN  Takes(w, r) /\ handle[s] = w => mem'[s].fp = Fingerprint(worker[w].entry)]_vars
  BY HoldStep DEF vars
<1>. QED
  BY TypeCorrect, <1>1, <1>2, <1>3, PTL DEF Spec, HoldNamesFailed

-----------------------------------------------------------------------------
(* What can wake a site that is not enabled.                                 *)

\* A site rests on while no timer of its own is set and no worker is new.
LEMMA RestsOn ==
  ASSUME NEW s \in Site, Rests(s), doc'[s] = doc[s], pending'[s] => pending[s],
         SameStaff(worker')
  PROVE  Rests(s)'
BY DEF Rests, SameStaff, Threads

LEMMA RestartElsewhere ==
  ASSUME TypeOK, NEW s \in Site, Rests(s), UNCHANGED doc, pending'[s] => pending[s],
         NEW t \in Site, t # s, doc[t] # None, NEW fails, NEW ws, Restart(t, fails, ws),
         ws \in [Worker -> WorkerRec \cup {None}], SameStaff(ws)
  PROVE  Rests(s)'
<1>1. PICK h \in FreeWorkers : worker' = [ws EXCEPT ![h] = NewWorker(t, doc[t], mem[t])]
  BY DEF Restart, RestartTargets
<1>2. worker'[h].site = t /\ \A w \in Worker : w # h => worker'[w] = ws[w]
  BY <1>1 DEF FreeWorkers, NewWorker
<1>. QED
  BY <1>2 DEF Rests, SameStaff, Threads

\* Who takes an ending that restarts a site.
LEMMA RestartTakes ==
  ASSUME TypeOK, NEW w \in Worker, HandleTimeout(w) \/ HandleError(w)
  PROVE  Takes(w, "timeout") \/ Takes(w, "error")
<1>1. PICK r \in {"timeout", "error"} :
        Says(w, r) /\ \E fails : RequestRestart(worker[w].site, fails, Heard(w))
  BY DEF HandleTimeout, HandleError
<1>2. /\ worker[w] \in WorkerRec /\ worker[w].site \in Site
      /\ Heard(w) \in [Worker -> WorkerRec \cup {None}] /\ Heard(w)[w] \in WorkerRec
  BY <1>1, SpeakerType, HeardType
<1>3. worker'[w] = Heard(w)[w]
  BY <1>1, <1>2, RequestRestartKeeps, NoWorkerAssumption
<1>4. Heard(w)[w].outbox = Tail(worker[w].outbox)
  BY <1>2 DEF Heard, TypeOK, WorkerRec
<1>. QED
  BY <1>1, <1>2, <1>3, <1>4, NoWorkerAssumption DEF Takes

LEMMA DisabledStep ==
  ASSUME TypeOK, Next, NEW s \in Site,
         doc[s] # None, doc'[s] = doc[s], ~Enabled(s), phase' # "down", Rests(s), ~Rests(s)'
  PROVE  \/ \E w \in Worker : /\ Takes(w, "timeout") \/ Takes(w, "error")
                              /\ worker[w].site # s \/ worker[w].entry # doc[s]
         \/ \E t \in Site : doc[t] = None /\ dnsWatch[t] /\ ~dnsWatch'[t]
<1>. USE DEF file, counts, waits
<1>1. SameStaff(worker) /\ worker \in [Worker -> WorkerRec \cup {None}]
  BY DEF SameStaff, TypeOK
<1>2. ASSUME NEW w \in Worker, WorkerStep(w)
      PROVE  FALSE
  BY <1>2, WorkerStepStaff, RestsOn
<1>3. ASSUME NEW w \in Worker, HandleConnected(w) \/ HandleStopped(w)
      PROVE  FALSE
  <2>1. SameStaff(Heard(w)) /\ worker' = Heard(w)
    BY <1>3, HeardStaff DEF HandleConnected, HandleStopped
  <2>2. UNCHANGED doc /\ (pending'[s] => pending[s])
    BY <1>3 DEF HandleConnected, HandleStopped, CancelPending, TypeOK
  <2>. QED
    BY <2>1, <2>2, RestsOn
<1>4. ASSUME NEW w \in Worker, HandleTimeout(w) \/ HandleError(w)
      PROVE  /\ Takes(w, "timeout") \/ Takes(w, "error")
             /\ worker[w].site # s \/ worker[w].entry # doc[s]
  BY <1>4, RestartTakes DEF HandleTimeout, HandleError, Says, Rests
<1>5. ASSUME NEW w \in Worker, HandleExit(w)
      PROVE  FALSE
  <2>1. worker' = [worker EXCEPT ![w] = None] /\ UNCHANGED <<doc, pending>>
    BY <1>5 DEF HandleExit, ProcessEnds
  <2>2. SameStaff(worker')
    BY <2>1 DEF SameStaff, TypeOK
  <2>. QED
    BY <2>1, <2>2, RestsOn
<1>6. ASSUME NEW t \in Site, TimerFires(t)
      PROVE  FALSE
  <2>1. UNCHANGED doc /\ (pending'[s] => pending[s])
    BY <1>6 DEF TimerFires, CancelPending, TypeOK
  <2>2. \/ UNCHANGED worker
        \/ t # s /\ doc[t] # None /\ Restart(t, failures, worker)
    BY <1>6 DEF TimerFires, Enabled
  <2>. QED
    BY <1>1, <2>1, <2>2, RestsOn, RestartElsewhere
<1>7. ASSUME NEW t \in Site, DnsChanges(t)
      PROVE  doc[t] = None /\ dnsWatch[t] /\ ~dnsWatch'[t]
  <2>1. UNCHANGED doc /\ (pending'[s] => pending[s]) /\ dnsWatch[t] /\ ~dnsWatch'[t]
    BY <1>7 DEF DnsChanges, CancelPending, TypeOK
  <2>2. \/ UNCHANGED worker
        \/ pending[t] /\ \E fails : Restart(t, fails, worker)
    BY <1>7 DEF DnsChanges
  <2>3. t # s \/ UNCHANGED worker
    BY <2>2 DEF Rests
  <2>. QED
    BY <1>1, <2>1, <2>2, <2>3, RestsOn, RestartElsewhere
<1>8. ASSUME NEW t \in Site, Kpipe(t)
      PROVE  FALSE
  <2>. DEFINE ws == [w \in Worker |-> IF w = handle[t] /\ w \in Threads
                                      THEN [worker[w] EXCEPT !.told = TRUE] ELSE worker[w]]
  <2>1. Restart(t, failures, ws) /\ UNCHANGED doc /\ t # s /\ doc[t] # None
    BY <1>8 DEF Kpipe, Enabled
  <2>2. pending'[s] => pending[s]
    BY <1>8 DEF Kpipe, CancelPending, TypeOK
  <2>3. ws \in [Worker -> WorkerRec \cup {None}] /\ SameStaff(ws)
    BY ToldType DEF SameStaff, Threads, TypeOK
  <2>. HIDE DEF ws
  <2>. QED
    BY <2>1, <2>2, <2>3, RestartElsewhere
<1>9. ASSUME NEW t \in Site, Quiet(t) \/ WeekPasses(t)
      PROVE  FALSE
  BY <1>1, <1>9, RestsOn DEF Quiet, WeekPasses
<1>10. ASSUME NEW new \in Docs, Boot(new)
       PROVE  FALSE
  <2>1. new[s] = doc[s] /\ s \notin EnabledIn(new)
    BY <1>10 DEF Boot, EnabledIn, Enabled
  <2>2. PICK waiting, watched, hire :
          /\ waiting \in SUBSET BackoffIn(new)
          /\ hire \in Injection(EnabledIn(new) \ (BlockedIn(new) \cup waiting), Worker)
          /\ FirstRun(new, waiting, watched, hire)
    BY <1>10 DEF Boot
  <2>3. ~pending'[s]
    BY <2>1, <2>2 DEF FirstRun, BackoffIn
  <2>4. ASSUME NEW w \in Worker, worker'[w] # None
        PROVE  worker'[w].site # s
    BY <2>1, <2>2, <2>4, HiredType DEF FirstRun, NewWorker
  <2>. QED
    BY <2>3, <2>4 DEF Rests, Threads
<1>11. ASSUME NEW new \in Docs, NEW soft \in SUBSET Site, Reload(new, soft)
       PROVE  FALSE
  <2>1. new[s] = doc[s] /\ ~new[s].enabled
    BY <1>11 DEF Reload, Enabled
  <2>2. pending'[s] => pending[s]
    BY <1>11 DEF Reload
  <2>3. PICK starts, dismissed, hire :
          /\ s \notin starts
          /\ hire \in Injection(starts, FreeWorkers)
          /\ dismissed \subseteq Threads
          /\ worker' = Staff(new, hire, dismissed)
    <3>. DEFINE running == {x \in Site : doc[x] # None /\ new[x] # None /\ handle[x] \in Threads}
                redone  == Changed(new) \cup (soft \cap running)
                added   == {x \in Site : doc[x] = None /\ new[x] # None}
                starts  == {x \in redone \cup added : new[x].enabled}
    <3>1. \E hire \in Injection(starts, FreeWorkers) :
            worker' = Staff(new, hire, {handle[x] : x \in redone \cap running})
      BY <1>11 DEF Reload
    <3>2. s \notin starts /\ {handle[x] : x \in redone \cap running} \subseteq Threads
      BY <2>1
    <3>. HIDE DEF running, redone, starts
    <3>. QED
      BY <3>1, <3>2
  <2>4. ASSUME NEW w \in Worker, worker'[w] # None, worker'[w].site = s
        PROVE  worker[w] # None /\ worker[w].site = s /\ worker'[w].entry = worker[w].entry
    <3>1. w \notin Range(hire)
      BY <2>3, <2>4, HiredType DEF Staff, NewWorker
    <3>2. w \in dismissed => worker[w] \in WorkerRec
      BY <2>3 DEF Threads, TypeOK
    <3>. QED
      BY <2>3, <2>4, <3>1, <3>2, ToldType DEF Staff, Threads
  <2>. QED
    BY <2>1, <2>2, <2>4 DEF Rests, Threads
<1>12. CASE SaveFires \/ Signal \/ StopTimeout \/ Crash
  <2>1. UNCHANGED <<doc, pending>>
    BY <1>12 DEF SaveFires, Signal, StopTimeout, Crash, ProcessEnds
  <2>2. \/ UNCHANGED worker
        \/ worker' = [w \in Worker |-> IF w \in Threads
                                       THEN [worker[w] EXCEPT !.told = TRUE] ELSE None]
    BY <1>12 DEF SaveFires, Signal, StopTimeout, Crash, ProcessEnds
  <2>3. ASSUME NEW w \in Worker, worker'[w] # None
        PROVE  /\ worker[w] # None
               /\ worker'[w].site = worker[w].site /\ worker'[w].entry = worker[w].entry
    <3>1. w \in Threads => worker[w] \in WorkerRec
      BY DEF Threads, TypeOK
    <3>. QED
      BY <2>2, <2>3, <3>1, ToldType DEF Threads
  <2>. QED
    BY <2>1, <2>3, RestsOn DEF SameStaff
<1>. QED
  BY <1>2, <1>3, <1>4, <1>5, <1>6, <1>7, <1>8, <1>9, <1>10, <1>11, <1>12
     DEF Next, HandleReport

\* A site that is not enabled and rests is woken by nothing but a late ending of
\* another entry's worker or the look-up of a site that is no longer listed.
THEOREM DisabledCorrect == Spec => DisabledWokenLate
<1>1. TypeOK /\ [Next]_vars =>
        [\A s \in Site :
           /\ doc[s] # None /\ doc'[s] = doc[s] /\ ~Enabled(s) /\ phase' # "down"
           /\ Rests(s) /\ ~Rests(s)'
           => \/ \E w \in Worker : /\ Takes(w, "timeout") \/ Takes(w, "error")
                                   /\ worker[w].site # s \/ worker[w].entry # doc[s]
              \/ \E t \in Site : doc[t] = None /\ dnsWatch[t] /\ ~dnsWatch'[t]]_vars
  BY DisabledStep DEF vars
<1>. QED
  BY TypeCorrect, <1>1, PTL DEF Spec, DisabledWokenLate
=============================================================================
