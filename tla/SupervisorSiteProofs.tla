------------------------ MODULE SupervisorSiteProofs ------------------------
(* Proofs about Supervisor that follow each site: what its record, its       *)
(* timer and its workers say of one another.                                 *)
EXTENDS SupervisorProofs, FiniteSetTheorems, SequenceTheorems

-----------------------------------------------------------------------------
(* What a worker has in its outbox, by what has become of it.                *)

LEMMA AppendSecond ==
  ASSUME NEW a \in Reports, NEW b \in Reports
  PROVE  Append(<<a>>, b) = <<a, b>>
<1>. DEFINE p == Append(<<a>>, b)
            q == <<a, b>>
<1>1. p \in Seq(Reports) /\ q \in Seq(Reports) /\ Len(p) = 2 /\ Len(q) = 2
  OBVIOUS
<1>2. p[1] = a /\ p[2] = b /\ q[1] = a /\ q[2] = b
  OBVIOUS
<1>. HIDE DEF p, q
<1>3. \A i \in 1..Len(p) : p[i] = q[i]
  BY <1>1, <1>2
<1>4. p = q
  BY <1>1, <1>3, SeqEqual
<1>. QED
  BY <1>4 DEF p, q

LEMMA AppendTwo ==
  ASSUME NEW a \in Reports, NEW b \in Reports, NEW c \in Reports
  PROVE  <<a>> \o <<b, c>> = <<a, b, c>>
<1>. DEFINE p == <<a>> \o <<b, c>>
            q == <<a, b, c>>
<1>1. p \in Seq(Reports) /\ q \in Seq(Reports) /\ Len(p) = 3 /\ Len(q) = 3
  OBVIOUS
<1>2. p[1] = a /\ p[2] = b /\ p[3] = c /\ q[1] = a /\ q[2] = b /\ q[3] = c
  OBVIOUS
<1>. HIDE DEF p, q
<1>3. \A i \in 1..Len(p) : p[i] = q[i]
  BY <1>1, <1>2
<1>4. p = q
  BY <1>1, <1>3, SeqEqual
<1>. QED
  BY <1>4 DEF p, q

LEMMA Outboxes ==
  ASSUME NEW e \in Endings
  PROVE  /\ Tail(<<"connected">>) = <<>> /\ Tail(<<"connected", "exit">>) = <<"exit">>
         /\ Tail(<<e, "exit">>) = <<"exit">> /\ Tail(<<"connected", e, "exit">>) = <<e, "exit">>
         /\ Append(<<>>, "connected") = <<"connected">>
         /\ Append(<<>>, "exit") = <<"exit">>
         /\ Append(<<"connected">>, "exit") = <<"connected", "exit">>
         /\ <<>> \o <<e, "exit">> = <<e, "exit">>
         /\ <<"connected">> \o <<e, "exit">> = <<"connected", e, "exit">>
<1>1. "connected" \in Reports /\ "exit" \in Reports /\ e \in Reports
  BY DEF Reports
<1>2. /\ Tail(<<"connected">>) = <<>> /\ Tail(<<"connected", "exit">>) = <<"exit">>
      /\ Tail(<<e, "exit">>) = <<"exit">> /\ Tail(<<"connected", e, "exit">>) = <<e, "exit">>
  BY <1>1
<1>3. Append(<<>>, "connected") = <<"connected">> /\ Append(<<>>, "exit") = <<"exit">>
  BY <1>1
<1>4. <<>> \o <<e, "exit">> = <<e, "exit">>
  BY <1>1
<1>. QED
  BY <1>1, <1>2, <1>3, <1>4, AppendSecond, AppendTwo

\* The first thing in an outbox, and all that is in it.
LEMMA OutboxContents ==
  ASSUME NEW e \in Endings
  PROVE  /\ Head(<<"connected">>) = "connected" /\ Head(<<"exit">>) = "exit"
         /\ Head(<<"connected", "exit">>) = "connected" /\ Head(<<e, "exit">>) = e
         /\ Head(<<"connected", e, "exit">>) = "connected"
         /\ Range(<<>>) = {} /\ Range(<<"connected">>) = {"connected"}
         /\ Range(<<"exit">>) = {"exit"} /\ Range(<<"connected", "exit">>) = {"connected", "exit"}
         /\ Range(<<e, "exit">>) = {e, "exit"}
         /\ Range(<<"connected", e, "exit">>) = {"connected", e, "exit"}
<1>1. \A a, b, c : /\ DOMAIN <<>> = {} /\ DOMAIN <<a>> = {1}
                   /\ DOMAIN <<a, b>> = {1, 2} /\ DOMAIN <<a, b, c>> = {1, 2, 3}
  OBVIOUS
<1>. QED
  BY <1>1 DEF Range

\* "connected" goes first and "exit" last; what a worker that never connected
\* says is only why it ended
OutboxShape(v) ==
  /\ v.life = "starting" => v.outbox = <<>>
  /\ v.life \in {"connected", "lost"} => v.outbox \in {<<>>, <<"connected">>}
  /\ v.life = "ended" =>
       \/ v.outbox = <<"exit">>
       \/ v.told /\ v.outbox = <<"connected", "exit">>
       \/ \E e \in Endings : \/ v.outbox = <<e, "exit">>
                             \/ e # "unreachable" /\ v.outbox = <<"connected", e, "exit">>

\* what can become of a worker in a step, but for its end
Moves(v, u) ==
  \/ u = v
  \/ u = [v EXCEPT !.told = TRUE]
  \/ /\ v.outbox # <<>> /\ Head(v.outbox) # "exit"
     /\ u = [v EXCEPT !.outbox = Tail(@)]
  \/ /\ v.life # "ended"
     /\ \/ v.life # "connected" /\ "connected" \notin Range(v.outbox) /\ u = Up(v)
        \/ v.life = "connected" /\ u = Down(v)
        \/ \E e \in EndingsOf(v) : e \in Endings /\ u = Ended(v, e)
        \/ v.told /\ u = Obeyed(v)

LEMMA MoveShape ==
  ASSUME NEW v \in WorkerRec, NEW u, OutboxShape(v), Moves(v, u)
  PROVE  OutboxShape(u)
<1>0. /\ "connected" \in Reports /\ "exit" \in Reports /\ Endings \subseteq Reports
      /\ "connected" \notin Endings /\ "exit" \notin Endings
  BY DEF Reports, Endings, Reasons
<1>. PICK any \in Endings : TRUE
  BY DEF Endings
<1>1. CASE u = v
  BY <1>1
<1>2. CASE u = [v EXCEPT !.told = TRUE]
  BY <1>2 DEF OutboxShape, WorkerRec
<1>3. CASE /\ v.outbox # <<>> /\ Head(v.outbox) # "exit"
           /\ u = [v EXCEPT !.outbox = Tail(@)]
  <2>1. u.life = v.life /\ u.told = v.told /\ u.outbox = Tail(v.outbox)
    BY <1>3 DEF WorkerRec
  <2>2. CASE v.life # "ended"
    BY <1>0, <1>3, <2>1, <2>2, Outboxes DEF OutboxShape, WorkerRec, Lives
  <2>3. CASE v.life = "ended"
    <3>1. CASE v.told /\ v.outbox = <<"connected", "exit">>
      BY <1>0, <2>1, <2>3, <3>1, Outboxes DEF OutboxShape
    <3>2. ASSUME NEW e \in Endings, v.outbox = <<e, "exit">> \/ v.outbox = <<"connected", e, "exit">>
          PROVE  OutboxShape(u)
      <4>1. u.outbox = <<"exit">> \/ u.outbox = <<e, "exit">>
        BY <1>0, <2>1, <3>2, Outboxes
      <4>. QED
        BY <2>1, <2>3, <4>1 DEF OutboxShape
    <3>. QED
      BY <1>3, <2>3, <3>1, <3>2 DEF OutboxShape
  <2>. QED
    BY <2>2, <2>3
<1>4. CASE v.life \notin {"ended", "connected"} /\ "connected" \notin Range(v.outbox) /\ u = Up(v)
  <2>1. v.outbox = <<>>
    BY <1>4, OutboxContents DEF OutboxShape, WorkerRec, Lives
  <2>. QED
    BY <1>0, <1>4, <2>1, Outboxes DEF OutboxShape, Up, WorkerRec
<1>5. CASE v.life = "connected" /\ u = Down(v)
  BY <1>5 DEF OutboxShape, Down, WorkerRec
<1>6. ASSUME v.life # "ended", NEW e \in EndingsOf(v), e \in Endings, u = Ended(v, e)
      PROVE  OutboxShape(u)
  <2>1. u.life = "ended" /\ u.outbox = v.outbox \o <<e, "exit">>
    BY <1>6 DEF Ended, WorkerRec
  <2>2. CASE v.outbox = <<>>
    BY <1>0, <1>6, <2>1, <2>2, Outboxes DEF OutboxShape
  <2>3. CASE v.outbox # <<>>
    <3>1. v.outbox = <<"connected">> /\ v.life # "starting"
      BY <1>6, <2>3 DEF OutboxShape, WorkerRec, Lives
    <3>2. e # "unreachable"
      BY <3>1, <1>6 DEF EndingsOf
    <3>. QED
      BY <1>0, <1>6, <2>1, <3>1, <3>2, Outboxes DEF OutboxShape
  <2>. QED
    BY <2>2, <2>3
<1>7. CASE v.life # "ended" /\ v.told /\ u = Obeyed(v)
  <2>1. u.life = "ended" /\ u.told /\ u.outbox = Append(v.outbox, "exit")
    BY <1>7 DEF Obeyed, WorkerRec
  <2>2. v.outbox \in {<<>>, <<"connected">>}
    BY <1>7 DEF OutboxShape, WorkerRec, Lives
  <2>. QED
    BY <1>0, <2>1, <2>2, Outboxes DEF OutboxShape
<1>. QED
  BY <1>1, <1>2, <1>3, <1>4, <1>5, <1>6, <1>7 DEF Moves

-----------------------------------------------------------------------------
(* What a step does to the workers.                                          *)

\* ws has no worker that is not there, and each moved as a worker does
MovedTo(ws) == \A w \in Worker : ws[w] # None => worker[w] # None /\ Moves(worker[w], ws[w])

IsNew(u) == \E s, e, r : u = NewWorker(s, e, r)

\* every worker after the step was there and moved, or is new
MovedOrNew ==
  \A w \in Worker : worker'[w] # None =>
    \/ worker[w] # None /\ Moves(worker[w], worker'[w])
    \/ worker[w] = None /\ IsNew(worker'[w])

\* The workers after w's report was taken: w without it, the others as they were.
LEMMA HeardMoved ==
  ASSUME TypeOK, NEW w \in Worker, NEW r, Says(w, r), r # "exit"
  PROVE  /\ MovedTo(Heard(w))
         /\ Heard(w) \in [Worker -> WorkerRec \cup {None}]
         /\ Heard(w)[w] = [worker[w] EXCEPT !.outbox = Tail(@)]
         /\ \A x \in Worker : x # w => Heard(w)[x] = worker[x]
<1>1. Heard(w)[w] = [worker[w] EXCEPT !.outbox = Tail(@)]
  BY DEF Heard, TypeOK
<1>2. \A x \in Worker : x # w => Heard(w)[x] = worker[x]
  BY DEF Heard, TypeOK
<1>3. worker[w] # None /\ Moves(worker[w], Heard(w)[w])
  BY <1>1 DEF Says, Threads, Moves
<1>4. MovedTo(Heard(w))
  BY <1>2, <1>3 DEF MovedTo, Moves
<1>. QED
  BY <1>1, <1>2, <1>4, HeardType

LEMMA RestartMoved ==
  ASSUME NEW s \in Site, NEW fails, NEW ws \in [Worker -> WorkerRec \cup {None}],
         Restart(s, fails, ws), MovedTo(ws)
  PROVE  MovedOrNew
<1>1. PICK t, h : /\ h \in FreeWorkers
                  /\ worker' = [ws EXCEPT ![h] = NewWorker(t, doc[t], mem[t])]
  BY DEF Restart
<1>. QED
  BY <1>1 DEF MovedTo, MovedOrNew, IsNew, FreeWorkers

LEMMA RequestRestartMoved ==
  ASSUME NEW s \in Site, NEW fails, NEW ws \in [Worker -> WorkerRec \cup {None}],
         RequestRestart(s, fails, ws), MovedTo(ws)
  PROVE  MovedOrNew
BY RestartMoved DEF RequestRestart, MovedTo, MovedOrNew

\* The workers after some of them were told to exit.
LEMMA ToldMoved ==
  ASSUME TypeOK, NEW ws, NEW T \in SUBSET Threads,
         ws = [w \in Worker |-> IF w \in T THEN [worker[w] EXCEPT !.told = TRUE] ELSE worker[w]]
  PROVE  MovedTo(ws) /\ ws \in [Worker -> WorkerRec \cup {None}]
BY ToldType DEF MovedTo, Moves, Threads, TypeOK

\* Whom kpipe tells to exit: the worker its entry names, if that is there.
LEMMA KpipeTells ==
  ASSUME TypeOK, NEW s \in Site, Kpipe(s)
  PROVE  \E ws \in [Worker -> WorkerRec \cup {None}] :
           /\ ws = [w \in Worker |-> IF w \in {handle[s]} \cap Threads
                                     THEN [worker[w] EXCEPT !.told = TRUE] ELSE worker[w]]
           /\ Restart(s, failures, ws) /\ MovedTo(ws)
<1>. DEFINE ws == [w \in Worker |-> IF w = handle[s] /\ w \in Threads
                                    THEN [worker[w] EXCEPT !.told = TRUE] ELSE worker[w]]
<1>1. Restart(s, failures, ws)
  BY DEF Kpipe
<1>2. ws = [w \in Worker |-> IF w \in {handle[s]} \cap Threads
                             THEN [worker[w] EXCEPT !.told = TRUE] ELSE worker[w]]
  OBVIOUS
<1>. HIDE DEF ws
<1>3. MovedTo(ws) /\ ws \in [Worker -> WorkerRec \cup {None}]
  BY <1>2, ToldMoved
<1>. QED
  BY <1>1, <1>2, <1>3

\* What a reload does: `starts` get a new worker each, `idle` none, and the
\* other sites that are listed are left alone.
Reloaded(new, starts, idle, dismissed, hire) ==
  /\ starts \in SUBSET Site /\ idle \in SUBSET Site
  /\ \A s \in idle : new[s] # None /\ ~new[s].enabled
  /\ hire \in Injection(starts, FreeWorkers)
  /\ handle' = [s \in Site |-> IF s \in starts THEN hire[s]
                               ELSE IF s \in idle \/ new[s] = None THEN None
                               ELSE handle[s]]
  /\ dismissed \subseteq Threads
  /\ \A w \in dismissed : \E s \in starts \cup idle : w = handle[s]
  /\ worker' = Staff(new, hire, dismissed)
  /\ \A s \in starts : mem'[s] # None /\ mem'[s].state = "starting"
  /\ \A s \in Site \ (starts \cup idle) :
       new[s] # None => /\ doc[s] = new[s] /\ mem'[s] = mem[s]
                        /\ pending'[s] = pending[s]

LEMMA ReloadDoes ==
  ASSUME TypeOK, NEW new \in Docs, NEW soft \in SUBSET Site, Reload(new, soft)
  PROVE  \E starts, idle, dismissed, hire : Reloaded(new, starts, idle, dismissed, hire)
<1>. DEFINE changed == Changed(new)
            running == {s \in Site : doc[s] # None /\ new[s] # None /\ handle[s] \in Threads}
            redone  == changed \cup (soft \cap running)
            added   == {s \in Site : doc[s] = None /\ new[s] # None}
            starts  == {s \in redone \cup added : new[s].enabled}
            idle    == (redone \cup added) \ starts
            fails   == [s \in Site |-> IF s \in changed THEN 0 ELSE failures[s]]
            noted   == [s \in Site |->
                          IF s \in starts THEN SetState(mem[s], "starting", fails[s], None)
                          ELSE IF s \in idle THEN SetState(mem[s], "disabled", fails[s], None)
                          ELSE mem[s]]
            dismissed == {handle[s] : s \in redone \cap running}
<1>1. PICK hire \in Injection(starts, FreeWorkers) :
        /\ handle' = [s \in Site |-> IF s \in starts THEN hire[s]
                                     ELSE IF s \in idle \/ new[s] = None THEN None
                                     ELSE handle[s]]
        /\ worker' = Staff(new, hire, dismissed)
  BY DEF Reload
<1>2. /\ mem' = Retain(noted, {s \in Site : new[s] # None})
      /\ pending' = [s \in Site |-> s \notin changed /\ pending[s]]
  BY DEF Reload
<1>3. /\ starts \in SUBSET Site /\ idle \in SUBSET Site
      /\ \A s \in starts \cup idle : new[s] # None
      /\ \A s \in idle : ~new[s].enabled
      /\ \A s \in Site \ (starts \cup idle) : new[s] # None => doc[s] = new[s]
      /\ changed \subseteq starts \cup idle
  BY DEF Changed
<1>4. dismissed \subseteq Threads /\ \A w \in dismissed : \E s \in starts \cup idle : w = handle[s]
  OBVIOUS
<1>5. \A s \in starts : SetState(mem[s], "starting", fails[s], None) \in Rec
  BY <1>3, SetStateType DEF TypeOK, States
<1>. HIDE DEF changed, starts, idle, dismissed, fails
<1>6. \A s \in Site : new[s] # None => mem'[s] = noted[s]
  BY <1>2 DEF Retain
<1>7. \A s \in starts : mem'[s] # None /\ mem'[s].state = "starting"
  <2>1. \A s \in starts : mem'[s] = SetState(mem[s], "starting", fails[s], None)
    BY <1>3, <1>6
  <2>2. \A s \in starts : SetState(mem[s], "starting", fails[s], None).state = "starting"
    BY DEF SetState
  <2>. QED
    BY <1>5, <2>1, <2>2, NoRecAssumption
<1>8. \A s \in Site \ (starts \cup idle) :
        new[s] # None => mem'[s] = mem[s] /\ pending'[s] = pending[s]
  BY <1>2, <1>3, <1>6 DEF TypeOK
<1>9. Reloaded(new, starts, idle, dismissed, hire)
  BY <1>1, <1>3, <1>4, <1>7, <1>8 DEF Reloaded
<1>. QED
  BY <1>9

LEMMA WorkerStepMoves ==
  ASSUME TypeOK, NEW w \in Worker, WorkerStep(w)
  PROVE  /\ MovedTo(worker')
         /\ \A x \in Worker : x # w => worker'[x] = worker[x]
         /\ UNCHANGED <<phase, doc, handle, pending, mem, disk>>
<1>1. PICK u : /\ WorkerDoes(w, u)
               /\ worker[w] # None /\ worker[w].life # "ended"
               /\ \/ /\ worker[w].life # "connected"
                     /\ "connected" \notin Range(worker[w].outbox)
                     /\ u = Up(worker[w])
                  \/ worker[w].life = "connected" /\ u = Down(worker[w])
                  \/ \E e \in EndingsOf(worker[w]) : e \in Endings /\ u = Ended(worker[w], e)
                  \/ worker[w].told /\ u = Obeyed(worker[w])
  <2>1. \A e \in Faults : e \in Endings
    BY ConstantsAssumption DEF Endings, Reasons
  <2>. QED
    BY <2>1 DEF WorkerStep, LinkUp, LinkDown, End, Obey, Working, Threads
<1>2. \A x \in Worker : worker'[x] = IF x = w THEN u ELSE worker[x]
  BY <1>1 DEF WorkerDoes, TypeOK
<1>3. Moves(worker[w], u)
  BY <1>1 DEF Moves
<1>4. MovedTo(worker')
  BY <1>1, <1>2, <1>3 DEF MovedTo, Moves
<1>. QED
  BY <1>1, <1>2, <1>4 DEF WorkerDoes, waits, file

LEMMA NextMoves ==
  ASSUME TypeOK, Idle, Next
  PROVE  MovedOrNew
<1>. USE DEF file, counts, waits
<1>0. MovedTo(worker) /\ worker \in [Worker -> WorkerRec \cup {None}]
  BY DEF MovedTo, Moves, TypeOK
<1>1. ASSUME NEW w \in Worker, WorkerStep(w)
      PROVE  MovedOrNew
  BY <1>1, WorkerStepMoves DEF MovedTo, MovedOrNew
<1>2. ASSUME NEW w \in Worker, HandleConnected(w) \/ HandleStopped(w)
      PROVE  MovedOrNew
  <2>1. worker' = Heard(w) /\ \E r : r # "exit" /\ Says(w, r)
    BY <1>2 DEF HandleConnected, HandleStopped, Reasons
  <2>. QED
    BY <2>1, HeardMoved DEF MovedTo, MovedOrNew
<1>3. ASSUME NEW w \in Worker, HandleTimeout(w) \/ HandleError(w)
      PROVE  MovedOrNew
  <2>1. /\ \E r : r # "exit" /\ Says(w, r)
        /\ \E fails : RequestRestart(worker[w].site, fails, Heard(w))
    BY <1>3 DEF HandleTimeout, HandleError
  <2>. QED
    BY <2>1, HeardMoved, SpeakerType, RequestRestartMoved
<1>4. ASSUME NEW w \in Worker, HandleExit(w)
      PROVE  MovedOrNew
  BY <1>4 DEF HandleExit, ProcessEnds, MovedOrNew, Moves, TypeOK
<1>5. ASSUME NEW s \in Site, TimerFires(s) \/ DnsChanges(s)
      PROVE  MovedOrNew
  <2>1. UNCHANGED worker \/ \E fails : Restart(s, fails, worker)
    BY <1>5 DEF TimerFires, DnsChanges
  <2>. QED
    BY <1>0, <2>1, RestartMoved DEF MovedTo, MovedOrNew
<1>6. ASSUME NEW s \in Site, Kpipe(s)
      PROVE  MovedOrNew
  BY <1>6, KpipeTells, RestartMoved
<1>7. ASSUME NEW s \in Site, Quiet(s) \/ WeekPasses(s)
      PROVE  MovedOrNew
  BY <1>0, <1>7 DEF Quiet, WeekPasses, MovedTo, MovedOrNew
<1>8. ASSUME NEW new \in Docs, NEW soft \in SUBSET Site, Reload(new, soft)
      PROVE  MovedOrNew
  <2>0. PICK starts, idle, dismissed, hire : Reloaded(new, starts, idle, dismissed, hire)
    BY <1>8, ReloadDoes
  <2>1. /\ Range(hire) \subseteq FreeWorkers /\ dismissed \subseteq Threads
        /\ worker' = Staff(new, hire, dismissed)
    BY <2>0, HireIsFree DEF Reloaded
  <2>2. ASSUME NEW w \in Worker, worker'[w] # None, w \in Range(hire)
        PROVE  worker[w] = None /\ IsNew(worker'[w])
    BY <2>1, <2>2 DEF Staff, IsNew, FreeWorkers
  <2>3. ASSUME NEW w \in Worker, worker'[w] # None, w \notin Range(hire)
        PROVE  Moves(worker[w], worker'[w]) /\ worker[w] # None
    BY <2>1, <2>3 DEF Staff, Moves, Threads
  <2>. QED
    BY <2>2, <2>3 DEF MovedOrNew
<1>9. ASSUME NEW new \in Docs, Boot(new)
      PROVE  MovedOrNew
  <2>1. \E hire : worker' = [w \in Worker |->
          IF w \notin Range(hire) THEN None
          ELSE NewWorker(HiredFor(hire, w), new[HiredFor(hire, w)],
                         disk.sites[HiredFor(hire, w)])]
    BY <1>9 DEF Boot, FirstRun
  <2>. QED
    BY <1>9, <2>1 DEF Boot, Idle, MovedOrNew, IsNew
<1>10. CASE SaveFires \/ Signal \/ StopTimeout \/ Crash
  <2>1. \/ worker' = worker
        \/ worker' = [x \in Worker |-> None]
        \/ worker' = [x \in Worker |-> IF x \in Threads
                                        THEN [worker[x] EXCEPT !.told = TRUE] ELSE None]
    BY <1>10 DEF SaveFires, Signal, StopTimeout, Crash, ProcessEnds
  <2>. QED
    BY <2>1 DEF MovedOrNew, Moves, Threads
<1>. QED
  BY <1>1, <1>2, <1>3, <1>4, <1>5, <1>6, <1>7, <1>8, <1>9, <1>10 DEF Next, HandleReport

\* every outbox is as it should be
Outboxed == \A w \in Threads : OutboxShape(worker[w])

LEMMA OutboxStep ==
  ASSUME TypeOK, Idle, Outboxed, Next
  PROVE  Outboxed'
<1>1. ASSUME NEW s, NEW e, NEW r
      PROVE  OutboxShape(NewWorker(s, e, r))
  BY DEF NewWorker, OutboxShape
<1>2. ASSUME NEW w \in Worker, worker'[w] # None
      PROVE  OutboxShape(worker'[w])
  <2>1. CASE worker[w] # None /\ Moves(worker[w], worker'[w])
    BY <2>1, MoveShape DEF Outboxed, Threads, TypeOK
  <2>2. CASE IsNew(worker'[w])
    BY <1>1, <2>2 DEF IsNew
  <2>. QED
    BY <1>2, <2>1, <2>2, NextMoves DEF MovedOrNew
<1>. QED
  BY <1>2 DEF Outboxed, Threads

-----------------------------------------------------------------------------
(* The worker an entry names serves that entry's site.                       *)

HandlesRight == \A s \in Site : handle[s] \in Threads => worker[handle[s]].site = s

\* whoever is left of the workers in ws is at its site
SamePlaces(ws) ==
  \A w \in Worker : ws[w] # None => worker[w] # None /\ ws[w].site = worker[w].site

LEMMA MovePlace ==
  ASSUME TypeOK, NEW w \in Worker, NEW u, worker[w] # None, Moves(worker[w], u)
  PROVE  u.site = worker[w].site
BY DEF TypeOK, Moves, Up, Down, Ended, Obeyed, WorkerRec

LEMMA MovedPlaces ==
  ASSUME TypeOK, NEW ws, MovedTo(ws)
  PROVE  SamePlaces(ws)
BY MovePlace DEF MovedTo, SamePlaces

LEMMA HandlesKept ==
  ASSUME TypeOK, HandlesRight, SamePlaces(worker'), UNCHANGED handle
  PROVE  HandlesRight'
BY DEF HandlesRight, SamePlaces, Threads, TypeOK

LEMMA RestartHandles ==
  ASSUME TypeOK, HandlesRight, NEW s \in Site, NEW fails,
         NEW ws \in [Worker -> WorkerRec \cup {None}], Restart(s, fails, ws), SamePlaces(ws)
  PROVE  HandlesRight'
<1>1. PICK t, h : /\ t \in Site /\ h \in FreeWorkers
                  /\ worker' = [ws EXCEPT ![h] = NewWorker(t, doc[t], mem[t])]
                  /\ handle' = [handle EXCEPT ![t] = h]
  BY DEF Restart, RestartTargets
<1>2. h \in Worker /\ worker'[h].site = t /\ \A w \in Worker : w # h => worker'[w] = ws[w]
  BY <1>1 DEF FreeWorkers, NewWorker
<1>3. \A x \in Site : x # t => handle'[x] = handle[x] /\ handle[x] # h
  BY <1>1 DEF TypeOK, FreeWorkers, Range
<1>4. handle'[t] = h
  BY <1>1 DEF TypeOK
<1>. QED
  BY <1>2, <1>3, <1>4 DEF HandlesRight, SamePlaces, Threads

LEMMA RequestRestartHandles ==
  ASSUME TypeOK, HandlesRight, NEW s \in Site, NEW fails,
         NEW ws \in [Worker -> WorkerRec \cup {None}], RequestRestart(s, fails, ws),
         SamePlaces(ws)
  PROVE  HandlesRight'
BY RestartHandles, HandlesKept DEF RequestRestart

\* Each site that is given a new worker has one of its own.
LEMMA HiredOnce ==
  ASSUME NEW S, NEW T, NEW hire \in Injection(S, T), NEW s \in S
  PROVE  hire[s] \in T /\ hire[s] \in Range(hire) /\ HiredFor(hire, hire[s]) = s
<1>1. hire \in [S -> T] /\ \A a, b \in S : hire[a] = hire[b] => a = b
  BY DEF Injection, IsInjective
<1>2. hire[s] \in T /\ hire[s] \in Range(hire)
  BY <1>1 DEF Range
<1>3. HiredFor(hire, hire[s]) \in S /\ hire[HiredFor(hire, hire[s])] = hire[s]
  BY <1>1 DEF HiredFor
<1>. QED
  BY <1>1, <1>2, <1>3

LEMMA HandlesStep ==
  ASSUME TypeOK, HandlesRight, Next
  PROVE  HandlesRight'
<1>. USE DEF file, counts, waits
<1>0. SamePlaces(worker) /\ worker \in [Worker -> WorkerRec \cup {None}]
  BY DEF SamePlaces, TypeOK
<1>1. ASSUME NEW w \in Worker, WorkerStep(w)
      PROVE  HandlesRight'
  BY <1>1, WorkerStepMoves, MovedPlaces, HandlesKept
<1>2. ASSUME NEW w \in Worker, HandleConnected(w) \/ HandleStopped(w)
      PROVE  HandlesRight'
  <2>1. worker' = Heard(w) /\ UNCHANGED handle /\ \E r : r # "exit" /\ Says(w, r)
    BY <1>2 DEF HandleConnected, HandleStopped, Reasons
  <2>. QED
    BY <2>1, HeardMoved, MovedPlaces, HandlesKept
<1>3. ASSUME NEW w \in Worker, HandleTimeout(w) \/ HandleError(w)
      PROVE  HandlesRight'
  <2>1. /\ \E r : r # "exit" /\ Says(w, r)
        /\ \E fails : RequestRestart(worker[w].site, fails, Heard(w))
    BY <1>3 DEF HandleTimeout, HandleError
  <2>. QED
    BY <2>1, HeardMoved, MovedPlaces, SpeakerType, RequestRestartHandles
<1>4. ASSUME NEW w \in Worker, HandleExit(w)
      PROVE  HandlesRight'
  BY <1>4 DEF HandleExit, ProcessEnds, HandlesRight, Threads, TypeOK
<1>5. ASSUME NEW s \in Site, TimerFires(s) \/ DnsChanges(s)
      PROVE  HandlesRight'
  <2>1. UNCHANGED <<handle, worker>> \/ \E fails : Restart(s, fails, worker)
    BY <1>5 DEF TimerFires, DnsChanges
  <2>. QED
    BY <1>0, <2>1, RestartHandles, HandlesKept
<1>6. ASSUME NEW s \in Site, Kpipe(s)
      PROVE  HandlesRight'
  BY <1>6, KpipeTells, MovedPlaces, RestartHandles
<1>7. ASSUME NEW s \in Site, Quiet(s) \/ WeekPasses(s)
      PROVE  HandlesRight'
  BY <1>0, <1>7, HandlesKept DEF Quiet, WeekPasses
<1>8. ASSUME NEW new \in Docs, NEW soft \in SUBSET Site, Reload(new, soft)
      PROVE  HandlesRight'
  <2>0. PICK starts, idle, dismissed, hire : Reloaded(new, starts, idle, dismissed, hire)
    BY <1>8, ReloadDoes
  <2>1. /\ starts \in SUBSET Site
        /\ hire \in Injection(starts, FreeWorkers)
        /\ handle' = [s \in Site |-> IF s \in starts THEN hire[s]
                                     ELSE IF s \in idle \/ new[s] = None THEN None
                                     ELSE handle[s]]
        /\ dismissed \subseteq Threads
        /\ worker' = Staff(new, hire, dismissed)
    BY <2>0 DEF Reloaded
  <2>2. ASSUME NEW s \in starts
        PROVE  worker'[handle'[s]].site = s
    <3>1. hire[s] \in Worker /\ hire[s] \in Range(hire) /\ HiredFor(hire, hire[s]) = s
      BY <2>1, HiredOnce DEF FreeWorkers
    <3>. QED
      BY <2>1, <3>1 DEF Staff, NewWorker
  <2>3. ASSUME NEW s \in Site \ starts, handle'[s] \in Worker, worker'[handle'[s]] # None
        PROVE  worker'[handle'[s]].site = s
    <3>1. handle'[s] = handle[s]
      BY <2>1, <2>3, ConstantsAssumption
    <3>2. handle[s] \notin Range(hire)
      BY <2>1, <2>3, <3>1, HireIsFree DEF FreeWorkers, Range, TypeOK
    <3>3. worker[handle[s]] # None
      BY <2>1, <2>3, <3>1, <3>2 DEF Staff, Threads
    <3>4. worker'[handle[s]].site = worker[handle[s]].site
      BY <2>1, <2>3, <3>1, <3>2, <3>3, ToldType DEF Staff, Threads, TypeOK
    <3>. QED
      BY <2>3, <3>1, <3>3, <3>4 DEF HandlesRight, Threads
  <2>. QED
    BY <2>2, <2>3 DEF HandlesRight, Threads
<1>9. ASSUME NEW new \in Docs, Boot(new)
      PROVE  HandlesRight'
  <2>1. PICK S, hire :
          /\ S \in SUBSET Site /\ hire \in Injection(S, Worker)
          /\ handle' = [s \in Site |-> IF s \in DOMAIN hire THEN hire[s] ELSE None]
          /\ worker' = [w \in Worker |->
               IF w \notin Range(hire) THEN None
               ELSE NewWorker(HiredFor(hire, w), new[HiredFor(hire, w)],
                              disk.sites[HiredFor(hire, w)])]
    BY <1>9 DEF Boot, FirstRun, EnabledIn
  <2>2. ASSUME NEW s \in S
        PROVE  worker'[hire[s]].site = s
    <3>1. hire[s] \in Worker /\ hire[s] \in Range(hire) /\ HiredFor(hire, hire[s]) = s
      BY <2>1, HiredOnce
    <3>. QED
      BY <2>1, <3>1 DEF NewWorker
  <2>3. DOMAIN hire = S
    BY <2>1 DEF Injection
  <2>. QED
    BY <2>1, <2>2, <2>3, ConstantsAssumption DEF HandlesRight, Threads
<1>10. CASE SaveFires \/ Signal \/ StopTimeout \/ Crash
  <2>1. \/ ProcessEnds
        \/ UNCHANGED handle /\ worker' = worker
        \/ /\ UNCHANGED handle
           /\ worker' = [x \in Worker |-> IF x \in Threads
                                          THEN [worker[x] EXCEPT !.told = TRUE] ELSE None]
    BY <1>10 DEF SaveFires, Signal, StopTimeout, Crash
  <2>2. CASE ProcessEnds
    BY <2>2, ConstantsAssumption DEF ProcessEnds, HandlesRight, Threads
  <2>3. CASE worker' = [x \in Worker |-> IF x \in Threads
                                          THEN [worker[x] EXCEPT !.told = TRUE] ELSE None]
    <3>1. SamePlaces(worker')
      BY <2>3, ToldType DEF SamePlaces, Threads, TypeOK
    <3>. QED
      BY <2>1, <2>2, <3>1, <1>0, HandlesKept
  <2>. QED
    BY <1>0, <2>1, <2>2, <2>3, HandlesKept
<1>. QED
  BY <1>1, <1>2, <1>3, <1>4, <1>5, <1>6, <1>7, <1>8, <1>9, <1>10 DEF Next, HandleReport

-----------------------------------------------------------------------------
(* No enabled site is forgotten.                                             *)

\* v keeps s: it serves it, or has yet to say why it ended
Keeps(v, s) ==
  /\ v # None
  /\ v.site = s
  /\ (v.life # "ended" /\ ~v.told) \/ Range(v.outbox) \cap Endings # {}

Kept(s) == \E w \in Worker : Keeps(worker[w], s)

\* what the record of s promises, but for a record that says "connected"
Remembered(s) ==
  Enabled(s) => /\ mem[s] # None
                /\ mem[s].state # "disabled"
                /\ mem[s].state = "down" => pending[s]
                /\ mem[s].state = "starting" => Kept(s)

\* s is recorded connected and has nothing that could ever change that
Lapsed(s) ==
  Enabled(s) /\ StateOf(s) = "connected" /\ ~pending[s] /\ ~Kept(s)

\* s is remembered after the step, and lapsed only if it was before
Carried(s) == Remembered(s)' /\ (Lapsed(s)' => Lapsed(s))

AllRemembered == phase = "up" => \A s \in Site : Remembered(s)

\* No worker that keeps a site stops doing so of itself: an ending it has
\* reported stays in the outbox, and told to exit it was no keeper.
LEMMA StepKeeps ==
  ASSUME NEW v \in WorkerRec, NEW u, OutboxShape(v), NEW s, Keeps(v, s),
         v.life # "ended",
         \/ v.life # "connected" /\ u = Up(v)
         \/ v.life = "connected" /\ u = Down(v)
         \/ \E e \in Endings : u = Ended(v, e)
         \/ v.told /\ u = Obeyed(v)
  PROVE  u.site = s /\ ((u.life # "ended" /\ ~u.told) \/ Range(u.outbox) \cap Endings # {})
<1>0. PICK any \in Endings : TRUE
  BY DEF Endings
<1>1. ~v.told
  <2>1. v.outbox \in {<<>>, <<"connected">>}
    BY DEF OutboxShape, WorkerRec, Lives
  <2>2. Range(v.outbox) \cap Endings = {}
    BY <1>0, <2>1, OutboxContents DEF Endings, Reasons
  <2>. QED
    BY <2>2 DEF Keeps
<1>2. CASE u = Up(v) \/ u = Down(v)
  BY <1>1, <1>2 DEF Up, Down, WorkerRec, Keeps
<1>3. ASSUME NEW e \in Endings, u = Ended(v, e)
      PROVE  u.site = s /\ Range(u.outbox) \cap Endings # {}
  <2>1. u.site = s /\ u.outbox = v.outbox \o <<e, "exit">>
    BY <1>3 DEF Ended, WorkerRec, Keeps
  <2>2. v.outbox \in {<<>>, <<"connected">>}
    BY DEF OutboxShape, WorkerRec, Lives
  <2>3. u.outbox \in {<<e, "exit">>, <<"connected", e, "exit">>}
    BY <2>1, <2>2, Outboxes
  <2>4. e \in Range(u.outbox)
    BY <2>3, OutboxContents
  <2>. QED
    BY <2>1, <2>4
<1>. QED
  BY <1>1, <1>2, <1>3

\* A worker with nothing but "exit" to say keeps no site.
LEMMA ExitKeepsNone ==
  ASSUME TypeOK, Outboxed, NEW w \in Worker, Says(w, "exit"), NEW s
  PROVE  ~Keeps(worker[w], s)
<1>. PICK any \in Endings : TRUE
  BY DEF Endings
<1>1. "exit" \notin Endings /\ "connected" # "exit"
  BY DEF Endings, Reasons
<1>2. worker[w] \in WorkerRec /\ OutboxShape(worker[w])
  BY SpeakerType DEF Outboxed, Says
<1>3. /\ worker[w].outbox # <<>> /\ Head(worker[w].outbox) = "exit"
      /\ Head(<<"connected">>) = "connected"
      /\ Head(<<"connected", "exit">>) = "connected"
      /\ \A e \in Endings : /\ Head(<<e, "exit">>) # "exit"
                           /\ Head(<<"connected", e, "exit">>) = "connected"
  BY <1>1, OutboxContents DEF Says
<1>4. worker[w].life = "ended" /\ worker[w].outbox = <<"exit">>
  BY <1>1, <1>2, <1>3 DEF OutboxShape, WorkerRec, Lives
<1>5. Range(<<"exit">>) = {"exit"}
  BY OutboxContents
<1>6. Range(worker[w].outbox) \cap Endings = {}
  BY <1>1, <1>4, <1>5
<1>. QED
  BY <1>4, <1>6 DEF Keeps

LEMMA NewKeeps ==
  ASSUME NEW s \in Site, NEW e \in Entry, NEW r \in Rec \cup {None}
  PROVE  Keeps(NewWorker(s, e, r), s)
<1>1. NewWorker(s, e, r) # None
  BY NewWorkerType, NoWorkerAssumption
<1>2. /\ NewWorker(s, e, r).site = s /\ NewWorker(s, e, r).life = "starting"
      /\ NewWorker(s, e, r).told = FALSE
  BY DEF NewWorker
<1>. QED
  BY <1>1, <1>2 DEF Keeps

\* A site whose record, timer and keepers stay is as much remembered, and lapsed
\* no more than before.
LEMMA RememberedOn ==
  ASSUME NEW s \in Site, Remembered(s), doc'[s] = doc[s], mem'[s] = mem[s],
         pending[s] => pending'[s],
         \A w \in Worker : Keeps(worker[w], s) => Keeps(worker'[w], s)
  PROVE  Carried(s)
<1>1. Kept(s) => Kept(s)'
  BY DEF Kept, Keeps
<1>2. (Enabled(s)' <=> Enabled(s)) /\ StateOf(s)' = StateOf(s)
  BY DEF Enabled, StateOf
<1>. QED
  BY <1>1, <1>2 DEF Carried, Lapsed, Remembered

\* A site that a step leaves in another state than "connected", or not enabled.
LEMMA RememberedElse ==
  ASSUME NEW s \in Site, Remembered(s)',
         ~Enabled(s)' \/ mem'[s].state # "connected"
  PROVE  Carried(s)
BY DEF Carried, Lapsed, StateOf

\* A restart of s, s itself being listed, or remembered like any other site.
LEMMA RestartRemembers ==
  ASSUME TypeOK, NEW s \in Site, NEW fails \in [Site -> Nat],
         NEW ws \in [Worker -> WorkerRec \cup {None}], Restart(s, fails, ws), UNCHANGED doc,
         NEW x \in Site,
         x # s => /\ Remembered(x) /\ pending'[x] = pending[x]
                  /\ \A w \in Worker : Keeps(worker[w], x) => Keeps(ws[w], x)
  PROVE  Carried(x)
<1>1. PICK t, h : /\ t \in RestartTargets(s) /\ h \in FreeWorkers
                  /\ worker' = [ws EXCEPT ![h] = NewWorker(t, doc[t], mem[t])]
                  /\ mem' = [mem EXCEPT ![t] = SetState(@, "starting", fails[t], None)]
  BY DEF Restart
<1>2. /\ t \in Site /\ h \in Worker /\ worker[h] = None /\ doc[t] \in Entry
      /\ doc[s] # None => t = s
  BY <1>1 DEF RestartTargets, FreeWorkers, TypeOK
<1>3. CASE doc[x] = None
  BY <1>3, RememberedElse DEF Remembered, Enabled
<1>4. CASE x = t
  <2>1. mem'[t] \in Rec /\ mem'[t].state = "starting"
    <3>1. mem'[t] = SetState(mem[t], "starting", fails[t], None)
      BY <1>1, <1>2 DEF TypeOK
    <3>2. SetState(mem[t], "starting", fails[t], None) \in Rec
      BY <1>2, SetStateType DEF TypeOK, States
    <3>. QED
      BY <3>1, <3>2 DEF SetState
  <2>2. Keeps(NewWorker(t, doc[t], mem[t]), t)
    BY <1>2, NewKeeps DEF TypeOK
  <2>3. worker'[h] = NewWorker(t, doc[t], mem[t])
    BY <1>1, <1>2
  <2>4. Keeps(worker'[h], t)
    BY <2>2, <2>3
  <2>5. Kept(t)'
    BY <1>2, <2>4 DEF Kept, Keeps
  <2>. QED
    BY <1>4, <2>1, <2>5, NoRecAssumption, RememberedElse DEF Remembered
<1>5. CASE x # t /\ doc[x] # None
  <2>1. x # s /\ mem'[x] = mem[x]
    BY <1>1, <1>2, <1>5 DEF TypeOK
  <2>2. ASSUME NEW w \in Worker, Keeps(worker[w], x)
        PROVE  Keeps(worker'[w], x)
    <3>1. w # h
      BY <1>2, <2>2 DEF Keeps
    <3>2. worker'[w] = ws[w]
      BY <1>1, <3>1
    <3>. QED
      BY <2>1, <2>2, <3>2
  <2>. QED
    BY <2>1, <2>2, RememberedOn
<1>. QED
  BY <1>3, <1>4, <1>5

LEMMA RequestRestartRemembers ==
  ASSUME TypeOK, NEW s \in Site, NEW fails \in [Site -> Nat],
         NEW ws \in [Worker -> WorkerRec \cup {None}], RequestRestart(s, fails, ws),
         UNCHANGED doc, NEW x \in Site,
         x # s => /\ Remembered(x)
                  /\ \A w \in Worker : Keeps(worker[w], x) => Keeps(ws[w], x)
  PROVE  Carried(x)
<1>1. CASE Restart(s, fails, ws) /\ UNCHANGED waits
  BY <1>1, RestartRemembers DEF waits
<1>2. CASE ScheduleRestart(s, fails, HasDnsName(s)) /\ worker' = ws
  <2>1. /\ pending' = [pending EXCEPT ![s] = TRUE]
        /\ mem' = [mem EXCEPT ![s] = SetState(@, "down", fails[s], None)]
    BY <1>2 DEF ScheduleRestart
  <2>2. CASE x = s
    <3>1. mem'[s] = SetState(mem[s], "down", fails[s], None) /\ pending'[s]
      BY <2>1 DEF TypeOK
    <3>2. SetState(mem[s], "down", fails[s], None) \in Rec
      BY SetStateType DEF TypeOK, States
    <3>3. SetState(mem[s], "down", fails[s], None).state = "down"
      BY DEF SetState
    <3>. QED
      BY <2>2, <3>1, <3>2, <3>3, NoRecAssumption, RememberedElse DEF Remembered
  <2>3. CASE x # s
    <3>1. mem'[x] = mem[x] /\ pending'[x] = pending[x]
      BY <2>1, <2>3 DEF TypeOK
    <3>. QED
      BY <1>2, <2>3, <3>1, RememberedOn
  <2>. QED
    BY <2>2, <2>3
<1>. QED
  BY <1>1, <1>2 DEF RequestRestart

\* A taken report concerns the site of its worker only.
LEMMA HeardKeeps ==
  ASSUME TypeOK, NEW w \in Worker, NEW r, Says(w, r), r # "exit",
         NEW x \in Site, x # worker[w].site, NEW v \in Worker, Keeps(worker[v], x)
  PROVE  Keeps(Heard(w)[v], x)
BY HeardMoved DEF Keeps

\* What is left of an outbox once "connected" is taken: an ending that was in it, and
\* of a worker that was not told to exit the worker itself or its ending.
LEMMA ConnectedTaken ==
  ASSUME TypeOK, Outboxed, NEW w \in Worker, Says(w, "connected")
  PROVE  /\ \A v \in Worker, x \in Site : Keeps(worker[v], x) => Keeps(Heard(w)[v], x)
         /\ ~worker[w].told => Keeps(Heard(w)[w], worker[w].site)
<1>. DEFINE u == [worker[w] EXCEPT !.outbox = Tail(@)]
<1>0. "connected" \in Reports /\ "exit" \in Reports /\ Endings \subseteq Reports
      /\ "connected" \notin Endings /\ "connected" # "exit" /\ "exit" \notin Endings
  BY DEF Reports, Endings, Reasons
<1>. PICK any \in Endings : TRUE
  BY DEF Endings
<1>1. /\ worker[w] \in WorkerRec /\ OutboxShape(worker[w])
      /\ worker[w].outbox # <<>> /\ Head(worker[w].outbox) = "connected"
  BY SpeakerType DEF Outboxed, Says
<1>2. /\ Heard(w)[w] = u /\ Heard(w)[w] # None
      /\ \A v \in Worker : v # w => Heard(w)[v] = worker[v]
  BY <1>0, HeardMoved, NoWorkerAssumption, <1>1, HeardType DEF Says, WorkerRec
<1>3. /\ u.site = worker[w].site /\ u.life = worker[w].life /\ u.told = worker[w].told
      /\ u.outbox = Tail(worker[w].outbox)
  BY <1>1 DEF WorkerRec
<1>4. \/ worker[w].life # "ended" /\ worker[w].outbox = <<"connected">>
      \/ worker[w].told /\ worker[w].outbox = <<"connected", "exit">>
      \/ \E e \in Endings : worker[w].outbox = <<"connected", e, "exit">>
  <2>1. worker[w].outbox # <<"exit">>
    BY <1>0, <1>1, OutboxContents
  <2>2. \A e \in Endings : worker[w].outbox # <<e, "exit">>
    BY <1>0, <1>1, OutboxContents
  <2>. QED
    BY <1>1, <2>1, <2>2 DEF OutboxShape, WorkerRec, Lives
<1>5. CASE worker[w].life # "ended" /\ worker[w].outbox = <<"connected">>
  <2>1. Range(<<"connected">>) = {"connected"}
    BY OutboxContents
  <2>2. Range(worker[w].outbox) \cap Endings = {}
    BY <1>0, <1>5, <2>1
  <2>. QED
    BY <1>2, <1>3, <1>5, <2>2 DEF Keeps
<1>6. CASE worker[w].told /\ worker[w].outbox = <<"connected", "exit">>
  <2>1. Range(<<"connected", "exit">>) = {"connected", "exit"}
    BY OutboxContents
  <2>2. Range(worker[w].outbox) \cap Endings = {}
    BY <1>0, <1>6, <2>1
  <2>. QED
    BY <1>2, <1>3, <1>6, <2>2 DEF Keeps
<1>7. ASSUME NEW e \in Endings, worker[w].outbox = <<"connected", e, "exit">>
      PROVE  /\ \A v \in Worker, x \in Site : Keeps(worker[v], x) => Keeps(Heard(w)[v], x)
             /\ Keeps(Heard(w)[w], worker[w].site)
  <2>1. u.outbox = <<e, "exit">>
    BY <1>3, <1>7, Outboxes
  <2>2. Range(u.outbox) \cap Endings # {}
    BY <2>1, OutboxContents
  <2>. QED
    BY <1>2, <1>3, <2>2 DEF Keeps
<1>. QED
  BY <1>4, <1>5, <1>6, <1>7

\* A "connected" leaves its site without timer and keepers only if it overwrites a
\* hold, and then the worker that says it was told to exit.
LEMMA ConnectedRemembers ==
  ASSUME TypeOK, Outboxed, NEW x \in Site, Remembered(x),
         NEW w \in Worker, HandleConnected(w)
  PROVE  Remembered(x)' /\ (Lapsed(x)' => Lapsed(x) \/ HoldOverwritten(x))
<1>1. /\ Says(w, "connected") /\ worker' = Heard(w)
      /\ UNCHANGED <<doc, pending>>
      /\ mem' = [mem EXCEPT ![worker[w].site] = SetState(@, "connected", 0, None)]
  BY DEF HandleConnected, waits
<1>. PICK s \in Site : s = worker[w].site
  BY <1>1, SpeakerType
<1>2. CASE x # s
  <2>1. mem'[x] = mem[x]
    BY <1>1, <1>2 DEF TypeOK
  <2>. QED
    BY <1>1, <1>2, <2>1, ConnectedTaken, RememberedOn DEF Carried
<1>3. CASE x = s
  <2>1. mem'[x] = SetState(mem[x], "connected", 0, None)
    BY <1>1, <1>3 DEF TypeOK
  <2>2. mem'[x] \in Rec /\ mem'[x].state = "connected"
    <3>1. SetState(mem[x], "connected", 0, None) \in Rec
      BY SetStateType DEF TypeOK, States
    <3>. QED
      BY <2>1, <3>1 DEF SetState
  <2>3. Remembered(x)'
    BY <2>2, NoRecAssumption DEF Remembered
  <2>4. ASSUME Lapsed(x)'
        PROVE  Lapsed(x) \/ HoldOverwritten(x)
    <3>1. Enabled(x) /\ ~pending[x] /\ \A v \in Worker : ~Keeps(worker'[v], x)
      BY <1>1, <2>4 DEF Lapsed, Enabled, Kept, Keeps
    <3>2. ~Kept(x) /\ worker[w].told
      BY <1>1, <1>3, <3>1, ConnectedTaken DEF Kept
    <3>3. CASE IsHeld(x)
      <4>1. worker'[w] # None /\ worker'[w].outbox = Tail(worker[w].outbox)
        <5>1. worker[w] \in WorkerRec /\ Heard(w)[w] = [worker[w] EXCEPT !.outbox = Tail(@)]
          BY <1>1, SpeakerType, HeardMoved
        <5>2. Heard(w)[w] # None
          BY <1>1, HeardMoved, HeardType, SpeakerType, NoWorkerAssumption
        <5>. QED
          BY <1>1, <5>1, <5>2 DEF WorkerRec
      <4>2. Takes(w, "connected")
        BY <1>1, <4>1 DEF Takes
      <4>. QED
        BY <1>3, <3>2, <3>3, <4>2 DEF HoldOverwritten
    <3>4. CASE ~IsHeld(x)
      <4>1. mem[x] \in Rec /\ mem[x].state = "connected"
        BY <3>1, <3>2, <3>4 DEF Remembered, IsHeld, TypeOK, Rec, States
      <4>. QED
        BY <3>1, <3>2, <4>1, NoRecAssumption DEF Lapsed, StateOf
    <3>. QED
      BY <3>3, <3>4
  <2>. QED
    BY <2>3, <2>4
<1>. QED
  BY <1>2, <1>3

LEMMA HandleReportRemembers ==
  ASSUME TypeOK, Outboxed, NEW x \in Site, Remembered(x),
         NEW w \in Worker, HandleReport(w), ~HandleConnected(w), phase' = "up"
  PROVE  Carried(x)
<1>. DEFINE s == worker[w].site
<1>1. CASE HandleStopped(w)
  <2>1. PICK r \in Reasons :
          /\ Says(w, r)
          /\ mem' = [mem EXCEPT ![s] =
                       SetState(@, HoldState(r), failures[s],
                                IF doc[s] = None THEN None ELSE Fingerprint(doc[s]))]
    BY <1>1 DEF HandleStopped
  <2>2. s \in Site /\ r # "exit" /\ worker' = Heard(w) /\ UNCHANGED doc
    BY <1>1, <2>1, SpeakerType DEF HandleStopped, Reasons
  <2>3. CASE x = s
    <3>1. (IF doc[x] = None THEN None ELSE Fingerprint(doc[x])) \in Prints \cup {None}
      BY DEF TypeOK, Fingerprint, Prints, Entry
    <3>2. HoldState(r) \in States \ {"disabled", "down", "starting", "connected"}
      BY DEF HoldState, States, Held, Reasons
    <3>3. mem'[x] = SetState(mem[x], HoldState(r), failures[x],
                             IF doc[x] = None THEN None ELSE Fingerprint(doc[x]))
      BY <2>1, <2>3 DEF TypeOK
    <3>. DEFINE p == IF doc[x] = None THEN None ELSE Fingerprint(doc[x])
    <3>4. failures[x] \in Nat /\ mem[x] \in Rec \cup {None}
      BY DEF TypeOK
    <3>. HIDE DEF p
    <3>5. SetState(mem[x], HoldState(r), failures[x], p) \in Rec
      BY <3>1, <3>2, <3>4, SetStateType DEF p
    <3>6. mem'[x] \in Rec /\ mem'[x].state = HoldState(r)
      BY <3>3, <3>5 DEF SetState, p
    <3>. QED
      BY <3>2, <3>6, NoRecAssumption, RememberedElse DEF Remembered
  <2>4. CASE x # s
    <3>1. mem'[x] = mem[x] /\ pending'[x] = pending[x]
      BY <1>1, <2>1, <2>4 DEF HandleStopped, CancelPending, TypeOK
    <3>. QED
      BY <2>1, <2>2, <2>4, <3>1, HeardKeeps, RememberedOn
  <2>. QED
    BY <2>3, <2>4
<1>2. CASE HandleTimeout(w) \/ HandleError(w)
  <2>1. /\ UNCHANGED doc
        /\ \E r : r # "exit" /\ Says(w, r)
        /\ \E fails : RequestRestart(s, fails, Heard(w)) /\ failures' = fails
    BY <1>2 DEF HandleTimeout, HandleError, RequestRestart
  <2>2. s \in Site /\ Heard(w) \in [Worker -> WorkerRec \cup {None}]
    BY <2>1, SpeakerType, HeardMoved
  <2>3. failures' \in [Site -> Nat]
    BY HandleReportType DEF TypeOK
  <2>4. x # s => \A v \in Worker : Keeps(worker[v], x) => Keeps(Heard(w)[v], x)
    BY <2>1, HeardKeeps
  <2>. HIDE DEF s
  <2>. QED
    BY <2>1, <2>2, <2>3, <2>4, RequestRestartRemembers
<1>3. CASE HandleExit(w)
  <2>1. Says(w, "exit") /\ worker' = [worker EXCEPT ![w] = None] /\ UNCHANGED <<doc, mem, pending>>
    BY <1>3 DEF HandleExit, ProcessEnds, waits, file
  <2>2. \A v \in Worker : Keeps(worker[v], x) => Keeps(worker'[v], x)
    <3>1. ~Keeps(worker[w], x)
      BY <2>1, ExitKeepsNone
    <3>2. \A v \in Worker : v # w => worker'[v] = worker[v]
      BY <2>1 DEF TypeOK
    <3>. QED
      BY <3>1, <3>2
  <2>. QED
    BY <2>1, <2>2, RememberedOn
<1>. QED
  BY <1>1, <1>2, <1>3 DEF HandleReport

LEMMA WorkerStepRemembers ==
  ASSUME TypeOK, Outboxed, NEW x \in Site, Remembered(x), NEW w \in Worker, WorkerStep(w)
  PROVE  Carried(x)
<1>1. PICK u : /\ WorkerDoes(w, u)
               /\ worker[w] # None /\ worker[w].life # "ended"
               /\ \/ worker[w].life # "connected" /\ u = Up(worker[w])
                  \/ worker[w].life = "connected" /\ u = Down(worker[w])
                  \/ \E e \in Endings : u = Ended(worker[w], e)
                  \/ worker[w].told /\ u = Obeyed(worker[w])
  <2>1. \A e \in Faults : e \in Endings
    BY ConstantsAssumption DEF Endings, Reasons
  <2>. QED
    BY <2>1 DEF WorkerStep, LinkUp, LinkDown, End, Obey, Working, Threads
<1>2. worker[w] \in WorkerRec /\ OutboxShape(worker[w])
  BY <1>1 DEF TypeOK, Outboxed, Threads
<1>3. \A v \in Worker : worker'[v] = IF v = w THEN u ELSE worker[v]
  BY <1>1 DEF WorkerDoes, TypeOK
<1>4. worker'[w] # None
  BY <1>1, <1>2, <1>3, StepType, NoWorkerAssumption
<1>5. ASSUME NEW v \in Worker, Keeps(worker[v], x)
      PROVE  Keeps(worker'[v], x)
  <2>1. CASE v = w
    BY <1>1, <1>2, <1>3, <1>4, <1>5, <2>1, StepKeeps DEF Keeps
  <2>. QED
    BY <1>3, <1>5, <2>1
<1>. QED
  BY <1>5, WorkerStepMoves, RememberedOn

LEMMA SiteStepRemembers ==
  ASSUME TypeOK, HandlesRight, NEW x \in Site, Remembered(x), NEW s \in Site,
         TimerFires(s) \/ DnsChanges(s) \/ Kpipe(s) \/ Quiet(s) \/ WeekPasses(s)
  PROVE  Carried(x)
<1>. USE DEF file, counts, waits
<1>0. worker \in [Worker -> WorkerRec \cup {None}] /\ failures \in [Site -> Nat]
  BY DEF TypeOK
<1>1. CASE TimerFires(s) \/ DnsChanges(s) \/ Kpipe(s)
  <2>1. /\ UNCHANGED doc /\ (x # s => pending'[x] = pending[x])
        /\ failures' \in [Site -> Nat]
    <3>1. UNCHANGED doc /\ CancelPending(s)
      BY <1>1 DEF TimerFires, DnsChanges, Kpipe
    <3>2. TypeOK'
      BY <1>1, SiteStepType
    <3>. QED
      BY <3>1, <3>2 DEF CancelPending, TypeOK
  <2>2. CASE \E fails \in [Site -> Nat] : Restart(s, fails, worker)
    BY <1>0, <2>1, <2>2, RestartRemembers
  <2>3. CASE Kpipe(s)
    <3>1. PICK ws \in [Worker -> WorkerRec \cup {None}] :
            /\ ws = [w \in Worker |-> IF w \in {handle[s]} \cap Threads
                                      THEN [worker[w] EXCEPT !.told = TRUE] ELSE worker[w]]
            /\ Restart(s, failures, ws)
      BY <2>3, KpipeTells
    <3>2. ASSUME x # s, NEW w \in Worker, Keeps(worker[w], x)
          PROVE  Keeps(ws[w], x)
      <4>1. w # handle[s] \/ w \notin Threads
        BY <3>2 DEF HandlesRight, Keeps
      <4>2. ws[w] = worker[w]
        BY <3>1, <4>1
      <4>. QED
        BY <3>2, <4>2
    <3>. QED
      BY <1>0, <2>1, <3>1, <3>2, RestartRemembers
  <2>4. CASE TimerFires(s) /\ ~Enabled(s) /\ UNCHANGED worker
    <3>1. mem' = [mem EXCEPT ![s] = SetState(@, "disabled", failures[s], None)]
      BY <2>4 DEF TimerFires
    <3>2. CASE x = s
      BY <2>1, <2>4, <3>2, RememberedElse DEF Remembered, Enabled
    <3>3. CASE x # s
      BY <2>1, <2>4, <3>1, <3>3, RememberedOn DEF TypeOK
    <3>. QED
      BY <3>2, <3>3
  <2>5. CASE DnsChanges(s) /\ ~pending[s] /\ UNCHANGED <<mem, worker>>
    BY <2>1, <2>5, RememberedOn
  <2>. QED
    BY <1>0, <1>1, <2>1, <2>2, <2>3, <2>4, <2>5 DEF TimerFires, DnsChanges
<1>2. CASE Quiet(s)
  BY <1>2, RememberedOn DEF Quiet
<1>3. CASE WeekPasses(s)
  <2>1. UNCHANGED <<doc, worker, pending>> /\ mem' = [mem EXCEPT ![s] = Aged(@)]
    BY <1>3 DEF WeekPasses
  <2>2. mem[x] # None => mem'[x] # None /\ mem'[x].state = mem[x].state
    BY <2>1, NoRecAssumption DEF TypeOK, Aged, Rec, Ages
  <2>3. mem[x] = None => mem'[x] = None
    BY <2>1 DEF TypeOK, Aged
  <2>4. (Kept(x)' <=> Kept(x)) /\ StateOf(x)' = StateOf(x)
    BY <2>1, <2>2, <2>3 DEF Kept, Keeps, StateOf
  <2>. QED
    BY <2>1, <2>2, <2>4 DEF Remembered, Enabled, Carried, Lapsed
<1>. QED
  BY <1>1, <1>2, <1>3

LEMMA ReloadRemembers ==
  ASSUME TypeOK, HandlesRight, NEW x \in Site, Remembered(x),
         NEW new \in Docs, NEW soft \in SUBSET Site, Reload(new, soft)
  PROVE  Carried(x)
<1>1. PICK starts, idle, dismissed, hire : Reloaded(new, starts, idle, dismissed, hire)
  BY ReloadDoes
<1>2. doc' = new
  BY DEF Reload
<1>3. CASE x \in starts
  <2>1. mem'[x] # None /\ mem'[x].state = "starting"
    BY <1>1, <1>3 DEF Reloaded
  <2>2. hire \in Injection(starts, FreeWorkers) /\ worker' = Staff(new, hire, dismissed)
    BY <1>1 DEF Reloaded
  <2>3. hire[x] \in Worker /\ hire[x] \in Range(hire) /\ HiredFor(hire, hire[x]) = x
    BY <1>3, <2>2, HiredOnce DEF FreeWorkers
  <2>4. worker'[hire[x]] = NewWorker(x, new[x], mem[x])
    BY <2>2, <2>3 DEF Staff
  <2>5. Enabled(x)' => Keeps(worker'[hire[x]], x)
    <3>1. Enabled(x)' => new[x] \in Entry
      BY <1>2 DEF Enabled, Docs
    <3>. QED
      BY <2>4, <3>1, NewKeeps DEF TypeOK
  <2>. QED
    BY <2>1, <2>3, <2>5, RememberedElse DEF Remembered, Kept, Keeps
<1>4. CASE x \in idle \/ new[x] = None
  BY <1>1, <1>2, <1>4, RememberedElse DEF Reloaded, Remembered, Enabled
<1>5. CASE x \notin starts \cup idle /\ new[x] # None
  <2>1. doc[x] = new[x] /\ mem'[x] = mem[x] /\ pending'[x] = pending[x]
    BY <1>1, <1>5 DEF Reloaded
  <2>2. ASSUME NEW w \in Worker, Keeps(worker[w], x)
        PROVE  Keeps(worker'[w], x)
    <3>1. w \notin Range(hire)
      BY <1>1, <2>2, HireIsFree DEF Reloaded, FreeWorkers, Keeps
    <3>2. w \notin dismissed
      BY <1>1, <1>5, <2>2 DEF Reloaded, HandlesRight, Keeps
    <3>3. worker'[w] = worker[w]
      BY <1>1, <3>1, <3>2 DEF Reloaded, Staff
    <3>. QED
      BY <2>2, <3>3
  <2>. QED
    BY <1>2, <2>1, <2>2, RememberedOn
<1>. QED
  BY <1>3, <1>4, <1>5

\* How the first run leaves a site: blocked as the file has it, waiting, started
\* with a worker of its own, or disabled.
NoneAt(s) == \A w \in Worker : worker[w] # None => worker[w].site # s

\* s is in a state the file did not have it in, its last connection kept
Noted(s, state) ==
  /\ mem'[s] \in Rec
  /\ mem'[s].state = state
  /\ LastConnected(mem'[s]) = LastConnected(disk.sites[s])
  /\ pending'[s] <=> state = "down"

Booted(d, s) ==
  \/ d[s] = None /\ mem'[s] = None /\ ~pending'[s] /\ NoneAt(s)'
  \/ s \in BlockedIn(d) /\ mem'[s] = disk.sites[s] /\ ~pending'[s] /\ NoneAt(s)'
  \/ s \in EnabledIn(d) \ BlockedIn(d) /\ Noted(s, "down") /\ NoneAt(s)'
  \/ /\ s \in EnabledIn(d) \ BlockedIn(d) /\ Noted(s, "starting")
     /\ \E h \in Worker :
          /\ worker'[h] = NewWorker(s, d[s], disk.sites[s])
          /\ \A w \in Worker \ {h} : worker'[w] # None => worker'[w].site # s
  \/ d[s] # None /\ ~d[s].enabled /\ Noted(s, "disabled") /\ NoneAt(s)'

LEMMA BootDoes ==
  ASSUME TypeOK, NEW d \in Docs, Boot(d), NEW s \in Site
  PROVE  Booted(d, s)
<1>1. PICK waiting, watched, hire :
        /\ waiting \in SUBSET BackoffIn(d)
        /\ hire \in Injection(EnabledIn(d) \ (BlockedIn(d) \cup waiting), Worker)
        /\ FirstRun(d, waiting, watched, hire)
  BY DEF Boot
<1>. DEFINE S == EnabledIn(d) \ (BlockedIn(d) \cup waiting)
            state == IF s \in S THEN "starting"
                     ELSE IF s \in waiting THEN "down" ELSE "disabled"
<1>2. DOMAIN hire = S /\ waiting \subseteq EnabledIn(d) \ BlockedIn(d)
  BY <1>1 DEF Injection, BackoffIn
<1>3. /\ pending'[s] = (s \in waiting)
      /\ worker' = [w \in Worker |->
           IF w \notin Range(hire) THEN None
           ELSE NewWorker(HiredFor(hire, w), d[HiredFor(hire, w)],
                          disk.sites[HiredFor(hire, w)])]
      /\ mem'[s] = IF d[s] = None THEN None
                   ELSE IF s \in BlockedIn(d) THEN disk.sites[s]
                   ELSE SetState(disk.sites[s], state, KeptFailures(d)[s], None)
  BY <1>1, <1>2 DEF FirstRun
<1>4. ASSUME d[s] # None, s \notin BlockedIn(d)
      PROVE  Noted(s, state)
  <2>. HIDE DEF state
  <2>1. state \in {"starting", "down", "disabled"}
    BY DEF state
  <2>2. KeptFailures(d)[s] \in Nat /\ disk.sites[s] \in Rec \cup {None}
    BY BootType DEF Boot, TypeOK, KeptFailures, Rec
  <2>3. SetState(disk.sites[s], state, KeptFailures(d)[s], None) \in Rec
    BY <2>1, <2>2, SetStateType DEF States
  <2>4. mem'[s] = SetState(disk.sites[s], state, KeptFailures(d)[s], None)
    BY <1>3, <1>4
  <2>5. mem'[s].state = state /\ mem'[s].last = LastConnected(disk.sites[s])
    BY <2>1, <2>4 DEF SetState
  <2>6. s \in waiting <=> state = "down"
    BY <1>2 DEF state
  <2>. QED
    BY <1>3, <2>3, <2>4, <2>5, <2>6, NoRecAssumption DEF Noted, LastConnected
<1>5. \A w \in Worker : worker'[w] # None =>
        /\ w \in Range(hire) /\ HiredFor(hire, w) \in S
        /\ worker'[w].site = HiredFor(hire, w)
  BY <1>1, <1>3, HiredType DEF NewWorker
<1>. HIDE DEF state
<1>6. CASE s \in S
  <2>1. hire[s] \in Worker /\ hire[s] \in Range(hire) /\ HiredFor(hire, hire[s]) = s
    BY <1>1, <1>6, HiredOnce
  <2>2. worker'[hire[s]] = NewWorker(s, d[s], disk.sites[s])
    BY <1>3, <2>1
  <2>3. ASSUME NEW w \in Worker \ {hire[s]}, worker'[w] # None
        PROVE  worker'[w].site # s
    <3>1. \E a \in DOMAIN hire : hire[a] = w
      BY <1>5, <2>3 DEF Range
    <3>2. hire[HiredFor(hire, w)] = w
      BY <3>1 DEF HiredFor
    <3>. QED
      BY <1>5, <2>3, <3>2
  <2>4. d[s] # None /\ s \in EnabledIn(d) \ BlockedIn(d) /\ state = "starting"
    BY <1>6 DEF EnabledIn, state
  <2>5. Noted(s, "starting")
    BY <1>4, <2>4
  <2>. QED
    BY <2>1, <2>2, <2>3, <2>4, <2>5 DEF Booted
<1>7. CASE s \notin S
  <2>1. NoneAt(s)'
    BY <1>5, <1>7 DEF NoneAt
  <2>2. CASE d[s] = None
    <3>1. s \notin waiting
      BY <1>2, <2>2 DEF EnabledIn
    <3>. QED
      BY <1>3, <2>1, <2>2, <3>1 DEF Booted
  <2>3. CASE s \in BlockedIn(d)
    <3>1. d[s] # None /\ s \notin waiting
      BY <1>2, <2>3 DEF BlockedIn, EnabledIn
    <3>. QED
      BY <1>3, <2>1, <2>3, <3>1 DEF Booted
  <2>4. CASE s \in waiting
    <3>1. d[s] # None /\ s \in EnabledIn(d) \ BlockedIn(d)
      BY <1>2, <2>4 DEF EnabledIn
    <3>2. Noted(s, "down")
      BY <1>4, <1>7, <2>4, <3>1 DEF state
    <3>. QED
      BY <2>1, <3>1, <3>2 DEF Booted
  <2>5. CASE d[s] # None /\ s \notin BlockedIn(d) /\ s \notin waiting
    <3>1. ~d[s].enabled
      BY <1>7, <2>5 DEF EnabledIn, Docs, Entry
    <3>2. Noted(s, "disabled")
      BY <1>4, <1>7, <2>5 DEF state
    <3>. QED
      BY <2>1, <2>5, <3>1, <3>2 DEF Booted
  <2>. QED
    BY <2>2, <2>3, <2>4, <2>5
<1>. QED
  BY <1>6, <1>7

LEMMA BootRemembers ==
  ASSUME TypeOK, NEW x \in Site, NEW d \in Docs, Boot(d)
  PROVE  Remembered(x)' /\ ~Lapsed(x)'
<1>1. doc' = d /\ Booted(d, x)
  BY BootDoes DEF Boot
<1>2. CASE d[x] = None \/ ~d[x].enabled
  BY <1>1, <1>2 DEF Remembered, Lapsed, Enabled
<1>3. CASE x \in BlockedIn(d) /\ mem'[x] = disk.sites[x]
  BY <1>3 DEF Remembered, Lapsed, StateOf, BlockedIn, StillBlocked, Held
<1>4. CASE Noted(x, "down")
  BY <1>4, NoRecAssumption DEF Remembered, Lapsed, StateOf, Noted
<1>5. ASSUME Noted(x, "starting"), x \in EnabledIn(d), NEW h \in Worker,
             worker'[h] = NewWorker(x, d[x], disk.sites[x])
      PROVE  Remembered(x)' /\ ~Lapsed(x)'
  <2>1. Keeps(worker'[h], x)
    <3>1. d[x] \in Entry /\ disk.sites[x] \in Rec \cup {None}
      BY <1>5 DEF EnabledIn, Docs, TypeOK
    <3>. QED
      BY <1>5, <3>1, NewKeeps
  <2>2. Kept(x)'
    BY <2>1 DEF Kept, Keeps
  <2>. QED
    BY <1>5, <2>2, NoRecAssumption DEF Remembered, Lapsed, StateOf, Noted
<1>. QED
  BY <1>1, <1>2, <1>3, <1>4, <1>5 DEF Booted

LEMMA ForgottenStep ==
  ASSUME TypeOK, Idle, Outboxed, HandlesRight, AllRemembered, Next, phase' = "up",
         NEW x \in Site
  PROVE  /\ Remembered(x)'
         /\ Lapsed(x)' => phase = "up" /\ (Lapsed(x) \/ HoldOverwritten(x))
<1>1. ASSUME NEW d \in Docs, Boot(d)
      PROVE  Remembered(x)' /\ ~Lapsed(x)'
  BY <1>1, BootRemembers
<1>2. CASE phase # "up"
  <2>1. \E d \in Docs : Boot(d)
    <3>. USE DEF file, counts, waits
    <3>1. ASSUME NEW w \in Worker, WorkerStep(w) \/ HandleReport(w)
          PROVE  FALSE
      BY <1>2, <3>1 DEF WorkerStep, LinkUp, LinkDown, End, Obey, WorkerDoes, HandleReport,
         HandleConnected, HandleTimeout, HandleError, HandleStopped, HandleExit, ProcessEnds
    <3>2. ASSUME NEW s \in Site, TimerFires(s) \/ DnsChanges(s) \/ Kpipe(s) \/ Quiet(s)
                                 \/ WeekPasses(s)
          PROVE  FALSE
      BY <1>2, <3>2 DEF TimerFires, DnsChanges, Kpipe, Quiet, WeekPasses
    <3>3. ASSUME NEW new \in Docs, NEW soft \in SUBSET Site, Reload(new, soft)
          PROVE  FALSE
      BY <1>2, <3>3 DEF Reload
    <3>4. ~(SaveFires \/ Signal \/ StopTimeout \/ Crash)
      BY <1>2 DEF SaveFires, Signal, StopTimeout, Crash, ProcessEnds
    <3>. QED
      BY <3>1, <3>2, <3>3, <3>4 DEF Next
  <2>. QED
    BY <1>1, <2>1
<1>3. CASE phase = "up"
  <2>1. Remembered(x)
    BY <1>3 DEF AllRemembered
  <2>2. ASSUME SaveFires \/ Signal \/ StopTimeout \/ Crash
        PROVE  Carried(x)
    <3>1. UNCHANGED <<doc, mem, pending, worker>>
      BY <2>2 DEF SaveFires, Signal, StopTimeout, Crash, ProcessEnds, waits
    <3>. QED
      BY <2>1, <3>1, RememberedOn
  <2>3. ASSUME NEW w \in Worker, HandleReport(w)
        PROVE  Remembered(x)' /\ (Lapsed(x)' => Lapsed(x) \/ HoldOverwritten(x))
    BY <2>1, <2>3, ConnectedRemembers, HandleReportRemembers DEF Carried
  <2>. QED
    BY <1>1, <1>3, <2>1, <2>2, <2>3, WorkerStepRemembers, SiteStepRemembers,
       ReloadRemembers DEF Next, Carried
<1>. QED
  BY <1>2, <1>3

\* The inductive invariant: outboxes in their shape, the worker an entry names of its
\* site, and records that keep what they promise.
LEMMA RememberedInvariant ==
  Spec => [](TypeOK /\ Idle /\ Outboxed /\ HandlesRight /\ AllRemembered)
<1>1. Init => Idle /\ Outboxed /\ HandlesRight /\ AllRemembered
  BY ConstantsAssumption DEF Init, Idle, Outboxed, HandlesRight, AllRemembered, Threads
<1>2. TypeOK /\ Idle /\ Outboxed /\ HandlesRight /\ AllRemembered /\ [Next]_vars =>
        (Idle /\ Outboxed /\ HandlesRight /\ AllRemembered)'
  <2>1. TypeOK /\ Idle /\ Outboxed /\ HandlesRight /\ AllRemembered /\ Next =>
          (Idle /\ Outboxed /\ HandlesRight /\ AllRemembered)'
    BY IdleStep, OutboxStep, HandlesStep, ForgottenStep DEF AllRemembered
  <2>2. UNCHANGED vars => UNCHANGED <<phase, doc, handle, pending, mem, worker>>
    BY DEF vars, waits, file
  <2>3. Idle /\ Outboxed /\ HandlesRight /\ AllRemembered /\ UNCHANGED vars =>
          (Idle /\ Outboxed /\ HandlesRight /\ AllRemembered)'
    BY <2>2 DEF Idle, Outboxed, HandlesRight, AllRemembered, Remembered, Enabled, Kept, Threads
  <2>. QED
    BY <2>1, <2>3
<1>. QED
  BY TypeCorrect, <1>1, <1>2, PTL DEF Spec

\* The keepers of the proof are those of the property.
LEMMA TendedKept ==
  ASSUME NEW s
  PROVE  Tended(s) <=> Kept(s)
BY DEF Tended, Kept, Keeps, Keepers, Serves, Unreported, Working, Threads

LEMMA ForgottenLapsed ==
  ASSUME NEW s \in Site, phase = "up", Remembered(s)
  PROVE  Forgotten(s) <=> Lapsed(s)
BY TendedKept DEF Forgotten, Lapsed, KeepsPromise, Remembered, StateOf

\* Whatever reloads, kpipe lines, timers and late reports do, and with any sites,
\* workers and commands: an enabled site that is not held has a timer, a worker that
\* serves it or an ending still to be heard, as its record promises, until the late
\* "connected" of a worker told to exit overwrites a hold.  Nothing else makes a
\* site forgotten, and one that was forgotten stays recorded connected.
THEOREM NoSiteForgottenCorrect == Spec => NoSiteForgotten
<1>1. ASSUME TypeOK, Idle, Outboxed, HandlesRight, AllRemembered, Next, NEW s \in Site,
             Forgotten(s)'
      PROVE  HoldOverwritten(s) \/ (Forgotten(s) /\ StateOf(s)' = StateOf(s))
  <2>1. phase' = "up"
    BY <1>1 DEF Forgotten
  <2>2. /\ Remembered(s)'
        /\ Lapsed(s)' => phase = "up" /\ (Lapsed(s) \/ HoldOverwritten(s))
    BY <1>1, <2>1, ForgottenStep
  <2>3. Lapsed(s)'
    BY <1>1, <2>1, <2>2, TendedKept DEF Forgotten, Lapsed, KeepsPromise, Remembered, StateOf,
       Tended, Kept, Keeps, Keepers, Serves, Unreported, Working, Threads
  <2>4. CASE Lapsed(s)
    <3>1. phase = "up" /\ Remembered(s)
      BY <1>1, <2>2, <2>3 DEF AllRemembered
    <3>2. StateOf(s)' = StateOf(s)
      BY <2>3, <2>4 DEF Lapsed
    <3>. QED
      BY <2>4, <3>1, <3>2, ForgottenLapsed
  <2>. QED
    BY <2>2, <2>3, <2>4
<1>2. TypeOK /\ Idle /\ Outboxed /\ HandlesRight /\ AllRemembered /\ [Next]_vars =>
        [\A s \in Site :
           Forgotten(s)' => \/ HoldOverwritten(s)
                            \/ Forgotten(s) /\ StateOf(s)' = StateOf(s)]_vars
  BY <1>1
<1>. QED
  BY <1>2, RememberedInvariant, PTL DEF Spec, NoSiteForgotten

-----------------------------------------------------------------------------
(* Without reload and kpipe: every site is in one hand.                      *)

\* v is a worker of s with more to come than its exit
Speaks(v, s) == v # None /\ v.site = s /\ v.outbox # <<"exit">>

\* v may yet be heard to have found its gateway unreachable
Unsure(v) == (v.life = "starting" /\ v.precheck) \/ v.outbox = <<"unreachable", "exit">>

\* s is in the hands of one worker, of its timer, or of nobody; the file does not
\* hold it for its entry unless memory does too; and a worker that checks its
\* gateway belongs to a site without a recent connection
OneHand(s) ==
  /\ \A v, w \in Worker : Speaks(worker[v], s) /\ Speaks(worker[w], s) => v = w
  /\ \A w \in Worker : Speaks(worker[w], s) => StateOf(s) \in {"starting", "connected"}
  /\ phase = "up" /\ StateOf(s) \in {"starting", "connected"} =>
       \E w \in Worker : Speaks(worker[w], s)
  /\ pending[s] <=> StateOf(s) = "down"
  /\ StateOf(s) \in {"starting", "connected", "down"} => Enabled(s)
  /\ Enabled(s) /\ StillBlocked(disk.sites[s], Fingerprint(doc[s])) => IsHeld(s)
  /\ \A w \in Worker : Speaks(worker[w], s) /\ Unsure(worker[w]) => NeedsPrecheck(mem[s])

OneHanded == phase # "down" => \A s \in Site : OneHand(s)

NoneTold == phase = "up" => \A w \in Threads : ~worker[w].told

LEMMA NoCommands ==
  ASSUME MaxCommands = 0, TypeOK
  PROVE  /\ \A s \in Site : ~Kpipe(s)
         /\ \A new \in Docs : \A soft \in SUBSET Site : ~Reload(new, soft)
<1>1. ~(used.command < MaxCommands)
  BY DEF TypeOK
<1>. QED
  BY <1>1 DEF Kpipe, Reload

\* While ha-mon is up no worker is told to exit.
LEMMA NoneToldStep ==
  ASSUME MaxCommands = 0, TypeOK, Idle, NoneTold, Next
  PROVE  NoneTold'
<1>. USE DEF file, counts, waits
<1>1. SUFFICES ASSUME phase' = "up", NEW w \in Worker, worker'[w] # None
               PROVE  ~worker'[w].told
  BY DEF NoneTold, Threads
<1>2. ASSUME NEW s, NEW e, NEW r
      PROVE  ~NewWorker(s, e, r).told
  BY DEF NewWorker
<1>3. ASSUME NEW ws, NEW s \in Site, NEW fails, Restart(s, fails, ws),
             ws \in [Worker -> WorkerRec \cup {None}], ws[w] # None => ~ws[w].told
      PROVE  ~worker'[w].told
  BY <1>1, <1>2, <1>3 DEF Restart, FreeWorkers
<1>4. worker \in [Worker -> WorkerRec \cup {None}] /\ (worker[w] # None => worker[w] \in WorkerRec)
  BY DEF TypeOK
<1>5. phase = "up" /\ worker[w] # None => ~worker[w].told
  BY DEF NoneTold, Threads
<1>6. ASSUME NEW x \in Worker, WorkerStep(x)
      PROVE  ~worker'[w].told
  <2>1. MovedTo(worker') /\ phase = "up"
    BY <1>1, <1>6, WorkerStepMoves
  <2>2. PICK u : worker' = [worker EXCEPT ![x] = u] /\ worker[x] # None
                 /\ \/ u = Up(worker[x]) \/ u = Down(worker[x])
                    \/ (\E e : u = Ended(worker[x], e)) \/ u = Obeyed(worker[x])
    BY <1>6 DEF WorkerStep, LinkUp, LinkDown, End, Obey, WorkerDoes, Working, Threads
  <2>3. u.told = worker[x].told
    BY <2>2 DEF TypeOK, WorkerRec, Up, Down, Ended, Obeyed
  <2>. QED
    BY <1>1, <1>5, <2>1, <2>2, <2>3 DEF TypeOK
<1>7. ASSUME NEW x \in Worker, HandleReport(x)
      PROVE  ~worker'[w].told
  <2>0. phase = "up"
    BY <1>1, <1>7 DEF HandleReport, HandleConnected, HandleTimeout, HandleError,
       HandleStopped, HandleExit, ProcessEnds
  <2>1. ASSUME NEW r, r # "exit", Says(x, r), Heard(x)[w] # None
        PROVE  ~Heard(x)[w].told
    <3>1. worker[x] # None /\ worker[x] \in WorkerRec
      BY <2>1, SpeakerType DEF Says, Threads
    <3>2. Heard(x)[x].told = worker[x].told
      BY <2>1, <3>1, HeardMoved DEF WorkerRec
    <3>3. w # x => Heard(x)[w] = worker[w]
      BY <2>1, HeardMoved
    <3>. QED
      BY <1>5, <2>0, <2>1, <3>1, <3>2, <3>3
  <2>2. CASE HandleConnected(x) \/ HandleStopped(x)
    <3>1. worker' = Heard(x) /\ \E r : r # "exit" /\ Says(x, r)
      BY <2>2 DEF HandleConnected, HandleStopped, Reasons
    <3>. QED
      BY <1>1, <2>1, <3>1
  <2>3. CASE HandleTimeout(x) \/ HandleError(x)
    <3>1. /\ \E r : r # "exit" /\ Says(x, r)
          /\ \E fails : RequestRestart(worker[x].site, fails, Heard(x))
      BY <2>3 DEF HandleTimeout, HandleError
    <3>2. Heard(x) \in [Worker -> WorkerRec \cup {None}] /\ worker[x].site \in Site
      BY <3>1, HeardMoved, SpeakerType
    <3>. QED
      BY <1>1, <1>3, <2>1, <3>1, <3>2 DEF RequestRestart
  <2>4. CASE HandleExit(x)
    BY <1>1, <1>5, <2>0, <2>4 DEF HandleExit, ProcessEnds, TypeOK
  <2>. QED
    BY <1>7, <2>2, <2>3, <2>4 DEF HandleReport
<1>8. ASSUME NEW s \in Site, TimerFires(s) \/ DnsChanges(s)
      PROVE  ~worker'[w].told
  <2>1. phase = "up" /\ (UNCHANGED worker \/ \E fails : Restart(s, fails, worker))
    BY <1>1, <1>8 DEF TimerFires, DnsChanges
  <2>. QED
    BY <1>1, <1>3, <1>4, <1>5, <2>1
<1>9. ASSUME NEW s \in Site, Quiet(s) \/ WeekPasses(s)
      PROVE  ~worker'[w].told
  BY <1>1, <1>5, <1>9 DEF Quiet, WeekPasses
<1>10. ASSUME NEW d \in Docs, Boot(d)
       PROVE  ~worker'[w].told
  <2>1. \E hire : worker' = [v \in Worker |->
          IF v \notin Range(hire) THEN None
          ELSE NewWorker(HiredFor(hire, v), d[HiredFor(hire, v)],
                         disk.sites[HiredFor(hire, v)])]
    BY <1>10 DEF Boot, FirstRun
  <2>. QED
    BY <1>1, <1>2, <2>1
<1>11. ASSUME SaveFires \/ Signal \/ StopTimeout \/ Crash
       PROVE  ~worker'[w].told
  BY <1>1, <1>5, <1>11 DEF SaveFires, Signal, StopTimeout, Crash, ProcessEnds
<1>. QED
  BY <1>6, <1>7, <1>8, <1>9, <1>10, <1>11, NoCommands DEF Next

\* The outboxes of the cases below, told apart.
LEMMA OutboxesDiffer ==
  ASSUME NEW e \in Endings
  PROVE  /\ <<>> # <<"connected">> /\ <<>> # <<"exit">> /\ <<"connected">> # <<"exit">>
         /\ <<"connected", "exit">> # <<"exit">> /\ <<e, "exit">> # <<"exit">>
         /\ <<"connected", e, "exit">> # <<"exit">>
         /\ <<>> # <<"unreachable", "exit">> /\ <<"connected">> # <<"unreachable", "exit">>
         /\ <<"exit">> # <<"unreachable", "exit">>
         /\ <<"connected", "exit">> # <<"unreachable", "exit">>
         /\ <<"connected", e, "exit">> # <<"unreachable", "exit">>
         /\ <<e, "exit">> = <<"unreachable", "exit">> => e = "unreachable"
OBVIOUS

\* What a worker does of itself: it speaks for its site as before, unless it was
\* told to exit, and only one that is to check its gateway can find it dead.
LEMMA StepSpeaks ==
  ASSUME NEW v \in WorkerRec, NEW u, OutboxShape(v), NEW s, v.life # "ended",
         \/ v.life # "connected" /\ "connected" \notin Range(v.outbox) /\ u = Up(v)
         \/ v.life = "connected" /\ u = Down(v)
         \/ \E e \in EndingsOf(v) : e \in Endings /\ u = Ended(v, e)
         \/ v.told /\ u = Obeyed(v)
  PROVE  /\ Speaks(u, s) => Speaks(v, s) /\ (Unsure(u) => Unsure(v))
         /\ ~v.told /\ Speaks(v, s) => Speaks(u, s)
<1>. PICK any \in Endings : TRUE
  BY DEF Endings
<1>0. u # None /\ v # None
  BY StepType, NoWorkerAssumption
<1>1. v.outbox \in {<<>>, <<"connected">>} /\ (v.outbox = <<"connected">> => v.life # "starting")
  BY OutboxesDiffer DEF OutboxShape, WorkerRec, Lives
<1>2. v.outbox # <<"exit">>
  BY <1>1, OutboxesDiffer
<1>3. CASE v.life # "connected" /\ "connected" \notin Range(v.outbox) /\ u = Up(v)
  <2>1. v.outbox = <<>>
    BY <1>1, <1>3, OutboxContents
  <2>2. u.site = v.site /\ u.life = "connected" /\ u.outbox = <<"connected">>
    BY <1>3, <2>1, Outboxes DEF Up, WorkerRec
  <2>. QED
    BY <1>0, <1>2, <2>2, OutboxesDiffer DEF Speaks, Unsure
<1>4. CASE v.life = "connected" /\ u = Down(v)
  <2>1. u.site = v.site /\ u.life = "lost" /\ u.outbox = v.outbox
    BY <1>4 DEF Down, WorkerRec
  <2>. QED
    BY <1>0, <1>2, <2>1 DEF Speaks, Unsure
<1>5. ASSUME NEW e \in EndingsOf(v), e \in Endings, u = Ended(v, e)
      PROVE  /\ Speaks(u, s) => Speaks(v, s) /\ (Unsure(u) => Unsure(v))
             /\ Speaks(v, s) => Speaks(u, s)
  <2>1. u.site = v.site /\ u.life = "ended" /\ u.outbox = v.outbox \o <<e, "exit">>
    BY <1>5 DEF Ended, WorkerRec
  <2>2. CASE v.outbox = <<>>
    <3>1. u.outbox = <<e, "exit">>
      BY <1>5, <2>1, <2>2, Outboxes
    <3>2. u.outbox = <<"unreachable", "exit">> => v.life = "starting" /\ v.precheck
      <4>1. u.outbox = <<"unreachable", "exit">> => e = "unreachable"
        BY <1>5, <3>1, OutboxesDiffer
      <4>2. e = "unreachable" => v.life = "starting" /\ v.precheck
        BY <1>5 DEF EndingsOf
      <4>. QED
        BY <4>1, <4>2
    <3>3. u.outbox # <<"exit">>
      BY <1>5, <3>1, OutboxesDiffer
    <3>. QED
      BY <1>0, <1>2, <2>1, <3>2, <3>3 DEF Speaks, Unsure
  <2>3. CASE v.outbox = <<"connected">>
    <3>1. u.outbox = <<"connected", e, "exit">>
      BY <1>5, <2>1, <2>3, Outboxes
    <3>2. u.outbox # <<"exit">> /\ u.outbox # <<"unreachable", "exit">>
      BY <1>5, <3>1, OutboxesDiffer
    <3>. QED
      BY <1>0, <1>2, <2>1, <3>2 DEF Speaks, Unsure
  <2>. QED
    BY <1>1, <2>2, <2>3
<1>6. CASE v.told /\ u = Obeyed(v)
  <2>1. u.site = v.site /\ u.life = "ended" /\ u.outbox = Append(v.outbox, "exit")
    BY <1>6 DEF Obeyed, WorkerRec
  <2>2. u.outbox \in {<<"exit">>, <<"connected", "exit">>}
    BY <1>1, <2>1, Outboxes
  <2>3. u.outbox # <<"unreachable", "exit">>
    BY <2>2, OutboxesDiffer
  <2>. QED
    BY <1>0, <1>2, <1>6, <2>1, <2>3 DEF Speaks, Unsure
<1>. QED
  BY <1>3, <1>4, <1>5, <1>6

\* What taking a report does to its worker: after an ending there is only its exit
\* left; after "connected", and if it was not told to exit, more than that.
LEMMA TakeSpeaks ==
  ASSUME NEW v \in WorkerRec, OutboxShape(v), v.outbox # <<>>, NEW u,
         u = [v EXCEPT !.outbox = Tail(@)]
  PROVE  /\ Head(v.outbox) # "exit" => v.outbox # <<"exit">>
         /\ Head(v.outbox) = "exit" => v.outbox = <<"exit">>
         /\ Head(v.outbox) \in Endings => u.outbox = <<"exit">>
         /\ Head(v.outbox) = "connected" => ~Unsure(u) /\ (~v.told => u.outbox # <<"exit">>)
         /\ Head(v.outbox) = "unreachable" => v.outbox = <<"unreachable", "exit">>
<1>. PICK any \in Endings : TRUE
  BY DEF Endings
<1>0. "exit" \notin Endings /\ "connected" \notin Endings /\ "connected" # "exit"
      /\ "unreachable" \in Endings
  BY DEF Endings, Reasons
<1>1. u.outbox = Tail(v.outbox) /\ u.life = v.life /\ v.life # "starting"
  BY DEF OutboxShape, WorkerRec
<1>2. CASE v.outbox = <<"connected">>
  <2>1. Head(v.outbox) = "connected" /\ u.outbox = <<>>
    BY <1>1, <1>2, Outboxes, OutboxContents
  <2>. QED
    BY <1>0, <1>1, <1>2, <2>1, OutboxesDiffer DEF Unsure
<1>3. CASE v.outbox = <<"exit">>
  <2>1. Head(v.outbox) = "exit"
    BY <1>3, OutboxContents
  <2>. QED
    BY <1>0, <1>3, <2>1
<1>4. CASE v.told /\ v.outbox = <<"connected", "exit">>
  <2>1. Head(v.outbox) = "connected" /\ u.outbox = <<"exit">>
    BY <1>1, <1>4, Outboxes, OutboxContents
  <2>. QED
    BY <1>0, <1>1, <1>4, <2>1, OutboxesDiffer DEF Unsure
<1>5. ASSUME NEW e \in Endings, v.outbox = <<e, "exit">>
      PROVE  /\ Head(v.outbox) = e /\ u.outbox = <<"exit">> /\ v.outbox # <<"exit">>
             /\ e = "unreachable" => v.outbox = <<"unreachable", "exit">>
  BY <1>1, <1>5, Outboxes, OutboxContents, OutboxesDiffer
<1>6. ASSUME NEW e \in Endings, e # "unreachable", v.outbox = <<"connected", e, "exit">>
      PROVE  /\ Head(v.outbox) = "connected" /\ u.outbox = <<e, "exit">>
             /\ v.outbox # <<"exit">>
             /\ u.outbox # <<"unreachable", "exit">> /\ u.outbox # <<"exit">>
  BY <1>1, <1>6, Outboxes, OutboxContents, OutboxesDiffer
<1>7. \/ v.outbox \in {<<"connected">>, <<"exit">>}
      \/ v.told /\ v.outbox = <<"connected", "exit">>
      \/ \E e \in Endings : \/ v.outbox = <<e, "exit">>
                            \/ e # "unreachable" /\ v.outbox = <<"connected", e, "exit">>
  BY DEF OutboxShape, WorkerRec, Lives
<1>. QED
  BY <1>0, <1>1, <1>2, <1>3, <1>4, <1>5, <1>6, <1>7 DEF Unsure

\* A site stays in its hand while its record, timer and entry stay and nobody
\* begins or, while ha-mon is up, ceases to speak for it.
LEMMA HandOn ==
  ASSUME NEW s \in Site, OneHand(s),
         doc'[s] = doc[s], mem'[s] = mem[s], pending'[s] = pending[s],
         disk'.sites[s] \in {disk.sites[s], mem[s]},
         \A w \in Worker : Speaks(worker'[w], s) =>
           Speaks(worker[w], s) /\ (Unsure(worker'[w]) => Unsure(worker[w])),
         phase' = "up" => /\ phase = "up"
                          /\ \A w \in Worker : Speaks(worker[w], s) => Speaks(worker'[w], s)
  PROVE  OneHand(s)'
<1>1. StateOf(s)' = StateOf(s) /\ Enabled(s)' = Enabled(s) /\ IsHeld(s)' = IsHeld(s)
  BY DEF StateOf, Enabled, IsHeld
<1>2. Enabled(s)' /\ StillBlocked(disk.sites[s], Fingerprint(doc[s]))' => IsHeld(s)'
  BY <1>1 DEF OneHand, StillBlocked, IsHeld, Enabled, Fingerprint
<1>3. /\ \A v, w \in Worker : Speaks(worker'[v], s) /\ Speaks(worker'[w], s) => v = w
      /\ \A w \in Worker : Speaks(worker'[w], s) => StateOf(s) \in {"starting", "connected"}
      /\ \A w \in Worker : Speaks(worker'[w], s) /\ Unsure(worker'[w]) => NeedsPrecheck(mem[s])
  BY DEF OneHand
<1>4. phase' = "up" /\ StateOf(s) \in {"starting", "connected"} =>
        \E w \in Worker : Speaks(worker'[w], s)
  BY DEF OneHand
<1>5. /\ pending[s] <=> StateOf(s) = "down"
      /\ StateOf(s) \in {"starting", "connected", "down"} => Enabled(s)
  BY DEF OneHand
<1>. HIDE DEF StateOf, Enabled, IsHeld
<1>6. NeedsPrecheck(mem[s])' = NeedsPrecheck(mem[s])
  BY DEF NeedsPrecheck
<1>. QED
  BY <1>1, <1>2, <1>3, <1>4, <1>5, <1>6 DEF OneHand, Speaks, Unsure

\* A restart of a site nobody speaks for puts it in the hand of its new worker.
LEMMA RestartHand ==
  ASSUME TypeOK, NEW s \in Site, NEW fails \in [Site -> Nat],
         NEW ws \in [Worker -> WorkerRec \cup {None}], Restart(s, fails, ws),
         Enabled(s), ~StillBlocked(disk.sites[s], Fingerprint(doc[s])),
         UNCHANGED <<doc, disk>>, ~pending'[s],
         \A w \in Worker : ~Speaks(ws[w], s),
         \A w \in Worker : ws[w] # None => worker[w] # None
  PROVE  /\ OneHand(s)'
         /\ \A x \in Site : x # s => mem'[x] = mem[x]
         /\ \A w \in Worker : worker'[w] # ws[w] =>
              /\ worker[w] = None
              /\ worker'[w].site = s
              /\ worker'[w].entry = doc[s]
         /\ \A w \in Worker : worker[w] # None => worker'[w] = ws[w]
<1>1. PICK h : /\ h \in FreeWorkers
               /\ worker' = [ws EXCEPT ![h] = NewWorker(s, doc[s], mem[s])]
               /\ mem' = [mem EXCEPT ![s] = SetState(@, "starting", fails[s], None)]
  BY DEF Restart, RestartTargets, Enabled
<1>2. h \in Worker /\ worker[h] = None /\ doc[s] \in Entry
  BY <1>1 DEF FreeWorkers, Enabled, TypeOK
<1>3. /\ worker'[h] = NewWorker(s, doc[s], mem[s])
      /\ \A w \in Worker : w # h => worker'[w] = ws[w]
  BY <1>1, <1>2
<1>4. /\ worker'[h] # None /\ worker'[h].site = s /\ worker'[h].entry = doc[s]
      /\ worker'[h].outbox = <<>> /\ worker'[h].precheck = NeedsPrecheck(mem[s])
  <2>1. NewWorker(s, doc[s], mem[s]) # None
    BY <1>2, NewWorkerType, NoWorkerAssumption DEF TypeOK
  <2>. QED
    BY <1>3, <2>1 DEF NewWorker
<1>5. mem'[s] = SetState(mem[s], "starting", fails[s], None) /\ mem'[s] \in Rec
  <2>1. SetState(mem[s], "starting", fails[s], None) \in Rec
    BY SetStateType DEF TypeOK, States
  <2>. QED
    BY <1>1, <2>1 DEF TypeOK
<1>6. mem'[s].state = "starting" /\ mem'[s].last = LastConnected(mem[s]) /\ mem'[s] # None
  BY <1>5, NoRecAssumption DEF SetState
<1>7. StateOf(s)' = "starting" /\ (NeedsPrecheck(mem[s])' <=> NeedsPrecheck(mem[s]))
  BY <1>6 DEF StateOf, NeedsPrecheck, LastConnected
<1>8. \A w \in Worker : Speaks(worker'[w], s) <=> w = h
  <2>1. <<>> # <<"exit">>
    OBVIOUS
  <2>. QED
    BY <1>3, <1>4, <2>1 DEF Speaks
<1>9. Unsure(worker'[h]) => NeedsPrecheck(mem[s])
  <2>1. <<>> # <<"unreachable", "exit">>
    OBVIOUS
  <2>. QED
    BY <1>4, <2>1 DEF Unsure
<1>10. OneHand(s)'
  <2>1. Enabled(s)' /\ ~StillBlocked(disk.sites[s], Fingerprint(doc[s]))'
    BY DEF Enabled
  <2>. HIDE DEF StateOf, NeedsPrecheck
  <2>. QED
    BY <1>2, <1>7, <1>8, <1>9, <2>1 DEF OneHand
<1>. QED
  BY <1>1, <1>2, <1>3, <1>4, <1>10 DEF TypeOK

LEMMA WorkerStepHand ==
  ASSUME TypeOK, Outboxed, NoneTold, NEW x \in Site, OneHand(x),
         NEW w \in Worker, WorkerStep(w)
  PROVE  OneHand(x)'
<1>1. PICK u : /\ WorkerDoes(w, u)
               /\ worker[w] # None /\ worker[w].life # "ended"
               /\ \/ /\ worker[w].life # "connected"
                     /\ "connected" \notin Range(worker[w].outbox)
                     /\ u = Up(worker[w])
                  \/ worker[w].life = "connected" /\ u = Down(worker[w])
                  \/ \E e \in EndingsOf(worker[w]) : e \in Endings /\ u = Ended(worker[w], e)
                  \/ worker[w].told /\ u = Obeyed(worker[w])
  <2>1. \A e \in Faults : e \in Endings
    BY ConstantsAssumption DEF Endings, Reasons
  <2>. QED
    BY <2>1 DEF WorkerStep, LinkUp, LinkDown, End, Obey, Working, Threads
<1>2. worker[w] \in WorkerRec /\ OutboxShape(worker[w])
  BY <1>1 DEF TypeOK, Outboxed, Threads
<1>3. /\ Speaks(u, x) => Speaks(worker[w], x) /\ (Unsure(u) => Unsure(worker[w]))
      /\ ~worker[w].told /\ Speaks(worker[w], x) => Speaks(u, x)
  BY <1>1, <1>2, StepSpeaks
<1>4. \A v \in Worker : worker'[v] = IF v = w THEN u ELSE worker[v]
  BY <1>1 DEF WorkerDoes, TypeOK
<1>5. UNCHANGED <<phase, doc, pending, mem, disk>>
  BY <1>1 DEF WorkerDoes, waits, file
<1>6. \A v \in Worker : Speaks(worker'[v], x) =>
        Speaks(worker[v], x) /\ (Unsure(worker'[v]) => Unsure(worker[v]))
  BY <1>3, <1>4
<1>7. phase = "up" => \A v \in Worker : Speaks(worker[v], x) => Speaks(worker'[v], x)
  BY <1>1, <1>3, <1>4 DEF NoneTold, Threads
<1>. QED
  BY <1>5, <1>6, <1>7, HandOn

\* A report other than "exit" is that of the one worker of its site.
LEMMA SpeakerHand ==
  ASSUME TypeOK, Outboxed, NEW w \in Worker, NEW r, r # "exit", Says(w, r),
         OneHand(worker[w].site)
  PROVE  /\ Speaks(worker[w], worker[w].site)
         /\ \A v \in Worker : v # w => ~Speaks(Heard(w)[v], worker[w].site)
         /\ r \in Endings => \A v \in Worker : ~Speaks(Heard(w)[v], worker[w].site)
         /\ r = "connected" => /\ ~Unsure(Heard(w)[w])
                               /\ ~worker[w].told => Speaks(Heard(w)[w], worker[w].site)
         /\ \A x \in Site : x # worker[w].site => ~Speaks(Heard(w)[w], x)
         /\ \A v \in Worker : Heard(w)[v] # None => worker[v] # None
<1>1. worker[w] # None /\ worker[w] \in WorkerRec /\ OutboxShape(worker[w])
  BY SpeakerType DEF Says, Threads, Outboxed
<1>2. /\ Heard(w)[w] = [worker[w] EXCEPT !.outbox = Tail(@)]
      /\ \A v \in Worker : v # w => Heard(w)[v] = worker[v]
  BY HeardMoved
<1>3. Heard(w)[w].site = worker[w].site /\ Heard(w)[w] # None
  BY <1>1, <1>2, HeardType, NoWorkerAssumption DEF WorkerRec
<1>4. Speaks(worker[w], worker[w].site)
  BY <1>1, <1>2, TakeSpeaks DEF Says, Speaks
<1>5. r \in Endings => Heard(w)[w].outbox = <<"exit">>
  BY <1>1, <1>2, TakeSpeaks DEF Says
<1>6. r = "connected" => /\ ~Unsure(Heard(w)[w])
                         /\ ~worker[w].told => Heard(w)[w].outbox # <<"exit">>
  BY <1>1, <1>2, TakeSpeaks DEF Says
<1>7. \A v \in Worker : v # w => ~Speaks(worker[v], worker[w].site)
  BY <1>4 DEF OneHand
<1>. QED
  BY <1>1, <1>2, <1>3, <1>4, <1>5, <1>6, <1>7 DEF Speaks

\* A site somebody speaks for is enabled, has no timer and is not held.
LEMMA SpokenFor ==
  ASSUME NEW s \in Site, OneHand(s), NEW w \in Worker, Speaks(worker[w], s)
  PROVE  Enabled(s) /\ ~pending[s] /\ ~StillBlocked(disk.sites[s], Fingerprint(doc[s]))
<1>1. StateOf(s) \in {"starting", "connected"}
  BY DEF OneHand
<1>2. Enabled(s) /\ ~IsHeld(s) /\ ~pending[s]
  BY <1>1 DEF OneHand, StateOf, IsHeld, Held
<1>. QED
  BY <1>2 DEF OneHand

LEMMA HandleReportHand ==
  ASSUME TypeOK, Outboxed, NoneTold, OneHanded, NEW x \in Site, phase # "down",
         NEW w \in Worker, HandleReport(w), phase' # "down"
  PROVE  OneHand(x)'
<1>0. OneHand(x) /\ \E r : Says(w, r)
  BY DEF OneHanded, HandleReport, HandleConnected, HandleTimeout, HandleError, HandleStopped,
         HandleExit
<1>. PICK s \in Site : s = worker[w].site
  BY <1>0, SpeakerType
<1>1. ASSUME NEW r, r # "exit", Says(w, r), x # s, mem'[x] = mem[x], pending'[x] = pending[x],
             UNCHANGED <<phase, doc, disk>>,
             \A v \in Worker : worker'[v] # Heard(w)[v] =>
                              worker[v] = None /\ worker'[v].site = s,
             \A v \in Worker : worker[v] # None => worker'[v] = Heard(w)[v]
      PROVE  OneHand(x)'
  <2>1. \A v \in Worker : v # w => Heard(w)[v] = worker[v]
    BY <1>1, HeardMoved
  <2>2. ~Speaks(worker[w], x) /\ ~Speaks(worker'[w], x)
    <3>1. worker[w] # None /\ Heard(w)[w].site = s
      BY <1>1, SpeakerType, HeardMoved DEF Says, Threads, WorkerRec
    <3>. QED
      BY <1>1, <3>1 DEF Speaks
  <2>3. \A v \in Worker : Speaks(worker'[v], x) =>
          Speaks(worker[v], x) /\ (Unsure(worker'[v]) => Unsure(worker[v]))
    BY <1>1, <2>1, <2>2 DEF Speaks
  <2>4. \A v \in Worker : Speaks(worker[v], x) => Speaks(worker'[v], x)
    BY <1>1, <2>1, <2>2 DEF Speaks
  <2>. QED
    BY <1>0, <1>1, <2>3, <2>4, HandOn
<1>2. CASE HandleConnected(w)
  <2>1. /\ Says(w, "connected") /\ worker' = Heard(w)
        /\ mem' = [mem EXCEPT ![s] = SetState(@, "connected", 0, None)]
        /\ UNCHANGED <<phase, doc, pending, disk>>
    BY <1>2 DEF HandleConnected, waits
  <2>2. s \in Site /\ OneHand(s)
    BY <2>1, SpeakerType DEF OneHanded
  <2>3. CASE x = s
    <3>1. /\ Speaks(worker[w], s)
          /\ \A v \in Worker : v # w => ~Speaks(worker'[v], s)
          /\ ~Unsure(worker'[w]) /\ (~worker[w].told => Speaks(worker'[w], s))
      BY <2>1, <2>2, SpeakerHand
    <3>2. mem'[s] = SetState(mem[s], "connected", 0, None) /\ mem'[s] \in Rec
      <4>1. SetState(mem[s], "connected", 0, None) \in Rec
        BY <2>2, SetStateType DEF TypeOK, States
      <4>. QED
        BY <2>1, <2>2, <4>1 DEF TypeOK
    <3>3. StateOf(s)' = "connected"
      BY <3>2, NoRecAssumption DEF StateOf, SetState
    <3>4. StateOf(s) \in {"starting", "connected"}
      BY <2>2, <3>1 DEF OneHand
    <3>5. Enabled(s) /\ ~IsHeld(s) /\ ~pending[s]
      BY <2>2, <3>4 DEF OneHand, StateOf, IsHeld, Held
    <3>6. Enabled(s)' /\ ~StillBlocked(disk.sites[s], Fingerprint(doc[s]))' /\ ~pending'[s]
      BY <2>1, <2>2, <3>5 DEF OneHand, Enabled
    <3>7. phase' = "up" => Speaks(worker'[w], s)
      BY <2>1, <3>1 DEF NoneTold, Says
    <3>. QED
      BY <2>3, <3>1, <3>3, <3>6, <3>7 DEF OneHand
  <2>4. CASE x # s
    BY <1>1, <2>1, <2>4 DEF TypeOK
  <2>. QED
    BY <2>3, <2>4
<1>3. CASE HandleStopped(w)
  <2>1. PICK r \in Reasons :
          /\ Says(w, r)
          /\ CancelPending(s)
          /\ mem' = [mem EXCEPT ![s] =
                       SetState(@, HoldState(r), failures[s],
                                IF doc[s] = None THEN None ELSE Fingerprint(doc[s]))]
          /\ worker' = Heard(w)
          /\ UNCHANGED <<phase, doc, disk>>
    BY <1>3 DEF HandleStopped
  <2>2. s \in Site /\ OneHand(s) /\ r # "exit" /\ r \in Endings
    BY <2>1, SpeakerType DEF OneHanded, Reasons, Endings
  <2>3. CASE x = s
    <3>1. \A v \in Worker : ~Speaks(worker'[v], s)
      BY <2>1, <2>2, SpeakerHand
    <3>2. (IF doc[s] = None THEN None ELSE Fingerprint(doc[s])) \in Prints \cup {None}
      BY <2>2 DEF TypeOK, Fingerprint, Prints, Entry
    <3>. DEFINE rec == SetState(mem[s], HoldState(r), failures[s],
                                IF doc[s] = None THEN None ELSE Fingerprint(doc[s]))
    <3>3. HoldState(r) \in Held
      BY DEF HoldState, Held
    <3>4. rec \in Rec /\ rec.state = HoldState(r)
      <4>1. rec \in Rec
        BY <2>2, <3>2, <3>3, SetStateType DEF TypeOK, States
      <4>2. rec.state = HoldState(r)
        BY DEF SetState
      <4>. QED
        BY <4>1, <4>2
    <3>5. mem'[s] = rec /\ ~pending'[s]
      BY <2>1, <2>2 DEF TypeOK, CancelPending
    <3>. HIDE DEF rec
    <3>6. StateOf(s)' \in Held /\ IsHeld(s)'
      BY <3>3, <3>4, <3>5, NoRecAssumption DEF StateOf, IsHeld
    <3>7. StateOf(s)' \notin {"starting", "connected", "down"}
      BY <3>6 DEF Held
    <3>. QED
      BY <2>3, <3>1, <3>5, <3>6, <3>7 DEF OneHand
  <2>4. CASE x # s
    BY <1>1, <2>1, <2>2, <2>4 DEF TypeOK, CancelPending
  <2>. QED
    BY <2>3, <2>4
<1>4. CASE HandleTimeout(w) \/ HandleError(w)
  <2>1. PICK r \in {"timeout", "error"} : Says(w, r)
    BY <1>4 DEF HandleTimeout, HandleError
  <2>2. r # "exit" /\ r \in Endings
    BY DEF Endings
  <2>3. PICK fails : RequestRestart(s, fails, Heard(w)) /\ failures' = fails
    BY <1>4 DEF HandleTimeout, HandleError, RequestRestart
  <2>4. UNCHANGED <<phase, doc, disk>>
    BY <1>4 DEF HandleTimeout, HandleError
  <2>5. /\ s \in Site /\ OneHand(s) /\ fails \in [Site -> Nat]
        /\ Heard(w) \in [Worker -> WorkerRec \cup {None}]
    BY <2>1, <2>2, <2>3, SpeakerType, HeardMoved, HandleReportType DEF OneHanded, TypeOK
  <2>6. /\ Speaks(worker[w], s)
        /\ \A v \in Worker : ~Speaks(Heard(w)[v], s)
        /\ \A v \in Worker : Heard(w)[v] # None => worker[v] # None
    BY <2>1, <2>2, <2>5, SpeakerHand
  <2>8. Enabled(s) /\ ~pending[s]
    BY <2>5, <2>6, SpokenFor
  <2>9. ~StillBlocked(disk.sites[s], Fingerprint(doc[s]))
    BY <2>5, <2>6, SpokenFor
  <2>10. CASE Restart(s, fails, Heard(w)) /\ UNCHANGED waits
    <3>1. /\ OneHand(s)'
          /\ \A y \in Site : y # s => mem'[y] = mem[y]
          /\ \A v \in Worker : worker'[v] # Heard(w)[v] => worker[v] = None /\ worker'[v].site = s
          /\ \A v \in Worker : worker[v] # None => worker'[v] = Heard(w)[v]
      BY <2>4, <2>5, <2>6, <2>8, <2>9, <2>10, RestartHand DEF waits
    <3>. QED
      BY <1>1, <2>1, <2>2, <2>4, <2>10, <3>1 DEF waits
  <2>11. CASE ScheduleRestart(s, fails, HasDnsName(s)) /\ worker' = Heard(w)
    <3>1. /\ pending' = [pending EXCEPT ![s] = TRUE]
          /\ mem' = [mem EXCEPT ![s] = SetState(@, "down", fails[s], None)]
      BY <2>11 DEF ScheduleRestart
    <3>2. CASE x = s
      <4>1. mem'[s] = SetState(mem[s], "down", fails[s], None) /\ pending'[s]
        BY <2>5, <3>1 DEF TypeOK
      <4>2. SetState(mem[s], "down", fails[s], None) \in Rec
        BY <2>5, SetStateType DEF TypeOK, States
      <4>3. StateOf(s)' = "down"
        BY <4>1, <4>2, NoRecAssumption DEF StateOf, SetState
      <4>4. Enabled(s)' /\ ~StillBlocked(disk.sites[s], Fingerprint(doc[s]))'
        BY <2>4, <2>8, <2>9 DEF Enabled
      <4>. QED
        BY <2>6, <2>11, <3>2, <4>1, <4>3, <4>4 DEF OneHand
    <3>3. CASE x # s
      <4>1. mem'[x] = mem[x] /\ pending'[x] = pending[x]
        BY <3>1, <3>3 DEF TypeOK
      <4>. QED
        BY <1>1, <2>1, <2>2, <2>4, <2>11, <3>3, <4>1
    <3>. QED
      BY <3>2, <3>3
  <2>. QED
    BY <2>3, <2>10, <2>11 DEF RequestRestart
<1>5. CASE HandleExit(w)
  <2>1. Says(w, "exit") /\ worker' = [worker EXCEPT ![w] = None]
        /\ UNCHANGED <<phase, doc, mem, pending, disk>>
    BY <1>5 DEF HandleExit, ProcessEnds, waits, file
  <2>2. worker[w].outbox = <<"exit">>
    BY <2>1, SpeakerType, TakeSpeaks DEF Says, Outboxed
  <2>3. \A v \in Worker : v # w => worker'[v] = worker[v]
    BY <2>1 DEF TypeOK
  <2>4. ~Speaks(worker[w], x) /\ ~Speaks(worker'[w], x)
    BY <2>1, <2>2 DEF Speaks, TypeOK
  <2>. QED
    BY <1>0, <2>1, <2>3, <2>4, HandOn
<1>. QED
  BY <1>2, <1>3, <1>4, <1>5 DEF HandleReport

\* Forgetting when a site connected changes neither its state nor what it is held for.
LEMMA AgedKeeps ==
  ASSUME NEW r \in Rec \cup {None}
  PROVE  /\ Aged(r) = None <=> r = None
         /\ r # None => Aged(r).state = r.state /\ Aged(r).fp = r.fp
         /\ NeedsPrecheck(Aged(r))
<1>1. CASE r # None /\ r.last = "recent"
  <2>1. /\ Aged(r) \in Rec /\ Aged(r).last = "old"
        /\ Aged(r).state = r.state /\ Aged(r).fp = r.fp
    BY <1>1 DEF Aged, Rec, Ages
  <2>. QED
    BY <1>1, <2>1, NoRecAssumption DEF NeedsPrecheck, LastConnected
<1>2. CASE ~(r # None /\ r.last = "recent")
  BY <1>2 DEF Aged, NeedsPrecheck, LastConnected
<1>. QED
  BY <1>1, <1>2

\* What a timer and a look-up that succeeds have in common: if the site was
\* waiting, nobody speaks for it and it is not held.
LEMMA WaitingHand ==
  ASSUME NEW s \in Site, OneHand(s), pending[s]
  PROVE  /\ Enabled(s) /\ ~StillBlocked(disk.sites[s], Fingerprint(doc[s]))
         /\ \A w \in Worker : ~Speaks(worker[w], s)
<1>1. StateOf(s) = "down"
  BY DEF OneHand
<1>2. ~IsHeld(s)
  BY <1>1 DEF StateOf, IsHeld, Held
<1>. QED
  BY <1>1, <1>2 DEF OneHand

LEMMA SiteStepHand ==
  ASSUME TypeOK, WatchOnlyWhileWaiting, OneHanded, NEW x \in Site, phase # "down",
         NEW s \in Site, TimerFires(s) \/ DnsChanges(s) \/ Quiet(s) \/ WeekPasses(s)
  PROVE  OneHand(x)'
<1>0. OneHand(x) /\ OneHand(s)
  BY DEF OneHanded
<1>1. CASE TimerFires(s) \/ DnsChanges(s)
  <2>1. pending[s] /\ CancelPending(s) /\ UNCHANGED <<phase, doc, disk>>
    BY <1>1 DEF TimerFires, DnsChanges, WatchOnlyWhileWaiting
  <2>2. /\ Enabled(s) /\ ~StillBlocked(disk.sites[s], Fingerprint(doc[s]))
        /\ \A w \in Worker : ~Speaks(worker[w], s)
    BY <1>0, <2>1, WaitingHand
  <2>3. PICK fails \in [Site -> Nat] : Restart(s, fails, worker)
    <3>1. \/ Restart(s, failures, worker)
          \/ failures' = [failures EXCEPT ![s] = 0] /\ Restart(s, failures', worker)
      BY <1>1, <2>1, <2>2 DEF TimerFires, DnsChanges
    <3>2. failures \in [Site -> Nat] /\ [failures EXCEPT ![s] = 0] \in [Site -> Nat]
      BY DEF TypeOK
    <3>. QED
      BY <3>1, <3>2
  <2>4. ~pending'[s] /\ \A y \in Site : y # s => pending'[y] = pending[y]
    BY <2>1 DEF CancelPending, TypeOK
  <2>5. /\ OneHand(s)'
        /\ \A y \in Site : y # s => mem'[y] = mem[y]
        /\ \A w \in Worker : worker'[w] # worker[w] => worker[w] = None /\ worker'[w].site = s
    <3>1. worker \in [Worker -> WorkerRec \cup {None}]
      BY DEF TypeOK
    <3>. QED
      BY <2>1, <2>2, <2>3, <2>4, <3>1, RestartHand
  <2>6. CASE x # s
    <3>1. \A w \in Worker : Speaks(worker'[w], x) =>
            Speaks(worker[w], x) /\ (Unsure(worker'[w]) => Unsure(worker[w]))
      BY <2>5, <2>6 DEF Speaks
    <3>2. \A w \in Worker : Speaks(worker[w], x) => Speaks(worker'[w], x)
      BY <2>5 DEF Speaks
    <3>. QED
      BY <1>0, <2>1, <2>4, <2>5, <2>6, <3>1, <3>2, HandOn
  <2>. QED
    BY <2>5, <2>6
<1>2. CASE Quiet(s)
  BY <1>0, <1>2, HandOn DEF Quiet, waits, file
<1>3. CASE WeekPasses(s)
  <2>1. /\ mem' = [mem EXCEPT ![s] = Aged(@)]
        /\ disk' = [disk EXCEPT !.sites[s] = Aged(@)]
        /\ UNCHANGED <<phase, doc, pending, worker>>
    BY <1>3 DEF WeekPasses, waits
  <2>2. CASE x = s
    <3>1. mem'[s] = Aged(mem[s]) /\ disk'.sites[s] = Aged(disk.sites[s])
      BY <2>1 DEF TypeOK
    <3>2. mem[s] \in Rec \cup {None} /\ disk.sites[s] \in Rec \cup {None}
      BY DEF TypeOK
    <3>3. StateOf(s)' = StateOf(s) /\ Enabled(s)' = Enabled(s) /\ IsHeld(s)' = IsHeld(s)
      BY <2>1, <3>1, <3>2, AgedKeeps DEF StateOf, Enabled, IsHeld
    <3>4. StillBlocked(disk'.sites[s], Fingerprint(doc'[s])) =>
            StillBlocked(disk.sites[s], Fingerprint(doc[s]))
      BY <2>1, <3>1, <3>2, AgedKeeps DEF StillBlocked
    <3>5. NeedsPrecheck(mem'[s])
      BY <3>1, <3>2, AgedKeeps
    <3>. HIDE DEF StateOf, Enabled, IsHeld
    <3>. QED
      BY <1>0, <2>1, <2>2, <3>3, <3>4, <3>5 DEF OneHand
  <2>3. CASE x # s
    <3>1. mem'[x] = mem[x] /\ disk'.sites[x] = disk.sites[x]
      BY <2>1, <2>3 DEF TypeOK
    <3>. QED
      BY <1>0, <2>1, <3>1, HandOn
  <2>. QED
    BY <2>2, <2>3
<1>. QED
  BY <1>1, <1>2, <1>3

LEMMA BootHand ==
  ASSUME TypeOK, NEW s \in Site, NEW d \in Docs, Boot(d)
  PROVE  OneHand(s)'
<1>1. Booted(d, s) /\ doc' = d /\ UNCHANGED disk
  BY BootDoes DEF Boot
<1>2. Enabled(s)' <=> s \in EnabledIn(d)
  BY <1>1 DEF Enabled, EnabledIn
<1>3. s \in BlockedIn(d) <=>
        s \in EnabledIn(d) /\ StillBlocked(disk.sites[s], Fingerprint(doc[s]))'
  BY <1>1 DEF BlockedIn
<1>4. NoneAt(s)' => \A w \in Worker : ~Speaks(worker'[w], s)
  BY DEF NoneAt, Speaks
<1>5. ASSUME NEW state, Noted(s, state)
      PROVE  /\ StateOf(s)' = state /\ (pending'[s] <=> state = "down")
             /\ IsHeld(s)' <=> state \in Held
             /\ NeedsPrecheck(mem'[s]) <=> NeedsPrecheck(disk.sites[s])
  BY <1>5, NoRecAssumption DEF Noted, StateOf, IsHeld, NeedsPrecheck
<1>. HIDE DEF Enabled, EnabledIn, BlockedIn
<1>6. CASE d[s] = None /\ mem'[s] = None /\ ~pending'[s] /\ NoneAt(s)'
  <2>1. StateOf(s)' = "disabled" /\ ~Enabled(s)'
    BY <1>1, <1>6 DEF StateOf, Enabled
  <2>. QED
    BY <1>4, <1>6, <2>1 DEF OneHand
<1>7. CASE s \in BlockedIn(d) /\ mem'[s] = disk.sites[s] /\ ~pending'[s] /\ NoneAt(s)'
  <2>1. StateOf(s)' \in Held /\ IsHeld(s)'
    BY <1>7 DEF StateOf, IsHeld, BlockedIn, StillBlocked
  <2>2. StateOf(s)' \notin {"starting", "connected", "down"}
    BY <2>1 DEF Held
  <2>. QED
    BY <1>4, <1>7, <2>1, <2>2 DEF OneHand
<1>8. CASE s \in EnabledIn(d) \ BlockedIn(d) /\ Noted(s, "down") /\ NoneAt(s)'
  <2>1. StateOf(s)' = "down" /\ pending'[s]
    BY <1>5, <1>8
  <2>. QED
    BY <1>2, <1>3, <1>4, <1>8, <2>1 DEF OneHand
<1>9. ASSUME s \in EnabledIn(d) \ BlockedIn(d), Noted(s, "starting"), NEW h \in Worker,
             worker'[h] = NewWorker(s, d[s], disk.sites[s]),
             \A w \in Worker \ {h} : worker'[w] # None => worker'[w].site # s
      PROVE  OneHand(s)'
  <2>1. /\ StateOf(s)' = "starting" /\ ~pending'[s]
        /\ NeedsPrecheck(mem'[s]) <=> NeedsPrecheck(disk.sites[s])
    BY <1>5, <1>9
  <2>2. worker'[h] # None
    <3>1. d[s] \in Entry /\ disk.sites[s] \in Rec \cup {None}
      BY <1>9 DEF EnabledIn, Docs, TypeOK
    <3>. QED
      BY <1>9, <3>1, NewWorkerType, NoWorkerAssumption
  <2>3. <<>> # <<"exit">> /\ <<>> # <<"unreachable", "exit">>
    OBVIOUS
  <2>4. Speaks(worker'[h], s) /\ (Unsure(worker'[h]) => NeedsPrecheck(mem'[s]))
    BY <1>9, <2>1, <2>2, <2>3 DEF Speaks, Unsure, NewWorker
  <2>5. \A w \in Worker : Speaks(worker'[w], s) => w = h
    BY <1>9 DEF Speaks
  <2>. QED
    BY <1>2, <1>3, <1>9, <2>1, <2>4, <2>5 DEF OneHand
<1>10. CASE d[s] # None /\ ~d[s].enabled /\ Noted(s, "disabled") /\ NoneAt(s)'
  <2>1. StateOf(s)' = "disabled" /\ ~pending'[s] /\ ~Enabled(s)'
    BY <1>1, <1>5, <1>10 DEF Enabled
  <2>. QED
    BY <1>4, <1>10, <2>1 DEF OneHand
<1>. QED
  BY <1>1, <1>6, <1>7, <1>8, <1>9, <1>10 DEF Booted

\* The saves and the signal: the file comes to have what memory has.
LEMMA ProcessStepHand ==
  ASSUME TypeOK, OneHanded, NEW x \in Site, phase # "down", phase' # "down",
         SaveFires \/ Signal \/ StopTimeout \/ Crash
  PROVE  OneHand(x)'
<1>1. OneHand(x)
  BY DEF OneHanded
<1>2. CASE SaveFires
  BY <1>1, <1>2, HandOn DEF SaveFires, waits, counts
<1>3. CASE Signal
  <2>1. /\ phase' # "up" /\ disk'.sites = mem
        /\ worker' = [w \in Worker |-> IF w \in Threads
                                       THEN [worker[w] EXCEPT !.told = TRUE] ELSE None]
        /\ UNCHANGED <<doc, pending, mem>>
    BY <1>3 DEF Signal, ProcessEnds, waits, counts
  <2>2. ASSUME NEW w \in Worker, Speaks(worker'[w], x)
        PROVE  Speaks(worker[w], x) /\ (Unsure(worker'[w]) => Unsure(worker[w]))
    <3>1. w \in Threads /\ worker[w] \in WorkerRec
      BY <2>1, <2>2 DEF Speaks, Threads, TypeOK
    <3>. QED
      BY <2>1, <2>2, <3>1, NoWorkerAssumption DEF Speaks, Unsure, WorkerRec, Threads
  <2>. QED
    BY <1>1, <2>1, <2>2, HandOn
<1>4. CASE StopTimeout \/ Crash
  BY <1>4 DEF StopTimeout, Crash, ProcessEnds
<1>. QED
  BY <1>2, <1>3, <1>4

LEMMA OneHandedStep ==
  ASSUME MaxCommands = 0, TypeOK, Idle, Outboxed, WatchOnlyWhileWaiting, NoneTold, OneHanded,
         Next
  PROVE  OneHanded'
<1>1. SUFFICES ASSUME phase' # "down", NEW x \in Site
               PROVE  OneHand(x)'
  BY DEF OneHanded
<1>2. ASSUME NEW d \in Docs, Boot(d)
      PROVE  OneHand(x)'
  BY <1>2, BootHand
<1>3. ASSUME phase = "down", ~ \E d \in Docs : Boot(d)
      PROVE  FALSE
  <2>1. \A w \in Worker : worker[w] = None
    BY <1>3 DEF Idle
  <2>2. ASSUME NEW w \in Worker, WorkerStep(w) \/ HandleReport(w)
        PROVE  FALSE
    BY <2>1, <2>2 DEF WorkerStep, LinkUp, LinkDown, End, Obey, Working, HandleReport,
       HandleConnected, HandleTimeout, HandleError, HandleStopped, HandleExit, Says, Threads
  <2>. QED
    BY <1>1, <1>3, <2>2, NoCommands DEF Next, Idle, TimerFires, DnsChanges, Quiet, WeekPasses,
       WatchOnlyWhileWaiting, SaveFires, Signal, StopTimeout, Stopping, Crash
<1>4. ASSUME phase # "down", NEW w \in Worker, WorkerStep(w) \/ HandleReport(w)
      PROVE  OneHand(x)'
  BY <1>1, <1>4, WorkerStepHand, HandleReportHand DEF OneHanded
<1>5. ASSUME phase # "down", NEW s \in Site,
             TimerFires(s) \/ DnsChanges(s) \/ Quiet(s) \/ WeekPasses(s)
      PROVE  OneHand(x)'
  BY <1>5, SiteStepHand
<1>6. ASSUME phase # "down", SaveFires \/ Signal \/ StopTimeout \/ Crash
      PROVE  OneHand(x)'
  BY <1>1, <1>6, ProcessStepHand
<1>. QED
  BY <1>2, <1>3, <1>4, <1>5, <1>6, NoCommands DEF Next

\* While no worker was told to exit, the keepers of a site are its speakers.
LEMMA KeepersSpeak ==
  ASSUME TypeOK, Outboxed, NEW s \in Site, NEW w \in Worker,
         worker[w] # None => ~worker[w].told
  PROVE  w \in Keepers(s) <=> Speaks(worker[w], s)
<1>. PICK any \in Endings : TRUE
  BY DEF Endings
<1>1. SUFFICES ASSUME worker[w] # None, worker[w].site = s
               PROVE  Working(w) \/ Unreported(w) <=> worker[w].outbox # <<"exit">>
  BY DEF Keepers, Speaks, Threads
<1>2. worker[w] \in WorkerRec /\ OutboxShape(worker[w]) /\ ~worker[w].told
  BY <1>1 DEF TypeOK, Outboxed, Threads
<1>3. "exit" \notin Endings
  BY DEF Endings, Reasons
<1>4. CASE worker[w].life # "ended"
  <2>1. worker[w].outbox \in {<<>>, <<"connected">>}
    BY <1>2, <1>4 DEF OutboxShape, WorkerRec, Lives
  <2>. QED
    BY <1>1, <1>4, <2>1, OutboxesDiffer DEF Working, Threads
<1>5. CASE worker[w].life = "ended"
  <2>1. ~Working(w) /\ (Unreported(w) <=> Range(worker[w].outbox) \cap Endings # {})
    BY <1>1, <1>5 DEF Working, Unreported, Threads
  <2>2. CASE worker[w].outbox = <<"exit">>
    <3>1. Range(worker[w].outbox) = {"exit"}
      BY <2>2, OutboxContents
    <3>. QED
      BY <1>3, <2>1, <2>2, <3>1
  <2>3. ASSUME NEW e \in Endings,
               worker[w].outbox = <<e, "exit">> \/ worker[w].outbox = <<"connected", e, "exit">>
        PROVE  worker[w].outbox # <<"exit">> /\ Unreported(w)
    <3>1. e \in Range(worker[w].outbox)
      BY <2>3, OutboxContents
    <3>. QED
      BY <2>1, <2>3, <3>1, OutboxesDiffer
  <2>. QED
    BY <1>2, <1>5, <2>1, <2>2, <2>3 DEF OutboxShape
<1>. QED
  BY <1>4, <1>5

LEMMA OneHandCounts ==
  ASSUME TypeOK, Outboxed, NoneTold, OneHanded
  PROVE  OneKeeperPerSite
<1>1. SUFFICES ASSUME phase = "up", NEW s \in Site
               PROVE  /\ Cardinality(Keepers(s)) =
                           IF StateOf(s) \in {"starting", "connected"} THEN 1 ELSE 0
                      /\ pending[s] <=> StateOf(s) = "down"
  BY DEF OneKeeperPerSite, StateOf
<1>2. OneHand(s)
  BY <1>1 DEF OneHanded
<1>3. \A w : w \in Keepers(s) <=> w \in Worker /\ Speaks(worker[w], s)
  BY <1>1, KeepersSpeak DEF NoneTold, Keepers, Threads
<1>4. CASE StateOf(s) \in {"starting", "connected"}
  <2>1. PICK w \in Worker : Speaks(worker[w], s)
    BY <1>1, <1>2, <1>4 DEF OneHand
  <2>2. Keepers(s) = {w}
    BY <1>2, <1>3, <2>1 DEF OneHand
  <2>. QED
    BY <1>2, <1>4, <2>2, FS_Singleton DEF OneHand
<1>5. CASE StateOf(s) \notin {"starting", "connected"}
  <2>1. Keepers(s) = {}
    BY <1>2, <1>3, <1>5 DEF OneHand
  <2>. QED
    BY <1>2, <1>5, <2>1, FS_EmptySet DEF OneHand
<1>. QED
  BY <1>4, <1>5

\* What a restart after a report starts is a worker for the entry in force, and
\* the file does not hold the site for it.
LEMMA ReportStarts ==
  ASSUME TypeOK, Outboxed, OneHanded, phase # "down", NEW x \in Worker, HandleReport(x),
         NEW w \in Worker, Starts(w)
  PROVE  ~StillBlocked(disk.sites[worker'[w].site], Fingerprint(worker'[w].entry))
<1>1. CASE HandleConnected(x) \/ HandleStopped(x)
  <2>1. worker' = Heard(x) /\ \E r : r # "exit" /\ Says(x, r)
    BY <1>1 DEF HandleConnected, HandleStopped, Reasons
  <2>. QED
    BY <2>1, HeardMoved DEF MovedTo, Starts
<1>2. CASE HandleExit(x)
  BY <1>2 DEF HandleExit, ProcessEnds, Starts, TypeOK
<1>3. CASE HandleTimeout(x) \/ HandleError(x)
  <2>1. PICK r \in {"timeout", "error"} : Says(x, r)
    BY <1>3 DEF HandleTimeout, HandleError
  <2>2. r # "exit" /\ r \in Endings
    BY DEF Endings
  <2>. PICK s \in Site : s = worker[x].site
    BY <2>1, SpeakerType
  <2>3. PICK fails : RequestRestart(s, fails, Heard(x)) /\ failures' = fails
    BY <1>3 DEF HandleTimeout, HandleError, RequestRestart
  <2>4. UNCHANGED <<phase, doc, disk>>
    BY <1>3 DEF HandleTimeout, HandleError
  <2>5. /\ OneHand(s) /\ fails \in [Site -> Nat]
        /\ Heard(x) \in [Worker -> WorkerRec \cup {None}]
    BY <2>1, <2>2, <2>3, HeardMoved, HandleReportType DEF OneHanded, TypeOK
  <2>6. /\ Speaks(worker[x], s)
        /\ \A v \in Worker : ~Speaks(Heard(x)[v], s)
        /\ \A v \in Worker : Heard(x)[v] # None => worker[v] # None
    BY <2>1, <2>2, <2>5, SpeakerHand
  <2>7. Enabled(s) /\ ~pending[s] /\ ~StillBlocked(disk.sites[s], Fingerprint(doc[s]))
    BY <2>5, <2>6, SpokenFor
  <2>8. worker'[w] # Heard(x)[w]
    BY <2>6 DEF Starts
  <2>9. Restart(s, fails, Heard(x)) /\ UNCHANGED waits
    BY <2>3, <2>8 DEF RequestRestart
  <2>10. worker'[w].site = s /\ worker'[w].entry = doc[s]
    BY <2>4, <2>5, <2>6, <2>7, <2>8, <2>9, RestartHand DEF waits
  <2>. QED
    BY <2>7, <2>10
<1>. QED
  BY <1>1, <1>2, <1>3 DEF HandleReport

LEMMA HoldLastsStep ==
  ASSUME MaxCommands = 0, TypeOK, Idle, Outboxed, WatchOnlyWhileWaiting, OneHanded, Next,
         NEW w \in Worker, Starts(w)
  PROVE  ~StillBlocked(disk.sites[worker'[w].site], Fingerprint(worker'[w].entry))
<1>. USE DEF file, counts, waits
<1>1. ASSUME NEW d \in Docs, Boot(d)
      PROVE  ~StillBlocked(disk.sites[worker'[w].site], Fingerprint(worker'[w].entry))
  <2>. PICK s \in Site : s = worker'[w].site
    BY <1>1, BootType DEF TypeOK, WorkerRec, Starts
  <2>1. ~NoneAt(s)'
    BY DEF NoneAt, Starts
  <2>2. PICK h \in Worker :
          /\ s \in EnabledIn(d) \ BlockedIn(d)
          /\ worker'[h] = NewWorker(s, d[s], disk.sites[s])
          /\ \A v \in Worker \ {h} : worker'[v] # None => worker'[v].site # s
    BY <1>1, <2>1, BootDoes DEF Booted
  <2>3. w = h
    BY <2>2 DEF Starts
  <2>. QED
    BY <2>2, <2>3 DEF NewWorker, BlockedIn
<1>2. ASSUME NEW x \in Worker, WorkerStep(x)
      PROVE  FALSE
  BY <1>2, WorkerStepMoves DEF MovedTo, Starts
<1>3. ASSUME NEW x \in Worker, HandleReport(x)
      PROVE  ~StillBlocked(disk.sites[worker'[w].site], Fingerprint(worker'[w].entry))
  <2>1. phase # "down"
    BY <1>3 DEF Idle, HandleReport, HandleConnected, HandleTimeout, HandleError, HandleStopped,
       HandleExit, Says, Threads
  <2>. QED
    BY <1>3, <2>1, ReportStarts
<1>4. ASSUME NEW s \in Site, TimerFires(s) \/ DnsChanges(s)
      PROVE  ~StillBlocked(disk.sites[worker'[w].site], Fingerprint(worker'[w].entry))
  <2>1. pending[s] /\ CancelPending(s) /\ UNCHANGED <<phase, doc, disk>>
    BY <1>4 DEF TimerFires, DnsChanges, WatchOnlyWhileWaiting
  <2>2. OneHand(s)
    BY <2>1 DEF Idle, OneHanded
  <2>3. /\ Enabled(s) /\ ~StillBlocked(disk.sites[s], Fingerprint(doc[s]))
        /\ \A v \in Worker : ~Speaks(worker[v], s)
    BY <2>1, <2>2, WaitingHand
  <2>4. PICK fails \in [Site -> Nat] : Restart(s, fails, worker)
    <3>1. \/ Restart(s, failures, worker)
          \/ failures' = [failures EXCEPT ![s] = 0] /\ Restart(s, failures', worker)
      BY <1>4, <2>1, <2>3 DEF TimerFires, DnsChanges
    <3>2. failures \in [Site -> Nat] /\ [failures EXCEPT ![s] = 0] \in [Site -> Nat]
      BY DEF TypeOK
    <3>. QED
      BY <3>1, <3>2
  <2>5. ~pending'[s] /\ worker \in [Worker -> WorkerRec \cup {None}]
    BY <2>1 DEF CancelPending, TypeOK
  <2>6. worker'[w].site = s /\ worker'[w].entry = doc[s]
    BY <2>1, <2>3, <2>4, <2>5, RestartHand DEF Starts
  <2>. QED
    BY <2>3, <2>6
<1>5. ASSUME NEW s \in Site, Quiet(s) \/ WeekPasses(s)
      PROVE  FALSE
  BY <1>5 DEF Quiet, WeekPasses, Starts
<1>6. ASSUME SaveFires \/ Signal \/ StopTimeout \/ Crash
      PROVE  FALSE
  BY <1>6 DEF SaveFires, Signal, StopTimeout, Crash, ProcessEnds, Starts, Threads
<1>. QED
  BY <1>1, <1>2, <1>3, <1>4, <1>5, <1>6, NoCommands DEF Next

\* The inductive invariant: every site in one hand, every outbox in its shape, and
\* nobody told to exit while ha-mon is up.
LEMMA OneHandInvariant ==
  ASSUME MaxCommands = 0
  PROVE  Spec => [](TypeOK /\ Idle /\ Outboxed /\ WatchOnlyWhileWaiting /\ NoneTold /\ OneHanded)
<1>1. Init => Idle /\ Outboxed /\ NoneTold /\ OneHanded
  BY ConstantsAssumption DEF Init, Idle, Outboxed, NoneTold, OneHanded, Threads
<1>2. TypeOK /\ Idle /\ Outboxed /\ WatchOnlyWhileWaiting /\ NoneTold /\ OneHanded
        /\ [Next]_vars => (Idle /\ Outboxed /\ NoneTold /\ OneHanded)'
  <2>1. TypeOK /\ Idle /\ Outboxed /\ WatchOnlyWhileWaiting /\ NoneTold /\ OneHanded /\ Next =>
          (Idle /\ Outboxed /\ NoneTold /\ OneHanded)'
    BY IdleStep, OutboxStep, NoneToldStep, OneHandedStep
  <2>2. UNCHANGED vars => UNCHANGED <<phase, doc, pending, mem, disk, worker>>
    BY DEF vars, waits, file
  <2>3. Idle /\ Outboxed /\ NoneTold /\ OneHanded /\ UNCHANGED vars =>
          (Idle /\ Outboxed /\ NoneTold /\ OneHanded)'
    BY <2>2 DEF Idle, Outboxed, NoneTold, OneHanded, OneHand, StateOf, Enabled, IsHeld, Threads
  <2>. QED
    BY <2>1, <2>3
<1>. QED
  BY TypeCorrect, WatchCorrect, <1>1, <1>2, PTL DEF Spec

\* Without reload and kpipe (no commands), and whatever workers, timers, saves,
\* stops and crashes do in whatever order, a site is in exactly one hand.
THEOREM OneKeeperCorrect ==
  ASSUME MaxCommands = 0
  PROVE  Spec => []OneKeeperPerSite
BY OneHandInvariant, OneHandCounts, PTL

\* Without reload and kpipe no worker is started for an entry the file holds its
\* site for, in this run of ha-mon or a later one.
THEOREM HoldLastsCorrect ==
  ASSUME MaxCommands = 0
  PROVE  Spec => HoldLasts
<1>1. TypeOK /\ Idle /\ Outboxed /\ WatchOnlyWhileWaiting /\ OneHanded /\ [Next]_vars =>
        [\A w \in Worker : Starts(w) =>
           LET r == disk.sites[worker'[w].site]
           IN  r # None /\ r.state \in Held => r.fp # Fingerprint(worker'[w].entry)]_vars
  BY HoldLastsStep DEF StillBlocked
<1>. QED
  BY <1>1, OneHandInvariant, PTL DEF Spec, HoldLasts

\* Without reload and kpipe a site recorded to have connected within
\* PRECHECK_DAYS is not blocked for a gateway that does not answer.
THEOREM RecentSiteCorrect ==
  ASSUME MaxCommands = 0
  PROVE  Spec => RecentSiteNotBlocked
<1>1. ASSUME TypeOK, Idle, Outboxed, OneHanded, NEW w \in Worker, Takes(w, "unreachable")
      PROVE  LastConnected(mem[worker[w].site]) # "recent"
  <2>. PICK s \in Site : s = worker[w].site
    BY <1>1, SpeakerType DEF Takes
  <2>1. worker[w] # None /\ worker[w] \in WorkerRec /\ OutboxShape(worker[w])
    BY <1>1, SpeakerType DEF Takes, Says, Threads, Outboxed
  <2>2. OneHand(s)
    BY <1>1, <2>1 DEF Idle, OneHanded
  <2>3. worker[w].outbox = <<"unreachable", "exit">> /\ worker[w].outbox # <<"exit">>
    BY <1>1, <2>1, TakeSpeaks DEF Takes, Says
  <2>. QED
    BY <2>1, <2>2, <2>3 DEF OneHand, Speaks, Unsure, NeedsPrecheck
<1>2. TypeOK /\ Idle /\ Outboxed /\ OneHanded /\ [Next]_vars =>
        [\A w \in Worker :
           Takes(w, "unreachable") => LastConnected(mem[worker[w].site]) # "recent"]_vars
  BY <1>1
<1>. QED
  BY <1>2, OneHandInvariant, PTL DEF Spec, RecentSiteNotBlocked
=============================================================================
