------------------------------- MODULE Dedupe -------------------------------
(***************************************************************************)
(* src/src/dedupe.js: how often a chatty group address is stored.  The     *)
(* addresses are independent entries of a Map, so the model has one.       *)
(* Samples are numbered as they arrive; a point is a sample written, under *)
(* its own time.                                                           *)
(***************************************************************************)
EXTENDS Integers, Sequences

CONSTANTS
  Value,       \* decoded values as === tells them apart: each object is one of its own
  Window,      \* the dedupe window
  Lateness,    \* how late the event loop may run a timer that is due
  MaxTime,     \* bound: the clock stops here
  MaxHeard,    \* bound: samples
  None         \* no entry, nothing pending, no timer

ASSUME TimesAssumption == Window \in Nat \ {0} /\ Lateness \in Nat /\ MaxTime \in Nat
ASSUME HeardAssumption == MaxHeard \in Nat

Sample == [id : Nat \ {0}, value : Value, at : Nat]
Point  == [id : Nat \ {0}, stamp : Nat, on : Nat]
Entry  == [value : Value, at : Nat, pending : Sample \cup {None}, timer : Nat \cup {None}]

ASSUME NoneAssumption == None \notin Sample \cup Nat \cup Entry

VARIABLES
  now,
  g,         \* the entry of the address in `gas`
  timers,    \* when the timers that are set are due
  heard,     \* all samples, in the order they came
  written,   \* all points, in the order they were written
  stopped    \* flushAll() has run

vars == <<now, g, timers, heard, written, stopped>>

-----------------------------------------------------------------------------
\* value === g.value
Repeats(v) == g # None /\ v = g.value

Holding == IF g = None THEN FALSE ELSE g.pending # None

\* write(new Date(p.at), p.args), if anything is held
Flushed == IF Holding
           THEN Append(written, [id |-> g.pending.id, stamp |-> g.pending.at, on |-> now])
           ELSE written

\* mutant: the timer of what was held stays
UnheldTimers == timers

\* the timers without that of what is held
Unheld == IF g = None THEN timers ELSE timers \ {g.timer}

\* mutant: `at` is put a window back, for the next repeat to be written too
WriteNowBackdated(s) ==
  /\ timers' = Unheld
  /\ g' = [value |-> s.value, at |-> s.at - Window, pending |-> None, timer |-> None]
  /\ written' = Append(Flushed, [id |-> s.id, stamp |-> s.at, on |-> now])

\* mutant: what is held is overtaken, and dropped
WriteNowOnly(s) ==
  /\ timers' = Unheld
  /\ g' = [value |-> s.value, at |-> s.at, pending |-> None, timer |-> None]
  /\ written' = Append(written, [id |-> s.id, stamp |-> s.at, on |-> now])

\* mutant: the held repeat goes after
WriteThenFlush(s) ==
  /\ timers' = Unheld
  /\ g' = [value |-> s.value, at |-> s.at, pending |-> None, timer |-> None]
  /\ written' = LET point == [id |-> s.id, stamp |-> s.at, on |-> now]
                IN  IF Holding
                    THEN written \o <<point, [id |-> g.pending.id, stamp |-> g.pending.at, on |-> now]>>
                    ELSE Append(written, point)

\* push(), written at once: a held repeat goes first
WriteNow(s) ==
  /\ timers' = Unheld
  /\ g' = [value |-> s.value, at |-> s.at, pending |-> None, timer |-> None]
  /\ written' = Append(Flushed, [id |-> s.id, stamp |-> s.at, on |-> now])

\* mutant: each repeat waits a whole window of its own
HoldAnew(s) ==
  /\ timers' = Unheld \cup {now + Window}
  /\ g' = [g EXCEPT !.pending = s, !.timer = now + Window]
  /\ UNCHANGED written

\* push(), held; the first one held sets the timer
Hold(s) ==
  /\ IF g.timer # None
     THEN /\ UNCHANGED timers
          /\ g' = [g EXCEPT !.pending = s]
     ELSE /\ timers' = timers \cup {g.at + Window}
          /\ g' = [g EXCEPT !.pending = s, !.timer = g.at + Window]
  /\ UNCHANGED written

\* push(): a telegram with value v
Push(v) ==
  LET s == [id |-> Len(heard) + 1, value |-> v, at |-> now] IN
  /\ Len(heard) < MaxHeard
  /\ heard' = Append(heard, [value |-> v, at |-> now])
  /\ IF Repeats(v) /\ now < g.at + Window THEN Hold(s) ELSE WriteNow(s)
  /\ UNCHANGED <<now, stopped>>

\* a timer goes off: flush()
TimerFires(d) ==
  /\ d \in timers
  /\ d <= now
  /\ timers' = timers \ {d}
  /\ g' = IF Holding
          THEN [value |-> g.pending.value, at |-> g.pending.at, pending |-> None, timer |-> None]
          ELSE g
  /\ written' = Flushed
  /\ UNCHANGED <<now, heard, stopped>>

\* flushAll(): the site is stopping.  Telegrams may still come
FlushAll ==
  /\ ~stopped
  /\ stopped' = TRUE
  /\ timers' = Unheld
  /\ g' = None
  /\ written' = Flushed
  /\ UNCHANGED <<now, heard>>

\* time passes, but not over a timer that is Lateness overdue
Tick ==
  /\ now < MaxTime
  /\ \A d \in timers : now < d + Lateness
  /\ now' = now + 1
  /\ UNCHANGED <<g, timers, heard, written, stopped>>

Init ==
  /\ now = 0
  /\ g = None
  /\ timers = {}
  /\ heard = <<>>
  /\ written = <<>>
  /\ stopped = FALSE

Next ==
  \/ \E v \in Value : Push(v)
  \/ \E d \in timers : TimerFires(d)
  \/ FlushAll
  \/ Tick

Spec == Init /\ [][Next]_vars

-----------------------------------------------------------------------------
\* TypeOK: the entry, the timers and the two histories keep their shape.
TypeOK ==
  /\ now \in Nat
  /\ g \in Entry \cup {None}
  /\ timers \subseteq Nat
  /\ heard \in Seq([value : Value, at : Nat])
  /\ written \in Seq(Point)
  /\ stopped \in BOOLEAN

\* Points are written in the order the samples came, none twice, each with the
\* time it came at: a late write never lands before or upon another.
InOrder ==
  /\ \A i \in 1..Len(written) : /\ written[i].id \in 1..Len(heard)
                                /\ written[i].stamp = heard[written[i].id].at
  /\ \A i, j \in 1..Len(written) : i < j => written[i].id < written[j].id

Kept(n) == \/ \E i \in 1..Len(written) : written[i].id = n
           \/ Holding /\ g.pending.id = n

\* sample n + 1 differs from sample n
Change(n) == heard[n + 1].value # heard[n].value

\* the first or the last sample of a run of equal values
Corner(n) == n = 1 \/ n = Len(heard) \/ Change(n - 1) \/ Change(n)

\* "The last value before a quiet spell or a change is never lost" (dedupe.js:8):
\* the first and the last sample of every run of equal values is written or
\* held, so what dashboards draw between points is what was heard.
CornersKept == \A n \in 1..Len(heard) : Corner(n) => Kept(n)

\* What is held is written when the window since the last point is over, and
\* at most Lateness later, however often it is replaced.
HeldInTime == Holding => /\ g.timer = g.at + Window
                         /\ timers = {g.timer}
                         /\ now <= g.timer + Lateness

\* a repeat written because the window was over
Spare(i) == ~Corner(written[i].id)

\* A long run of one value is thinned: of the repeats inside it, no four are
\* written within less than a window, whatever timers and telegrams coincide.
\* (After a stop the next sample is written anew.)
Thinned ==
  LET spares == {i \in 1..Len(written) : Spare(i)} IN
  ~stopped => \A i, j, k, l \in spares :
                i < j /\ j < k /\ k < l => written[l].on - written[i].on >= Window

=============================================================================
