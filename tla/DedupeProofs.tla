---------------------------- MODULE DedupeProofs ----------------------------
(***************************************************************************)
(* What Dedupe promises, for every window, every set of values and any     *)
(* number of telegrams.                                                    *)
(***************************************************************************)
EXTENDS Dedupe, TLAPS

\* what the entry says of the histories and the timers
EntryInv ==
  /\ g = None => timers = {}
  /\ g # None => /\ timers = {g.timer} \ {None}
                 /\ g.pending = None <=> g.timer = None
                 /\ g.timer # None => g.timer = g.at + Window /\ now <= g.timer + Lateness
                 /\ Len(heard) >= 1
                 /\ heard[Len(heard)].value = g.value
  /\ Holding => /\ g.pending.id = Len(heard)
                /\ g.pending.value = heard[Len(heard)].value
                /\ g.pending.at = heard[Len(heard)].at
                /\ Len(heard) > 1
                /\ heard[Len(heard) - 1].value = g.value
                /\ \A i \in 1..Len(written) : written[i].id < Len(heard)

\* the inductive invariant: CornersKept needs to know that what is held is the
\* last sample heard, and neither the first of its run nor written already
IInv == TypeOK /\ EntryInv /\ InOrder /\ CornersKept

Heard == [value : Value, at : Nat]

\* InOrder, of points w of the samples h
Ordered(w, h) ==
  /\ \A i \in 1..Len(w) : w[i].id \in 1..Len(h) /\ w[i].stamp = h[w[i].id].at
  /\ \A i, j \in 1..Len(w) : i < j => w[i].id < w[j].id

Has(w, n) == \E i \in 1..Len(w) : w[i].id = n

\* A point of a later sample, with its own time, can be appended.
LEMMA AppendOrdered ==
  ASSUME NEW w \in Seq(Point), NEW h \in Seq(Heard), NEW p \in Point,
         Ordered(w, h), p.id \in 1..Len(h), p.stamp = h[p.id].at,
         \A i \in 1..Len(w) : w[i].id < p.id
  PROVE  /\ Append(w, p) \in Seq(Point)
         /\ Ordered(Append(w, p), h)
         /\ \A n : Has(Append(w, p), n) <=> Has(w, n) \/ n = p.id
         /\ \A i \in 1..Len(Append(w, p)) : Append(w, p)[i].id <= p.id
PROOF
<1> DEFINE a == Append(w, p)
<1>1. /\ a \in Seq(Point)
      /\ Len(a) = Len(w) + 1
      /\ Len(w) \in Nat
      /\ \A i \in 1..Len(w) : a[i] = w[i]
      /\ a[Len(w) + 1] = p
  OBVIOUS
<1>2. \A i \in 1..Len(a) : i \in 1..Len(w) \/ i = Len(w) + 1
  BY <1>1
<1>3. \A i \in 1..Len(w) : w[i] \in Point /\ w[i].id \in Nat
  <2>1. \A i \in 1..Len(w) : w[i] \in Point
    OBVIOUS
  <2>2. \A q \in Point : q.id \in Nat
    BY DEF Point
  <2> QED BY <2>1, <2>2
<1>4. p.id \in Nat
  BY DEF Point
<1>5. \A i \in 1..Len(a) : a[i].id \in 1..Len(h) /\ a[i].stamp = h[a[i].id].at
  BY <1>1, <1>2 DEF Ordered
<1>6. \A i, j \in 1..Len(a) : i < j => a[i].id < a[j].id
  BY <1>1, <1>2, <1>3, <1>4 DEF Ordered
<1>7. \A n : Has(a, n) <=> Has(w, n) \/ n = p.id
  <2> TAKE n
  <2>1. Has(a, n) => Has(w, n) \/ n = p.id
    BY <1>1, <1>2 DEF Has
  <2>2. Has(w, n) => Has(a, n)
    BY <1>1 DEF Has
  <2>3. n = p.id => Has(a, n)
    <3>1. Len(w) + 1 \in 1..Len(a)
      BY <1>1
    <3> QED BY <3>1, <1>1 DEF Has
  <2> QED BY <2>1, <2>2, <2>3
<1>8. \A i \in 1..Len(a) : a[i].id <= p.id
  BY <1>1, <1>2, <1>3, <1>4
<1> QED BY <1>1, <1>5, <1>6, <1>7, <1>8 DEF Ordered

\* Hearing one more sample disturbs no point.
LEMMA HearOrdered ==
  ASSUME NEW w \in Seq(Point), NEW h \in Seq(Heard), NEW s \in Heard, Ordered(w, h)
  PROVE  Ordered(w, Append(h, s))
PROOF
<1>1. Len(Append(h, s)) = Len(h) + 1 /\ Len(h) \in Nat
  OBVIOUS
<1>2. \A k \in 1..Len(h) : Append(h, s)[k] = h[k]
  OBVIOUS
<1> QED BY <1>1, <1>2 DEF Ordered

\* Flushing writes what is held, in order, and nothing else.
LEMMA FlushedOrdered ==
  ASSUME IInv
  PROVE  /\ Flushed \in Seq(Point)
         /\ Ordered(Flushed, heard)
         /\ \A n : Has(Flushed, n) <=> Kept(n)
PROOF
<1>1. Ordered(written, heard) /\ written \in Seq(Point) /\ heard \in Seq(Heard)
  BY DEF IInv, InOrder, Ordered, TypeOK, Heard
<1>2. CASE ~Holding
  BY <1>1, <1>2 DEF Flushed, Kept, Has
<1>3. CASE Holding
  <2> DEFINE p == [id |-> g.pending.id, stamp |-> g.pending.at, on |-> now]
  <2>1. g \in Entry /\ g.pending \in Sample
    BY <1>3 DEF Holding, IInv, TypeOK, Entry
  <2>2. p \in Point
    BY <2>1 DEF Sample, Point, IInv, TypeOK
  <2>3. /\ p.id = Len(heard)
        /\ Len(heard) > 1
        /\ p.stamp = heard[p.id].at
        /\ \A i \in 1..Len(written) : written[i].id < p.id
    BY <1>3 DEF IInv, EntryInv
  <2>4. p.id \in 1..Len(heard)
    BY <2>3, <1>1
  <2>5. /\ Append(written, p) \in Seq(Point)
        /\ Ordered(Append(written, p), heard)
        /\ \A n : Has(Append(written, p), n) <=> Has(written, n) \/ n = p.id
    BY <1>1, <2>2, <2>3, <2>4, AppendOrdered
  <2>6. Flushed = Append(written, p)
    BY <1>3 DEF Flushed
  <2>7. \A n : Kept(n) <=> Has(written, n) \/ n = p.id
    BY <1>3 DEF Kept, Has
  <2> QED BY <2>5, <2>6, <2>7
<1> QED BY <1>2, <1>3

-----------------------------------------------------------------------------
\* A sample heard keeps the ones before it, and makes no new corner of them.
LEMMA Hearing ==
  ASSUME TypeOK, NEW v \in Value, heard' = Append(heard, [value |-> v, at |-> now])
  PROVE  /\ Len(heard) \in Nat
         /\ Len(heard') = Len(heard) + 1
         /\ heard' \in Seq(Heard)
         /\ \A n \in 1..Len(heard) : heard'[n] = heard[n]
         /\ heard'[Len(heard')] = [value |-> v, at |-> now]
         /\ \A n \in 1..Len(heard) : Corner(n)' => Corner(n)
PROOF
<1>1. heard \in Seq(Heard) /\ [value |-> v, at |-> now] \in Heard
  BY DEF TypeOK, Heard
<1>2. /\ Len(heard) \in Nat
      /\ Len(heard') = Len(heard) + 1
      /\ heard' \in Seq(Heard)
      /\ \A n \in 1..Len(heard) : heard'[n] = heard[n]
      /\ heard'[Len(heard')] = [value |-> v, at |-> now]
  BY <1>1
<1>3. ASSUME NEW n \in 1..Len(heard), Corner(n)'
      PROVE  Corner(n)
  <2>1. CASE n = 1 \/ n = Len(heard)
    BY <2>1 DEF Corner
  <2>2. CASE n # 1 /\ n # Len(heard)
    <3>1. n - 1 \in 1..Len(heard) /\ n + 1 \in 1..Len(heard) /\ n # Len(heard')
      BY <1>2, <2>2
    <3>2. heard'[n - 1] = heard[n - 1] /\ heard'[n] = heard[n] /\ heard'[n + 1] = heard[n + 1]
      BY <1>2, <3>1
    <3>3. (n - 1) + 1 = n
      BY <1>2
    <3> QED BY <1>3, <2>2, <3>1, <3>2, <3>3 DEF Corner, Change
  <2> QED BY <2>1, <2>2
<1> QED BY <1>2, <1>3

\* A repeat is held.
LEMMA HoldStep ==
  ASSUME IInv, NEW v \in Value, Repeats(v), now < g.at + Window,
         heard' = Append(heard, [value |-> v, at |-> now]),
         Hold([id |-> Len(heard) + 1, value |-> v, at |-> now]),
         UNCHANGED <<now, stopped>>
  PROVE  IInv'
PROOF
<1> DEFINE s == [id |-> Len(heard) + 1, value |-> v, at |-> now]
<1> USE DEF IInv
<1>1. /\ Len(heard) \in Nat
      /\ Len(heard') = Len(heard) + 1
      /\ heard' \in Seq(Heard)
      /\ \A n \in 1..Len(heard) : heard'[n] = heard[n]
      /\ heard'[Len(heard')] = [value |-> v, at |-> now]
      /\ \A n \in 1..Len(heard) : Corner(n)' => Corner(n)
  BY Hearing
<1>2. g \in Entry /\ g # None /\ v = g.value
  BY DEF TypeOK, Repeats
<1>3. s \in Sample /\ s # None
  BY <1>1, NoneAssumption DEF Sample, TypeOK
<1>4. g.at \in Nat /\ g.at + Window \in Nat /\ now \in Nat /\ Lateness \in Nat
  BY <1>2, TimesAssumption DEF Entry, TypeOK
<1>5. \A n \in Nat : n # None
  BY NoneAssumption
<1>6. /\ g' \in Entry
      /\ g'.value = g.value /\ g'.at = g.at /\ g'.pending = s
      /\ g'.timer = IF g.timer # None THEN g.timer ELSE g.at + Window
  BY <1>2, <1>3, <1>4 DEF Hold, Entry
<1>7. g' # None
  BY <1>6, NoneAssumption
<1>8. written' = written
  BY DEF Hold
<1>9. /\ timers = {g.timer} \ {None}
      /\ g.timer # None => g.timer = g.at + Window /\ now <= g.timer + Lateness
      /\ Len(heard) >= 1
      /\ heard[Len(heard)].value = g.value
  BY <1>2 DEF EntryInv
<1>10. g'.timer = g.at + Window /\ g'.timer # None /\ now <= g'.timer + Lateness
  BY <1>4, <1>5, <1>6, <1>9
<1>11. timers' = {g'.timer}
  BY <1>5, <1>6, <1>9, <1>10 DEF Hold
<1>12. TypeOK'
  BY <1>1, <1>4, <1>6, <1>8, <1>10, <1>11 DEF TypeOK, Heard
<1>13. InOrder'
  BY <1>1, <1>8 DEF InOrder
<1>14. Len(heard) \in 1..Len(heard) /\ heard'[Len(heard)].value = v /\ heard'[Len(heard) + 1].value = v
  BY <1>1, <1>2, <1>9
<1>15. \A i \in 1..Len(written') : written'[i].id < Len(heard')
  BY <1>1, <1>8 DEF InOrder
<1>16. EntryInv'
  <2>1. Holding'
    BY <1>3, <1>6, <1>7 DEF Holding
  <2>2. /\ g'.pending.id = Len(heard')
        /\ g'.pending.value = heard'[Len(heard')].value
        /\ g'.pending.at = heard'[Len(heard')].at
    BY <1>1, <1>6
  <2>3. heard'[Len(heard')].value = g'.value
    BY <1>1, <1>2, <1>6
  <2>4. timers' = {g'.timer} \ {None}
    BY <1>10, <1>11
  <2>5. Len(heard') > 1 /\ heard'[Len(heard') - 1].value = g'.value
    <3>1. Len(heard') - 1 = Len(heard)
      BY <1>1
    <3> QED BY <1>1, <1>2, <1>6, <1>9, <1>14, <3>1
  <2> QED BY <1>3, <1>6, <1>7, <1>10, <1>15, <2>1, <2>2, <2>3, <2>4, <2>5, now' = now DEF EntryInv
<1>17. CornersKept'
  <2>1. SUFFICES ASSUME NEW n \in 1..Len(heard'), Corner(n)'
                 PROVE  Kept(n)'
    BY DEF CornersKept
  <2>2. CASE n = Len(heard')
    BY <1>1, <1>3, <1>6, <1>7, <2>2 DEF Kept, Holding
  <2>3. CASE n \in 1..Len(heard)
    <3>1. Kept(n)
      BY <1>1, <2>1, <2>3 DEF CornersKept
    <3>2. CASE \E i \in 1..Len(written) : written[i].id = n
      BY <1>8, <3>2 DEF Kept
    <3>3. CASE Holding /\ g.pending.id = n
      \* what it replaces was inside the run
      <4>1. n = Len(heard) /\ n > 1 /\ heard[n - 1].value = v
        BY <1>2, <3>3 DEF EntryInv
      <4>2. n - 1 \in 1..Len(heard) /\ (n - 1) + 1 = n
        BY <1>1, <4>1
      <4>3. heard'[n - 1].value = v /\ heard'[n].value = v /\ heard'[n + 1].value = v
        BY <1>1, <1>14, <4>1, <4>2
      <4>4. ~Change(n - 1)' /\ ~Change(n)'
        BY <1>2, <4>2, <4>3 DEF Change
      <4> QED BY <1>1, <2>1, <4>1, <4>4 DEF Corner
    <3> QED BY <3>1, <3>2, <3>3 DEF Kept
  <2> QED BY <1>1, <2>2, <2>3
<1> QED BY <1>12, <1>13, <1>16, <1>17

\* Dropping the entry drops its timer, the only one.
LEMMA UnheldEmpty ==
  ASSUME IInv
  PROVE  Unheld = {}
PROOF BY DEF IInv, EntryInv, Unheld

\* A sample is written as it arrives, after what was held.
LEMMA WriteNowStep ==
  ASSUME IInv, NEW v \in Value,
         heard' = Append(heard, [value |-> v, at |-> now]),
         WriteNow([id |-> Len(heard) + 1, value |-> v, at |-> now]),
         UNCHANGED <<now, stopped>>
  PROVE  IInv'
PROOF
<1> DEFINE p == [id |-> Len(heard) + 1, stamp |-> now, on |-> now]
<1>1. /\ Len(heard) \in Nat
      /\ Len(heard') = Len(heard) + 1
      /\ heard' \in Seq(Heard)
      /\ \A n \in 1..Len(heard) : heard'[n] = heard[n]
      /\ heard'[Len(heard')] = [value |-> v, at |-> now]
      /\ \A n \in 1..Len(heard) : Corner(n)' => Corner(n)
  BY Hearing DEF IInv
<1>2. now \in Nat /\ heard \in Seq(Heard) /\ [value |-> v, at |-> now] \in Heard
  BY DEF IInv, TypeOK, Heard
<1>3. p \in Point
  BY <1>1, <1>2 DEF Point
<1>4. /\ Flushed \in Seq(Point)
      /\ Ordered(Flushed, heard)
      /\ \A n : Has(Flushed, n) <=> Kept(n)
  BY FlushedOrdered
<1>5. Ordered(Flushed, heard')
  BY <1>2, <1>4, HearOrdered
<1>6. \A i \in 1..Len(Flushed) : Flushed[i].id < p.id
  BY <1>1, <1>4 DEF Ordered
<1>7. p.id \in 1..Len(heard') /\ p.stamp = heard'[p.id].at
  BY <1>1
<1>8. written' = Append(Flushed, p)
  BY DEF WriteNow
<1>9. /\ written' \in Seq(Point)
      /\ Ordered(written', heard')
      /\ \A n : Has(written', n) <=> Has(Flushed, n) \/ n = p.id
  <2> HIDE DEF p
  <2>1. /\ Append(Flushed, p) \in Seq(Point)
        /\ Ordered(Append(Flushed, p), heard')
        /\ \A n : Has(Append(Flushed, p), n) <=> Has(Flushed, n) \/ n = p.id
    <3>1. heard' \in Seq(Heard) /\ Flushed \in Seq(Point)
      BY <1>1, <1>4
    <3> QED BY ONLY <3>1, <1>3, <1>5, <1>6, <1>7, AppendOrdered, ZenonT(30)
  <2> QED BY <1>8, <2>1
<1>10. g' = [value |-> v, at |-> now, pending |-> None, timer |-> None] /\ timers' = {}
  BY UnheldEmpty DEF WriteNow
<1>11. g' \in Entry /\ g' # None /\ ~Holding'
  BY <1>2, <1>10, NoneAssumption DEF Entry, Holding
<1>12. TypeOK'
  BY <1>1, <1>2, <1>9, <1>10, <1>11 DEF IInv, TypeOK, Heard
<1>13. EntryInv'
  BY <1>1, <1>10, <1>11 DEF EntryInv
<1>14. InOrder'
  BY <1>9 DEF Ordered, InOrder
<1>15. CornersKept'
  <2>1. SUFFICES ASSUME NEW n \in 1..Len(heard'), Corner(n)'
                 PROVE  Has(written', n)
    BY DEF CornersKept, Kept, Has
  <2>2. CASE n = Len(heard')
    BY <1>1, <1>9, <2>2
  <2>3. CASE n \in 1..Len(heard)
    BY <1>1, <1>4, <1>9, <2>1, <2>3 DEF IInv, CornersKept
  <2> QED BY <1>1, <2>2, <2>3
<1> QED BY <1>12, <1>13, <1>14, <1>15 DEF IInv

\* What is held is written, and no more is heard.
LEMMA FlushStep ==
  ASSUME IInv, written' = Flushed, UNCHANGED <<now, heard>>, stopped' \in BOOLEAN,
         timers' = {}, g' \in Entry \cup {None},
         g' # None => /\ g'.pending = None /\ g'.timer = None
                      /\ Len(heard) >= 1 /\ heard[Len(heard)].value = g'.value
  PROVE  IInv'
PROOF
<1>1. /\ Flushed \in Seq(Point)
      /\ Ordered(Flushed, heard)
      /\ \A n : Has(Flushed, n) <=> Kept(n)
  BY FlushedOrdered
<1>2. TypeOK'
  BY <1>1 DEF IInv, TypeOK
<1>3. ~Holding'
  BY DEF Holding
<1>4. EntryInv'
  BY <1>3 DEF EntryInv
<1>5. InOrder'
  BY <1>1 DEF Ordered, InOrder
<1>6. CornersKept'
  <2>1. SUFFICES ASSUME NEW n \in 1..Len(heard'), Corner(n)'
                 PROVE  Has(written', n)
    BY DEF CornersKept, Kept, Has
  <2>2. Corner(n)
    BY <2>1 DEF Corner, Change
  <2> QED BY <1>1, <2>2 DEF IInv, CornersKept
<1> QED BY <1>2, <1>4, <1>5, <1>6 DEF IInv

LEMMA Initial == Init => IInv
PROOF
<1> SUFFICES ASSUME Init PROVE IInv
  OBVIOUS
<1>1. Len(heard) = 0 /\ Len(written) = 0
  BY DEF Init
<1>2. TypeOK
  <2>1. heard = <<>> /\ written = <<>>
    BY DEF Init
  <2>2. heard \in Seq(Heard) /\ written \in Seq(Point)
    BY <2>1
  <2> QED BY <2>2 DEF Init, TypeOK, Heard
<1>3. EntryInv
  BY DEF Init, EntryInv, Holding
<1>4. InOrder /\ CornersKept
  BY <1>1 DEF InOrder, CornersKept
<1> QED BY <1>2, <1>3, <1>4 DEF IInv

LEMMA Inductive == IInv /\ [Next]_vars => IInv'
PROOF
<1> SUFFICES ASSUME IInv, [Next]_vars PROVE IInv'
  OBVIOUS
<1>1. ASSUME NEW v \in Value, Push(v) PROVE IInv'
  <2>1. CASE Repeats(v) /\ now < g.at + Window
    BY <1>1, <2>1, HoldStep DEF Push
  <2>2. CASE ~(Repeats(v) /\ now < g.at + Window)
    BY <1>1, <2>2, WriteNowStep DEF Push
  <2> QED BY <2>1, <2>2
<1>2. ASSUME NEW d \in timers, TimerFires(d) PROVE IInv'
  \* the timer is the entry's own, so something is held
  <2>1. /\ g # None
        /\ timers = {g.timer} /\ g.timer = d /\ g.pending # None
        /\ Len(heard) >= 1 /\ heard[Len(heard)].value = g.value
    BY <1>2 DEF IInv, EntryInv
  <2>2. Holding
    BY <2>1 DEF Holding
  <2>3. g \in Entry /\ g.pending \in Sample
    BY <2>1 DEF IInv, TypeOK, Entry
  <2>4. g' = [value |-> g.pending.value, at |-> g.pending.at, pending |-> None, timer |-> None]
    BY <1>2, <2>2 DEF TimerFires
  <2>5. g' \in Entry
    BY <2>3, <2>4 DEF Entry, Sample
  <2>6. heard[Len(heard)].value = g'.value
    BY <2>2, <2>4 DEF IInv, EntryInv
  <2>7. timers' = {}
    BY <1>2, <2>1 DEF TimerFires
  <2> QED BY <1>2, <2>1, <2>4, <2>5, <2>6, <2>7, FlushStep DEF TimerFires, IInv, TypeOK
<1>3. CASE FlushAll
  BY <1>3, UnheldEmpty, FlushStep DEF FlushAll
<1>4. CASE Tick
  <2>1. UNCHANGED <<g, timers, heard, written, stopped>> /\ now' = now + 1 /\ now \in Nat
    BY <1>4 DEF Tick, IInv, TypeOK
  <2>2. TypeOK' /\ InOrder' /\ CornersKept'
    BY <2>1 DEF IInv, TypeOK, InOrder, CornersKept, Corner, Change, Kept, Holding
  <2>3. g # None /\ g.timer # None => now' <= g.timer + Lateness
    <3>1. SUFFICES ASSUME g # None, g.timer # None PROVE now' <= g.timer + Lateness
      OBVIOUS
    <3>2. g.timer \in timers /\ g.timer \in Nat
      BY <3>1 DEF IInv, EntryInv, TypeOK
    <3> QED BY <1>4, <2>1, <3>2, TimesAssumption DEF Tick
  <2>4. EntryInv'
    BY <2>1, <2>3 DEF IInv, EntryInv, Holding
  <2> QED BY <2>2, <2>4 DEF IInv
<1>5. CASE UNCHANGED vars
  BY <1>5 DEF vars, IInv, TypeOK, EntryInv, InOrder, CornersKept, Corner, Change, Kept, Holding
<1> QED BY <1>1, <1>2, <1>3, <1>4, <1>5 DEF Next

\* The inductive invariant holds: what the entry and its timer say of the samples
\* heard and the points written.
THEOREM Invariant == Spec => []IInv
PROOF
<1> QED BY Initial, Inductive, PTL DEF Spec

-----------------------------------------------------------------------------
\* TypeOK holds for any values, window and lateness (push, flush, flushAll).
THEOREM TypeCorrect == Spec => []TypeOK
PROOF
<1>1. IInv => TypeOK
  BY DEF IInv
<1> QED BY <1>1, Invariant, PTL

\* Points are written in the order of their samples, none twice, each with its
\* own time, whatever telegrams and timers coincide (push, flush).
THEOREM OrderCorrect == Spec => []InOrder
PROOF
<1>1. IInv => InOrder
  BY DEF IInv
<1> QED BY <1>1, Invariant, PTL

\* No end of a run of equal values is ever lost (dedupe.js:8), for any number
\* of telegrams and whenever the site stops.
THEOREM NothingLost == Spec => []CornersKept
PROOF
<1>1. IInv => CornersKept
  BY DEF IInv
<1> QED BY <1>1, Invariant, PTL

\* What is held has the one timer that is set, and is written in time (push,
\* flush): at the end of the window, Lateness later at most.
THEOREM HeldIsWritten == Spec => []HeldInTime
PROOF
<1>1. IInv => HeldInTime
  BY DEF IInv, EntryInv, HeldInTime, Holding
<1> QED BY <1>1, Invariant, PTL

-----------------------------------------------------------------------------
(***************************************************************************)
(* Runs are thinned                                                        *)
(***************************************************************************)
\* sample n of h starts a run of equal values, or is known to end one
TurnIn(h, n) ==
  \/ n = 1
  \/ h[n].value # h[n - 1].value
  \/ n < Len(h) /\ h[n + 1].value # h[n].value

\* p, written after the points w, came a window after one of the last two:
\* two, because a repeat that comes when the window is over flushes first
Due(w, p) ==
  \/ Len(w) >= 1 /\ p.on >= w[Len(w)].stamp + Window
  \/ Len(w) >= 2 /\ p.on >= w[Len(w) - 1].stamp + Window

DueAt(w, l) ==
  \/ l >= 2 /\ w[l].on >= w[l - 1].stamp + Window
  \/ l >= 3 /\ w[l].on >= w[l - 2].stamp + Window

\* every point is a turn, or a window after one of the two before it
Spaced(w, h) == \A l \in 1..Len(w) : TurnIn(h, w[l].id) \/ DueAt(w, l)

\* nothing is stamped before an earlier point was on its way
Timely(w, t) ==
  /\ \A i \in 1..Len(w) : w[i].on <= t
  /\ \A i, j \in 1..Len(w) : i < j => w[i].on <= w[j].stamp

\* until the stop, `at` is the time of the last point
LastWritten == IF g = None THEN heard = <<>> /\ written = <<>>
               ELSE Len(written) >= 1 /\ written[Len(written)].stamp = g.at

\* the inductive invariant under IInv: Thinned compares two points that may
\* be far apart, Spaced a point with its neighbours
ThinInv ==
  /\ Timely(written, now)
  /\ Holding => \A i \in 1..Len(written) : written[i].on <= g.pending.at
  /\ ~stopped => LastWritten /\ Spaced(written, heard)

LEMMA PointParts ==
  ASSUME NEW w \in Seq(Point), NEW i \in 1..Len(w)
  PROVE  /\ w[i] \in Point
         /\ w[i].id \in Nat /\ w[i].id >= 1
         /\ w[i].stamp \in Nat /\ w[i].on \in Nat
PROOF
<1>1. w[i] \in Point
  OBVIOUS
<1>2. \A q \in Point : q.id \in Nat /\ q.id >= 1 /\ q.stamp \in Nat /\ q.on \in Nat
  BY DEF Point
<1> QED BY <1>1, <1>2

LEMMA Appending ==
  ASSUME NEW w \in Seq(Point), NEW p \in Point
  PROVE  /\ Append(w, p) \in Seq(Point)
         /\ Len(w) \in Nat
         /\ Len(Append(w, p)) = Len(w) + 1
         /\ \A i \in 1..Len(w) : Append(w, p)[i] = w[i]
         /\ Append(w, p)[Len(w) + 1] = p
         /\ \A i \in 1..Len(Append(w, p)) : i \in 1..Len(w) \/ i = Len(w) + 1
PROOF OBVIOUS

\* A point stamped after the others were on their way can be appended.
LEMMA AppendTimely ==
  ASSUME NEW w \in Seq(Point), NEW p \in Point, NEW t \in Nat,
         Timely(w, t), p.on <= t,
         \A i \in 1..Len(w) : w[i].on <= p.stamp
  PROVE  Timely(Append(w, p), t)
PROOF
<1> DEFINE a == Append(w, p)
<1>1. /\ Len(w) \in Nat
      /\ \A i \in 1..Len(w) : a[i] = w[i]
      /\ a[Len(w) + 1] = p
      /\ \A i \in 1..Len(a) : i \in 1..Len(w) \/ i = Len(w) + 1
  BY Appending
<1> HIDE DEF a
<1>2. \A i \in 1..Len(a) : a[i].on <= t
  BY <1>1 DEF Timely
<1>3. ASSUME NEW i \in 1..Len(a), NEW j \in 1..Len(a), i < j
      PROVE  a[i].on <= a[j].stamp
  <2>1. i \in 1..Len(w)
    BY <1>1, <1>3
  <2>2. CASE j \in 1..Len(w)
    BY <1>1, <1>3, <2>1, <2>2 DEF Timely
  <2>3. CASE j = Len(w) + 1
    BY <1>1, <2>1, <2>3
  <2> QED BY <1>1, <2>2, <2>3
<1>4. Timely(a, t)
  BY <1>2, <1>3 DEF Timely
<1> QED BY <1>4 DEF a

\* A turn, or a point that is due, can be appended.
LEMMA AppendSpaced ==
  ASSUME NEW w \in Seq(Point), NEW p \in Point, NEW h,
         Spaced(w, h), TurnIn(h, p.id) \/ Due(w, p)
  PROVE  Spaced(Append(w, p), h)
PROOF
<1> DEFINE a == Append(w, p)
<1>1. /\ Len(w) \in Nat
      /\ \A i \in 1..Len(w) : a[i] = w[i]
      /\ a[Len(w) + 1] = p
      /\ \A i \in 1..Len(a) : i \in 1..Len(w) \/ i = Len(w) + 1
  BY Appending
<1> HIDE DEF a
<1>2. SUFFICES ASSUME NEW l \in 1..Len(a)
               PROVE  TurnIn(h, a[l].id) \/ DueAt(a, l)
  <2>1. Spaced(a, h)
    BY <1>2 DEF Spaced
  <2> QED BY <2>1 DEF a
<1>3. CASE l \in 1..Len(w)
  <2>1. a[l] = w[l] /\ (l >= 2 => a[l - 1] = w[l - 1]) /\ (l >= 3 => a[l - 2] = w[l - 2])
    BY <1>1, <1>3
  <2>2. TurnIn(h, w[l].id) \/ DueAt(w, l)
    BY <1>3 DEF Spaced
  <2>3. DueAt(w, l) => DueAt(a, l)
    BY <2>1 DEF DueAt
  <2> QED BY <2>1, <2>2, <2>3
<1>4. CASE l = Len(w) + 1
  <2>1. Len(w) >= 1 => l - 1 \in 1..Len(w) /\ l - 1 = Len(w)
    BY <1>1, <1>4
  <2>2. Len(w) >= 2 => l - 2 \in 1..Len(w) /\ l - 2 = Len(w) - 1
    BY <1>1, <1>4
  <2>3. a[l] = p
    BY <1>1, <1>4
  <2>4. Due(w, p) => DueAt(a, l)
    BY <1>1, <1>4, <2>1, <2>2, <2>3 DEF Due, DueAt
  <2> QED BY <2>3, <2>4
<1> QED BY <1>1, <1>3, <1>4

\* A turn stays one whatever is heard after it.
LEMMA HearSpaced ==
  ASSUME NEW w \in Seq(Point), NEW h \in Seq(Heard), NEW s \in Heard,
         Ordered(w, h), Spaced(w, h)
  PROVE  Spaced(w, Append(h, s))
PROOF
<1> DEFINE e == Append(h, s)
<1>1. Len(h) \in Nat /\ Len(e) = Len(h) + 1 /\ \A k \in 1..Len(h) : e[k] = h[k]
  OBVIOUS
<1> HIDE DEF e
<1>2. ASSUME NEW n \in 1..Len(h), TurnIn(h, n)
      PROVE  TurnIn(e, n)
  <2>1. e[n] = h[n] /\ (n # 1 => e[n - 1] = h[n - 1])
    BY <1>1
  <2>2. n < Len(h) => e[n + 1] = h[n + 1] /\ n < Len(e)
    BY <1>1
  <2> QED BY <1>2, <2>1, <2>2 DEF TurnIn
<1>3. Spaced(w, e)
  BY <1>2 DEF Spaced, Ordered
<1> QED BY <1>3 DEF e

\* Flushing keeps what is written timely, and now.
LEMMA FlushedTimely ==
  ASSUME IInv, ThinInv
  PROVE  Timely(Flushed, now)
PROOF
<1>1. written \in Seq(Point) /\ now \in Nat
  BY DEF IInv, TypeOK
<1>2. CASE ~Holding
  BY <1>2 DEF Flushed, ThinInv
<1>3. CASE Holding
  <2> DEFINE p == [id |-> g.pending.id, stamp |-> g.pending.at, on |-> now]
  <2>1. g \in Entry /\ g.pending \in Sample
    BY <1>3 DEF Holding, IInv, TypeOK, Entry
  <2>2. p \in Point /\ p.on <= now /\ p.stamp = g.pending.at
    BY <1>1, <2>1 DEF Sample, Point
  <2>3. Flushed = Append(written, p)
    BY <1>3 DEF Flushed
  <2>4. Timely(written, now) /\ \A i \in 1..Len(written) : written[i].on <= p.stamp
    BY <1>3 DEF ThinInv
  <2> HIDE DEF p
  <2> QED BY <1>1, <2>2, <2>3, <2>4, AppendTimely
<1> QED BY <1>2, <1>3

\* What is held is flushed when the run has ended or the window is over.
LEMMA FlushedSpaced ==
  ASSUME IInv, ThinInv, ~stopped, NEW h, Spaced(written, h),
         Holding => TurnIn(h, g.pending.id) \/ now >= g.at + Window
  PROVE  Spaced(Flushed, h)
PROOF
<1>1. written \in Seq(Point) /\ now \in Nat
  BY DEF IInv, TypeOK
<1>2. CASE ~Holding
  BY <1>2 DEF Flushed
<1>3. CASE Holding
  <2> DEFINE p == [id |-> g.pending.id, stamp |-> g.pending.at, on |-> now]
  <2>1. g \in Entry /\ g.pending \in Sample /\ g # None
    BY <1>3 DEF Holding, IInv, TypeOK, Entry
  <2>2. p \in Point /\ p.on = now /\ p.id = g.pending.id
    BY <1>1, <2>1 DEF Sample, Point
  <2>3. Flushed = Append(written, p)
    BY <1>3 DEF Flushed
  <2> HIDE DEF p
  <2>4. Len(written) >= 1 /\ written[Len(written)].stamp = g.at
    BY <2>1 DEF ThinInv, LastWritten
  <2>5. TurnIn(h, p.id) \/ Due(written, p)
    BY <1>3, <2>2, <2>4 DEF Due
  <2> QED BY <1>1, <2>2, <2>3, <2>5, AppendSpaced
<1> QED BY <1>2, <1>3

\* Holding a sample keeps the entry, and its `at`.
LEMMA HoldEntry ==
  ASSUME TypeOK, NEW s \in Sample, g # None, Hold(s)
  PROVE  g' # None /\ g'.pending = s /\ g'.at = g.at
PROOF
<1>1. g \in Entry /\ g.at + Window \in Nat
  BY TimesAssumption DEF TypeOK, Entry
<1>2. g' \in Entry /\ g'.pending = s /\ g'.at = g.at
  BY <1>1 DEF Hold, Entry
<1> QED BY <1>2, NoneAssumption

\* A repeat held replaces what was held: nothing is written.
LEMMA HoldThin ==
  ASSUME IInv, ThinInv, NEW v \in Value, Repeats(v),
         heard' = Append(heard, [value |-> v, at |-> now]),
         Hold([id |-> Len(heard) + 1, value |-> v, at |-> now]),
         UNCHANGED <<now, stopped>>
  PROVE  ThinInv'
PROOF
<1>1. /\ written \in Seq(Point) /\ now \in Nat /\ heard \in Seq(Heard)
      /\ [value |-> v, at |-> now] \in Heard
      /\ g \in Entry /\ g # None
  BY DEF IInv, TypeOK, Heard, Repeats
<1>2. written' = written
  BY DEF Hold
<1>3. g' # None /\ g'.pending.at = now /\ g'.at = g.at
  <2> DEFINE s == [id |-> Len(heard) + 1, value |-> v, at |-> now]
  <2>1. s \in Sample /\ s.at = now
    BY <1>1 DEF Sample
  <2> HIDE DEF s
  <2>2. Hold(s) /\ TypeOK
    BY DEF s, IInv
  <2> QED BY <1>1, <2>1, <2>2, HoldEntry
<1>4. Timely(written, now)'
  BY <1>2 DEF ThinInv, Timely
<1>5. \A i \in 1..Len(written') : written'[i].on <= g'.pending.at
  BY <1>2, <1>3 DEF ThinInv, Timely
<1>6. ASSUME ~stopped' PROVE LastWritten' /\ Spaced(written', heard')
  <2>1. Spaced(written, heard) /\ Ordered(written, heard)
    BY <1>6 DEF ThinInv, IInv, InOrder, Ordered
  <2>2. Spaced(written, heard')
    BY <1>1, <2>1, HearSpaced
  <2>3. Len(written) >= 1 /\ written[Len(written)].stamp = g.at
    BY <1>1, <1>6 DEF ThinInv, LastWritten
  <2> QED BY <1>2, <1>3, <2>2, <2>3 DEF LastWritten
<1> QED BY <1>4, <1>5, <1>6 DEF ThinInv

\* A sample is written as it arrives: it starts a run, and ends the one before,
\* or the window is over.
LEMMA WriteNowThin ==
  ASSUME IInv, ThinInv, NEW v \in Value, ~(Repeats(v) /\ now < g.at + Window),
         heard' = Append(heard, [value |-> v, at |-> now]),
         WriteNow([id |-> Len(heard) + 1, value |-> v, at |-> now]),
         UNCHANGED <<now, stopped>>
  PROVE  ThinInv'
PROOF
<1> DEFINE p == [id |-> Len(heard) + 1, stamp |-> now, on |-> now]
<1>1. /\ written \in Seq(Point) /\ now \in Nat /\ heard \in Seq(Heard)
      /\ [value |-> v, at |-> now] \in Heard
      /\ Flushed \in Seq(Point)
  BY FlushedOrdered DEF IInv, TypeOK, Heard
<1>2. p \in Point /\ p.on = now /\ p.stamp = now /\ p.id = Len(heard) + 1
  BY <1>1 DEF Point
<1>3. written' = Append(Flushed, p)
  BY DEF WriteNow
<1>4. g' = [value |-> v, at |-> now, pending |-> None, timer |-> None]
  BY DEF WriteNow
<1>5. g' # None /\ g'.at = now /\ ~Holding'
  <2>1. g' \in Entry
    BY <1>1, <1>4 DEF Entry
  <2> QED BY <1>4, <2>1, NoneAssumption DEF Holding
<1> HIDE DEF p
<1>6. Timely(Flushed, now)
  BY FlushedTimely
<1>7. Timely(written', now')
  <2>1. Timely(Append(Flushed, p), now)
    BY <1>1, <1>2, <1>6, AppendTimely DEF Timely
  <2> QED BY <1>3, <2>1
<1>8. ASSUME ~stopped' PROVE LastWritten' /\ Spaced(written', heard')
  <2>1. ~stopped /\ LastWritten /\ Spaced(written, heard) /\ Ordered(written, heard)
    BY <1>8 DEF ThinInv, IInv, InOrder, Ordered
  <2>2. Spaced(written, heard')
    BY <1>1, <2>1, HearSpaced
  <2>3. /\ Len(heard) \in Nat
        /\ Len(heard') = Len(heard) + 1
        /\ \A n \in 1..Len(heard) : heard'[n] = heard[n]
        /\ heard'[Len(heard) + 1].value = v
    BY <1>1
  <2>4. CASE g = None
    <3>1. Flushed = written /\ p.id = 1
      BY <1>2, <2>1, <2>4 DEF Flushed, Holding, LastWritten
    <3>2. TurnIn(heard', p.id)
      BY <3>1 DEF TurnIn
    <3>3. Spaced(Flushed, heard')
      BY <2>2, <3>1
    <3>4. Spaced(written', heard')
      BY <1>1, <1>2, <1>3, <3>2, <3>3, AppendSpaced
    <3> QED BY <1>1, <1>2, <1>3, <1>5, <3>4, Appending DEF LastWritten
  <2>5. CASE g # None /\ v # g.value
    <3>1. Len(heard) >= 1 /\ heard[Len(heard)].value = g.value
      BY <2>5 DEF IInv, EntryInv
    <3>2. heard'[Len(heard)].value = g.value
      BY <2>3, <3>1
    <3>3. TurnIn(heard', p.id)
      <4>1. p.id - 1 = Len(heard) /\ p.id = Len(heard) + 1
        BY <1>2, <2>3
      <4>2. heard'[p.id].value = v /\ heard'[p.id - 1].value = g.value
        BY <2>3, <3>2, <4>1
      <4> QED BY <2>5, <4>2 DEF TurnIn
    <3>4. Holding => TurnIn(heard', g.pending.id)
      BY <2>3, <2>5, <3>2 DEF TurnIn, IInv, EntryInv
    <3>5. Spaced(Flushed, heard')
      BY <2>1, <2>2, <3>4, FlushedSpaced
    <3>6. Spaced(written', heard')
      BY <1>1, <1>2, <1>3, <3>3, <3>5, AppendSpaced
    <3> QED BY <1>1, <1>2, <1>3, <1>5, <3>6, Appending DEF LastWritten
  <2>6. CASE g # None /\ v = g.value
    <3>1. g.at \in Nat /\ Window \in Nat /\ now >= g.at + Window
      <4>1. g \in Entry /\ Window \in Nat
        BY <2>6, TimesAssumption DEF IInv, TypeOK
      <4>2. g.at \in Nat /\ ~(now < g.at + Window)
        BY <2>6, <4>1 DEF Entry, Repeats
      <4> QED BY <1>1, <4>1, <4>2
    <3>2. Spaced(Flushed, heard')
      BY <2>1, <2>2, <3>1, FlushedSpaced
    <3>3. Len(written) >= 1 /\ written[Len(written)].stamp = g.at
      BY <2>1, <2>6 DEF LastWritten
    \* the last point, or the one before what was held
    <3>4. Due(Flushed, p)
      <4>1. CASE ~Holding
        BY <1>2, <3>1, <3>3, <4>1 DEF Flushed, Due
      <4>2. CASE Holding
        <5> DEFINE q == [id |-> g.pending.id, stamp |-> g.pending.at, on |-> now]
        <5>1. Flushed = Append(written, q)
          BY <4>2 DEF Flushed
        <5> HIDE DEF q
        <5>2. Len(Flushed) = Len(written) + 1 /\ Flushed[Len(written)] = written[Len(written)]
          BY <1>1, <3>3, <5>1
        <5>3. Len(Flushed) >= 2 /\ Len(Flushed) - 1 = Len(written)
          BY <1>1, <3>3, <5>2
        <5> QED BY <1>2, <3>1, <3>3, <5>2, <5>3 DEF Due
      <4> QED BY <4>1, <4>2
    <3>5. Spaced(written', heard')
      BY <1>1, <1>2, <1>3, <3>2, <3>4, AppendSpaced
    <3> QED BY <1>1, <1>2, <1>3, <1>5, <3>5, Appending DEF LastWritten
  <2> QED BY <2>4, <2>5, <2>6
<1> QED BY <1>5, <1>7, <1>8 DEF ThinInv

\* A timer goes off when the window since the last point is over.
LEMMA TimerThin ==
  ASSUME IInv, ThinInv, NEW d \in timers, TimerFires(d)
  PROVE  ThinInv'
PROOF
<1>1. g # None /\ g.timer = d /\ g.pending # None /\ d = g.at + Window
  BY DEF IInv, EntryInv
<1>2. Holding
  BY <1>1 DEF Holding
<1>3. g \in Entry /\ g.pending \in Sample /\ written \in Seq(Point) /\ now \in Nat
  BY <1>1 DEF IInv, TypeOK, Entry
<1>4. g' = [value |-> g.pending.value, at |-> g.pending.at, pending |-> None, timer |-> None]
  BY <1>2 DEF TimerFires
<1>5. g' # None /\ g'.at = g.pending.at /\ ~Holding'
  <2>1. g' \in Entry
    BY <1>3, <1>4 DEF Entry, Sample
  <2> QED BY <1>4, <2>1, NoneAssumption DEF Holding
<1>6. written' = Flushed /\ UNCHANGED <<now, heard, stopped>>
  BY DEF TimerFires
<1>7. Timely(written', now')
  BY <1>6, FlushedTimely
<1>8. now >= g.at + Window
  BY <1>1 DEF TimerFires
<1>9. ASSUME ~stopped' PROVE LastWritten' /\ Spaced(written', heard')
  <2>1. ~stopped /\ Spaced(written, heard)
    BY <1>6, <1>9 DEF ThinInv
  <2>2. Spaced(written', heard')
    BY <1>6, <1>8, <2>1, FlushedSpaced
  <2> DEFINE q == [id |-> g.pending.id, stamp |-> g.pending.at, on |-> now]
  <2>3. q \in Point /\ q.stamp = g.pending.at
    BY <1>3 DEF Sample, Point
  <2>4. written' = Append(written, q)
    BY <1>2, <1>6 DEF Flushed
  <2> HIDE DEF q
  <2> QED BY <1>3, <1>5, <2>2, <2>3, <2>4, Appending DEF LastWritten
<1> QED BY <1>5, <1>7, <1>9 DEF ThinInv

LEMMA ThinInitial == Init => ThinInv
PROOF
<1> SUFFICES ASSUME Init PROVE ThinInv
  OBVIOUS
<1>1. Len(written) = 0
  BY DEF Init
<1> QED BY <1>1 DEF Init, ThinInv, Timely, Spaced, LastWritten, Holding

LEMMA ThinInductive == IInv /\ ThinInv /\ [Next]_vars => ThinInv'
PROOF
<1> SUFFICES ASSUME IInv, ThinInv, [Next]_vars PROVE ThinInv'
  OBVIOUS
<1>1. ASSUME NEW v \in Value, Push(v) PROVE ThinInv'
  <2>1. CASE Repeats(v) /\ now < g.at + Window
    BY <1>1, <2>1, HoldThin DEF Push
  <2>2. CASE ~(Repeats(v) /\ now < g.at + Window)
    BY <1>1, <2>2, WriteNowThin DEF Push
  <2> QED BY <2>1, <2>2
<1>2. ASSUME NEW d \in timers, TimerFires(d) PROVE ThinInv'
  BY <1>2, TimerThin
<1>3. CASE FlushAll
  <2>1. Timely(Flushed, now)
    BY FlushedTimely
  <2> QED BY <1>3, <2>1 DEF FlushAll, ThinInv, Holding
<1>4. CASE Tick
  <2>1. UNCHANGED <<g, timers, heard, written, stopped>> /\ now' = now + 1 /\ now \in Nat
    BY <1>4 DEF Tick, IInv, TypeOK
  <2>2. \A i \in 1..Len(written) : written[i].on \in Nat
    BY PointParts DEF IInv, TypeOK
  <2>3. Timely(written, now')
    BY <2>1, <2>2 DEF ThinInv, Timely
  <2> QED BY <2>1, <2>3 DEF ThinInv, Holding, LastWritten
<1>5. CASE UNCHANGED vars
  BY <1>5 DEF vars, ThinInv, Holding, LastWritten
<1> QED BY <1>1, <1>2, <1>3, <1>4, <1>5 DEF Next

\* A point that is no corner came a window after one of the two before it, and
\* any earlier point than those was on its way by then.
LEMMA SpacedThinned == IInv /\ ThinInv => Thinned
PROOF
<1> SUFFICES ASSUME IInv, ThinInv, ~stopped,
                    NEW i \in 1..Len(written), NEW l \in 1..Len(written),
                    Spare(l), i + 3 <= l
             PROVE  written[l].on - written[i].on >= Window
  <2>1. SUFFICES ASSUME IInv, ThinInv, ~stopped,
                        NEW i \in 1..Len(written), NEW j \in 1..Len(written),
                        NEW k \in 1..Len(written), NEW l \in 1..Len(written),
                        Spare(l), i < j, j < k, k < l
                 PROVE  written[l].on - written[i].on >= Window
    BY DEF Thinned
  <2>2. i + 3 <= l
    BY <2>1
  <2> QED BY <2>1, <2>2
<1>1. written \in Seq(Point) /\ heard \in Seq(Heard) /\ Window \in Nat
  BY TimesAssumption DEF IInv, TypeOK, Heard
<1>2. written[l].id \in 1..Len(heard) /\ Len(heard) \in Nat
  BY <1>1 DEF IInv, InOrder
<1>3. ~TurnIn(heard, written[l].id)
  <2> DEFINE n == written[l].id
  <2>1. ~Corner(n) /\ n \in Nat
    BY <1>2 DEF Spare
  <2> HIDE DEF n
  <2>2. n # 1 /\ ~Change(n - 1) /\ ~Change(n) /\ (n - 1) + 1 = n
    BY <2>1 DEF Corner
  <2>3. ~TurnIn(heard, n)
    BY <2>2 DEF TurnIn, Change
  <2> QED BY <2>3 DEF n
<1>4. DueAt(written, l)
  BY <1>3 DEF ThinInv, Spaced
<1>5. /\ l - 1 \in 1..Len(written) /\ l - 2 \in 1..Len(written)
      /\ i < l - 1 /\ i < l - 2
  BY <1>1
<1>6. written[i].on <= written[l - 1].stamp /\ written[i].on <= written[l - 2].stamp
  BY <1>5 DEF ThinInv, Timely
<1>7. /\ written[i].on \in Nat /\ written[l].on \in Nat
      /\ written[l - 1].stamp \in Nat /\ written[l - 2].stamp \in Nat
  BY <1>1, <1>5, PointParts
<1>8. \/ written[l].on >= written[l - 1].stamp + Window
      \/ written[l].on >= written[l - 2].stamp + Window
  BY <1>4 DEF DueAt
<1>9. \A x, y, z, u, w \in Nat :
        x <= y /\ x <= z /\ (u >= y + w \/ u >= z + w) => u - x >= w
  OBVIOUS
<1> QED BY <1>1, <1>6, <1>7, <1>8, <1>9

\* A long run of one value is thinned, whatever timers and telegrams coincide
\* (push, flush): no four repeats inside runs are written within a window.
THEOREM RunsThinned == Spec => []Thinned
PROOF
<1>1. Spec => [](IInv /\ ThinInv)
  BY Initial, Inductive, ThinInitial, ThinInductive, PTL DEF Spec
<1> QED BY <1>1, SpacedThinned, PTL

=============================================================================
