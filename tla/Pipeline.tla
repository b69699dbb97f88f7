------------------------------ MODULE Pipeline ------------------------------
(***************************************************************************)
(* One group address from the tunnel to InfluxDB, on a site with dedupe:   *)
(* the datapoint decodes a telegram (datapoint.js), the site hands what    *)
(* the datapoint then holds to dedupe (site.js, onEvent), and what dedupe  *)
(* writes goes through the event writer (dbv2.js; db.js on InfluxDB 1),    *)
(* which stores nothing of a GroupValue_Read.  An MQTT write goes out by   *)
(* the same datapoint and is not echoed.                                   *)
(***************************************************************************)
EXTENDS Dedupe, FiniteSets

CONSTANTS
  Storable,   \* the values the event writer can make a number of
  Unset,      \* current_value before the first telegram, null
  MaxReads,   \* bound: GroupValue_Reads
  MaxSends    \* bound: MQTT writes

ASSUME StorableAssumption == Storable \subseteq Value
ASSUME UnsetAssumption == Unset \in Value \ Storable
ASSUME SendsAssumption == MaxReads \in Nat /\ MaxSends \in Nat

VARIABLES
  current,   \* current_value of the datapoint
  posted,    \* update()s posted by setImmediate() once a write was sent
  sends,     \* MQTT writes so far
  telegram   \* history: what each telegram was, and what it decoded to

pipeline == <<current, posted, sends, telegram>>
allVars  == <<vars, pipeline>>

Telegram == [evt : {"Write", "Read"}, value : Value]

-----------------------------------------------------------------------------
\* mutant: the site's listener runs before the datapoint's
OnEventEarly(evt, v, decoded) ==
  /\ telegram' = Append(telegram, [evt |-> evt, value |-> v])
  /\ current' = decoded
  /\ Push(current)

\* mutant: what did not decode is not handed on
OnEventDecoded(evt, v, decoded) ==
  /\ telegram' = Append(telegram, [evt |-> evt, value |-> v])
  /\ current' = decoded
  /\ IF decoded = Unset THEN UNCHANGED vars ELSE Push(decoded)

\* indication() emits event_<ga> first, so the datapoint holds `decoded` when
\* onEvent() reads it
OnEvent(evt, v, decoded) ==
  /\ telegram' = Append(telegram, [evt |-> evt, value |-> v])
  /\ current' = decoded
  /\ Push(current')

\* a GroupValue_Write or GroupValue_Response, whose payload decodes to v
Hear(v) ==
  /\ OnEvent("Write", v, v)
  /\ UNCHANGED <<posted, sends>>

Reads == {n \in 1..Len(telegram) : telegram[n].evt = "Read"}

\* a GroupValue_Read of some other device: the datapoint keeps what it holds,
\* and the site pushes that
HearRead ==
  /\ Cardinality(Reads) < MaxReads
  /\ OnEvent("Read", Unset, current)
  /\ UNCHANGED <<posted, sends>>

\* mqwrite.js to Datapoint.write(): sent, and the update is posted
Send(v) ==
  /\ sends < MaxSends
  /\ sends' = sends + 1
  /\ posted' = Append(posted, v)
  /\ UNCHANGED <<vars, current, telegram>>

\* mutant: what was sent counts as what was stored last
UpdateStored ==
  /\ posted # <<>>
  /\ current' = Head(posted)
  /\ posted' = Tail(posted)
  /\ g' = IF g = None THEN g ELSE [g EXCEPT !.value = Head(posted)]
  /\ UNCHANGED <<now, timers, heard, written, stopped, sends, telegram>>

\* the update() of a write that was sent
Update ==
  /\ posted # <<>>
  /\ current' = Head(posted)
  /\ posted' = Tail(posted)
  /\ UNCHANGED <<vars, sends, telegram>>

\* what dedupe does by itself
DedupeRuns ==
  /\ (\E d \in timers : TimerFires(d)) \/ FlushAll \/ Tick
  /\ UNCHANGED pipeline

PipelineInit ==
  /\ Init
  /\ current = Unset
  /\ posted = <<>>
  /\ sends = 0
  /\ telegram = <<>>

PipelineNext ==
  \/ \E v \in Value : Hear(v)
  \/ HearRead
  \/ \E v \in Storable : Send(v)
  \/ Update
  \/ DedupeRuns

PipelineSpec == PipelineInit /\ [][PipelineNext]_allVars

-----------------------------------------------------------------------------
\* TypeOK of Dedupe, and the shape of the datapoint and the telegrams.
PipelineTypeOK ==
  /\ TypeOK
  /\ current \in Value
  /\ posted \in Seq(Storable)
  /\ sends \in 0..MaxSends
  /\ telegram \in Seq(Telegram)
  /\ Len(telegram) = Len(heard)

\* writeEventsv2() keeps point i
StoredPoint(i) ==
  /\ telegram[written[i].id].evt # "Read"
  /\ heard[written[i].id].value \in Storable

\* Whatever MQTT writes, reads and held repeats come between, the value of a
\* stored point is the one its own telegram carried: onEvent() takes it from the
\* datapoint, which anything may have changed since.
StoredAsHeard ==
  \A i \in 1..Len(written) :
    StoredPoint(i) => heard[written[i].id].value = telegram[written[i].id].value

\* telegram n carries a value that can be stored
Carries(n) == telegram[n].evt = "Write" /\ telegram[n].value \in Storable

\* m is next after n of the telegrams that carry one
NextAfter(n, m) == n < m /\ \A k \in n + 1 .. m - 1 : telegram[k].evt = "Read"

\* telegram n is the first or the last of a run of equal values on the bus
BusCorner(n) ==
  /\ Carries(n)
  /\ \/ \A m \in 1..n - 1 : NextAfter(m, n) => telegram[m].evt = "Read" \/ telegram[m].value # telegram[n].value
     \/ \A m \in n + 1 .. Len(telegram) : NextAfter(n, m) => telegram[m].evt = "Read" \/ telegram[m].value # telegram[n].value

\* a GroupValue_Read came next to telegram n: before or after it, with no other
\* telegram between
BesideRead(n) == \E m \in Reads : NextAfter(m, n) \/ NextAfter(n, m)

\* The first and the last telegram of every run of equal values on the bus is
\* stored or held, unless a GroupValue_Read of the same address came beside it.
LostOnlyToReads ==
  \A n \in 1..Len(telegram) : BusCorner(n) => Kept(n) \/ BesideRead(n)

\* What the site does with dedupe is what Dedupe allows: all that holds of Dedupe
\* holds in the pipeline.
KeepsDedupe == Spec

-----------------------------------------------------------------------------
\* dedupe.js:8, "the last value before a quiet spell or a change is never lost":
\* the ends of every run on the bus are stored or held.
ChangesKept == \A n \in 1..Len(telegram) : BusCorner(n) => Kept(n)
=============================================================================
