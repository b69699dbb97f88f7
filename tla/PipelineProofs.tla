--------------------------- MODULE PipelineProofs ---------------------------
(***************************************************************************)
(* The site's use of dedupe refines Dedupe, so what is proved of Dedupe    *)
(* holds of the pipeline; and what the pipeline adds to it.                *)
(***************************************************************************)
EXTENDS Pipeline, DedupeProofs

\* what dedupe was given is what each telegram decoded to, but for Reads
Aligned ==
  /\ Len(telegram) = Len(heard)
  /\ \A n \in 1..Len(telegram) :
       telegram[n].evt = "Write" => heard[n].value = telegram[n].value

PInv == IInv /\ PipelineTypeOK /\ Aligned

\* both histories grow by one, and dedupe moves
LEMMA EventStep ==
  ASSUME PInv, NEW evt \in {"Write", "Read"}, NEW v \in Value, NEW d \in Value,
         evt = "Write" => v = d,
         OnEvent(evt, v, d), UNCHANGED <<posted, sends>>
  PROVE  Next /\ PInv'
PROOF
<1>1. Push(d)
  BY DEF OnEvent
<1>2. Next
  BY <1>1 DEF Next
<1>3. IInv'
  BY <1>2, Inductive DEF PInv
<1>4. /\ heard \in Seq(Heard) /\ telegram \in Seq(Telegram) /\ Len(telegram) = Len(heard)
      /\ now \in Nat
  BY DEF PInv, PipelineTypeOK, TypeOK, Heard
<1>5. heard' = Append(heard, [value |-> d, at |-> now])
  BY <1>1 DEF Push
<1>6. telegram' = Append(telegram, [evt |-> evt, value |-> v])
  BY DEF OnEvent
<1>7. [evt |-> evt, value |-> v] \in Telegram
  BY DEF Telegram
<1>8. telegram' \in Seq(Telegram) /\ Len(telegram') = Len(heard')
  BY <1>4, <1>5, <1>6, <1>7 DEF Heard
<1>9. PipelineTypeOK'
  BY <1>3, <1>8 DEF IInv, PInv, PipelineTypeOK, OnEvent
<1>10. ASSUME NEW n \in 1..Len(telegram'), telegram'[n].evt = "Write"
       PROVE  heard'[n].value = telegram'[n].value
  <2>1. CASE n \in 1..Len(telegram)
    <3>1. telegram'[n] = telegram[n] /\ heard'[n] = heard[n]
      BY <1>4, <1>5, <1>6, <2>1
    <3> QED BY <1>10, <2>1, <3>1 DEF PInv, Aligned
  <2>2. CASE n = Len(telegram) + 1
    <3>1. telegram'[n] = [evt |-> evt, value |-> v] /\ heard'[n] = [value |-> d, at |-> now]
      BY <1>4, <1>5, <1>6, <2>2
    <3> QED BY <1>10, <3>1
  <2> QED BY <1>4, <1>6, <1>10, <2>1, <2>2
<1>11. Aligned'
  BY <1>8, <1>10 DEF Aligned
<1> QED BY <1>2, <1>3, <1>9, <1>11 DEF PInv

\* a step that leaves dedupe alone
LEMMA AsideStep ==
  ASSUME PInv, UNCHANGED <<vars, telegram>>,
         current' \in Value, posted' \in Seq(Storable), sends' \in 0..MaxSends
  PROVE  PInv'
PROOF
<1>1. IInv'
  BY Inductive DEF PInv
<1> QED BY <1>1 DEF PInv, PipelineTypeOK, Aligned, IInv, vars

LEMMA PipelineStep == PInv /\ [PipelineNext]_allVars => [Next]_vars /\ PInv'
PROOF
<1> SUFFICES ASSUME PInv, [PipelineNext]_allVars PROVE [Next]_vars /\ PInv'
  OBVIOUS
<1>1. ASSUME NEW v \in Value, Hear(v) PROVE [Next]_vars /\ PInv'
  BY <1>1, EventStep DEF Hear
<1>2. CASE HearRead
  <2>1. Unset \in Value /\ current \in Value
    BY UnsetAssumption DEF PInv, PipelineTypeOK
  <2> QED BY <1>2, <2>1, EventStep DEF HearRead
<1>3. ASSUME NEW v \in Storable, Send(v) PROVE [Next]_vars /\ PInv'
  <2>1. posted' \in Seq(Storable) /\ sends' \in 0..MaxSends /\ current' \in Value
    BY <1>3, SendsAssumption DEF Send, PInv, PipelineTypeOK
  <2> QED BY <1>3, <2>1, AsideStep DEF Send
<1>4. CASE Update
  <2>1. posted' \in Seq(Storable) /\ sends' \in 0..MaxSends /\ current' \in Value
    BY <1>4, StorableAssumption DEF Update, PInv, PipelineTypeOK
  <2> QED BY <1>4, <2>1, AsideStep DEF Update
<1>5. CASE DedupeRuns
  <2>1. Next
    BY <1>5 DEF DedupeRuns, Next
  <2>2. IInv'
    BY <2>1, Inductive DEF PInv
  <2>3. UNCHANGED <<heard, pipeline>>
    BY <1>5 DEF DedupeRuns, TimerFires, FlushAll, Tick
  <2> QED BY <2>1, <2>2, <2>3 DEF PInv, IInv, PipelineTypeOK, Aligned, pipeline
<1>6. CASE UNCHANGED allVars
  <2>1. UNCHANGED vars /\ UNCHANGED pipeline
    BY <1>6 DEF allVars
  <2> QED BY <2>1, AsideStep DEF PInv, PipelineTypeOK, pipeline
<1> QED BY <1>1, <1>2, <1>3, <1>4, <1>5, <1>6 DEF PipelineNext

LEMMA PipelineInitial == PipelineInit => Init /\ PInv
PROOF
<1> SUFFICES ASSUME PipelineInit PROVE Init /\ PInv
  OBVIOUS
<1>1. Init /\ IInv
  BY Initial DEF PipelineInit
<1>2. telegram = <<>> /\ heard = <<>> /\ posted = <<>> /\ current = Unset /\ sends = 0
  BY DEF PipelineInit, Init
<1>3. 0 \in 0..MaxSends /\ Unset \in Value
  BY SendsAssumption, UnsetAssumption
<1>4. PipelineTypeOK /\ Aligned
  BY <1>1, <1>2, <1>3 DEF PipelineTypeOK, Aligned, IInv
<1> QED BY <1>1, <1>4 DEF PInv

LEMMA PipelineInvariant == PipelineSpec => []PInv
PROOF
<1> QED BY PipelineInitial, PipelineStep, PTL DEF PipelineSpec

-----------------------------------------------------------------------------
\* The site does with dedupe only what Dedupe allows (site.js, onEvent and the
\* flush at stop()): whatever is proved of Dedupe holds here.
THEOREM Refinement == PipelineSpec => KeepsDedupe
PROOF
<1> QED BY PipelineInitial, PipelineStep, PipelineInvariant, PTL DEF PipelineSpec, KeepsDedupe, Spec

\* The datapoint, the posted updates and the histories keep their shape.
THEOREM PipelineTypeCorrect == PipelineSpec => []PipelineTypeOK
PROOF
<1>1. PInv => PipelineTypeOK
  BY DEF PInv
<1> QED BY <1>1, PipelineInvariant, PTL

\* Every stored point has its own telegram's value, however long dedupe held it
\* and whatever the datapoint has been since (site.js:300, dbv2.js:75).
THEOREM StoredCorrect == PipelineSpec => []StoredAsHeard
PROOF
<1>1. ASSUME PInv PROVE StoredAsHeard
  <2>1. SUFFICES ASSUME NEW i \in 1..Len(written), StoredPoint(i)
                 PROVE  heard[written[i].id].value = telegram[written[i].id].value
    BY DEF StoredAsHeard
  <2>2. written[i].id \in 1..Len(telegram)
    BY <1>1 DEF PInv, IInv, InOrder, Aligned
  <2>3. telegram[written[i].id].evt = "Write"
    <3>1. telegram[written[i].id] \in Telegram
      BY <1>1, <2>2 DEF PInv, PipelineTypeOK
    <3> QED BY <2>1, <3>1 DEF StoredPoint, Telegram
  <2> QED BY <1>1, <2>2, <2>3 DEF PInv, Aligned
<1> QED BY <1>1, PipelineInvariant, PTL

\* Only a GroupValue_Read beside it can make a site with dedupe lose the first or
\* the last telegram of a run of equal values.
THEOREM LossBounded == PipelineSpec => []LostOnlyToReads
PROOF
<1>1. ASSUME PInv PROVE LostOnlyToReads
  <2>1. SUFFICES ASSUME NEW n \in 1..Len(telegram), BusCorner(n), ~BesideRead(n)
                 PROVE  Kept(n)
    BY DEF LostOnlyToReads
  <2>2. /\ Len(telegram) = Len(heard) /\ Len(heard) \in Nat
        /\ telegram \in Seq(Telegram)
    BY <1>1 DEF PInv, PipelineTypeOK, Aligned, TypeOK
  <2>3. telegram[n].evt = "Write" /\ heard[n].value = telegram[n].value
    BY <1>1, <2>1 DEF PInv, Aligned, BusCorner, Carries
  <2>4. ASSUME NEW m \in 1..Len(telegram), m = n - 1 \/ m = n + 1
        PROVE  /\ telegram[m].evt = "Write"
               /\ heard[m].value = telegram[m].value
    <3>1. NextAfter(m, n) \/ NextAfter(n, m)
      BY <2>4 DEF NextAfter
    <3>2. telegram[m].evt = "Write"
      <4>1. telegram[m] \in Telegram
        BY <2>2, <2>4
      <4>2. telegram[m].evt # "Read"
        BY <2>1, <2>4, <3>1 DEF BesideRead, Reads
      <4> QED BY <4>1, <4>2 DEF Telegram
    <3> QED BY <1>1, <3>2 DEF PInv, Aligned
  <2>5. CASE \A m \in 1..n - 1 : NextAfter(m, n) =>
               telegram[m].evt = "Read" \/ telegram[m].value # telegram[n].value
    <3>1. CASE n = 1
      BY <1>1, <2>2, <3>1 DEF PInv, IInv, CornersKept, Corner
    <3>2. CASE n # 1
      <4>1. n - 1 \in 1..n - 1 /\ n - 1 \in 1..Len(telegram) /\ NextAfter(n - 1, n)
        BY <2>2, <3>2 DEF NextAfter
      <4>2. telegram[n - 1].value # telegram[n].value
        BY <2>4, <2>5, <4>1
      <4>3. (n - 1) + 1 = n
        OBVIOUS
      <4>4. Change(n - 1)
        BY <2>3, <2>4, <4>1, <4>2, <4>3 DEF Change
      <4> QED BY <1>1, <2>2, <4>4 DEF PInv, IInv, CornersKept, Corner
    <3> QED BY <3>1, <3>2
  <2>6. CASE \A m \in n + 1 .. Len(telegram) : NextAfter(n, m) =>
               telegram[m].evt = "Read" \/ telegram[m].value # telegram[n].value
    <3>1. CASE n = Len(heard)
      BY <1>1, <2>2, <3>1 DEF PInv, IInv, CornersKept, Corner
    <3>2. CASE n # Len(heard)
      <4>1. /\ n + 1 \in n + 1 .. Len(telegram) /\ n + 1 \in 1..Len(telegram)
            /\ NextAfter(n, n + 1)
        BY <2>2, <3>2 DEF NextAfter
      <4>2. telegram[n + 1].value # telegram[n].value
        BY <2>4, <2>6, <4>1
      <4>3. Change(n)
        BY <2>3, <2>4, <4>1, <4>2 DEF Change
      <4> QED BY <1>1, <2>2, <4>3 DEF PInv, IInv, CornersKept, Corner
    <3> QED BY <3>1, <3>2
  <2> QED BY <2>1, <2>5, <2>6 DEF BusCorner
<1> QED BY <1>1, PipelineInvariant, PTL
=============================================================================
