---------------------------- MODULE TrafficProofs ----------------------------
(***************************************************************************)
(* For every table of DPTs, every definition of a DPT and every text, a    *)
(* number that is written to the bus is the one in the text, in its range. *)
(***************************************************************************)
EXTENDS Traffic, TLAPS, FiniteSetTheorems

\* A DPT's range is a pair of integers if it is known.
LEMMA RangeType == ASSUME NEW d \in Dpt PROVE NumberRange(d) \in Pair \cup {None}
PROOF
<1> DEFINE def == Definition[d]
<1>1. CASE def = None
  BY <1>1 DEF NumberRange
<1>2. CASE def # None
  <2>1. def \in Def
    BY <1>2, DefinitionAssumption
  <2>2. /\ def.scalar \in Pair \cup {None} /\ def.range \in Pair \cup {None}
        /\ def.base \in Pair \cup {None} /\ def.bits \in Nat
    BY <2>1 DEF Def
  <2>3. \A n \in Nat : 2 ^ n \in Int
    OBVIOUS
  <2>4. def.bits \in 2..32 => /\ <<-(2 ^ (def.bits - 1)), 2 ^ (def.bits - 1) - 1>> \in Pair
                              /\ <<0, 2 ^ def.bits - 1>> \in Pair
    BY <2>2, <2>3 DEF Pair
  <2> QED
    BY <1>2, <2>2, <2>4 DEF NumberRange
<1> QED
  BY <1>1, <1>2

\* The nearest integer, halves upwards.
LEMMA RoundNear ==
  ASSUME NEW t \in Int
  PROVE  /\ Round(t) \in Int
         /\ Round(t) % 10 = 0
         /\ Round(t) - t \in -4..5
PROOF
  BY DEF Round

\* parsePayload() makes a number of no other text than one.
LEMMA Parsed ==
  ASSUME NEW d \in Dpt, NEW p \in Payload,
         ParsePayload(d, p).type = "number", p.kind # "empty"
  PROVE  /\ Means(d, p, ParsePayload(d, p).num)
         /\ ParsePayload(d, p).num \in Int
         /\ Main[d] \notin ObjectMains \cup {1, 16}
PROOF
<1>1. p.tenths \in Int
  BY DEF Payload
<1>2. d # None
  BY DEF ParsePayload, NaN, Typed
<1>3. Main[d] \notin ObjectMains
  BY <1>2 DEF ParsePayload, CompositeValue, NaN, Typed
<1>4. Main[d] \notin {1, 16}
  BY <1>2, <1>3 DEF ParsePayload, AsText, Typed
<1>5. CASE Main[d] \in {9, 14}
  <2>1. ParsePayload(d, p) = Typed("number", p.tenths) /\ p.kind = "number"
    BY <1>2, <1>3, <1>4, <1>5 DEF ParsePayload, NaN, Typed
  <2> QED
    BY <1>1, <1>3, <1>4, <1>5, <2>1 DEF Means, Typed
<1>6. CASE Main[d] \notin {9, 14}
  <2>1. ParsePayload(d, p) = Typed("number", Round(p.tenths)) /\ p.kind = "number"
    BY <1>2, <1>3, <1>4, <1>6 DEF ParsePayload, NaN, Typed
  <2> QED
    BY <1>1, <1>3, <1>4, <1>6, <2>1, RoundNear DEF Means, Typed
<1> QED
  BY <1>5, <1>6
-----------------------------------------------------------------------------
\* What a written value is, whatever the command.
LEMMA ParsedValue ==
  ASSUME NEW d \in Dpt \cup {None}, NEW p \in Payload
  PROVE  ParsePayload(d, p) \in Value
PROOF
<1>1. p.tenths \in Int /\ Round(p.tenths) \in Int
  BY RoundNear DEF Payload
<1>2. NaN \in Value /\ AsText(p) \in Value
  BY <1>1 DEF NaN, Typed, AsText, Value
<1>3. \A n \in Int : /\ Typed("number", n) \in Value /\ Typed("boolean", n) \in Value
                     /\ Typed("object", n) \in Value
  BY DEF Typed, Value
<1>4. CompositeValue(Main[d], p) \in Value
  BY <1>1, <1>2, <1>3 DEF CompositeValue
<1> QED
  BY <1>1, <1>2, <1>3, <1>4 DEF ParsePayload

\* A message leaves a record of the right shape, a number that was written has its
\* meaning, and what is recorded of it is what the event writer would store.
LEMMA MessageRight ==
  ASSUME NEW cmd \in Command, NEW g \in DOMAIN DptOf, NEW p \in MqttText, NEW up \in BOOLEAN,
         Message(cmd, g, p, up)
  PROVE  last' \in Action /\ NeverWrong' /\ ActionsMatchEvents'
PROOF
<1> DEFINE d == DptOf[g]
           v == ParsePayload(d, p)
           s == OnBus(Written(cmd, d, v), up)
<1>1. d \in Dpt \cup {None} /\ p \in Payload
  BY DptOfAssumption, TextAssumption
<1>2. v \in Value
  BY <1>1, ParsedValue
<1>3. last' = [cmd |-> cmd, ga |-> g, text |-> p, logged |-> LogValue(cmd, v), sent |-> s, up |-> up]
  BY DEF Message
<1>4. LogValue(cmd, v) \in Int \cup {None}
  BY <1>2 DEF LogValue, Value
<1>5. \A b \in {"on", "off"} : Typed("boolean", IF b = "on" THEN 10 ELSE 0) \in Value
  BY DEF Typed, Value
<1>6. s \in Value \cup {None}
  BY <1>2, <1>5 DEF Written, OnBus
<1>7. last' \in Action
  BY <1>3, <1>4, <1>6 DEF Action
<1>8. NeverWrong'
  <2> SUFFICES ASSUME s # None, cmd = "write", s.type = "number", p.kind # "empty"
               PROVE  /\ Means(d, p, s.num)
                      /\ Main[d] \notin ObjectMains \cup {1, 16}
                      /\ NumberRange(d) # None => /\ 10 * NumberRange(d)[1] <= s.num
                                                  /\ s.num <= 10 * NumberRange(d)[2]
    BY <1>3 DEF NeverWrong, Sent
  <2>1. s = v /\ d # None /\ ~WriteError(d, v)
    BY DEF OnBus, Written
  <2>2. d \in Dpt
    BY <1>1, <2>1
  <2>3. /\ Means(d, p, v.num) /\ v.num \in Int
        /\ Main[d] \notin ObjectMains \cup {1, 16}
    BY <1>1, <2>1, <2>2, Parsed
  <2>4. ASSUME NumberRange(d) # None
        PROVE  10 * NumberRange(d)[1] <= v.num /\ v.num <= 10 * NumberRange(d)[2]
    <3>1. NumberRange(d)[1] \in Int /\ NumberRange(d)[2] \in Int
      BY <2>2, <2>4, RangeType DEF Pair
    <3>2. ~(v.num < 10 * NumberRange(d)[1] \/ v.num > 10 * NumberRange(d)[2])
      BY <2>1, <2>4 DEF WriteError
    <3> QED
      BY <2>3, <3>1, <3>2
  <2> QED
    BY <2>1, <2>3, <2>4
<1>9. ActionsMatchEvents'
  <2> SUFFICES ASSUME s # None, cmd # "read"
               PROVE  IF s.type \in {"string", "object"} THEN LogValue(cmd, v) = None
                      ELSE LogValue(cmd, v) = DbValueV2(s) /\ LogValue(cmd, v) = DbValueV1(s)
    BY <1>3 DEF ActionsMatchEvents, Sent
  <2>1. CASE cmd = "write"
    <3>1. s = v /\ Encodes(d, v)
      BY <2>1 DEF OnBus, Written, Throws
    <3>2. v.type \in {"boolean", "number", "string", "object"}
      BY <3>1 DEF Encodes
    <3>3. v.type \in {"string", "object"} => LogValue("write", v) = None
      BY DEF LogValue
    <3>4. v.type \in {"boolean", "number"} => LogValue("write", v) = v.num
      BY DEF LogValue
    <3>5. v.type \in {"boolean", "number"} => DbValueV1(v) = v.num /\ DbValueV2(v) = v.num
      BY DEF DbValueV1, DbValueV2
    <3> HIDE DEF v, s
    <3> QED
      BY <2>1, <3>1, <3>2, <3>3, <3>4, <3>5
  <2>2. CASE cmd \in {"on", "off"}
    <3>1. s = Typed("boolean", IF cmd = "on" THEN 10 ELSE 0)
      BY <2>2 DEF OnBus, Written
    <3>2. s.type = "boolean" /\ s.num = (IF cmd = "on" THEN 10 ELSE 0)
      BY <3>1 DEF Typed
    <3>3. DbValueV1(s) = s.num /\ DbValueV2(s) = s.num
      BY <3>2 DEF DbValueV1, DbValueV2
    <3>4. LogValue("on", v) = 10 /\ LogValue("off", v) = 0
      BY DEF LogValue
    <3> HIDE DEF v, s
    <3> QED
      BY <2>2, <3>2, <3>3, <3>4
  <2>3. CASE cmd = "other"
    BY <2>3 DEF OnBus, Written
  <2> QED
    BY <2>1, <2>2, <2>3 DEF Command
<1> QED
  BY <1>7, <1>8, <1>9

-----------------------------------------------------------------------------
\* What is known of address g: its lines are of payloads that arrived, and one
\* that is missing has a reason.
Explained(g) ==
  /\ values[g] \subseteq arrived[g]
  /\ values[g] # {} => siblingGas # None /\ g \notin siblingGas
  /\ Cardinality(values[g]) <= UNMAPPED_VALUES
  /\ g \in quiet => values[g] = {} /\ siblingGas # None /\ (g \in siblingGas \/ reported = UNMAPPED_MAX)
  /\ g \notin quiet /\ arrived[g] # values[g] => Cardinality(values[g]) = UNMAPPED_VALUES

IInv ==
  /\ TypeOK
  /\ NeverWrong /\ ActionsMatchEvents
  /\ \A g \in Ga : Explained(g)
  /\ reported = Cardinality(Shown)
  /\ reported <= UNMAPPED_MAX

\* The invariant says what the report promises.
LEMMA IInvReported == IInv => UnmappedReported
PROOF
<1> SUFFICES ASSUME IInv PROVE UnmappedReported
  OBVIOUS
<1>1. Cardinality(Shown) <= UNMAPPED_MAX
  BY DEF IInv
<1>2. ASSUME NEW g \in Shown
      PROVE  /\ g \notin siblingGas /\ values[g] \subseteq arrived[g]
             /\ Cardinality(values[g]) <= UNMAPPED_VALUES
  BY <1>2 DEF Shown, IInv, Explained
<1>3. ASSUME NEW g \in Ga, arrived[g] # values[g]
      PROVE  \/ g \in quiet /\ (g \in siblingGas \/ Cardinality(Shown) = UNMAPPED_MAX)
             \/ Cardinality(values[g]) = UNMAPPED_VALUES
  BY <1>3 DEF IInv, Explained
<1> QED
  BY <1>1, <1>2, <1>3 DEF UnmappedReported

\* It holds at first.
LEMMA InitIInv == Init => IInv
PROOF
<1> SUFFICES ASSUME Init PROVE IInv
  OBVIOUS
<1>1. Cardinality({}) = 0
  BY FS_EmptySet
<1>2. Shown = {}
  BY DEF Init, Shown
<1>3. TypeOK
  <2>1. last \in Action \cup {None} /\ siblingGas \in (SUBSET SiblingGa) \cup {None}
    BY DEF Init
  <2>2. quiet \subseteq Ga /\ reported \in Nat
    BY DEF Init
  <2>3. values \in [Ga -> SUBSET Raw] /\ arrived \in [Ga -> SUBSET Raw]
    BY DEF Init
  <2> QED
    BY <2>1, <2>2, <2>3 DEF TypeOK
<1>4. NeverWrong /\ ActionsMatchEvents
  BY DEF Init, NeverWrong, ActionsMatchEvents, Sent
<1>5. \A g \in Ga : Explained(g)
  BY <1>1, UnmappedAssumption DEF Init, Explained
<1> QED
  BY <1>1, <1>2, <1>3, <1>4, <1>5, UnmappedAssumption DEF Init, IInv
\* What holds of an address that no part of a step touches.
LEMMA ExplainedSame ==
  ASSUME IInv, NEW h \in Ga, values'[h] = values[h], arrived'[h] = arrived[h],
         h \in quiet' <=> h \in quiet, siblingGas' = siblingGas \/ siblingGas = None,
         reported' = reported \/ reported < UNMAPPED_MAX
  PROVE  Explained(h)'
PROOF
<1>1. Explained(h)
  BY DEF IInv
<1>2. values'[h] \subseteq arrived'[h] /\ Cardinality(values'[h]) <= UNMAPPED_VALUES
  BY <1>1 DEF Explained
<1>3. h \notin quiet' /\ arrived'[h] # values'[h] => Cardinality(values'[h]) = UNMAPPED_VALUES
  BY <1>1 DEF Explained
<1>5. values'[h] # {} => siblingGas' # None /\ h \notin siblingGas'
  BY <1>1 DEF Explained
<1>4. ASSUME h \in quiet'
      PROVE  values'[h] = {} /\ siblingGas' # None /\ (h \in siblingGas' \/ reported' = UNMAPPED_MAX)
  <2>1. /\ values[h] = {} /\ siblingGas # None
        /\ h \in siblingGas \/ reported = UNMAPPED_MAX
    BY <1>1, <1>4 DEF Explained
  <2>2. siblingGas' = siblingGas
    BY <2>1
  <2>3. CASE reported = UNMAPPED_MAX
    <3>1. ~(reported < UNMAPPED_MAX)
      BY <2>3, UnmappedAssumption
    <3>2. reported' = reported
      BY <3>1
    <3> QED
      BY <2>1, <2>2, <2>3, <3>2
  <2>4. CASE h \in siblingGas
    BY <2>1, <2>2, <2>4
  <2> QED
    BY <2>1, <2>3, <2>4
<1> QED
  BY <1>2, <1>3, <1>4, <1>5 DEF Explained

\* A further payload of address g.
LEMMA FurtherIInv ==
  ASSUME IInv, NEW g \in Ga, NEW raw \in Raw, g \in quiet \/ values[g] # {},
         Further(g, raw), arrived' = [arrived EXCEPT ![g] = @ \cup {raw}]
  PROVE  /\ values' \in [Ga -> SUBSET Raw]
         /\ siblingGas' = siblingGas /\ quiet' = quiet /\ reported' = reported
         /\ Shown' = Shown
         /\ \A h \in Ga : Explained(h)'
PROOF
<1>1. /\ values \in [Ga -> SUBSET Raw] /\ arrived \in [Ga -> SUBSET Raw]
  BY DEF IInv, TypeOK
<1>2. siblingGas' = siblingGas /\ quiet' = quiet /\ reported' = reported
  BY DEF Further
<1>3. arrived'[g] = arrived[g] \cup {raw} /\ \A h \in Ga : h # g => arrived'[h] = arrived[h]
  BY <1>1
<1>4. Explained(g)
  BY DEF IInv
<1>5. IsFiniteSet(values[g])
  BY <1>1, SetsAssumption, FS_Subset
<1>6. Cardinality(values[g]) \in Nat
  BY <1>5, FS_CardinalityType
<1>7. CASE values[g] = {} \/ raw \in values[g] \/ Cardinality(values[g]) >= UNMAPPED_VALUES
  <2>1. values' = values
    BY <1>7 DEF Further
  <2>2. ASSUME g \notin quiet, arrived'[g] # values[g]
        PROVE  Cardinality(values[g]) = UNMAPPED_VALUES
    <3>1. CASE raw \in values[g]
      BY <1>3, <1>4, <2>2, <3>1 DEF Explained
    <3>2. CASE Cardinality(values[g]) >= UNMAPPED_VALUES
      BY <1>4, <1>6, <3>2, UnmappedAssumption DEF Explained
    <3> QED
      BY <1>7, <2>2, <3>1, <3>2
  <2>3. Explained(g)'
    <3>1. values'[g] \subseteq arrived'[g] /\ Cardinality(values'[g]) <= UNMAPPED_VALUES
      BY <1>3, <1>4, <2>1 DEF Explained
    <3>2. g \in quiet' => values'[g] = {} /\ siblingGas' # None /\ (g \in siblingGas' \/ reported' = UNMAPPED_MAX)
      BY <1>2, <1>4, <2>1 DEF Explained
    <3>3. g \notin quiet' /\ arrived'[g] # values'[g] => Cardinality(values'[g]) = UNMAPPED_VALUES
      BY <1>2, <2>1, <2>2
    <3>4. values'[g] # {} => siblingGas' # None /\ g \notin siblingGas'
      BY <1>2, <1>4, <2>1 DEF Explained
    <3> QED
      BY <3>1, <3>2, <3>3, <3>4 DEF Explained
  <2>4. \A h \in Ga : Explained(h)'
    BY <1>2, <1>3, <2>1, <2>3, ExplainedSame
  <2>5. Shown' = Shown
    BY <2>1 DEF Shown
  <2> QED
    BY <1>1, <1>2, <2>1, <2>4, <2>5
<1>8. CASE ~(values[g] = {} \/ raw \in values[g] \/ Cardinality(values[g]) >= UNMAPPED_VALUES)
  <2>1. values' = [values EXCEPT ![g] = @ \cup {raw}]
    BY <1>8 DEF Further
  <2>2. /\ values'[g] = values[g] \cup {raw}
        /\ \A h \in Ga : h # g => values'[h] = values[h]
        /\ values' \in [Ga -> SUBSET Raw]
    BY <1>1, <2>1
  <2>3. Cardinality(values'[g]) = Cardinality(values[g]) + 1
    BY <1>5, <1>8, <2>2, FS_AddElement
  <2>4. g \notin quiet
    BY <1>4, <1>8 DEF Explained
  <2>5. arrived[g] = values[g]
    <3>1. Cardinality(values[g]) # UNMAPPED_VALUES
      BY <1>6, <1>8, UnmappedAssumption
    <3> QED
      BY <1>4, <2>4, <3>1 DEF Explained
  <2>6. arrived'[g] = values'[g]
    BY <1>3, <2>2, <2>5
  <2>7. Cardinality(values'[g]) <= UNMAPPED_VALUES
    BY <1>6, <1>8, <2>3, UnmappedAssumption
  <2>8. Explained(g)'
    <3>1. siblingGas' # None /\ g \notin siblingGas'
      BY <1>2, <1>4, <1>8 DEF Explained
    <3> QED
      BY <1>2, <2>4, <2>6, <2>7, <3>1 DEF Explained
  <2>9. \A h \in Ga : Explained(h)'
    BY <1>2, <1>3, <2>2, <2>8, ExplainedSame
  <2>10. Shown' = Shown
    <3>1. \A h \in Ga : values'[h] # {} <=> values[h] # {}
      BY <1>8, <2>2
    <3> QED
      BY <3>1 DEF Shown
  <2> QED
    BY <1>1, <1>2, <2>1, <2>2, <2>9, <2>10
<1> QED
  BY <1>7, <1>8
\* The first payload of address g.
LEMMA FirstIInv ==
  ASSUME IInv, NEW g \in Ga, NEW raw \in Raw, g \notin quiet, values[g] = {},
         First(g, raw), arrived' = [arrived EXCEPT ![g] = @ \cup {raw}]
  PROVE  /\ values' \in [Ga -> SUBSET Raw] /\ quiet' \subseteq Ga
         /\ siblingGas' \in (SUBSET SiblingGa) \cup {None}
         /\ reported' \in Nat /\ reported' <= UNMAPPED_MAX /\ reported' = Cardinality(Shown')
         /\ \A h \in Ga : Explained(h)'
PROOF
<1>1. /\ values \in [Ga -> SUBSET Raw] /\ arrived \in [Ga -> SUBSET Raw]
      /\ quiet \subseteq Ga /\ reported \in Nat /\ siblingGas \in (SUBSET SiblingGa) \cup {None}
      /\ reported <= UNMAPPED_MAX /\ reported = Cardinality(Shown)
  BY DEF IInv, TypeOK
<1>2. /\ siblingGas' \in SUBSET SiblingGa
      /\ siblingGas' = siblingGas \/ siblingGas = None
  BY <1>1 DEF First
<1>3. siblingGas' # None
  BY <1>2, NoneValueAssumption
<1>4. arrived'[g] = arrived[g] \cup {raw} /\ \A h \in Ga : h # g => arrived'[h] = arrived[h]
  BY <1>1
<1>5. Cardinality({}) = 0 /\ Cardinality({raw}) = 1
  BY FS_EmptySet, FS_Singleton
<1>6. arrived[g] = {}
  <2>1. Cardinality(values[g]) # UNMAPPED_VALUES
    BY <1>5, UnmappedAssumption
  <2>2. Explained(g)
    BY DEF IInv
  <2> QED
    BY <2>1, <2>2 DEF Explained
<1>7. CASE g \in siblingGas' \/ reported >= UNMAPPED_MAX
  <2>1. quiet' = quiet \cup {g} /\ values' = values /\ reported' = reported
    BY <1>7 DEF First
  <2>2. g \in siblingGas' \/ reported' = UNMAPPED_MAX
    BY <1>1, <1>7, <2>1, UnmappedAssumption
  <2>3. Explained(g)'
    <3>1. values'[g] = {} /\ g \in quiet'
      BY <2>1
    <3>2. Cardinality(values'[g]) <= UNMAPPED_VALUES
      BY <1>5, <3>1, UnmappedAssumption
    <3> QED
      BY <1>3, <2>2, <3>1, <3>2 DEF Explained
  <2>4. \A h \in Ga : h # g => (h \in quiet' <=> h \in quiet)
    BY <2>1
  <2>5. \A h \in Ga : Explained(h)'
    BY <1>2, <1>4, <2>1, <2>3, <2>4, ExplainedSame
  <2>6. Shown' = Shown
    BY <2>1 DEF Shown
  <2> QED
    BY <1>1, <1>2, <2>1, <2>5, <2>6
<1>8. CASE ~(g \in siblingGas' \/ reported >= UNMAPPED_MAX)
  <2>1. /\ values' = [values EXCEPT ![g] = {raw}] /\ quiet' = quiet
        /\ reported' = reported + 1
    BY <1>8 DEF First
  <2>2. /\ values'[g] = {raw}
        /\ \A h \in Ga : h # g => values'[h] = values[h]
        /\ values' \in [Ga -> SUBSET Raw]
    BY <1>1, <2>1
  <2>3. reported < UNMAPPED_MAX
    BY <1>1, <1>8, UnmappedAssumption
  <2>4. arrived'[g] = values'[g]
    BY <1>4, <1>6, <2>2
  <2>5. Explained(g)'
    <3>1. Cardinality(values'[g]) <= UNMAPPED_VALUES
      BY <1>5, <2>2, UnmappedAssumption
    <3>2. siblingGas' # None /\ g \notin siblingGas' /\ g \notin quiet'
      BY <1>3, <1>8, <2>1
    <3> QED
      BY <2>4, <3>1, <3>2 DEF Explained
  <2>6. \A h \in Ga : Explained(h)'
    BY <1>2, <1>4, <2>1, <2>2, <2>3, <2>5, ExplainedSame
  <2>7. Shown' = Shown \cup {g}
    <3>1. \A h \in Ga : values'[h] # {} <=> (values[h] # {} \/ h = g)
      BY <2>2
    <3> QED
      BY <3>1 DEF Shown
  <2>8. g \notin Shown /\ IsFiniteSet(Shown)
    BY SetsAssumption, FS_Subset DEF Shown
  <2>9. Cardinality(Shown') = Cardinality(Shown) + 1
    BY <2>7, <2>8, FS_AddElement
  <2>10. reported' \in Nat /\ reported' <= UNMAPPED_MAX
    BY <1>1, <2>1, <2>3, UnmappedAssumption
  <2>11. reported' = Cardinality(Shown')
    BY <1>1, <2>1, <2>9
  <2>12. quiet' \subseteq Ga
    BY <1>1, <2>1
  <2>13. siblingGas' \in (SUBSET SiblingGa) \cup {None}
    BY <1>2
  <2> QED
    BY <2>2, <2>6, <2>10, <2>11, <2>12, <2>13
<1> QED
  BY <1>7, <1>8

\* Every step keeps the invariant.
LEMMA NextIInv == IInv /\ [Next]_vars => IInv'
PROOF
<1> SUFFICES ASSUME IInv, [Next]_vars PROVE IInv'
  OBVIOUS
<1>1. ASSUME NEW cmd \in Command, NEW g \in DOMAIN DptOf, NEW p \in MqttText, NEW up \in BOOLEAN,
             Message(cmd, g, p, up)
      PROVE  IInv'
  <2>1. last' \in Action /\ NeverWrong' /\ ActionsMatchEvents'
    BY <1>1, MessageRight
  <2>2. UNCHANGED unmapped
    BY <1>1 DEF Message
  <2>3. TypeOK'
    BY <2>1, <2>2 DEF IInv, TypeOK, unmapped
  <2>4. \A h \in Ga : Explained(h)'
    BY <2>2 DEF IInv, Explained, unmapped
  <2>5. Shown' = Shown
    BY <2>2 DEF Shown, unmapped
  <2>6. reported' = Cardinality(Shown') /\ reported' <= UNMAPPED_MAX
    BY <2>2, <2>5 DEF IInv, unmapped
  <2> QED
    BY <2>1, <2>3, <2>4, <2>6 DEF IInv
<1>2. ASSUME NEW g \in Ga, NEW raw \in Raw, Arrives(g, raw)
      PROVE  IInv'
  <2>1. arrived' = [arrived EXCEPT ![g] = @ \cup {raw}] /\ last' = last
    BY <1>2 DEF Arrives
  <2>2. arrived' \in [Ga -> SUBSET Raw]
    BY <2>1 DEF IInv, TypeOK
  <2>3. NeverWrong' /\ ActionsMatchEvents'
    BY <2>1 DEF IInv, NeverWrong, ActionsMatchEvents, Sent
  <2>4. last' \in Action \cup {None}
    BY <2>1 DEF IInv, TypeOK
  <2>5. CASE g \in quiet \/ values[g] # {}
    <3>1. Further(g, raw)
      BY <1>2, <2>5 DEF Arrives
    <3>2. /\ values' \in [Ga -> SUBSET Raw]
          /\ siblingGas' = siblingGas /\ quiet' = quiet /\ reported' = reported
          /\ Shown' = Shown
          /\ \A h \in Ga : Explained(h)'
      BY <2>1, <2>5, <3>1, FurtherIInv
    <3>3. TypeOK'
      BY <2>2, <2>4, <3>2 DEF IInv, TypeOK
    <3>4. reported' = Cardinality(Shown') /\ reported' <= UNMAPPED_MAX
      BY <3>2 DEF IInv
    <3> QED
      BY <2>3, <3>2, <3>3, <3>4 DEF IInv
  <2>6. CASE ~(g \in quiet \/ values[g] # {})
    <3>1. First(g, raw)
      BY <1>2, <2>6 DEF Arrives
    <3>2. /\ values' \in [Ga -> SUBSET Raw] /\ quiet' \subseteq Ga
          /\ siblingGas' \in (SUBSET SiblingGa) \cup {None}
          /\ reported' \in Nat /\ reported' <= UNMAPPED_MAX /\ reported' = Cardinality(Shown')
          /\ \A h \in Ga : Explained(h)'
      BY <2>1, <2>6, <3>1, FirstIInv
    <3>3. TypeOK'
      BY <2>2, <2>4, <3>2 DEF TypeOK
    <3> QED
      BY <2>3, <3>2, <3>3 DEF IInv
  <2> QED
    BY <2>5, <2>6
<1>3. CASE WorkerRestarts
  <2>1. Init'
    BY <1>3 DEF WorkerRestarts, Init
  <2> QED
    BY <2>1, InitIInv, PTL
<1>4. CASE UNCHANGED vars
  <2>1. Shown' = Shown /\ \A h \in Ga : Explained(h)'
    BY <1>4 DEF IInv, Shown, Explained, vars, unmapped
  <2>2. TypeOK' /\ NeverWrong' /\ ActionsMatchEvents'
    BY <1>4 DEF IInv, TypeOK, NeverWrong, ActionsMatchEvents, Sent, vars, unmapped
  <2> QED
    BY <1>4, <2>1, <2>2 DEF IInv, vars, unmapped
<1> QED
  BY <1>1, <1>2, <1>3, <1>4 DEF Next

\* Every reachable state satisfies the invariant.
LEMMA Invariance == Spec => []IInv
PROOF
  BY InitIInv, NextIInv, PTL DEF Spec

-----------------------------------------------------------------------------
\* Type correctness, for every table and every text.
THEOREM TypeCorrect == Spec => []TypeOK
PROOF
<1>1. IInv => TypeOK
  BY DEF IInv
<1> QED
  BY <1>1, Invariance, PTL

\* No text is written as another number, and no number out of its DPT's range
\* (payload.js, dptrange.js and mqwrite.js).
THEOREM NoWrongValue == Spec => []NeverWrong
PROOF
<1>1. IInv => NeverWrong
  BY DEF IInv
<1> QED
  BY <1>1, Invariance, PTL

\* What is recorded of a message that went out is what the event writer stores when
\* the device reports it back, for every table, DPT and text (mqwrite.js, dbv2.js, db.js).
THEOREM ActionsRight == Spec => []ActionsMatchEvents
PROOF
<1>1. IInv => ActionsMatchEvents
  BY DEF IInv
<1> QED
  BY <1>1, Invariance, PTL

\* logUnmapped() leaves out no payload without its reason, for any limits.
THEOREM AllReported == Spec => []UnmappedReported
PROOF
  BY IInvReported, Invariance, PTL
=============================================================================
