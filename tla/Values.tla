------------------------------- MODULE Values -------------------------------
(***************************************************************************)
(* What a text from MQTT is as a value of a DPT (payload.js), whether it   *)
(* may be written (dptrange.js), and what a decoded value is in InfluxDB   *)
(* (dbv2.js, and db.js for InfluxDB 1).  Numbers are in tenths; a text is  *)
(* what the patterns tell of it.                                           *)
(***************************************************************************)
EXTENDS Integers

CONSTANTS
  None,
  Dpt,
  Main,        \* the main number of a DPT id
  Definition   \* KNXUltimate's definition of a DPT, None if it has none

Pair == Int \X Int

\* the ranges of the subtype, of the base type, and its bits
Def == [scalar : Pair \cup {None}, range : Pair \cup {None}, base : Pair \cup {None},
        bits : Nat, signedness : {"signed", "unsigned", None}]

ASSUME MainAssumption == Main \in [Dpt -> Nat]
ASSUME DefinitionAssumption == Definition \in [Dpt -> Def \cup {None}] /\ None \notin Def /\ None \notin Pair

\* "number": digits with a sign, a fraction or an exponent; `bare` without any.
\* "true": on, true, yes or enable.  `dated`: Date.parse() takes it
Payload == [kind : {"empty", "number", "true", "object", "wind", "other"}, tenths : Int,
            exponent : BOOLEAN, bare : BOOLEAN, dated : BOOLEAN]

\* `text`: what a string holds
Value == [type : {"number", "boolean", "string", "object", "NaN", "undefined"}, num : Int,
          text : {"number", "wind", "other", None}]

\* "object": JSON, a scene or a Date
Typed(type, num) == [type |-> type, num |-> num, text |-> None]
NaN == Typed("NaN", 0)
\* mutant: any payload passes for a kind of text
AnyText(p) == [type |-> "string", num |-> p.tenths, text |-> p.kind]

AsText(p) == [type |-> "string", num |-> p.tenths,
            text |-> IF p.kind \in {"number", "wind"} THEN p.kind ELSE "other"]

ObjectMains == {2, 3, 10, 11, 15, 18, 19, 21, 22, 213, 222, 232, 235, 237, 238, 242, 249, 251}

\* Math.round()
Round(tenths) == 10 * ((tenths + 5) \div 10)

CompositeValue(main, p) ==
  IF p.kind = "object" THEN Typed("object", 0)
  ELSE IF main = 18 /\ p.kind = "number" /\ p.bare /\ p.tenths \in 10..640 THEN Typed("object", p.tenths)
  ELSE IF main \in {10, 11, 19} /\ p.dated THEN Typed("object", 0)
  ELSE NaN

\* mutant: parseInt(), as it was once
ParseInt(d, p) ==
  IF d = None \/ p.kind # "number" THEN NaN
  ELSE IF Main[d] \in ObjectMains THEN CompositeValue(Main[d], p)
  ELSE Typed("number", 10 * (p.tenths \div 10))

ParsePayload(d, p) ==
  IF d = None THEN NaN
  ELSE IF Main[d] \in ObjectMains THEN CompositeValue(Main[d], p)
  ELSE IF p.kind = "empty" THEN Typed("number", 0)
  ELSE IF Main[d] = 1
       THEN Typed("boolean", IF p.kind = "true" \/ (p.bare /\ p.tenths = 10) THEN 10 ELSE 0)
  ELSE IF Main[d] \in {9, 14} THEN IF p.kind = "number" THEN Typed("number", p.tenths) ELSE NaN
  ELSE IF Main[d] = 16 THEN AsText(p)
  ELSE IF p.kind = "number" /\ ~p.exponent THEN Typed("number", Round(p.tenths)) ELSE NaN

\* what a plain number of this DPT must lie in, None if that is not known
NumberRange(d) ==
  LET def == Definition[d]
      fromBits == IF def.signedness = None \/ def.bits \notin 2..32 THEN None
                  ELSE IF def.signedness = "signed" THEN <<-(2 ^ (def.bits - 1)), 2 ^ (def.bits - 1) - 1>>
                  ELSE <<0, 2 ^ def.bits - 1>>
  IN  IF def = None THEN None
      ELSE IF def.scalar # None THEN def.scalar
      ELSE IF def.range # None THEN def.range
      ELSE IF def.base # None THEN def.base
      ELSE fromBits

WriteError(d, v) ==
  \/ v.type = "NaN"
  \/ /\ v.type = "number"
     /\ \/ Main[d] \in ObjectMains
        \/ NumberRange(d) # None /\ (v.num < 10 * NumberRange(d)[1] \/ v.num > 10 * NumberRange(d)[2])

-----------------------------------------------------------------------------
\* the `value` field of dbv2.js, None if nothing is written
DbValueV2(v) ==
  IF v.type \in {"number", "boolean"} \/ (v.type = "string" /\ v.text \in {"number", "wind"})
  THEN v.num ELSE None

\* the `value` field of db.js: InfluxDB refuses what is no number
DbValueV1(v) == IF v.type \in {"number", "boolean"} THEN v.num ELSE None
=============================================================================
