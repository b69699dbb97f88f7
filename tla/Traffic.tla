------------------------------ MODULE Traffic ------------------------------
(***************************************************************************)
(* A connected site's group addresses in use: MQTT messages that write,    *)
(* switch or read them (mqwrite.js, datapoint.js, and the shim's side of   *)
(* the tunnel) and are recorded as actions, and telegrams that cannot be   *)
(* stored, which the site reports as UNMAPPED (site.js).  The site's name  *)
(* is made of word characters: the topic's pattern matches no other.       *)
(***************************************************************************)
EXTENDS Values, FiniteSets

CONSTANTS
  Ga,
  DptOf,             \* the DPT of each address of the site, None without one
  Titled,            \* the DPTs with a type name in dptnames.json
  MqttText,          \* what MQTT messages hold
  Raw,               \* payloads as the bus carries them
  SiblingGa,         \* addresses that a site on the same gateway may store
  UNMAPPED_MAX,      \* addresses reported until a restart
  UNMAPPED_VALUES    \* and payloads of each

ASSUME DptOfAssumption == DOMAIN DptOf \subseteq Ga /\ DptOf \in [DOMAIN DptOf -> Dpt \cup {None}]
ASSUME TextAssumption == MqttText \subseteq Payload
ASSUME UnmappedAssumption == UNMAPPED_MAX \in Nat /\ UNMAPPED_VALUES \in Nat \ {0}
ASSUME SetsAssumption == IsFiniteSet(Ga) /\ IsFiniteSet(Raw)
ASSUME NoneValueAssumption == None \notin Value \cup Int /\ \A gas \in SUBSET SiblingGa : gas # None

Command == {"write", "read", "on", "off", "other"}

\* an MQTT message, what was logged of it, and what went on the bus
Action == [cmd : Command, ga : DOMAIN DptOf, text : MqttText, logged : Int \cup {None},
           sent : Value \cup {None}, up : BOOLEAN]

VARIABLES
  last,        \* history: the MQTT message that was handled
  siblingGas,  \* what the other site was found to have, None before
  quiet,       \* unmappedSeen: addresses that are not reported
  values,      \* unmappedSeen: the payloads reported of the others
  reported,    \* unmappedLogged
  arrived      \* history: the unmapped payloads that arrived

unmapped == <<siblingGas, quiet, values, reported, arrived>>
vars == <<last, unmapped>>

-----------------------------------------------------------------------------
\* KNXUltimate makes a payload of the value
Encodes(d, v) ==
  CASE Main[d] = 1               -> v.type \in {"boolean", "number"}
    [] Main[d] = 16              -> v.type = "string"
    [] Main[d] \in ObjectMains   -> v.type = "object"
    [] OTHER                     -> v.type = "number"

\* Datapoint.write() throws
Throws(d, v) == Definition[d] = None \/ WriteError(d, v) \/ ~Encodes(d, v)

\* mutant: booleans are not converted
LogNumber(cmd, v) ==
  IF cmd \in {"read", "off"} THEN 0
  ELSE IF cmd = "on" THEN 10
  ELSE IF v.type = "number" THEN v.num ELSE None

\* the value of an action, None if none is recorded
LogValue(cmd, v) ==
  IF cmd \in {"read", "off"} THEN 0
  ELSE IF cmd = "on" THEN 10
  ELSE IF v.type \in {"boolean", "number"} THEN v.num ELSE None

\* what a message gives the tunnel to send, None if it is ignored or throws
Written(cmd, d, v) ==
  LET switch == Typed("boolean", IF cmd = "on" THEN 10 ELSE 0)
  IN  IF cmd = "write" /\ d # None /\ ~WriteError(d, v) /\ ~Throws(d, v) THEN v
      ELSE IF cmd \in {"on", "off"} /\ d # None /\ Main[d] = 1 /\ ~Throws(d, switch) THEN switch
      ELSE None

\* writeRaw(): without a tunnel the library throws, and dropped() logs it
OnBus(v, up) == IF up THEN v ELSE None

\* Bound: a worker has one message, or unmapped telegrams, as they share no
\* state and no message reads what another wrote
Fresh == last = None /\ \A g \in Ga : arrived[g] = {}

\* on 'message', the tunnel being up or not
Message(cmd, g, p, up) ==
  LET v == ParsePayload(DptOf[g], p)
  IN  /\ Fresh
      /\ last' = [cmd |-> cmd, ga |-> g, text |-> p, logged |-> LogValue(cmd, v),
                  sent |-> OnBus(Written(cmd, DptOf[g], v), up), up |-> up]
      /\ UNCHANGED unmapped

-----------------------------------------------------------------------------
\* onEvent() stores telegrams of address g
Mapped(g) == g \in DOMAIN DptOf /\ DptOf[g] \in Titled

\* mutant: every line counts as an address
FurtherCounted(g, raw) ==
  /\ IF values[g] = {} \/ raw \in values[g] \/ Cardinality(values[g]) >= UNMAPPED_VALUES
     THEN UNCHANGED <<values, reported>>
     ELSE /\ values' = [values EXCEPT ![g] = @ \cup {raw}]
          /\ reported' = reported + 1
  /\ UNCHANGED <<siblingGas, quiet>>

\* another payload of an address already seen
Further(g, raw) ==
  /\ IF values[g] = {} \/ raw \in values[g] \/ Cardinality(values[g]) >= UNMAPPED_VALUES
     THEN UNCHANGED values
     ELSE values' = [values EXCEPT ![g] = @ \cup {raw}]
  /\ UNCHANGED <<siblingGas, quiet, reported>>

\* the first telegram of an address; with the first of all, the export and the
\* rules of the other site are read, which may be any
First(g, raw) ==
  /\ \E gas \in SUBSET SiblingGa : siblingGas' = IF siblingGas = None THEN gas ELSE siblingGas
  /\ IF g \in siblingGas' \/ reported >= UNMAPPED_MAX
     THEN /\ quiet' = quiet \cup {g}
          /\ UNCHANGED <<values, reported>>
     ELSE /\ values' = [values EXCEPT ![g] = {raw}]
          /\ reported' = reported + 1
          /\ UNCHANGED quiet

\* onEvent() with a write or a response of an unmapped address: logUnmapped()
Arrives(g, raw) ==
  /\ last = None
  /\ ~Mapped(g)
  /\ arrived' = [arrived EXCEPT ![g] = @ \cup {raw}]
  /\ IF g \in quiet \/ values[g] # {} THEN Further(g, raw) ELSE First(g, raw)
  /\ UNCHANGED last

\* a new worker reports anew
WorkerRestarts ==
  /\ last' = None
  /\ siblingGas' = None
  /\ quiet' = {}
  /\ values' = [g \in Ga |-> {}]
  /\ reported' = 0
  /\ arrived' = [g \in Ga |-> {}]

Init ==
  /\ last = None
  /\ siblingGas = None
  /\ quiet = {}
  /\ values = [g \in Ga |-> {}]
  /\ reported = 0
  /\ arrived = [g \in Ga |-> {}]

Next ==
  \/ \E cmd \in Command, g \in DOMAIN DptOf, p \in MqttText, up \in BOOLEAN : Message(cmd, g, p, up)
  \/ \E g \in Ga, raw \in Raw : Arrives(g, raw)
  \/ WorkerRestarts

Spec == Init /\ [][Next]_vars

-----------------------------------------------------------------------------
\* TypeOK: the last message and the report keep their shape.
TypeOK ==
  /\ last \in Action \cup {None}
  /\ siblingGas \in (SUBSET SiblingGa) \cup {None}
  /\ quiet \subseteq Ga
  /\ values \in [Ga -> SUBSET Raw]
  /\ reported \in Nat
  /\ arrived \in [Ga -> SUBSET Raw]

\* the text stands for the number n as DPT d has numbers
Means(d, p, n) ==
  /\ p.kind = "number"
  /\ IF Main[d] \in {9, 14} THEN n = p.tenths
     ELSE n % 10 = 0 /\ n - p.tenths \in -4..5

Sent == IF last = None THEN FALSE ELSE last.sent # None

\* "Each case either sends the expected bytes or is refused - never a wrong
\* value" (test/payload.test.js:8): a number on the bus is the one in the text,
\* or the nearest integer, and in the range of its DPT; an object's DPT gets no
\* number.  It is about numbers: the booleans of DPT1, where every text but a few
\* is off, and an empty payload, which counts as the number 0, are left out.
NeverWrong ==
  Sent /\ last.cmd = "write" /\ last.sent.type = "number" /\ last.text.kind # "empty" =>
    LET d == DptOf[last.ga] IN
    /\ Means(d, last.text, last.sent.num)
    /\ Main[d] \notin ObjectMains \cup {1, 16}
    /\ NumberRange(d) # None => /\ 10 * NumberRange(d)[1] <= last.sent.num
                                /\ last.sent.num <= 10 * NumberRange(d)[2]

\* The action recorded of a write is the number that the event writer stores when
\* the device reports the same value back: booleans and numbers agree in both
\* series, and nothing is sent without a record but texts and objects.
ActionsMatchEvents ==
  Sent /\ last.cmd # "read" =>
    IF last.sent.type \in {"string", "object"} THEN last.logged = None
    ELSE /\ last.logged = DbValueV2(last.sent)
         /\ last.logged = DbValueV1(last.sent)

Shown == {g \in Ga : values[g] # {}}

\* No more is reported than the limits say and nothing of the other site as it
\* was when it was read; and an unmapped payload that arrived has its line, unless
\* its address is one of the other site, or came after the last address that is
\* reported, or it came after the last payload of its address (logUnmapped).
UnmappedReported ==
  /\ Cardinality(Shown) <= UNMAPPED_MAX
  /\ \A g \in Shown : /\ g \notin siblingGas
                      /\ values[g] \subseteq arrived[g]
                      /\ Cardinality(values[g]) <= UNMAPPED_VALUES
  /\ \A g \in Ga : arrived[g] # values[g] =>
       \/ g \in quiet /\ (g \in siblingGas \/ Cardinality(Shown) = UNMAPPED_MAX)
       \/ Cardinality(values[g]) = UNMAPPED_VALUES
=============================================================================
