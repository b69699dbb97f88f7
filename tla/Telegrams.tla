----------------------------- MODULE Telegrams ------------------------------
(***************************************************************************)
(* Group telegrams on their way to the site: a gateway sends each one with *)
(* a sequence number and waits for the ACK, over UDP; KNXUltimate ACKs all *)
(* it gets and hands it to indication() (ultimate-shim.js), which drops    *)
(* repeats and opens Data Secure telegrams (datasecure.js).  The gateway,  *)
(* UDP, the bus and the library are external.                              *)
(***************************************************************************)
EXTENDS Integers, Sequences, FiniteSets

CONSTANTS
  Sender,      \* devices that send Data Secure telegrams
  SeqMod,      \* the sequence numbers of a tunnel: 256
  MaxSent,     \* bound: telegrams
  MaxNr,       \* bound: Data Secure sequence numbers
  MaxTunnels,  \* bound: tunnels of a worker, and workers
  None

ASSUME SeqAssumption == SeqMod \in Nat \ {0, 1}
ASSUME NrAssumption == MaxNr \in Nat
\* what the bus carries: of Data Secure telegrams the genuine (old ones played
\* again too), those whose MAC is wrong, those without a key, and those that are
\* short or no S-A_Data; an APCI that is no group value; device to device, or
\* an echo of what hamon wrote
Kind == {"plain", "secured", "forged", "nokey", "malformed", "unknown", "device"}

Telegram == [kind : Kind, src : Sender, nr : 0..MaxNr, seq : 0..SeqMod - 1]
Frame    == [id : Nat \ {0}, try : {1, 2}]
Why      == {"no key", "short", "MAC", "replay"}

ASSUME NoneAssumption == None \notin Int \cup Why \cup Frame

VARIABLES
  seq,         \* gateway: the number of the telegram it sends, or sends next
  waiting,     \* gateway: the frame it waits for the ACK of
  air,         \* frames under way
  sent,        \* history: the telegrams the gateway has sent
  lastSeq,     \* of the shim: the number of the last indication
  dsLast,      \* of DataSecure, lastSeq: of each sender, -1 for none
  passed,      \* history: what this worker's site was given
  dropped,     \* history: what securedDropped() counted in this worker
  delivered,   \* history: what was indicated to this worker
  late,        \* history: something was, after a newer one
  tunnels      \* tunnels so far

gateway == <<seq, waiting, air, sent>>
shim    == <<lastSeq, dsLast, passed, dropped>>
vars    == <<gateway, shim, delivered, late, tunnels>>

-----------------------------------------------------------------------------
\* the gateway has a telegram for the tunnel
GatewaySends(kind, src, nr) ==
  /\ waiting = None
  /\ Len(sent) < MaxSent
  /\ kind \in {"secured", "forged"} \/ nr = 0
  /\ sent' = Append(sent, [kind |-> kind, src |-> src, nr |-> nr, seq |-> seq])
  /\ waiting' = [id |-> Len(sent) + 1, try |-> 1]
  /\ air' = air \cup {waiting'}
  /\ UNCHANGED <<seq, shim, delivered, late, tunnels>>

\* no ACK within a second: once more
GatewayRepeats ==
  /\ waiting # None
  /\ waiting.try = 1
  /\ waiting' = [waiting EXCEPT !.try = 2]
  /\ air' = air \cup {waiting'}
  /\ UNCHANGED <<seq, sent, shim, delivered, late, tunnels>>

\* an ACK names its frame by the sequence number
GatewayAcked(n) ==
  IF waiting # None /\ sent[n].seq = seq
  THEN waiting' = None /\ seq' = (seq + 1) % SeqMod
  ELSE UNCHANGED <<waiting, seq>>

-----------------------------------------------------------------------------
\* a DataSecure has heard of no sender yet
NoSenders == [s \in Sender |-> -1]

\* mutant: device to device traffic is taken for group data
NothingIgnored(t) == FALSE

\* not group data: indication() returns at once
Ignored(t) == t.kind = "device"

\* isSecured()
IsSecured(t) == t.kind \in {"secured", "forged", "nokey", "malformed"}

\* mutant: the last number itself is good
DropUnlessBelow(t) ==
  CASE t.kind = "nokey"      -> "no key"
    [] t.kind = "malformed"  -> "short"
    [] t.kind = "forged"     -> "MAC"
    [] t.kind = "secured" /\ t.nr < dsLast[t.src]  -> "replay"
    [] OTHER                 -> None

\* open(): why t is dropped, None if it decrypts ("short" is also no S-A_Data)
Drop(t) ==
  CASE t.kind = "nokey"      -> "no key"
    [] t.kind = "malformed"  -> "short"
    [] t.kind = "forged"     -> "MAC"
    [] t.kind = "secured" /\ t.nr <= dsLast[t.src] -> "replay"
    [] OTHER                 -> None

\* open(), the sender's number: only of what decrypts
Noted(t) == dsLast' = IF t.kind = "secured" /\ Drop(t) = None
                      THEN [dsLast EXCEPT ![t.src] = t.nr] ELSE dsLast

\* securedDropped(): counted, and logged at first and every 100th time
SecuredDropped(n, why) ==
  /\ dropped' = dropped \cup {[id |-> n, why |-> why]}
  /\ UNCHANGED passed

\* indication() behind the filter
Handle(n) ==
  LET t   == sent[n]
      why == Drop(t) IN
  IF IsSecured(t) /\ why # None
  THEN SecuredDropped(n, why)
  ELSE /\ passed' = IF t.kind = "unknown" THEN passed ELSE Append(passed, n)
       /\ UNCHANGED dropped

\* mutant: repeats are handed on
NeverRepeated(n) == FALSE

\* the gateway's repeat of the last indication
Repeated(n) == sent[n].seq = lastSeq

\* indication()
Indication(n) ==
  IF Ignored(sent[n]) \/ Repeated(n)
  THEN UNCHANGED shim
  ELSE /\ lastSeq' = sent[n].seq
       /\ Noted(sent[n])
       /\ Handle(n)

\* a frame gets here, and its ACK gets back or is lost
Deliver(f, acked) ==
  /\ f \in air
  /\ air' = air \ {f}
  /\ IF acked THEN GatewayAcked(f.id) ELSE UNCHANGED <<waiting, seq>>
  /\ Indication(f.id)
  /\ delivered' = delivered \cup {f.id}
  /\ late' = (late \/ \E m \in delivered : m > f.id)
  /\ UNCHANGED <<sent, tunnels>>

\* the tunnel is lost, the gateway having no ACK, or at any other time; another
\* one starts its numbers again, on a socket of its own
NewTunnel ==
  /\ tunnels < MaxTunnels
  /\ tunnels' = tunnels + 1
  /\ seq' = 0
  /\ waiting' = None
  /\ air' = {}
  /\ UNCHANGED sent

\* mutant: the number of the tunnel before stays
ConnectedAgain ==
  /\ NewTunnel
  /\ UNCHANGED <<shim, delivered, late>>

\* 'connected'
Connected ==
  /\ NewTunnel
  /\ lastSeq' = None
  /\ UNCHANGED <<dsLast, passed, dropped, delivered, late>>

\* the worker is started again: createSite() and a new UltimateConnection
WorkerRestarts ==
  /\ NewTunnel
  /\ lastSeq' = None
  /\ dsLast' = NoSenders
  /\ passed' = <<>>
  /\ dropped' = {}
  /\ delivered' = {}
  /\ late' = FALSE

Init ==
  /\ seq = 0
  /\ waiting = None
  /\ air = {}
  /\ sent = <<>>
  /\ lastSeq = None
  /\ dsLast = NoSenders
  /\ passed = <<>>
  /\ dropped = {}
  /\ delivered = {}
  /\ late = FALSE
  /\ tunnels = 1

Next ==
  \/ \E k \in Kind, s \in Sender, nr \in 0..MaxNr : GatewaySends(k, s, nr)
  \/ GatewayRepeats
  \/ \E f \in air, acked \in BOOLEAN : Deliver(f, acked)
  \/ Connected
  \/ WorkerRestarts

Spec == Init /\ [][Next]_vars

-----------------------------------------------------------------------------
\* TypeOK: the shape of the state; only group values that are in clear or were
\* opened reach the site.
TypeOK ==
  /\ seq \in 0..SeqMod - 1
  /\ sent \in Seq(Telegram)
  /\ waiting \in [id : 1..Len(sent), try : {1, 2}] \cup {None}
  /\ air \subseteq [id : 1..Len(sent), try : {1, 2}]
  /\ lastSeq \in 0..SeqMod - 1 \cup {None}
  /\ dsLast \in [Sender -> -1..MaxNr]
  /\ passed \in Seq(Nat)
  /\ \A i \in 1..Len(passed) : /\ passed[i] \in 1..Len(sent)
                               /\ sent[passed[i]].kind \in {"plain", "secured"}
  /\ dropped \subseteq [id : 1..Len(sent), why : Why]
  /\ delivered \subseteq 1..Len(sent)
  /\ late \in BOOLEAN
  /\ tunnels \in Nat

\* Of each sender the site is given Data Secure telegrams of rising numbers only,
\* whatever is lost, repeated, late or played again on the bus and however
\* often the tunnel is lost: none twice while the worker runs.
ReplaysBarred ==
  \A i, j \in 1..Len(passed) :
    LET t == sent[passed[i]]
        u == sent[passed[j]] IN
    i < j /\ t.kind = "secured" /\ u.kind = "secured" /\ t.src = u.src => t.nr < u.nr

\* As long as no frame overtakes another, the site is given telegrams in the order
\* the gateway sent them and none twice, although lost ACKs make it repeat
\* them (ultimate-shim.js:309-315).
PassedOnce == ~late => \A i, j \in 1..Len(passed) : i < j => passed[i] < passed[j]

InPassed(n) == \E i \in 1..Len(passed) : passed[i] = n

\* n's number is above those of its sender before it
Fresh(n) == \A m \in delivered : m < n /\ sent[m].kind = "secured" /\ sent[m].src = sent[n].src
                                   => sent[m].nr < sent[n].nr

\* what came of n, if that is right
Accounted(n) ==
  CASE sent[n].kind \in {"device", "unknown"} -> TRUE
    [] sent[n].kind = "plain"                 -> InPassed(n)
    [] sent[n].kind = "secured" /\ Fresh(n)   -> InPassed(n)
    [] OTHER -> InPassed(n) \/ \E d \in dropped : d.id = n

\* the last number before n that indication() noted has come round again
Shadowed(n) == n >= SeqMod /\ \A m \in n - SeqMod + 1 .. n - 1 : Ignored(sent[m])

\* As long as no frame overtakes another, every telegram that was indicated is
\* passed or logged as dropped, and a fresh one is passed whatever was forged
\* before it; but for one behind SeqMod - 1 frames that indication() ignores.
NothingSwallowed == ~late => \A n \in delivered : Accounted(n) \/ Shadowed(n)

=============================================================================
