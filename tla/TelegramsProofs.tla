--------------------------- MODULE TelegramsProofs --------------------------
(***************************************************************************)
(* What the shim makes of any network, for any number of telegrams,        *)
(* senders and tunnels.                                                    *)
(***************************************************************************)
EXTENDS Telegrams, TLAPS

\* the numbers of the secured telegrams passed are below those noted
NotedInv ==
  \A i \in 1..Len(passed) :
    sent[passed[i]].kind = "secured" => sent[passed[i]].nr <= dsLast[sent[passed[i]].src]

\* the newest of what was indicated
Newest(n) == n \in delivered /\ \A m \in delivered : m <= n

\* what the gateway may still bring
Coming == {f.id : f \in air \cup ({waiting} \ {None})}

\* the newest telegram, should it come again, will be known for a repeat
RepeatInv ==
  ~late => \A n \in Coming : Newest(n) => Ignored(sent[n]) \/ Repeated(n)

IInv ==
  /\ TypeOK
  /\ ReplaysBarred
  /\ NotedInv
  /\ PassedOnce
  /\ \A i \in 1..Len(passed) : passed[i] \in delivered
  /\ RepeatInv

-----------------------------------------------------------------------------
LEMMA SendStep ==
  ASSUME IInv, NEW k \in Kind, NEW s \in Sender, NEW nr \in 0..MaxNr, GatewaySends(k, s, nr)
  PROVE  IInv'
PROOF
<1> DEFINE t == [kind |-> k, src |-> s, nr |-> nr, seq |-> seq]
<1>1. /\ sent \in Seq(Telegram) /\ seq \in 0..SeqMod - 1 /\ Len(sent) \in Nat
      /\ sent' = Append(sent, t)
  BY DEF IInv, TypeOK, GatewaySends
<1>2. t \in Telegram
  BY <1>1 DEF Telegram
<1> HIDE DEF t
<1>3. /\ sent' \in Seq(Telegram) /\ Len(sent') = Len(sent) + 1
      /\ \A n \in 1..Len(sent) : sent'[n] = sent[n]
  BY <1>1, <1>2
<1>4. /\ waiting' = [id |-> Len(sent) + 1, try |-> 1] /\ air' = air \cup {waiting'}
      /\ UNCHANGED <<seq, lastSeq, dsLast, passed, dropped, delivered, late, tunnels>>
  BY DEF GatewaySends, shim
<1>5. /\ passed \in Seq(Nat) /\ delivered \subseteq 1..Len(sent)
      /\ air \subseteq [id : 1..Len(sent), try : {1, 2}]
      /\ dropped \subseteq [id : 1..Len(sent), why : Why]
      /\ \A i \in 1..Len(passed) : passed[i] \in 1..Len(sent) /\ sent'[passed[i]] = sent[passed[i]]
  BY <1>3 DEF IInv, TypeOK
<1>6. waiting' \in [id : 1..Len(sent'), try : {1, 2}]
  BY <1>1, <1>3, <1>4
<1>7. air' \subseteq [id : 1..Len(sent'), try : {1, 2}] /\ dropped' \subseteq [id : 1..Len(sent'), why : Why]
  BY <1>1, <1>3, <1>4, <1>5, <1>6
<1>8. TypeOK'
  BY <1>1, <1>3, <1>4, <1>5, <1>6, <1>7 DEF IInv, TypeOK
<1>9. ReplaysBarred' /\ NotedInv' /\ PassedOnce'
  <2>1. ReplaysBarred'
    BY <1>4, <1>5 DEF IInv, ReplaysBarred
  <2>2. NotedInv'
    BY <1>4, <1>5 DEF IInv, NotedInv
  <2>3. PassedOnce'
    BY <1>4 DEF IInv, PassedOnce
  <2> QED BY <2>1, <2>2, <2>3
<1>10. RepeatInv'
  <2>1. SUFFICES ASSUME ~late, NEW n \in Coming', Newest(n)'
                 PROVE  Ignored(sent'[n]) \/ Repeated(n)'
    BY <1>4 DEF RepeatInv
  <2>2. n \in delivered /\ Newest(n) /\ n \in 1..Len(sent) /\ n # Len(sent) + 1
    BY <1>1, <1>4, <1>5, <2>1 DEF Newest
  <2>3. n \in Coming
    BY <1>4, <2>1, <2>2 DEF Coming
  <2> QED BY <1>3, <1>4, <2>1, <2>2, <2>3 DEF IInv, RepeatInv, Ignored, Repeated
<1> QED BY <1>4, <1>8, <1>9, <1>10 DEF IInv

LEMMA RepeatStep ==
  ASSUME IInv, GatewayRepeats
  PROVE  IInv'
PROOF
<1>1. /\ waiting \in [id : 1..Len(sent), try : {1, 2}]
      /\ waiting' = [waiting EXCEPT !.try = 2] /\ air' = air \cup {waiting'}
      /\ UNCHANGED <<seq, sent, lastSeq, dsLast, passed, dropped, delivered, late, tunnels>>
  BY DEF IInv, TypeOK, GatewayRepeats, shim
<1>2. waiting' \in [id : 1..Len(sent), try : {1, 2}] /\ waiting'.id = waiting.id
  BY <1>1
<1>3. TypeOK'
  BY <1>1, <1>2 DEF IInv, TypeOK
<1>4. waiting # None
  BY DEF GatewayRepeats
<1>5. Coming' \subseteq Coming
  BY <1>1, <1>2, <1>4 DEF Coming
<1>6. RepeatInv'
  BY <1>1, <1>5 DEF IInv, RepeatInv, Newest, Ignored, Repeated
<1> QED BY <1>1, <1>3, <1>6 DEF IInv, ReplaysBarred, NotedInv, PassedOnce

\* passed grows by n, a telegram new to the site
LEMMA PassStep ==
  ASSUME IInv, NEW n \in 1..Len(sent),
         sent[n].kind \in {"plain", "secured"},
         passed' = Append(passed, n), UNCHANGED sent,
         dsLast' \in [Sender -> -1..MaxNr],
         \A s \in Sender : dsLast[s] <= dsLast'[s],
         sent[n].kind = "secured" => /\ dsLast[sent[n].src] < sent[n].nr
                                     /\ dsLast'[sent[n].src] = sent[n].nr,
         late' \/ \A m \in delivered : m < n,
         late => late'
  PROVE  /\ passed' \in Seq(Nat)
         /\ \A i \in 1..Len(passed') : /\ passed'[i] \in 1..Len(sent)
                                       /\ sent[passed'[i]].kind \in {"plain", "secured"}
                                       /\ passed'[i] \in delivered \cup {n}
         /\ ReplaysBarred' /\ NotedInv' /\ PassedOnce'
PROOF
<1>1. /\ passed \in Seq(Nat) /\ Len(passed) \in Nat /\ n \in Nat
      /\ \A i \in 1..Len(passed) : passed[i] \in 1..Len(sent) /\ passed[i] \in delivered
      /\ sent \in Seq(Telegram) /\ dsLast \in [Sender -> -1..MaxNr] /\ Len(sent) \in Nat
  BY DEF IInv, TypeOK
<1>2. /\ passed' \in Seq(Nat) /\ Len(passed') = Len(passed) + 1
      /\ passed'[Len(passed) + 1] = n
      /\ \A i \in 1..Len(passed) : passed'[i] = passed[i]
  BY <1>1
<1>3. \A i \in 1..Len(passed') : i = Len(passed) + 1 \/ i \in 1..Len(passed)
  BY <1>1, <1>2
<1>4. \A m \in 1..Len(sent) : sent[m].src \in Sender /\ sent[m].nr \in Nat
  <2>1. \A m \in 1..Len(sent) : sent[m] \in Telegram
    BY <1>1
  <2> QED BY <2>1, NrAssumption DEF Telegram
<1>5. \A s \in Sender : dsLast[s] \in Int /\ dsLast'[s] \in Int
  BY <1>1, NrAssumption
<1>6. \A i \in 1..Len(passed') : /\ passed'[i] \in 1..Len(sent)
                                 /\ sent[passed'[i]].kind \in {"plain", "secured"}
                                 /\ passed'[i] \in delivered \cup {n}
  BY <1>1, <1>2, <1>3 DEF IInv, TypeOK
<1>7. NotedInv'
  <2>1. SUFFICES ASSUME NEW i \in 1..Len(passed'), sent[passed'[i]].kind = "secured"
                 PROVE  sent[passed'[i]].nr <= dsLast'[sent[passed'[i]].src]
    BY DEF NotedInv
  <2>2. CASE i = Len(passed) + 1
    <3>1. passed'[i] = n
      BY <1>2, <2>2
    <3>2. dsLast'[sent[n].src] = sent[n].nr /\ sent[n].nr \in Nat
      BY <1>4, <2>1, <3>1
    <3> QED BY <3>1, <3>2
  <2>3. CASE i \in 1..Len(passed)
    <3> DEFINE u == sent[passed[i]]
    <3>1. passed'[i] = passed[i] /\ u.nr <= dsLast[u.src]
      BY <1>2, <2>1, <2>3 DEF IInv, NotedInv
    <3>2. u.src \in Sender /\ u.nr \in Nat
      BY <1>1, <1>4, <2>3
    <3>3. dsLast[u.src] <= dsLast'[u.src] /\ dsLast[u.src] \in Int /\ dsLast'[u.src] \in Int
      BY <1>5, <3>2
    <3> HIDE DEF u
    <3>4. u.nr <= dsLast'[u.src]
      BY <3>1, <3>2, <3>3
    <3> QED BY <3>1, <3>4 DEF u
  <2> QED BY <1>3, <2>2, <2>3
<1>8. ReplaysBarred'
  <2>1. SUFFICES ASSUME NEW i \in 1..Len(passed'), NEW j \in 1..Len(passed'), i < j,
                        sent[passed'[i]].kind = "secured", sent[passed'[j]].kind = "secured",
                        sent[passed'[i]].src = sent[passed'[j]].src
                 PROVE  sent[passed'[i]].nr < sent[passed'[j]].nr
    BY DEF ReplaysBarred
  <2>2. i \in 1..Len(passed)
    BY <1>1, <1>2, <2>1
  <2>3. CASE j = Len(passed) + 1
    <3>1. sent[passed[i]].nr <= dsLast[sent[passed[i]].src]
      BY <1>2, <2>1, <2>2 DEF IInv, NotedInv
    <3>2. dsLast[sent[n].src] < sent[n].nr /\ sent[passed[i]].src = sent[n].src
      BY <1>2, <2>1, <2>2, <2>3
    <3> QED BY <1>1, <1>2, <1>4, <1>5, <2>2, <2>3, <3>1, <3>2
  <2>4. CASE j \in 1..Len(passed)
    BY <1>2, <2>1, <2>2, <2>4 DEF IInv, ReplaysBarred
  <2> QED BY <1>3, <2>3, <2>4
<1>9. PassedOnce'
  <2>1. SUFFICES ASSUME ~late', NEW i \in 1..Len(passed'), NEW j \in 1..Len(passed'), i < j
                 PROVE  passed'[i] < passed'[j]
    BY DEF PassedOnce
  <2>2. i \in 1..Len(passed) /\ ~late
    BY <1>1, <1>2, <2>1
  <2>3. CASE j = Len(passed) + 1
    BY <1>1, <1>2, <2>1, <2>2, <2>3
  <2>4. CASE j \in 1..Len(passed)
    BY <1>2, <2>1, <2>2, <2>4 DEF IInv, PassedOnce
  <2> QED BY <1>3, <2>3, <2>4
<1> QED BY <1>2, <1>6, <1>7, <1>8, <1>9

\* a telegram of the shim's that the site is not given
LEMMA DropStep ==
  ASSUME IInv, UNCHANGED <<sent, dsLast, passed>>, late => late'
  PROVE  ReplaysBarred' /\ NotedInv' /\ PassedOnce'
PROOF
<1>1. ReplaysBarred' /\ NotedInv'
  BY DEF IInv, ReplaysBarred, NotedInv
<1> QED BY <1>1 DEF IInv, PassedOnce

LEMMA DeliverStep ==
  ASSUME IInv, NEW f \in air, NEW acked \in BOOLEAN, Deliver(f, acked)
  PROVE  IInv'
PROOF
<1> DEFINE n == f.id
<1> DEFINE t == sent[n]
<1>1. /\ n \in 1..Len(sent) /\ sent \in Seq(Telegram) /\ Len(sent) \in Nat
      /\ waiting \in [id : 1..Len(sent), try : {1, 2}] \cup {None}
      /\ seq \in 0..SeqMod - 1 /\ dsLast \in [Sender -> -1..MaxNr]
      /\ delivered \subseteq 1..Len(sent)
  BY DEF IInv, TypeOK
<1>2. t \in Telegram
  BY <1>1
<1>3. t.kind \in Kind /\ t.src \in Sender /\ t.nr \in 0..MaxNr /\ t.seq \in 0..SeqMod - 1
  BY <1>2 DEF Telegram
<1>4. /\ air' = air \ {f} /\ UNCHANGED <<sent, tunnels>>
      /\ delivered' = delivered \cup {n}
      /\ late' = (late \/ \E m \in delivered : m > n)
      /\ Indication(n)
  BY DEF Deliver
<1>5. seq' \in 0..SeqMod - 1 /\ (waiting' = waiting \/ waiting' = None)
  BY <1>1, SeqAssumption DEF Deliver, GatewayAcked
<1>6. late' \in BOOLEAN /\ (late => late') /\ (late' \/ \A m \in delivered : m <= n)
  <2>1. late \in BOOLEAN /\ n \in Int /\ \A m \in delivered : m \in Int
    BY <1>1 DEF IInv, TypeOK
  <2>2. late' = (late \/ \E m \in delivered : m > n)
    BY <1>4
  <2>3. late' \in BOOLEAN /\ (late => late')
    BY <2>1, <2>2
  <2>4. late' \/ \A m \in delivered : m <= n
    <3>1. SUFFICES ASSUME ~late', NEW m \in delivered PROVE m <= n
      OBVIOUS
    <3>2. ~(m > n)
      BY <2>2, <3>1
    <3> QED BY <2>1, <3>2
  <2> QED BY <2>3, <2>4
<1> HIDE DEF t
<1>7. n \in Coming /\ Coming' \subseteq Coming
  BY <1>4, <1>5 DEF Coming
<1>8. Ignored(t) \/ lastSeq' = t.seq
  BY <1>4 DEF Indication, Repeated, shim, t
<1>9. RepeatInv'
  <2>1. SUFFICES ASSUME ~late', NEW m \in Coming', Newest(m)'
                 PROVE  Ignored(sent[m]) \/ sent[m].seq = lastSeq'
    BY <1>4 DEF RepeatInv, Ignored, Repeated
  <2>2. m \in delivered \cup {n} /\ \A k \in delivered \cup {n} : k <= m
    BY <1>4, <2>1 DEF Newest
  <2>3. m = n
    BY <1>1, <1>6, <2>1, <2>2
  <2> QED BY <1>8, <2>3 DEF t
<1>10. CASE Ignored(t) \/ Repeated(n)
  <2>1. UNCHANGED <<lastSeq, dsLast, passed, dropped>>
    BY <1>4, <1>10 DEF Indication, shim, t
  <2>2. TypeOK'
    BY <1>1, <1>4, <1>5, <1>6, <2>1 DEF IInv, TypeOK
  <2>3. ReplaysBarred' /\ NotedInv' /\ PassedOnce'
    BY <1>4, <1>6, <2>1, DropStep
  <2>4. \A i \in 1..Len(passed') : passed'[i] \in delivered'
    BY <1>4, <2>1 DEF IInv
  <2> QED BY <1>9, <2>2, <2>3, <2>4 DEF IInv
<1>11. CASE ~Ignored(t) /\ ~Repeated(n)
  <2>1. lastSeq' = t.seq /\ Noted(t) /\ Handle(n)
    BY <1>4, <1>11 DEF Indication, t
  <2>2. lastSeq' \in 0..SeqMod - 1
    BY <1>3, <2>1
  <2>3. late' \/ \A m \in delivered : m < n
    \* n, did it come before, would be known for a repeat
    <3>1. SUFFICES ASSUME ~late' PROVE n \notin delivered
      BY <1>1, <1>6
    <3>2. SUFFICES ASSUME n \in delivered PROVE FALSE
      OBVIOUS
    <3>3. Newest(n) /\ ~late
      BY <1>6, <3>1, <3>2 DEF Newest
    <3> QED BY <1>7, <1>11, <3>3 DEF IInv, RepeatInv, t
  <2>4. CASE IsSecured(t) /\ Drop(t) # None
    <3>1. UNCHANGED <<dsLast, passed>> /\ dropped' = dropped \cup {[id |-> n, why |-> Drop(t)]}
      BY <2>1, <2>4 DEF Noted, Handle, SecuredDropped, t
    <3>2. Drop(t) \in Why
      BY <2>4 DEF Drop, Why
    <3>3. dropped' \subseteq [id : 1..Len(sent), why : Why]
      BY <1>1, <3>1, <3>2 DEF IInv, TypeOK
    <3>4. TypeOK'
      BY <1>1, <1>4, <1>5, <1>6, <2>2, <3>1, <3>3 DEF IInv, TypeOK
    <3>5. ReplaysBarred' /\ NotedInv' /\ PassedOnce'
      BY <1>4, <1>6, <3>1, DropStep
    <3>6. \A i \in 1..Len(passed') : passed'[i] \in delivered'
      BY <1>4, <3>1 DEF IInv
    <3> QED BY <1>9, <3>4, <3>5, <3>6 DEF IInv
  <2>5. CASE ~IsSecured(t) /\ t.kind = "unknown"
    <3>1. UNCHANGED <<dsLast, passed, dropped>>
      BY <2>1, <2>5 DEF Noted, Handle, t
    <3>2. TypeOK'
      BY <1>1, <1>4, <1>5, <1>6, <2>2, <3>1 DEF IInv, TypeOK
    <3>3. ReplaysBarred' /\ NotedInv' /\ PassedOnce'
      BY <1>4, <1>6, <3>1, DropStep
    <3>4. \A i \in 1..Len(passed') : passed'[i] \in delivered'
      BY <1>4, <3>1 DEF IInv
    <3> QED BY <1>9, <3>2, <3>3, <3>4 DEF IInv
  <2>6. CASE ~(IsSecured(t) /\ Drop(t) # None) /\ t.kind # "unknown"
    <3>1. t.kind \in {"plain", "secured"}
      BY <1>3, <1>11, <2>6, NoneAssumption DEF IsSecured, Kind, Ignored, Drop, Why
    <3>2. passed' = Append(passed, n) /\ UNCHANGED dropped
      BY <2>1, <2>6 DEF Handle, t
    <3>3. t.kind = "secured" => dsLast[t.src] < t.nr /\ dsLast' = [dsLast EXCEPT ![t.src] = t.nr]
      <4>1. SUFFICES ASSUME t.kind = "secured"
                     PROVE  dsLast[t.src] < t.nr /\ dsLast' = [dsLast EXCEPT ![t.src] = t.nr]
        OBVIOUS
      <4>2. Drop(t) = None
        BY <2>6, <4>1 DEF IsSecured
      <4>3. ~(t.nr <= dsLast[t.src])
        BY <4>1, <4>2, NoneAssumption DEF Drop, Why
      <4>4. dsLast[t.src] \in -1..MaxNr
        BY <1>1, <1>3
      <4> QED BY <1>3, <2>1, <4>1, <4>2, <4>3, <4>4, NrAssumption DEF Noted
    <3>4. t.kind # "secured" => dsLast' = dsLast
      BY <2>1 DEF Noted
    <3>5. /\ dsLast' \in [Sender -> -1..MaxNr]
          /\ \A s \in Sender : dsLast[s] <= dsLast'[s]
          /\ t.kind = "secured" => dsLast'[t.src] = t.nr
      BY <1>1, <1>3, <3>3, <3>4, NrAssumption
    <3>6. /\ passed' \in Seq(Nat)
          /\ \A i \in 1..Len(passed') : /\ passed'[i] \in 1..Len(sent)
                                        /\ sent[passed'[i]].kind \in {"plain", "secured"}
                                        /\ passed'[i] \in delivered \cup {n}
          /\ ReplaysBarred' /\ NotedInv' /\ PassedOnce'
      BY <1>1, <1>4, <1>6, <2>3, <3>1, <3>2, <3>3, <3>5, PassStep DEF t
    <3>7. TypeOK'
      BY <1>1, <1>4, <1>5, <1>6, <2>2, <3>2, <3>5, <3>6 DEF IInv, TypeOK
    <3>8. \A i \in 1..Len(passed') : passed'[i] \in delivered'
      BY <1>4, <3>6
    <3>9. ReplaysBarred' /\ NotedInv' /\ PassedOnce'
      BY <3>6
    <3> QED BY <1>9, <3>7, <3>8, <3>9 DEF IInv
  <2> QED BY <2>4, <2>5, <2>6 DEF IsSecured
<1> QED BY <1>10, <1>11

LEMMA TunnelStep ==
  ASSUME IInv, Connected \/ WorkerRestarts
  PROVE  IInv'
PROOF
<1>1. /\ tunnels' \in Nat /\ seq' = 0 /\ waiting' = None /\ air' = {} /\ lastSeq' = None
      /\ UNCHANGED sent
  BY DEF IInv, TypeOK, Connected, WorkerRestarts, NewTunnel
<1>2. 0 \in 0..SeqMod - 1 /\ -1 \in -1..MaxNr
  BY SeqAssumption, NrAssumption
<1>3. RepeatInv'
  BY <1>1 DEF RepeatInv, Coming
<1>4. CASE Connected
  <2>1. UNCHANGED <<dsLast, passed, dropped, delivered, late>>
    BY <1>4 DEF Connected
  <2>2. TypeOK'
    BY <1>1, <1>2, <2>1 DEF IInv, TypeOK
  <2>3. ReplaysBarred' /\ NotedInv' /\ PassedOnce'
    BY <1>1, <2>1, DropStep
  <2> QED BY <1>3, <2>1, <2>2, <2>3 DEF IInv
<1>5. CASE WorkerRestarts
  <2>1. dsLast' = NoSenders /\ passed' = <<>> /\ dropped' = {} /\ delivered' = {} /\ late' = FALSE
    BY <1>5 DEF WorkerRestarts
  <2>2. passed' \in Seq(Nat) /\ Len(passed') = 0
    BY <2>1
  <2>3. TypeOK'
    <3>1. dsLast' \in [Sender -> -1..MaxNr]
      BY <1>2, <2>1 DEF NoSenders
    <3>2. waiting' \in [id : 1..Len(sent'), try : {1, 2}] \cup {None}
      BY <1>1
    <3>3. seq' \in 0..SeqMod - 1 /\ sent' \in Seq(Telegram)
      BY <1>1, <1>2 DEF IInv, TypeOK
    <3>4. air' \subseteq [id : 1..Len(sent'), try : {1, 2}] /\ lastSeq' \in 0..SeqMod - 1 \cup {None}
      BY <1>1
    <3>5. dropped' \subseteq [id : 1..Len(sent'), why : Why] /\ delivered' \subseteq 1..Len(sent')
      BY <2>1
    <3>6. late' \in BOOLEAN
      BY <2>1
    <3>7. \A i \in 1..Len(passed') : /\ passed'[i] \in 1..Len(sent')
                                  /\ sent'[passed'[i]].kind \in {"plain", "secured"}
      BY <2>2
    <3> QED BY ONLY <1>1, <2>2, <3>1, <3>2, <3>3, <3>4, <3>5, <3>6, <3>7 DEF TypeOK
  <2> QED BY <1>3, <2>2, <2>3 DEF IInv, ReplaysBarred, NotedInv, PassedOnce
<1> QED BY <1>4, <1>5

LEMMA Initial == Init => IInv
PROOF
<1> SUFFICES ASSUME Init PROVE IInv
  OBVIOUS
<1>1. 0 \in 0..SeqMod - 1 /\ -1 \in -1..MaxNr
  BY SeqAssumption, NrAssumption
<1>2. Len(passed) = 0 /\ passed \in Seq(Nat) /\ sent \in Seq(Telegram)
  BY DEF Init
<1>3. TypeOK
  <2>1. dsLast \in [Sender -> -1..MaxNr]
    BY <1>1 DEF Init, NoSenders
  <2>2. seq \in 0..SeqMod - 1 /\ tunnels \in Nat
    BY <1>1 DEF Init
  <2>3. /\ waiting \in [id : 1..Len(sent), try : {1, 2}] \cup {None}
        /\ air \subseteq [id : 1..Len(sent), try : {1, 2}]
        /\ lastSeq \in 0..SeqMod - 1 \cup {None}
        /\ dropped \subseteq [id : 1..Len(sent), why : Why]
        /\ delivered \subseteq 1..Len(sent)
        /\ late \in BOOLEAN
    BY DEF Init
  <2> QED BY ONLY <1>2, <2>1, <2>2, <2>3 DEF TypeOK
<1>4. RepeatInv
  BY DEF Init, RepeatInv, Coming
<1> QED BY <1>2, <1>3, <1>4 DEF IInv, ReplaysBarred, NotedInv, PassedOnce

LEMMA Inductive == IInv /\ [Next]_vars => IInv'
PROOF
<1> SUFFICES ASSUME IInv, [Next]_vars PROVE IInv'
  OBVIOUS
<1>1. CASE UNCHANGED vars
  BY <1>1 DEF vars, gateway, shim, IInv, TypeOK, ReplaysBarred, NotedInv, PassedOnce, RepeatInv,
              Coming, Newest, Ignored, Repeated
<1> QED BY <1>1, SendStep, RepeatStep, DeliverStep, TunnelStep DEF Next

LEMMA Invariant == Spec => []IInv
PROOF
<1> QED BY Initial, Inductive, PTL DEF Spec

-----------------------------------------------------------------------------
(* Nothing is swallowed.  The telegrams of a tunnel are numbered in turn, so  *)
(* two with one number are SeqMod apart at least; and those before the one    *)
(* the gateway waits for have been indicated.                                 *)

\* x is how far the numbers of telegrams j and k are apart, if k comes soon after j
Apart(j, k, x) == k - j < SeqMod => x \in {k - j, k - j - SeqMod}

\* p is behind the number that the shim has noted
LastNoted(p) ==
  /\ p \in delivered /\ sent[p].seq = lastSeq
  /\ \A m \in delivered : m > p => Ignored(sent[m])

\* the tunnel's telegrams are those from b on
TunnelFrom(b) ==
  /\ \A f \in air : f.id >= b
  /\ \A k \in b..Len(sent) : \A j \in b..k : Apart(j, k, sent[k].seq - sent[j].seq)
  /\ waiting # None => waiting.id = Len(sent) /\ Len(sent) >= b /\ seq = sent[Len(sent)].seq
  /\ waiting = None => \A j \in b..Len(sent) : Apart(j, Len(sent) + 1, seq - sent[j].seq)
  /\ ~late => \A k \in b..Len(sent) : k \in delivered \/ (waiting # None /\ k = Len(sent))
  /\ ~late /\ lastSeq # None => \E p \in b..Len(sent) : LastNoted(p)

\* the number kept of a sender is that of a telegram of its own
KeptOf(s) ==
  dsLast[s] # -1 => \E m \in delivered : /\ sent[m].kind = "secured" /\ sent[m].src = s
                                         /\ sent[m].nr = dsLast[s]

SInv ==
  /\ \E b \in 1..Len(sent) + 1 : TunnelFrom(b)
  /\ \A s \in Sender : KeptOf(s)
  /\ NothingSwallowed

LEMMA SentType ==
  ASSUME TypeOK
  PROVE  /\ Len(sent) \in Nat
         /\ \A k \in 1..Len(sent) : /\ sent[k].seq \in 0..SeqMod - 1 /\ sent[k].nr \in 0..MaxNr
                                    /\ sent[k].src \in Sender /\ sent[k].kind \in Kind
PROOF
<1>1. sent \in Seq(Telegram)
  BY DEF TypeOK
<1>2. \A k \in 1..Len(sent) : sent[k] \in Telegram
  BY <1>1
<1> QED BY <1>1, <1>2 DEF Telegram

\* The number after c is one further from a.
LEMMA NextApart ==
  ASSUME NEW a \in 0..SeqMod - 1, NEW c \in 0..SeqMod - 1, NEW d \in Nat, d + 1 < SeqMod,
         c - a \in {d, d - SeqMod}
  PROVE  ((c + 1) % SeqMod) - a \in {d + 1, d + 1 - SeqMod}
PROOF
<1>1. CASE c = SeqMod - 1
  <2>1. (c + 1) % SeqMod = 0
    BY <1>1, SeqAssumption
  <2> QED BY <1>1, <2>1, SeqAssumption
<1>2. CASE c # SeqMod - 1
  <2>1. (c + 1) % SeqMod = c + 1
    BY <1>2, SeqAssumption
  <2> QED BY <2>1, SeqAssumption
<1> QED BY <1>1, <1>2

\* Two telegrams of a tunnel with one number have SeqMod - 1 others between them.
LEMMA SameNumber ==
  ASSUME TypeOK, NEW b \in 1..Len(sent) + 1, TunnelFrom(b),
         NEW k \in b..Len(sent), NEW j \in b..Len(sent), j < k, sent[j].seq = sent[k].seq
  PROVE  k - j >= SeqMod
PROOF
<1>1. Len(sent) \in Nat /\ SeqMod \in Nat /\ sent[j].seq \in Int
  BY SentType, SeqAssumption
<1>2. j \in b..k /\ k - j \in Nat \ {0}
  BY <1>1
<1>3. SUFFICES ASSUME k - j < SeqMod PROVE FALSE
  BY <1>1, <1>2
<1>4. sent[k].seq - sent[j].seq \in {k - j, k - j - SeqMod}
  BY <1>2, <1>3 DEF TunnelFrom, Apart
<1> QED BY <1>1, <1>2, <1>3, <1>4

\* What came of a telegram stays while nothing is forgotten.
LEMMA AccountedOn ==
  ASSUME TypeOK, NEW n \in delivered, Accounted(n) \/ Shadowed(n),
         Len(sent') >= Len(sent), Len(sent') \in Nat,
         \A k \in 1..Len(sent) : sent'[k] = sent[k],
         \A i \in 1..Len(passed) : \E j \in 1..Len(passed') : passed'[j] = passed[i],
         dropped \subseteq dropped', delivered \subseteq delivered'
  PROVE  (Accounted(n) \/ Shadowed(n))'
PROOF
<1>1. n \in 1..Len(sent) /\ Len(sent) \in Nat /\ delivered \subseteq 1..Len(sent)
  BY SentType DEF TypeOK
<1>2. CASE Accounted(n)
  <2>1. InPassed(n) => InPassed(n)'
    BY DEF InPassed
  <2>2. Fresh(n)' => Fresh(n)
    <3>1. SUFFICES ASSUME Fresh(n)', NEW m \in delivered, m < n, sent[m].kind = "secured",
                          sent[m].src = sent[n].src
                   PROVE  sent[m].nr < sent[n].nr
      BY DEF Fresh
    <3>2. m \in delivered' /\ sent'[m] = sent[m] /\ sent'[n] = sent[n]
      BY <1>1
    <3> QED BY <3>1, <3>2 DEF Fresh
  <2>3. sent'[n] = sent[n]
    BY <1>1
  <2>4. (\E d \in dropped : d.id = n) => \E d \in dropped' : d.id = n
    OBVIOUS
  <2>5. CASE sent[n].kind \in {"device", "unknown"}
    BY <2>3, <2>5 DEF Accounted
  <2>6. CASE sent[n].kind = "plain"
    BY <1>2, <2>1, <2>3, <2>6 DEF Accounted
  <2>7. CASE sent[n].kind = "secured"
    <3>1. Fresh(n) => InPassed(n)'
      BY <1>2, <2>1, <2>7 DEF Accounted
    <3>2. ~Fresh(n) => InPassed(n)' \/ \E d \in dropped' : d.id = n
      BY <1>2, <2>1, <2>4, <2>7 DEF Accounted
    <3> QED BY <2>2, <2>3, <2>7, <3>1, <3>2 DEF Accounted
  <2>8. CASE sent[n].kind \notin {"device", "unknown", "plain", "secured"}
    <3>1. InPassed(n)' \/ \E d \in dropped' : d.id = n
      BY <1>2, <2>1, <2>4, <2>8 DEF Accounted
    <3> QED BY <2>3, <2>8, <3>1 DEF Accounted
  <2> QED BY <2>5, <2>6, <2>7, <2>8
<1>3. CASE Shadowed(n)
  <2>1. n >= SeqMod /\ \A m \in n - SeqMod + 1 .. n - 1 : m \in 1..Len(sent)
    BY <1>1, <1>3, SeqAssumption DEF Shadowed
  <2>2. \A m \in n - SeqMod + 1 .. n - 1 : Ignored(sent'[m])
    BY <1>3, <2>1 DEF Shadowed
  <2> QED BY <2>1, <2>2 DEF Shadowed
<1> QED BY <1>2, <1>3

LEMMA SendSwallow ==
  ASSUME IInv, SInv, NEW k \in Kind, NEW s \in Sender, NEW nr \in 0..MaxNr, GatewaySends(k, s, nr)
  PROVE  SInv'
PROOF
<1> DEFINE t == [kind |-> k, src |-> s, nr |-> nr, seq |-> seq]
           N == Len(sent)
<1>1. /\ TypeOK /\ sent \in Seq(Telegram) /\ seq \in 0..SeqMod - 1 /\ N \in Nat /\ SeqMod \in Nat
      /\ sent' = Append(sent, t) /\ t \in Telegram
  BY SeqAssumption DEF IInv, TypeOK, GatewaySends, Telegram
<1>2. t.seq = seq
  OBVIOUS
<1> HIDE DEF t
<1>3. /\ Len(sent') = N + 1 /\ sent'[N + 1] = t
      /\ \A n \in 1..N : sent'[n] = sent[n]
  BY <1>1
<1>4. /\ waiting = None /\ waiting' # None /\ waiting'.id = N + 1 /\ air' = air \cup {waiting'}
      /\ UNCHANGED <<seq, lastSeq, dsLast, passed, dropped, delivered, late, tunnels>>
  <2>1. waiting' \in [id : 1..N + 1, try : {1, 2}] /\ waiting'.id = N + 1
    BY <1>1 DEF GatewaySends
  <2>2. waiting' # None
    BY <1>1, <2>1, NoneAssumption DEF Frame
  <2> QED BY <2>1, <2>2 DEF GatewaySends, shim
<1>5. delivered \subseteq 1..N
  BY <1>1 DEF TypeOK
<1>6. PICK b \in 1..N + 1 : TunnelFrom(b)
  BY DEF SInv
<1>7. TunnelFrom(b)'
  <2>1. \A f \in air' : f.id >= b
    BY <1>1, <1>4, <1>6 DEF TunnelFrom
  <2>2. ASSUME NEW m \in b..N + 1, NEW j \in b..m
        PROVE  Apart(j, m, sent'[m].seq - sent'[j].seq)
    <3>1. CASE m # N + 1
      BY <1>1, <1>3, <1>6, <2>2, <3>1 DEF TunnelFrom
    <3>2. CASE m = N + 1 /\ j # N + 1
      BY <1>1, <1>2, <1>3, <1>4, <1>6, <2>2, <3>2 DEF TunnelFrom
    <3>3. CASE m = N + 1 /\ j = N + 1
      BY <1>1, <1>2, <1>3, <3>3 DEF Apart
    <3> QED BY <1>1, <2>2, <3>1, <3>2, <3>3
  <2>3. ASSUME ~late, NEW m \in b..N + 1
        PROVE  m \in delivered \/ m = N + 1
    BY <1>1, <1>4, <1>6, <2>3 DEF TunnelFrom
  <2>4. ASSUME ~late, lastSeq # None
        PROVE  \E p \in b..N + 1 : LastNoted(p)'
    <3>1. PICK p \in b..N : LastNoted(p)
      BY <1>6, <2>4 DEF TunnelFrom
    <3>2. LastNoted(p)'
      BY <1>1, <1>3, <1>4, <1>5, <3>1 DEF LastNoted, Ignored
    <3> QED BY <1>1, <3>1, <3>2
  <2> QED BY <1>1, <1>2, <1>3, <1>4, <2>1, <2>2, <2>3, <2>4 DEF TunnelFrom
<1>8. \A x \in Sender : KeptOf(x)'
  BY <1>3, <1>4, <1>5 DEF SInv, KeptOf
<1>9. NothingSwallowed'
  <2>1. SUFFICES ASSUME ~late, NEW n \in delivered
                 PROVE  (Accounted(n) \/ Shadowed(n))'
    BY <1>4 DEF NothingSwallowed
  <2> QED BY <1>1, <1>3, <1>4, <2>1, AccountedOn DEF SInv, NothingSwallowed
<1> QED BY <1>1, <1>3, <1>6, <1>7, <1>8, <1>9 DEF SInv

LEMMA RepeatSwallow ==
  ASSUME IInv, SInv, GatewayRepeats
  PROVE  SInv'
PROOF
<1>1. /\ TypeOK /\ waiting \in [id : 1..Len(sent), try : {1, 2}] /\ waiting # None
      /\ waiting' = [waiting EXCEPT !.try = 2] /\ air' = air \cup {waiting'}
      /\ UNCHANGED <<seq, sent, lastSeq, dsLast, passed, dropped, delivered, late, tunnels>>
  BY DEF IInv, TypeOK, GatewayRepeats, shim
<1>2. waiting'.id = waiting.id /\ waiting' # None
  <2>1. waiting' \in [id : 1..Len(sent), try : {1, 2}] /\ waiting'.id = waiting.id
    BY <1>1
  <2>2. Len(sent) \in Nat
    BY <1>1, SentType
  <2> QED BY <2>1, <2>2, NoneAssumption DEF Frame
<1>3. PICK b \in 1..Len(sent) + 1 : TunnelFrom(b)
  BY DEF SInv
<1>4. TunnelFrom(b)'
  BY <1>1, <1>2, <1>3, SentType DEF TunnelFrom, LastNoted
<1>5. (\A s \in Sender : KeptOf(s)') /\ NothingSwallowed'
  BY <1>1 DEF SInv, KeptOf, NothingSwallowed, Accounted, InPassed, Fresh, Shadowed
<1> QED BY <1>1, <1>4, <1>5 DEF SInv

LEMMA TunnelSwallow ==
  ASSUME IInv, SInv, Connected \/ WorkerRestarts
  PROVE  SInv'
PROOF
<1>1. /\ TypeOK /\ Len(sent) \in Nat
      /\ waiting' = None /\ air' = {} /\ lastSeq' = None /\ UNCHANGED sent
  BY SentType DEF IInv, Connected, WorkerRestarts, NewTunnel
<1>2. TunnelFrom(Len(sent) + 1)'
  BY <1>1 DEF TunnelFrom
<1>3. CASE Connected
  BY <1>1, <1>2, <1>3 DEF Connected, SInv, KeptOf, NothingSwallowed, Accounted, InPassed, Fresh,
                          Shadowed
<1>4. CASE WorkerRestarts
  <2>1. dsLast' = NoSenders /\ delivered' = {}
    BY <1>4 DEF WorkerRestarts
  <2>2. \A s \in Sender : KeptOf(s)'
    BY <2>1 DEF KeptOf, NoSenders
  <2> QED BY <1>1, <1>2, <2>1, <2>2 DEF SInv, NothingSwallowed
<1> QED BY <1>3, <1>4

\* A telegram that comes in order is newer than all that were indicated.
LEMMA InOrder ==
  ASSUME TypeOK, NEW f \in air, NEW acked \in BOOLEAN, Deliver(f, acked), ~late'
  PROVE  ~late /\ \A m \in delivered : m <= f.id
PROOF
<1>1. ~(late \/ \E m \in delivered : m > f.id)
  BY DEF Deliver
<1>2. f.id \in Int /\ \A m \in delivered : m \in Int
  BY DEF TypeOK
<1> QED BY <1>1, <1>2

\* The gateway goes on only when the telegram it waits for was indicated, unless
\* an older one came late.
LEMMA DeliverTunnel ==
  ASSUME IInv, NEW b \in 1..Len(sent) + 1, TunnelFrom(b), NEW f \in air, NEW acked \in BOOLEAN,
         Deliver(f, acked)
  PROVE  TunnelFrom(b)'
PROOF
<1> DEFINE n == f.id
           N == Len(sent)
<1>1. /\ TypeOK /\ TypeOK' /\ N \in Nat /\ SeqMod \in Nat /\ SeqMod > 1
      /\ n \in b..N /\ n \in 1..N /\ delivered \subseteq 1..N
      /\ \A k \in 1..N : sent[k].seq \in 0..SeqMod - 1
  <2>1. TypeOK'
    BY DeliverStep DEF IInv
  <2>2. TypeOK /\ N \in Nat /\ \A k \in 1..N : sent[k].seq \in 0..SeqMod - 1
    BY SentType DEF IInv
  <2>3. n \in 1..N /\ delivered \subseteq 1..N
    BY <2>2 DEF TypeOK
  <2>4. n >= b
    BY DEF TunnelFrom
  <2> QED BY <2>1, <2>2, <2>3, <2>4, SeqAssumption
<1>2. /\ air' = air \ {f} /\ UNCHANGED sent
      /\ delivered' = delivered \cup {n}
      /\ ~late' => ~late /\ \A m \in delivered : m <= n
      /\ Indication(n)
      /\ IF acked THEN GatewayAcked(n) ELSE UNCHANGED <<waiting, seq>>
  BY InOrder DEF Deliver, IInv
<1> HIDE DEF n
<1>3. \A j \in b..N : j \in 1..N
  BY <1>1
\* the acknowledged number is that of n itself
<1>4. ASSUME waiting # None, sent[n].seq = seq, ~late'
      PROVE  n = N
  <2>1. N >= b /\ sent[n].seq = sent[N].seq
    BY <1>4 DEF TunnelFrom
  <2>2. SUFFICES ASSUME n < N PROVE FALSE
    BY <1>1
  <2>3. N - n >= SeqMod
    BY <1>1, <2>1, <2>2, SameNumber
  <2>4. n + 1 \in b..N /\ n + 1 # N
    BY <1>1, <2>3
  <2>5. n + 1 \in delivered
    BY <1>2, <1>4, <2>4 DEF TunnelFrom
  <2> QED BY <1>1, <1>2, <1>4, <2>5
<1>5. \/ UNCHANGED <<waiting, seq>>
      \/ /\ waiting # None /\ sent[n].seq = seq
         /\ waiting' = None /\ seq' = (seq + 1) % SeqMod
  BY <1>2 DEF GatewayAcked
<1>6. ASSUME waiting' = None, NEW j \in b..N
      PROVE  Apart(j, N + 1, seq' - sent[j].seq)
  <2>1. CASE UNCHANGED <<waiting, seq>>
    <3>1. Apart(j, N + 1, seq - sent[j].seq)
      BY <1>6, <2>1 DEF TunnelFrom
    <3>2. seq' = seq
      BY <2>1
    <3> QED BY <3>1, <3>2
  <2>2. CASE waiting # None /\ seq' = (seq + 1) % SeqMod
    <3>0. SUFFICES ASSUME (N + 1) - j < SeqMod
                   PROVE  seq' - sent[j].seq \in {(N + 1) - j, (N + 1) - j - SeqMod}
      BY DEF Apart
    <3>1. seq = sent[N].seq /\ N \in b..N /\ j \in b..N
      BY <1>1, <1>6, <2>2 DEF TunnelFrom
    <3>2. N - j \in Nat /\ (N - j) + 1 < SeqMod /\ N - j < SeqMod
      BY <1>1, <1>6, <3>0
    <3>3. seq - sent[j].seq \in {N - j, N - j - SeqMod}
      <4>1. Apart(j, N, sent[N].seq - sent[j].seq)
        BY <1>1, <3>1 DEF TunnelFrom
      <4> QED BY <3>1, <3>2, <4>1 DEF Apart
    <3>4. sent[j].seq \in 0..SeqMod - 1 /\ seq \in 0..SeqMod - 1
      BY <1>1, <1>3, <3>1
    <3>5. ((seq + 1) % SeqMod) - sent[j].seq \in {(N - j) + 1, (N - j) + 1 - SeqMod}
      BY <3>2, <3>3, <3>4, NextApart
    <3> QED BY <1>1, <2>2, <3>5
  <2> QED BY <1>5, <2>1, <2>2
<1>7. ASSUME ~late', NEW k \in b..N
      PROVE  k \in delivered' \/ (waiting' # None /\ k = N)
  BY <1>2, <1>4, <1>5, <1>7 DEF TunnelFrom
<1>8. ASSUME ~late', lastSeq' # None
      PROVE  \E p \in b..N : LastNoted(p)'
  <2>0. ~late /\ \A m \in delivered' : m <= n
    BY <1>1, <1>2, <1>8
  <2>1. CASE Ignored(sent[n])
    <3>1. lastSeq' = lastSeq
      BY <1>2, <2>1 DEF Indication, shim
    <3>2. PICK p \in b..N : LastNoted(p)
      BY <1>8, <2>0, <3>1 DEF TunnelFrom
    <3> QED BY <1>2, <2>1, <3>1, <3>2 DEF LastNoted
  <2>2. CASE ~Ignored(sent[n])
    <3>1. lastSeq' = sent[n].seq
      BY <1>2, <2>2 DEF Indication, Repeated, shim
    <3>2. \A m \in delivered' : ~(m > n)
      BY <1>1, <1>2, <2>0
    <3> QED BY <1>1, <1>2, <3>1, <3>2 DEF LastNoted
  <2> QED BY <2>1, <2>2
<1>9. waiting' # None => waiting' = waiting /\ seq' = seq
  BY <1>5
<1>10. \A g \in air' : g.id >= b
  BY <1>2 DEF TunnelFrom
<1>11. /\ \A k \in b..N : \A j \in b..k : Apart(j, k, sent[k].seq - sent[j].seq)
       /\ waiting # None => waiting.id = N /\ N >= b /\ seq = sent[N].seq
  BY DEF TunnelFrom
<1>12. waiting' = None => \A j \in b..N : Apart(j, N + 1, seq' - sent[j].seq)
  BY <1>6
<1>13. sent' = sent
  BY <1>2
<1> QED BY <1>7, <1>8, <1>9, <1>10, <1>11, <1>12, <1>13 DEF TunnelFrom

\* What indication() makes of a telegram is right, if nothing came late.
LEMMA IndicationRight ==
  ASSUME IInv, SInv, NEW f \in air, NEW acked \in BOOLEAN, Deliver(f, acked), ~late',
         f.id \notin delivered
  PROVE  (Accounted(f.id) \/ Shadowed(f.id))'
PROOF
<1> DEFINE n == f.id
           t == sent[n]
           N == Len(sent)
<1>1. /\ TypeOK /\ N \in Nat /\ n \in 1..N /\ delivered \subseteq 1..N /\ passed \in Seq(Nat)
      /\ t.kind \in Kind /\ t.src \in Sender /\ t.nr \in 0..MaxNr
  BY SentType DEF IInv, TypeOK
<1>2. /\ UNCHANGED sent /\ delivered' = delivered \cup {n} /\ Indication(n)
      /\ ~late /\ n \notin delivered /\ \A m \in delivered : m <= n
  BY InOrder DEF Deliver, IInv
<1> HIDE DEF n
<1>3. ~late /\ \A m \in delivered : m < n
  BY <1>1, <1>2
<1>4. CASE Ignored(t)
  BY <1>2, <1>4 DEF Accounted, Ignored, n
<1>5. CASE ~Ignored(t) /\ Repeated(n)
  \* the number has come round
  <2>1. PICK b \in 1..N + 1 : TunnelFrom(b)
    BY DEF SInv
  <2>2. lastSeq # None /\ t.seq = lastSeq
    BY <1>1, <1>5, SentType, NoneAssumption DEF Repeated
  <2>3. PICK p \in b..N : LastNoted(p)
    BY <1>3, <2>1, <2>2 DEF TunnelFrom
  <2>4. p < n /\ sent[p].seq = t.seq /\ n \in b..N
    BY <1>1, <1>3, <2>1, <2>2, <2>3 DEF LastNoted, TunnelFrom, n
  <2>5. n - p >= SeqMod
    BY <1>1, <2>1, <2>3, <2>4, SameNumber
  <2>6. ASSUME NEW m \in n - SeqMod + 1 .. n - 1
        PROVE  Ignored(sent[m])
    <3>1. m > p /\ m \in b..N /\ m # N
      BY <1>1, <2>3, <2>4, <2>5, SeqAssumption
    <3>2. m \in delivered
      BY <1>3, <2>1, <3>1 DEF TunnelFrom
    <3> QED BY <2>3, <3>1, <3>2 DEF LastNoted
  <2>7. n >= SeqMod
    BY <1>1, <2>3, <2>4, <2>5, SeqAssumption
  <2>8. Shadowed(n)'
    BY <1>2, <2>6, <2>7 DEF Shadowed
  <2> QED BY <2>8 DEF n
<1>6. CASE ~Ignored(t) /\ ~Repeated(n)
  <2>1. Handle(n) /\ Noted(t)
    BY <1>2, <1>6 DEF Indication
  <2>2. CASE IsSecured(t) /\ Drop(t) # None
    <3>1. [id |-> n, why |-> Drop(t)] \in dropped'
      BY <2>1, <2>2 DEF Handle, SecuredDropped
    <3>2. \E d \in dropped' : d.id = n
      <4>1. [id |-> n, why |-> Drop(t)].id = n
        OBVIOUS
      <4> QED BY <3>1, <4>1
    <3>3. t.kind = "secured" => ~Fresh(n)'
      <4>1. SUFFICES ASSUME t.kind = "secured" PROVE ~Fresh(n)'
        OBVIOUS
      <4>2. t.nr <= dsLast[t.src]
        BY <2>2, <4>1 DEF Drop
      <4>3. dsLast[t.src] # -1 /\ t.nr \in Nat /\ dsLast[t.src] \in Int
        BY <1>1, <4>2, NrAssumption DEF TypeOK
      <4>4. PICK m \in delivered : /\ sent[m].kind = "secured" /\ sent[m].src = t.src
                                   /\ sent[m].nr = dsLast[t.src]
        BY <1>1, <4>3 DEF SInv, KeptOf
      <4>5. m < n /\ ~(sent[m].nr < t.nr)
        BY <1>3, <4>2, <4>3, <4>4
      <4> QED BY <1>2, <4>1, <4>4, <4>5 DEF Fresh
    <3>4. t.kind \notin {"plain", "device", "unknown"}
      BY <2>2 DEF IsSecured
    <3> QED BY <1>2, <3>2, <3>3, <3>4 DEF Accounted, n
  <2>3. CASE t.kind = "unknown"
    BY <1>2, <2>3 DEF Accounted, n
  <2>4. CASE ~(IsSecured(t) /\ Drop(t) # None) /\ t.kind # "unknown"
    <3>1. passed' = Append(passed, n)
      BY <2>1, <2>4 DEF Handle
    <3>2. passed'[Len(passed) + 1] = n /\ Len(passed) + 1 \in 1..Len(passed')
      BY <1>1, <3>1
    <3>3. InPassed(n)'
      BY <3>2 DEF InPassed
    <3>4. t.kind = "secured" => InPassed(n)'
      BY <3>3
    <3> QED BY <1>2, <3>3 DEF Accounted, n
  <2> QED BY <2>2, <2>3, <2>4
<1> QED BY <1>4, <1>5, <1>6 DEF n

LEMMA DeliverSwallow ==
  ASSUME IInv, SInv, NEW f \in air, NEW acked \in BOOLEAN, Deliver(f, acked)
  PROVE  SInv'
PROOF
<1> DEFINE n == f.id
           t == sent[n]
<1>1. /\ TypeOK /\ n \in 1..Len(sent) /\ Len(sent) \in Nat
      /\ t.kind \in Kind /\ t.src \in Sender /\ t.nr \in 0..MaxNr /\ passed \in Seq(Nat)
      /\ dsLast \in [Sender -> -1..MaxNr]
  BY SentType DEF IInv, TypeOK
<1>2. /\ UNCHANGED sent /\ delivered' = delivered \cup {n} /\ Indication(n)
      /\ ~late' => ~late
  BY InOrder DEF Deliver, IInv
<1>3. /\ passed' = passed \/ passed' = Append(passed, n)
      /\ dropped \subseteq dropped'
      /\ dsLast' = dsLast \/ (t.kind = "secured" /\ dsLast' = [dsLast EXCEPT ![t.src] = t.nr])
  BY <1>2 DEF Indication, Noted, Handle, SecuredDropped, shim
<1>4. \E b \in 1..Len(sent') + 1 : TunnelFrom(b)'
  BY <1>2, DeliverTunnel DEF SInv
<1> HIDE DEF n, t
<1>5. ASSUME NEW s \in Sender
      PROVE  KeptOf(s)'
  <2>1. CASE dsLast'[s] = dsLast[s]
    BY <1>2, <2>1 DEF SInv, KeptOf
  <2>2. CASE t.kind = "secured" /\ s = t.src /\ dsLast'[s] = t.nr
    BY <1>2, <2>2 DEF KeptOf, t
  <2> QED BY <1>1, <1>3, <2>1, <2>2
<1>6. ASSUME ~late', NEW m \in delivered'
      PROVE  (Accounted(m) \/ Shadowed(m))'
  <2>1. CASE m \in delivered
    <3>1. \A i \in 1..Len(passed) : \E j \in 1..Len(passed') : passed'[j] = passed[i]
      <4>1. CASE passed' = Append(passed, n)
        BY <1>1, <4>1
      <4> QED BY <1>3, <4>1
    <3>2. Accounted(m) \/ Shadowed(m)
      BY <1>2, <1>6, <2>1 DEF SInv, NothingSwallowed
    <3> QED BY <1>1, <1>2, <1>3, <2>1, <3>1, <3>2, AccountedOn
  <2>2. CASE m \notin delivered
    BY <1>2, <1>6, <2>2, IndicationRight DEF n
  <2> QED BY <2>1, <2>2
<1> QED BY <1>4, <1>5, <1>6 DEF SInv, NothingSwallowed

LEMMA Swallowing == IInv /\ SInv /\ [Next]_vars => SInv'
PROOF
<1> SUFFICES ASSUME IInv, SInv, [Next]_vars PROVE SInv'
  OBVIOUS
<1>1. CASE UNCHANGED vars
  <2>1. ASSUME NEW b, TunnelFrom(b) PROVE TunnelFrom(b)'
    BY <1>1, <2>1 DEF vars, gateway, shim, TunnelFrom, LastNoted
  <2>2. \E b \in 1..Len(sent') + 1 : TunnelFrom(b)'
    BY <1>1, <2>1 DEF SInv, vars, gateway
  <2> QED BY <1>1, <2>2 DEF vars, gateway, shim, SInv, KeptOf, NothingSwallowed, Accounted, InPassed,
                            Fresh, Shadowed
<1> QED BY <1>1, SendSwallow, RepeatSwallow, DeliverSwallow, TunnelSwallow DEF Next

-----------------------------------------------------------------------------
\* The shim's state keeps its shape, and the site is given nothing but group
\* values in clear or decrypted (indication()).
THEOREM TypeCorrect == Spec => []TypeOK
PROOF
<1>1. IInv => TypeOK
  BY DEF IInv
<1> QED BY <1>1, Invariant, PTL

\* No replay reaches the site while the worker runs, on any network, from any
\* number of senders and over any number of tunnels (DataSecure.open()).
THEOREM ReplaysNeverPass == Spec => []ReplaysBarred
PROOF
<1>1. IInv => ReplaysBarred
  BY DEF IInv
<1> QED BY <1>1, Invariant, PTL

\* Unless a frame overtakes another, the site is given each telegram at most once,
\* in order, for any number of sequence numbers (indication()).
THEOREM NeverPassedTwice == Spec => []PassedOnce
PROOF
<1>1. IInv => PassedOnce
  BY DEF IInv
<1> QED BY <1>1, Invariant, PTL

\* Unless a frame overtakes another, every telegram that was indicated is passed or
\* logged as dropped, and a fresh one passed, for any number of sequence numbers;
\* but for one behind SeqMod - 1 frames that indication() ignores.
THEOREM NoneSwallowed == Spec => []NothingSwallowed
PROOF
<1>1. Init => SInv
  <2> SUFFICES ASSUME Init PROVE SInv
    OBVIOUS
  <2>1. Len(sent) = 0
    BY DEF Init
  <2>2. TunnelFrom(1)
    BY <2>1 DEF Init, TunnelFrom
  <2> QED BY <2>1, <2>2 DEF Init, SInv, KeptOf, NoSenders, NothingSwallowed
<1>2. SInv => NothingSwallowed
  BY DEF SInv
<1> QED BY <1>1, <1>2, Invariant, Swallowing, PTL DEF Spec
=============================================================================
