--------------------------- MODULE MappingProofs ---------------------------
(***************************************************************************)
(* No save is lost, no site keeps an older export than the last reload     *)
(* saw, and a site that connected on lines the reload knew stores by the   *)
(* file as it is, for any files, exports and number of sites.              *)
(***************************************************************************)
EXTENDS Mapping, FiniteSetTheorems, WellFoundedInduction, TLAPS

\* the part of TypeOK that the proofs need
Shape ==
  /\ oneThread \in BOOLEAN
  /\ stamp \in [Site -> Nat]
  /\ noted \in [Site -> Nat]
  /\ readAt \in [Site -> Nat]
  /\ phase \in [Site -> Phase]
  /\ rules \in [Site -> File \cup {<<>>}]
  /\ built \in [Site -> File \cup {<<>>}]
  /\ early \in [Site -> BOOLEAN]
  /\ file \in File

\* a change that the last reload has not seen is still on its way
Seen ==
  \/ "dptmappings.txt" \in unseen
  \/ deferred # "none"
  \/ \A s \in Site : mapsig[s] = MappingSignature(file, s)

\* an export is read after its mtime was noted
Exports == \A s \in Site : /\ noted[s] <= stamp[s]
                           /\ phase[s] \in {"loaded", "running"} => noted[s] <= readAt[s]

\* a site that connected on the lines the reload knew has been restarted since,
\* or the reload still knows the same
Lines == \A s \in Site : phase[s] = "running" /\ ~early[s] => MappingSignature(built[s], s) = mapsig[s]

\* with a thread for each site, a site that goes on has read the whole file
Wholes == ~oneThread => \A s \in Site : /\ phase[s] = "loaded" => Whole(rules[s])
                                        /\ phase[s] = "running" => Whole(built[s])

\* With a thread for each site, no table comes from the part of a file before
\* an error.
WholeFileRead == \A s \in Site : ~oneThread /\ phase[s] = "running" => Whole(built[s])

IInv == Shape /\ Seen /\ Exports /\ Lines /\ Wholes

LEMMA InitInv == Init => IInv
<1> SUFFICES ASSUME Init PROVE IInv
  OBVIOUS
<1>1. Shape
  BY DEF Init, Shape, Phase, Running
<1>2. Seen /\ Exports /\ Lines /\ Wholes
  BY DEF Init, Seen, Exports, Lines, Wholes
<1> QED
  BY <1>1, <1>2 DEF IInv

LEMMA ReloadShape == ASSUME IInv, Reload PROVE Shape'
  BY DEF IInv, Shape, Reload, Phase, Running, disk

\* a reload sees the lines of every site as they are
LEMMA ReloadSeen == ASSUME Reload PROVE Seen'
  BY DEF Reload, Seen, disk

LEMMA ReloadExports == ASSUME IInv, Reload PROVE Exports'
<1> SUFFICES ASSUME NEW s \in Site
             PROVE  /\ noted'[s] <= stamp'[s]
                    /\ phase'[s] \in {"loaded", "running"} => noted'[s] <= readAt'[s]
  BY DEF Exports
<1>1. stamp[s] \in Nat /\ noted[s] \in Nat /\ readAt[s] \in Nat /\ stamp' = stamp /\ noted' = stamp /\ readAt' = readAt
  BY DEF IInv, Shape, Reload, disk
<1>2. noted'[s] <= stamp'[s]
  BY <1>1
<1>3. ASSUME phase'[s] \in {"loaded", "running"}
      PROVE  noted'[s] <= readAt'[s]
  <2>1. ~Restarted(s) /\ phase[s] = phase'[s]
    BY <1>3 DEF Reload
  <2>2. stamp[s] = noted[s]
    BY <2>1 DEF Restarted
  <2> QED
    BY <1>1, <1>3, <2>1, <2>2 DEF IInv, Exports
<1> QED
  BY <1>2, <1>3

LEMMA ReloadLines == ASSUME IInv, Reload PROVE Lines'
<1> SUFFICES ASSUME NEW s \in Site, phase'[s] = "running", ~early'[s]
             PROVE  MappingSignature(built'[s], s) = mapsig'[s]
  BY DEF Lines
<1>1. ~Restarted(s) /\ phase[s] = "running"
  BY DEF Reload
<1>2. mapsig[s] = MappingSignature(file, s)
  BY <1>1 DEF Restarted, Running
<1>3. MappingSignature(built[s], s) = mapsig[s]
  BY <1>1 DEF IInv, Lines, Reload
<1> QED
  BY <1>2, <1>3 DEF Reload

LEMMA ReloadWholes == ASSUME IInv, Reload PROVE Wholes'
  BY DEF IInv, Wholes, Reload, disk

LEMMA ReloadInv == ASSUME IInv, Reload PROVE IInv'
  BY ReloadShape, ReloadSeen, ReloadExports, ReloadLines, ReloadWholes DEF IInv

LEMMA SavesInv ==
  ASSUME IInv,
         \/ \E f \in File : SaveMappings(f)
         \/ SaveYml
         \/ \E s \in Site, e \in Export : SaveExport(s, e)
  PROVE  IInv'
<1>1. ASSUME NEW f \in File, SaveMappings(f)
      PROVE  IInv'
  BY <1>1 DEF IInv, Shape, Seen, Exports, Lines, Wholes, SaveMappings, sites
<1>2. CASE SaveYml
  BY <1>2 DEF IInv, Shape, Seen, Exports, Lines, Wholes, SaveYml, sites
<1>3. ASSUME NEW s \in Site, NEW e \in Export, SaveExport(s, e)
      PROVE  IInv'
  <2>1. Shape' /\ Seen' /\ Lines' /\ Wholes'
    BY <1>3 DEF IInv, Shape, Seen, Lines, Wholes, SaveExport, main, sites
  <2>2. Exports'
    BY <1>3 DEF IInv, Shape, Exports, SaveExport, main, sites
  <2> QED
    BY <2>1, <2>2 DEF IInv
<1> QED
  BY <1>1, <1>2, <1>3

LEMMA MainInv ==
  ASSUME IInv, (\E w \in Watched : Changed(w)) \/ GapEnds \/ DeferredFires
  PROVE  IInv'
<1>1. ASSUME NEW w \in Watched, Changed(w)
      PROVE  IInv'
  <2>1. CASE gap
    BY <1>1, <2>1 DEF IInv, Shape, Seen, Exports, Lines, Wholes, Changed, disk, sites
  <2>2. CASE ~gap
    BY <1>1, <2>2, ReloadInv DEF Changed
  <2> QED
    BY <2>1, <2>2
<1>2. CASE GapEnds
  BY <1>2 DEF IInv, Shape, Seen, Exports, Lines, Wholes, GapEnds, disk, sites
<1>3. CASE DeferredFires
  BY <1>3, ReloadInv DEF DeferredFires
<1> QED
  BY <1>1, <1>2, <1>3

LEMMA LoadsInv == ASSUME IInv, NEW s \in Site, Loads(s) PROVE IInv'
<1>1. Shape'
  <2>1. UNCHANGED <<disk, noted, built, early>>
    BY DEF Loads, main
  <2>2. Replaced(s) \in [Site -> File \cup {<<>>}]
    BY DEF IInv, Shape, Replaced
  <2>3. rules' \in [Site -> File \cup {<<>>}]
    BY <2>2 DEF IInv, Shape, Loads
  <2>4. readAt' \in [Site -> Nat]
    BY DEF IInv, Shape, Loads
  <2>5. phase' \in [Site -> Phase]
    <3>1. phase \in [Site -> Phase] /\ "held" \in Phase /\ "loaded" \in Phase
      BY DEF IInv, Shape, Phase, Running
    <3>2. phase' = [phase EXCEPT ![s] = "held"] \/ phase' = [phase EXCEPT ![s] = "loaded"]
      BY DEF Loads
    <3> QED
      BY <3>1, <3>2
  <2> QED
    BY <2>1, <2>3, <2>4, <2>5 DEF IInv, Shape, disk
<1>2. Seen'
  BY DEF IInv, Seen, Loads, disk, main
<1>3. Exports'
  BY DEF IInv, Shape, Exports, Loads, disk, main
<1>4. Lines'
  BY DEF IInv, Shape, Lines, Loads, disk, main
<1>5. Wholes'
  BY DEF IInv, Shape, Wholes, Loads, Replaced, disk, main
<1> QED
  BY <1>1, <1>2, <1>3, <1>4, <1>5 DEF IInv

LEMMA ConnectsInv == ASSUME IInv, NEW s \in Site, Connects(s) PROVE IInv'
<1>1. Shape'
  BY DEF IInv, Shape, Connects, Phase, Running, disk, main
<1>2. Seen'
  BY DEF IInv, Seen, Connects, disk, main
<1>3. Exports'
  BY DEF IInv, Shape, Exports, Connects, disk, main
<1>4. Lines'
  BY DEF IInv, Shape, Lines, Connects, disk, main
<1>5. Wholes'
  BY DEF IInv, Shape, Wholes, Connects, disk, main
<1> QED
  BY <1>1, <1>2, <1>3, <1>4, <1>5 DEF IInv

LEMMA StopsInv == ASSUME IInv, NEW s \in Site, GoesDown(s) \/ Restarts(s) PROVE IInv'
<1>1. Shape' /\ Seen'
  BY DEF IInv, Shape, Seen, GoesDown, Restarts, Phase, Running, disk, main
<1>2. Exports' /\ Lines' /\ Wholes'
  BY DEF IInv, Shape, Exports, Lines, Wholes, GoesDown, Restarts, disk, main
<1> QED
  BY <1>1, <1>2 DEF IInv

LEMMA NextInv == IInv /\ [Next]_vars => IInv'
<1> SUFFICES ASSUME IInv, [Next]_vars PROVE IInv'
  OBVIOUS
<1>1. CASE UNCHANGED vars
  BY <1>1 DEF IInv, Shape, Seen, Exports, Lines, Wholes, vars, disk, main, sites
<1>2. CASE Next
  BY <1>2, SavesInv, MainInv, LoadsInv, ConnectsInv, StopsInv DEF Next
<1> QED
  BY <1>1, <1>2

\* The inductive invariant: what a reload has not seen is on its way, exports
\* are read after their mtime is noted, and a connected site's lines are the ones
\* the reload compares with.
THEOREM Invariant == Spec => []IInv
  BY InitInv, NextInv, PTL DEF Spec

\* changed() and its deferred reload lose no save of dptmappings.txt, however
\* saves, reports, gaps and reloads fall (service.js:655-673).
THEOREM SavesKept == Spec => []NoSaveLost
<1>1. IInv => NoSaveLost
  BY DEF IInv, Seen, NoSaveLost, Settled
<1> QED
  BY <1>1, Invariant, PTL

\* A site never keeps an older export than the one the last reload compared
\* (service.js:458, 565), however exports are replaced while sites start.
THEOREM ExportsFresh == Spec => []ExportNotStale
<1>1. IInv => ExportNotStale
  <2> SUFFICES ASSUME IInv, NEW s \in Site, phase[s] \in {"loaded", "running"}
               PROVE  readAt[s] >= noted[s]
    BY DEF ExportNotStale
  <2>1. noted[s] \in Nat /\ readAt[s] \in Nat /\ noted[s] <= readAt[s]
    BY DEF IInv, Shape, Exports
  <2> QED
    BY <2>1
<1> QED
  BY <1>1, Invariant, PTL

\* A worker thread never builds its datapoints from part of a file: what
\* loadmapping() throws stops the site (site.js:411-413).
THEOREM FilesWhole == Spec => []WholeFileRead
<1>1. IInv => WholeFileRead
  BY DEF IInv, Wholes, WholeFileRead
<1> QED
  BY <1>1, Invariant, PTL

\* the lines a connected site was built from are those in the file, when nothing
\* is on its way
LinesInForce ==
  \A s \in Site : Settled /\ phase[s] = "running" /\ ~early[s]
                  => MappingSignature(built[s], s) = MappingSignature(file, s)

\* A reload restarts every running site whose lines have changed, those of one
\* that read a part of a file or an older export too (service.js:474-477); not one
\* that read lines the next reload did not see (early).
THEOREM LinesKept == Spec => []LinesInForce
<1>1. IInv => LinesInForce
  BY DEF IInv, Seen, Lines, LinesInForce, Settled
<1> QED
  BY <1>1, Invariant, PTL

-----------------------------------------------------------------------------
(***************************************************************************)
(* A table is a function of the lines that the signature has               *)
(***************************************************************************)
\* Every set of naturals has a least element: what the proofs by induction use.
LEMMA Least ==
  ASSUME NEW T \in SUBSET Nat, T # {}
  PROVE  \E x \in T : \A y \in T : x <= y
PROOF
<1> DEFINE R == OpToRel(<, Nat)
<1>1. IsWellFoundedOn(R, Nat)
  BY NatLessThanWellFounded
<1>2. \A x, y \in Nat : y < x => <<y, x>> \in R
  BY DEF OpToRel
<1> HIDE DEF R
<1>3. \E x \in T : \A y \in T : ~ (<<y, x>> \in R)
  BY <1>1, WFMin
<1>4. \A x, y \in T : ~ (<<y, x>> \in R) => x <= y
  <2> TAKE x, y \in T
  <2>1. x \in Nat /\ y \in Nat
    OBVIOUS
  <2> QED BY <1>2, <2>1
<1> QED BY <1>3, <1>4

IsAscending(q, K) ==
  /\ q \in [1..Cardinality(K) -> K]
  /\ \A i, j \in 1..Cardinality(K) : i < j => q[i] < q[j]

Enumerable(n) == \A K \in SUBSET (1..n) : \E q : IsAscending(q, K)

LEMMA FiniteBelow ==
  ASSUME NEW n \in Nat, NEW K \in SUBSET (1..n)
  PROVE  IsFiniteSet(K)
PROOF
<1>1. IsFiniteSet(1..n)
  BY FS_Interval
<1> QED BY <1>1, FS_Subset

LEMMA EnumerableNext ==
  ASSUME NEW n \in Nat, n # 0, Enumerable(n - 1)
  PROVE  Enumerable(n)
PROOF
<1> SUFFICES ASSUME NEW K \in SUBSET (1..n)
             PROVE  \E q : IsAscending(q, K)
  BY DEF Enumerable
<1>1. CASE n \notin K
  <2>1. K \in SUBSET (1..(n - 1))
    BY <1>1
  <2> QED BY <2>1 DEF Enumerable
<1>2. CASE n \in K
  <2> DEFINE J == K \ {n}
             c == Cardinality(J)
  <2>1. J \in SUBSET (1..(n - 1))
    OBVIOUS
  <2>2. PICK q : IsAscending(q, J)
    BY <2>1 DEF Enumerable
  <2>3. IsFiniteSet(K)
    BY FiniteBelow
  <2>4. IsFiniteSet(J) /\ c \in Nat
    BY <2>3, FS_RemoveElement, FS_CardinalityType
  <2>5. Cardinality(K) = c + 1
    <3>1. K = J \cup {n} /\ n \notin J
      BY <1>2
    <3> HIDE DEF J
    <3> QED BY <2>4, <3>1, FS_AddElement
  <2> DEFINE p == [i \in 1..(c + 1) |-> IF i = c + 1 THEN n ELSE q[i]]
  <2>6. \A i \in 1..c : q[i] \in J /\ q[i] \in K /\ q[i] < n /\ q[i] \in Nat
    <3>1. q \in [1..c -> J]
      BY <2>2 DEF IsAscending
    <3>2. \A x \in J : x \in K /\ x < n /\ x \in Nat
      BY <2>1
    <3> HIDE DEF J, c
    <3> QED BY <3>1, <3>2
  <2>7. \A i, j \in 1..c : i < j => q[i] < q[j]
    BY <2>2 DEF IsAscending
  <2> HIDE DEF J, c
  <2>8. p \in [1..(c + 1) -> K]
    BY <1>2, <2>4, <2>6
  <2>9. \A i, j \in 1..(c + 1) : i < j => p[i] < p[j]
    BY <2>4, <2>6, <2>7
  <2>10. IsAscending(p, K)
    BY <2>5, <2>8, <2>9 DEF IsAscending
  <2> QED BY <2>10
<1> QED BY <1>1, <1>2

LEMMA EnumerableZero == Enumerable(0)
PROOF
<1> SUFFICES ASSUME NEW K \in SUBSET (1..0)
             PROVE  \E q : IsAscending(q, K)
  BY DEF Enumerable
<1>1. K = {}
  OBVIOUS
<1>2. Cardinality(K) = 0
  BY <1>1, FS_EmptySet
<1>3. IsAscending([i \in 1..0 |-> 0], K)
  BY <1>1, <1>2 DEF IsAscending
<1> QED BY <1>3

LEMMA AllEnumerable == \A n \in Nat : Enumerable(n)
PROOF
<1> SUFFICES ASSUME {n \in Nat : ~Enumerable(n)} # {} PROVE FALSE
  OBVIOUS
<1> DEFINE T == {n \in Nat : ~Enumerable(n)}
<1>1. PICK n \in T : \A m \in T : n <= m
  <2> HIDE DEF T
  <2>1. T \in SUBSET Nat /\ T # {}
    BY DEF T
  <2> QED BY <2>1, Least
<1>2. n \in Nat /\ ~Enumerable(n) /\ n # 0
  BY EnumerableZero
<1>3. n - 1 \in Nat /\ ~(n <= n - 1)
  BY <1>2
<1>4. Enumerable(n - 1)
  BY <1>1, <1>3
<1> QED BY <1>2, <1>4, EnumerableNext

\* Ascending() lists the whole set.
LEMMA AscendingLists ==
  ASSUME NEW n \in Nat, NEW K \in SUBSET (1..n)
  PROVE  /\ Cardinality(K) \in Nat
         /\ IsAscending(Ascending(K), K)
         /\ \A i \in K : \E k \in 1..Cardinality(K) : Ascending(K)[k] = i
PROOF
<1> DEFINE c == Cardinality(K)
           q == Ascending(K)
<1>1. IsFiniteSet(K) /\ c \in Nat
  BY FiniteBelow, FS_CardinalityType
<1>2. IsAscending(q, K)
  <2>1. \E p : IsAscending(p, K)
    BY AllEnumerable DEF Enumerable
  <2>2. \E p \in [1..c -> K] : \A i, j \in 1..c : i < j => p[i] < p[j]
    BY <2>1 DEF IsAscending
  <2> QED BY <2>2 DEF Ascending, IsAscending
<1> HIDE DEF q
<1>3. q \in Injection(1..c, K)
  <2>1. \A i, j \in 1..c : q[i] = q[j] => i = j
    <3> SUFFICES ASSUME NEW i \in 1..c, NEW j \in 1..c, q[i] = q[j], i # j
                 PROVE  FALSE
      OBVIOUS
    <3>1. i < j \/ j < i
      BY <1>1
    <3>2. q[i] \in Nat /\ q[j] \in Nat
      <4>1. q[i] \in K /\ q[j] \in K
        BY <1>2 DEF IsAscending
      <4>2. \A x \in K : x \in Nat
        OBVIOUS
      <4> QED BY <4>1, <4>2
    <3> QED BY <1>2, <3>1, <3>2 DEF IsAscending
  <2> QED BY <1>2, <2>1 DEF IsAscending, Injection, IsInjective
<1>4. IsFiniteSet(1..c) /\ Cardinality(1..c) = c
  BY <1>1, FS_Interval
<1>5. q \in Surjection(1..c, K)
  BY <1>1, <1>3, <1>4, FS_Injection
<1>6. \A i \in K : \E k \in 1..c : q[k] = i
  BY <1>5 DEF Surjection
<1> QED BY <1>1, <1>2, <1>6 DEF q

Used(f, s) == {i \in 1..Len(f) : f[i].owner \in {s, Shared}}

\* x[i] is the first line of x that is in L
IsFirst(x, L, i) ==
  /\ i \in 1..Len(x)
  /\ x[i] \in L
  /\ \A j \in 1..Len(x) : j < i => x[j] \notin L

FirstIndex(x, L) == LET I == {i \in 1..Len(x) : x[i] \in L}
                    IN  IF I # {} THEN Min(I) ELSE 0

\* Files with the same lines for a site have the same first line of any kind.
LEMMA FirstCarried ==
  ASSUME NEW f \in Seq(Line), NEW h \in Seq(Line), NEW s,
         MappingSignature(f, s) = MappingSignature(h, s),
         NEW L, \A l \in L : l.owner \in {s, Shared},
         NEW i, IsFirst(f, L, i)
  PROVE  \E j : IsFirst(h, L, j) /\ h[j] = f[i]
PROOF
<1> DEFINE F == Used(f, s)
           H == Used(h, s)
           m == Cardinality(F)
           n == Cardinality(H)
           p == Ascending(F)
           q == Ascending(H)
<1>1. Len(f) \in Nat /\ Len(h) \in Nat /\ F \in SUBSET (1..Len(f)) /\ H \in SUBSET (1..Len(h))
  BY DEF Used
<1>2. /\ m \in Nat /\ IsAscending(p, F)
      /\ \A x \in F : \E k \in 1..m : p[k] = x
  <2> HIDE DEF F
  <2> QED BY <1>1, AscendingLists
<1>3. /\ n \in Nat /\ IsAscending(q, H)
      /\ \A x \in H : \E k \in 1..n : q[k] = x
  <2> HIDE DEF H
  <2> QED BY <1>1, AscendingLists
<1>4. [k \in 1..m |-> f[p[k]]] = [k \in 1..n |-> h[q[k]]]
  BY DEF MappingSignature, LinesAt, Used
<1>5. \A x \in 1..Len(f) : f[x] \in L => x \in F
  BY DEF Used
<1>6. \A x \in 1..Len(h) : h[x] \in L => x \in H
  BY DEF Used
<1> HIDE DEF F, H, m, n, p, q
<1>7. m = n
  <2>1. DOMAIN [k \in 1..m |-> f[p[k]]] = 1..m /\ DOMAIN [k \in 1..n |-> h[q[k]]] = 1..n
    OBVIOUS
  <2>2. 1..m = 1..n
    BY <1>4, <2>1
  <2> QED BY <1>2, <1>3, <2>2
<1>8. \A k \in 1..n : f[p[k]] = h[q[k]]
  <2> TAKE k \in 1..n
  <2>1. [x \in 1..m |-> f[p[x]]][k] = f[p[k]] /\ [x \in 1..n |-> h[q[x]]][k] = h[q[k]]
    BY <1>7
  <2> QED BY <1>4, <2>1
<1>9. /\ p \in [1..n -> F] /\ \A k, l \in 1..n : k < l => p[k] < p[l]
      /\ q \in [1..n -> H] /\ \A k, l \in 1..n : k < l => q[k] < q[l]
  BY <1>2, <1>3, <1>7 DEF IsAscending, m, n
<1>10. i \in 1..Len(f) /\ f[i] \in L /\ i \in F
  BY <1>5 DEF IsFirst
<1>11. PICK k \in 1..n : p[k] = i
  BY <1>2, <1>7, <1>10
<1>12. q[k] \in 1..Len(h) /\ h[q[k]] = f[i] /\ h[q[k]] \in L
  BY <1>1, <1>8, <1>9, <1>10, <1>11
<1>13. ASSUME NEW j \in 1..Len(h), j < q[k]
       PROVE  h[j] \notin L
  <2> SUFFICES ASSUME h[j] \in L PROVE FALSE
    OBVIOUS
  <2>1. PICK l \in 1..n : q[l] = j
    BY <1>3, <1>6
  <2>2. l < k
    <3>1. k < l => q[k] < q[l]
      BY <1>9
    <3>2. q[k] \in Nat /\ j \in Nat /\ l \in Nat /\ k \in Nat
      BY <1>1, <1>3, <1>12
    <3> QED BY <1>13, <2>1, <3>1, <3>2
  <2>3. p[l] < i
    BY <1>9, <1>11, <2>2
  <2>4. p[l] \in 1..Len(f) /\ f[p[l]] \in L
    BY <1>1, <1>8, <1>9, <2>1
  <2> QED BY <2>3, <2>4 DEF IsFirst
<1>14. IsFirst(h, L, q[k])
  BY <1>12, <1>13 DEF IsFirst
<1> QED BY <1>12, <1>14

LEMMA FirstFound ==
  ASSUME NEW x \in Seq(Line), NEW L
  PROVE  /\ FirstIndex(x, L) = 0 <=> \A i \in 1..Len(x) : x[i] \notin L
         /\ FirstIndex(x, L) # 0 => IsFirst(x, L, FirstIndex(x, L))
PROOF
<1> DEFINE I == {i \in 1..Len(x) : x[i] \in L}
<1>1. CASE I = {}
  BY <1>1 DEF FirstIndex
<1>2. CASE I # {}
  <2>1. I \in SUBSET Nat
    OBVIOUS
  <2>2. \E i \in I : \A j \in I : i <= j
    <3> HIDE DEF I
    <3> QED BY <1>2, <2>1, Least
  <2>3. Min(I) \in I /\ \A j \in I : Min(I) <= j
    BY <2>2 DEF Min
  <2>4. FirstIndex(x, L) = Min(I)
    BY <1>2 DEF FirstIndex
  <2>5. \A j \in 1..Len(x) : j < Min(I) => x[j] \notin L
    <3> SUFFICES ASSUME NEW j \in 1..Len(x), j < Min(I), x[j] \in L PROVE FALSE
      OBVIOUS
    <3>1. j \in I /\ j \in Nat /\ Min(I) \in Nat
      BY <2>3
    <3> QED BY <2>3, <3>1
  <2> QED BY <1>2, <2>3, <2>4, <2>5 DEF IsFirst
<1> QED BY <1>1, <1>2

LEMMA FirstUnique ==
  ASSUME NEW x, NEW L, Len(x) \in Nat, NEW i, NEW j, IsFirst(x, L, i), IsFirst(x, L, j)
  PROVE  i = j
PROOF
<1>1. i \in Nat /\ j \in Nat /\ ~(i < j) /\ ~(j < i)
  BY DEF IsFirst
<1> QED BY <1>1

LEMMA SameFirst ==
  ASSUME NEW f \in Seq(Line), NEW h \in Seq(Line), NEW s,
         MappingSignature(f, s) = MappingSignature(h, s),
         NEW L, \A l \in L : l.owner \in {s, Shared}
  PROVE  /\ FirstIndex(f, L) = 0 <=> FirstIndex(h, L) = 0
         /\ FirstIndex(f, L) # 0 => f[FirstIndex(f, L)] = h[FirstIndex(h, L)]
PROOF
<1>1. ASSUME FirstIndex(f, L) # 0
      PROVE  FirstIndex(h, L) # 0 /\ f[FirstIndex(f, L)] = h[FirstIndex(h, L)]
  <2>1. IsFirst(f, L, FirstIndex(f, L))
    BY <1>1, FirstFound
  <2>2. PICK j : IsFirst(h, L, j) /\ h[j] = f[FirstIndex(f, L)]
    BY <2>1, FirstCarried
  <2>3. FirstIndex(h, L) # 0
    BY <2>2, FirstFound DEF IsFirst
  <2>4. IsFirst(h, L, FirstIndex(h, L))
    BY <2>3, FirstFound
  <2>5. j = FirstIndex(h, L)
    <3>1. Len(h) \in Nat
      OBVIOUS
    <3> QED BY <2>2, <2>4, <3>1, FirstUnique
  <2> QED BY <2>2, <2>3, <2>5
<1>2. ASSUME FirstIndex(h, L) # 0
      PROVE  FirstIndex(f, L) # 0
  <2>1. IsFirst(h, L, FirstIndex(h, L))
    BY <1>2, FirstFound
  <2>2. PICK j : IsFirst(f, L, j) /\ f[j] = h[FirstIndex(h, L)]
    BY <2>1, FirstCarried
  <2> QED BY <2>2, FirstFound DEF IsFirst
<1> QED BY <1>1, <1>2

\* the lines that the look-ups of a site look for
AddressLines(s, g) == {l \in Line : l.owner = s /\ l.ga = g}
AddingLines(s, g)  == {l \in Line : l.owner = s /\ l.ga = g /\ l.dpt # None}
NameLines(s, n)    == {l \in Line : l.ga = None /\ l.owner \in {s, Shared} /\ n \in l.names}

LEMMA LookUps ==
  ASSUME NEW f \in Seq(Line), NEW s, NEW g
  PROVE  /\ MapAddress(f, s, g) = FirstIndex(f, AddressLines(s, g))
         /\ AddedBy(f, s, g) = FirstIndex(f, AddingLines(s, g))
         /\ MapString(f, s, g) = LET i == FirstIndex(f, NameLines(s, g))
                                 IN  IF i = 0 THEN None ELSE f[i].dpt
PROOF
<1>1. \A i \in 1..Len(f) : f[i] \in Line
  OBVIOUS
<1>2. MapAddress(f, s, g) = FirstIndex(f, AddressLines(s, g))
  <2>1. {i \in 1..Len(f) : f[i].owner = s /\ f[i].ga = g} = {i \in 1..Len(f) : f[i] \in AddressLines(s, g)}
    BY <1>1 DEF AddressLines
  <2> QED BY <2>1 DEF MapAddress, SelectInSeq, FirstIndex
<1>3. AddedBy(f, s, g) = FirstIndex(f, AddingLines(s, g))
  <2>1. {i \in 1..Len(f) : f[i].owner = s /\ f[i].ga = g /\ f[i].dpt # None}
        = {i \in 1..Len(f) : f[i] \in AddingLines(s, g)}
    BY <1>1 DEF AddingLines
  <2> QED BY <2>1 DEF AddedBy, SelectInSeq, FirstIndex
<1>4. MapString(f, s, g) = LET i == FirstIndex(f, NameLines(s, g))
                           IN  IF i = 0 THEN None ELSE f[i].dpt
  <2>1. {i \in 1..Len(f) : f[i].ga = None /\ f[i].owner \in {s, Shared} /\ g \in f[i].names}
        = {i \in 1..Len(f) : f[i] \in NameLines(s, g)}
    BY <1>1 DEF NameLines
  <2> QED BY <2>1 DEF MapString, SelectInSeq, FirstIndex
<1> QED BY <1>2, <1>3, <1>4

\* Files with the same lines for a site give it the same table.
LEMMA SameTable ==
  ASSUME NEW f \in Seq(Line), NEW h \in Seq(Line), NEW s,
         MappingSignature(f, s) = MappingSignature(h, s), NEW e
  PROVE  Datapoints(f, e, s) = Datapoints(h, e, s)
PROOF
<1>1. ASSUME NEW g
      PROVE  /\ MapAddress(f, s, g) = 0 <=> MapAddress(h, s, g) = 0
             /\ MapAddress(f, s, g) # 0 => f[MapAddress(f, s, g)] = h[MapAddress(h, s, g)]
  <2>1. \A l \in AddressLines(s, g) : l.owner \in {s, Shared}
    BY DEF AddressLines
  <2> QED BY <2>1, LookUps, SameFirst
<1>2. ASSUME NEW g
      PROVE  /\ AddedBy(f, s, g) = 0 <=> AddedBy(h, s, g) = 0
             /\ AddedBy(f, s, g) # 0 => f[AddedBy(f, s, g)] = h[AddedBy(h, s, g)]
  <2>1. \A l \in AddingLines(s, g) : l.owner \in {s, Shared}
    BY DEF AddingLines
  <2> QED BY <2>1, LookUps, SameFirst
<1>3. ASSUME NEW n
      PROVE  MapString(f, s, n) = MapString(h, s, n)
  <2>1. \A l \in NameLines(s, n) : l.owner \in {s, Shared}
    BY DEF NameLines
  <2> DEFINE i == FirstIndex(f, NameLines(s, n))
             j == FirstIndex(h, NameLines(s, n))
  <2>2. (i = 0 <=> j = 0) /\ (i # 0 => f[i] = h[j])
    BY <2>1, SameFirst
  <2>3. MapString(f, s, n) = IF i = 0 THEN None ELSE f[i].dpt
    BY LookUps
  <2>4. MapString(h, s, n) = IF j = 0 THEN None ELSE h[j].dpt
    BY LookUps
  <2> HIDE DEF i, j
  <2> QED BY <2>2, <2>3, <2>4
<1>4. Extended(f, e, s) = Extended(h, e, s)
  <2> DEFINE G == DOMAIN e \cup {g \in Ga : AddedBy(f, s, g) # 0}
             new(x, g) == IF g \in DOMAIN e THEN e[g]
                          ELSE LET l == x[AddedBy(x, s, g)]
                               IN  [name |-> IF l.name = None THEN g ELSE l.name,
                                    dpt |-> None, stored |-> FALSE]
  <2>1. G = DOMAIN e \cup {g \in Ga : AddedBy(h, s, g) # 0}
    BY <1>2
  <2>2. ASSUME NEW g \in G PROVE new(f, g) = new(h, g)
    BY <1>2
  <2>3. Extended(f, e, s) = [g \in G |-> new(f, g)] /\ Extended(h, e, s) = [g \in G |-> new(h, g)]
    BY <2>1 DEF Extended
  <2> HIDE DEF G, new
  <2> QED BY <2>2, <2>3
<1>5. ASSUME NEW g, NEW x PROVE Ruled(f, s, g, x) = Ruled(h, s, g, x)
  BY <1>1 DEF Ruled
<1>6. ASSUME NEW x PROVE Typed(f, s, x) = Typed(h, s, x)
  <2>1. MapString(f, s, x.name) = MapString(h, s, x.name)
    BY <1>3
  <2> QED BY <2>1 DEF Typed
<1> QED BY <1>4, <1>5, <1>6 DEF Datapoints

-----------------------------------------------------------------------------
(***************************************************************************)
(* Types                                                                   *)
(***************************************************************************)
LEMMA LineParts ==
  ASSUME NEW l \in Line
  PROVE  /\ l.name \in Name \cup {None}
         /\ l.dpt \in Dpt \cup {None}
PROOF BY DEF Line

\* A look-up that finds a line finds one of the file's.
LEMMA FoundLine ==
  ASSUME NEW r \in Seq(Line), NEW L, FirstIndex(r, L) # 0
  PROVE  r[FirstIndex(r, L)] \in Line
PROOF
<1>1. FirstIndex(r, L) \in 1..Len(r)
  BY FirstFound DEF IsFirst
<1> QED BY <1>1

LEMMA ExtendedType ==
  ASSUME NEW r \in Seq(Line), NEW e \in Table, NEW s
  PROVE  Extended(r, e, s) \in Table
PROOF
<1>1. PICK G \in SUBSET Ga : e \in [G -> Entry]
  BY DEF Table
<1> DEFINE D == DOMAIN e \cup {h \in Ga : AddedBy(r, s, h) # 0}
<1>2. D \in SUBSET Ga
  BY <1>1
<1>3. ASSUME NEW g \in D, g \notin DOMAIN e
      PROVE  LET l == r[AddedBy(r, s, g)]
             IN  [name |-> IF l.name = None THEN g ELSE l.name, dpt |-> None, stored |-> FALSE] \in Entry
  <2> DEFINE l == r[AddedBy(r, s, g)]
  <2>1. AddedBy(r, s, g) # 0
    BY <1>3
  <2>2. l \in Line
    BY <2>1, LookUps, FoundLine
  <2>3. g \in Name
    BY <1>2, GaAssumption
  <2> HIDE DEF l
  <2>4. (IF l.name = None THEN g ELSE l.name) \in Name
    BY <2>2, <2>3, LineParts
  <2>5. [name |-> IF l.name = None THEN g ELSE l.name, dpt |-> None, stored |-> FALSE] \in Entry
    BY <2>4 DEF Entry
  <2> QED BY <2>5 DEF l
<1>4. ASSUME NEW g \in D, g \in DOMAIN e
      PROVE  e[g] \in Entry
  BY <1>1, <1>4
<1>5. Extended(r, e, s) \in [D -> Entry]
  BY <1>3, <1>4 DEF Extended
<1> QED BY <1>2, <1>5 DEF Table

LEMMA RuledType ==
  ASSUME NEW r \in Seq(Line), NEW s, NEW g, NEW x \in Entry
  PROVE  Ruled(r, s, g, x) \in Entry
PROOF
<1> DEFINE i == MapAddress(r, s, g)
<1>1. CASE i = 0
  BY <1>1 DEF Ruled
<1>2. CASE i # 0
  <2>1. r[i] \in Line
    BY <1>2, LookUps, FoundLine
  <2> DEFINE l == r[i]
             n == IF l.name = None THEN x.name ELSE l.name
             d == IF l.dpt # None /\ (l.override \/ x.dpt = None) THEN l.dpt ELSE x.dpt
  <2>2. Ruled(r, s, g, x) = [x EXCEPT !.name = n, !.dpt = d]
    BY <1>2 DEF Ruled
  <2>3. l.name \in Name \cup {None} /\ l.dpt \in Dpt \cup {None}
    BY <2>1, LineParts
  <2>4. x.name \in Name /\ x.dpt \in Dpt \cup {None}
    BY DEF Entry
  <2> HIDE DEF l
  <2>5. n \in Name /\ d \in Dpt \cup {None}
    BY <2>3, <2>4
  <2> HIDE DEF n, d
  <2> QED BY <2>2, <2>5 DEF Entry
<1> QED BY <1>1, <1>2

LEMMA TypedType ==
  ASSUME NEW r \in Seq(Line), NEW s, NEW x \in Entry
  PROVE  Typed(r, s, x) \in Entry
PROOF
<1> DEFINE asked == IF x.dpt = None THEN MapString(r, s, x.name) ELSE x.dpt
           full  == IF asked = None THEN None ELSE Subtyped[asked]
           dpt   == IF full \in Accepted THEN full ELSE None
<1>1. MapString(r, s, x.name) \in Dpt \cup {None}
  <2> DEFINE i == FirstIndex(r, NameLines(s, x.name))
  <2>1. MapString(r, s, x.name) = IF i = 0 THEN None ELSE r[i].dpt
    BY LookUps
  <2>2. i # 0 => r[i].dpt \in Dpt \cup {None}
    BY FoundLine, LineParts
  <2> HIDE DEF i
  <2> QED BY <2>1, <2>2
<1>2. asked \in Dpt \cup {None}
  BY <1>1 DEF Entry
<1> HIDE DEF asked
<1>3. full \in Dpt \cup {None}
  BY <1>2, DptAssumption
<1> HIDE DEF full
<1>4. dpt \in Dpt \cup {None}
  BY <1>3
<1> DEFINE kept == dpt \in Titled
<1>5. Typed(r, s, x) = [x EXCEPT !.dpt = dpt, !.stored = kept]
  BY DEF Typed, dpt, full, asked
<1>6. kept \in BOOLEAN
  OBVIOUS
<1> HIDE DEF dpt, kept
<1> QED BY <1>4, <1>5, <1>6 DEF Entry

LEMMA DatapointsType ==
  ASSUME NEW r \in Seq(Line), NEW e \in Table, NEW s
  PROVE  Datapoints(r, e, s) \in Table
PROOF
<1> DEFINE all == Extended(r, e, s)
<1>1. all \in Table
  BY ExtendedType
<1> HIDE DEF all
<1>2. PICK G \in SUBSET Ga : all \in [G -> Entry]
  BY <1>1 DEF Table
<1>3. ASSUME NEW g \in G
      PROVE  Typed(r, s, Ruled(r, s, g, all[g])) \in Entry
  <2>1. all[g] \in Entry
    BY <1>2
  <2> QED BY <2>1, RuledType, TypedType
<1>4. Datapoints(r, e, s) = [g \in G |-> Typed(r, s, Ruled(r, s, g, all[g]))]
  BY <1>2 DEF Datapoints, all
<1>5. Datapoints(r, e, s) \in [G -> Entry]
  BY <1>3, <1>4
<1> QED BY <1>5 DEF Table

LEMMA SignatureType ==
  ASSUME NEW f \in Seq(Line), NEW s
  PROVE  MappingSignature(f, s) \in Seq(Line)
PROOF
<1> DEFINE K == Used(f, s)
           c == Cardinality(K)
           q == Ascending(K)
<1>1. Len(f) \in Nat /\ K \in SUBSET (1..Len(f)) /\ \A i \in 1..Len(f) : f[i] \in Line
  BY DEF Used
<1>2. c \in Nat /\ IsAscending(q, K)
  <2> HIDE DEF K
  <2> QED BY <1>1, AscendingLists
<1>3. MappingSignature(f, s) = [i \in 1..c |-> f[q[i]]]
  BY DEF MappingSignature, LinesAt, Used
<1>4. q \in [1..c -> K]
  BY <1>2 DEF IsAscending
<1> HIDE DEF K, c, q
<1>5. \A i \in 1..c : f[q[i]] \in Line
  BY <1>1, <1>4
<1> QED BY <1>2, <1>3, <1>5

BadLines == {l \in Line : ~l.ok}

LEMMA LoadedType ==
  ASSUME NEW f \in Seq(Line)
  PROVE  /\ Loaded(f) \in Seq(Line)
         /\ Whole(f) => Loaded(f) = f
PROOF
<1> DEFINE bad == FirstIndex(f, BadLines)
<1>1. \A i \in 1..Len(f) : f[i] \in Line
  OBVIOUS
<1>2. SelectInSeq(f, LAMBDA l : ~l.ok) = bad
  <2>1. {i \in 1..Len(f) : ~f[i].ok} = {i \in 1..Len(f) : f[i] \in BadLines}
    BY <1>1 DEF BadLines
  <2> QED BY <2>1 DEF SelectInSeq, FirstIndex
<1>3. Loaded(f) = IF bad = 0 THEN f ELSE SubSeq(f, 1, bad - 1)
  BY <1>2 DEF Loaded
<1>4. bad # 0 => bad \in 1..Len(f) /\ ~f[bad].ok
  BY FirstFound DEF IsFirst, BadLines
<1> HIDE DEF bad
<1>5. Loaded(f) \in Seq(Line)
  <2>1. CASE bad = 0
    BY <1>3, <2>1
  <2>2. CASE bad # 0
    BY <1>3, <1>4, <2>2
  <2> QED BY <2>1, <2>2
<1> QED BY <1>3, <1>4, <1>5 DEF Whole

\* An export replaced while a site holds the one before has another mtime.
Tables ==
  \A s \in Site :
    /\ readAt[s] <= stamp[s]
    /\ phase[s] = "loaded" /\ readAt[s] = stamp[s] => groups[s] = export[s]
    /\ phase[s] = "running" /\ readAt[s] = stamp[s]
       => groups[s] = Datapoints(Loaded(built[s]), export[s], s)

LEMMA FileLines == ASSUME NEW f \in File \cup {<<>>} PROVE f \in Seq(Line)
PROOF
<1>1. <<>> \in Seq(Line)
  OBVIOUS
<1> QED BY <1>1, FileAssumption

LEMMA ReloadType ==
  ASSUME TypeOK, Reload, unseen' \subseteq Watched, deferred' \in {"none", "waiting", "due"}
  PROVE  TypeOK'
PROOF
<1>1. \A s \in Site : MappingSignature(file, s) \in Seq(Line)
  BY FileLines, SignatureType DEF TypeOK
<1>2. mapsig' \in [Site -> Seq(Line)]
  BY <1>1 DEF Reload
<1>3. phase' \in [Site -> Phase]
  BY DEF TypeOK, Reload, Phase, Running
<1> QED BY <1>2, <1>3 DEF TypeOK, Reload, disk

LEMMA InitType == Init => TypeOK
PROOF
<1> SUFFICES ASSUME Init PROVE TypeOK
  OBVIOUS
<1>1. \A s \in Site : MappingSignature(file, s) \in Seq(Line)
  BY FileLines, SignatureType DEF Init
<1>2. mapsig \in [Site -> Seq(Line)]
  BY <1>1 DEF Init
<1>3. groups \in [Site -> Table]
  <2>1. <<>> \in [{} -> Entry]
    OBVIOUS
  <2>2. <<>> \in Table
    BY <2>1 DEF Table
  <2> QED BY <2>2 DEF Init
<1>4. /\ rules \in [Site -> File \cup {<<>>}] /\ built \in [Site -> File \cup {<<>>}]
      /\ stamp \in [Site -> Nat] /\ noted \in [Site -> Nat] /\ readAt \in [Site -> Nat]
  BY DEF Init
<1>5. phase \in [Site -> Phase] /\ early \in [Site -> BOOLEAN]
  BY DEF Init, Phase, Running
<1> QED BY <1>2, <1>3, <1>4, <1>5 DEF Init, TypeOK, Watched

LEMMA SavesType ==
  ASSUME TypeOK,
         \/ \E f \in File : SaveMappings(f)
         \/ SaveYml
         \/ \E s \in Site, e \in Export : SaveExport(s, e)
  PROVE  TypeOK'
PROOF
<1>1. ASSUME NEW f \in File, SaveMappings(f) PROVE TypeOK'
  BY <1>1 DEF TypeOK, SaveMappings, sites, Watched
<1>2. CASE SaveYml
  BY <1>2 DEF TypeOK, SaveYml, sites, Watched
<1>3. ASSUME NEW s \in Site, NEW e \in Export, SaveExport(s, e) PROVE TypeOK'
  BY <1>3 DEF TypeOK, SaveExport, main, sites
<1> QED BY <1>1, <1>2, <1>3

LEMMA MainType ==
  ASSUME TypeOK, (\E w \in Watched : Changed(w)) \/ GapEnds \/ DeferredFires
  PROVE  TypeOK'
PROOF
<1>1. ASSUME NEW w \in Watched, Changed(w) PROVE TypeOK'
  <2>1. CASE gap
    BY <1>1, <2>1 DEF TypeOK, Changed, disk, sites
  <2>2. CASE ~gap
    BY <1>1, <2>2, ReloadType DEF Changed, TypeOK
  <2> QED BY <2>1, <2>2
<1>2. CASE GapEnds
  BY <1>2 DEF TypeOK, GapEnds, disk, sites
<1>3. CASE DeferredFires
  BY <1>3, ReloadType DEF DeferredFires, TypeOK
<1> QED BY <1>1, <1>2, <1>3

LEMMA LoadsType == ASSUME TypeOK, NEW s \in Site, Loads(s) PROVE TypeOK'
PROOF
<1>1. phase' \in [Site -> Phase]
  <2>1. phase' = [phase EXCEPT ![s] = "held"] \/ phase' = [phase EXCEPT ![s] = "loaded"]
    BY DEF Loads
  <2> QED BY <2>1 DEF TypeOK, Phase, Running
<1>2. /\ rules' \in [Site -> File \cup {<<>>}]
      /\ groups' \in [Site -> Table]
      /\ readAt' \in [Site -> Nat]
  <2>1. CASE DOMAIN export[s] = {}
    BY <2>1 DEF Loads, TypeOK
  <2>2. CASE DOMAIN export[s] # {}
    <3>1. Replaced(s) \in [Site -> File \cup {<<>>}]
      BY DEF TypeOK, Replaced
    <3>2. export[s] \in Table
      BY ExportAssumption DEF TypeOK
    <3> QED BY <2>2, <3>1, <3>2 DEF Loads, TypeOK
  <2> QED BY <2>1, <2>2
<1>3. UNCHANGED <<disk, main, built, early>>
  BY DEF Loads
<1> QED BY <1>1, <1>2, <1>3 DEF TypeOK, disk, main

LEMMA ConnectsType == ASSUME TypeOK, NEW s \in Site, Connects(s) PROVE TypeOK'
PROOF
<1>1. Loaded(rules[s]) \in Seq(Line) /\ groups[s] \in Table /\ rules[s] \in File \cup {<<>>}
  BY FileLines, LoadedType DEF TypeOK
<1>2. Datapoints(Loaded(rules[s]), groups[s], s) \in Table
  BY <1>1, DatapointsType
<1>3. groups' \in [Site -> Table]
  BY <1>2 DEF Connects, TypeOK
<1>4. phase' \in [Site -> Phase] /\ built' \in [Site -> File \cup {<<>>}] /\ early' \in [Site -> BOOLEAN]
  BY <1>1 DEF Connects, TypeOK, Phase, Running
<1> QED BY <1>3, <1>4 DEF TypeOK, Connects, disk, main

LEMMA StopsType == ASSUME TypeOK, NEW s \in Site, GoesDown(s) \/ Restarts(s) PROVE TypeOK'
PROOF
<1>1. phase' \in [Site -> Phase]
  BY DEF TypeOK, GoesDown, Restarts, Phase, Running
<1> QED BY <1>1 DEF TypeOK, GoesDown, Restarts, disk, main

LEMMA NextType == TypeOK /\ [Next]_vars => TypeOK'
PROOF
<1> SUFFICES ASSUME TypeOK, [Next]_vars PROVE TypeOK'
  OBVIOUS
<1>1. CASE UNCHANGED vars
  BY <1>1 DEF TypeOK, vars, disk, main, sites
<1>2. CASE Next
  BY <1>2, SavesType, MainType, LoadsType, ConnectsType, StopsType DEF Next
<1> QED BY <1>1, <1>2

\* TypeOK holds for any files, exports, sites and number of saves: a table that
\* the rules and the exports make (initDatapoints) is one of known addresses,
\* each with a name.
THEOREM TypeCorrect == Spec => []TypeOK
PROOF BY InitType, NextType, PTL DEF Spec

-----------------------------------------------------------------------------
\* Saves, reports and reloads change no table.
LEMMA KeptTables ==
  ASSUME TypeOK, Tables, UNCHANGED <<export, stamp, readAt, groups, built>>,
         \A s \in Site : phase'[s] = phase[s] \/ phase'[s] \notin {"loaded", "running"}
  PROVE  Tables'
PROOF BY DEF Tables

LEMMA ReloadPhase ==
  ASSUME TypeOK, Reload
  PROVE  \A s \in Site : phase'[s] = phase[s] \/ phase'[s] \notin {"loaded", "running"}
PROOF BY DEF Reload

LEMMA NextTables == TypeOK /\ Tables /\ [Next]_vars => Tables'
PROOF
<1> SUFFICES ASSUME TypeOK, Tables, [Next]_vars PROVE Tables'
  OBVIOUS
<1> USE DEF disk, main, sites
<1>1. ASSUME NEW f \in File, SaveMappings(f) PROVE Tables'
  BY <1>1, KeptTables DEF SaveMappings
<1>2. CASE SaveYml
  BY <1>2, KeptTables DEF SaveYml
<1>3. ASSUME NEW s \in Site, NEW e \in Export, SaveExport(s, e) PROVE Tables'
  <2> SUFFICES ASSUME NEW t \in Site
               PROVE  /\ readAt[t] <= stamp'[t]
                      /\ readAt[t] = stamp'[t] => stamp'[t] = stamp[t] /\ export'[t] = export[t]
    BY <1>3 DEF Tables, SaveExport
  <2>1. stamp \in [Site -> Nat] /\ readAt[t] \in Nat /\ readAt[t] <= stamp[t] /\ export \in [Site -> Export]
    BY DEF TypeOK, Tables
  <2>2. CASE t = s
    BY <1>3, <2>1, <2>2 DEF SaveExport
  <2>3. CASE t # s
    BY <1>3, <2>1, <2>3 DEF SaveExport
  <2> QED BY <2>2, <2>3
<1>4. ASSUME NEW w \in Watched, Changed(w) PROVE Tables'
  <2>1. CASE gap
    BY <1>4, <2>1, KeptTables DEF Changed
  <2>2. CASE ~gap
    BY <1>4, <2>2, ReloadPhase, KeptTables DEF Changed, Reload
  <2> QED BY <2>1, <2>2
<1>5. CASE GapEnds
  BY <1>5, KeptTables DEF GapEnds
<1>6. CASE DeferredFires
  BY <1>6, ReloadPhase, KeptTables DEF DeferredFires, Reload
<1>7. ASSUME NEW s \in Site, Loads(s) PROVE Tables'
  <2> SUFFICES ASSUME NEW t \in Site
               PROVE  /\ readAt'[t] <= stamp[t]
                      /\ phase'[t] = "loaded" /\ readAt'[t] = stamp[t] => groups'[t] = export[t]
                      /\ phase'[t] = "running" /\ readAt'[t] = stamp[t]
                         => groups'[t] = Datapoints(Loaded(built[t]), export[t], t)
    BY <1>7 DEF Tables, Loads
  <2>1. stamp[t] \in Nat /\ readAt[t] <= stamp[t]
    BY DEF TypeOK, Tables
  <2>2. CASE t # s
    <3>1. phase'[t] = phase[t] /\ readAt'[t] = readAt[t] /\ groups'[t] = groups[t]
      BY <1>7, <2>2 DEF Loads, TypeOK
    <3> QED BY <3>1 DEF Tables
  <2>3. CASE t = s /\ DOMAIN export[s] = {}
    <3>1. phase'[t] = "held" /\ readAt'[t] = readAt[t]
      BY <1>7, <2>3 DEF Loads, TypeOK
    <3> QED BY <2>1, <3>1
  <2>4. CASE t = s /\ DOMAIN export[s] # {}
    <3>1. phase'[t] \in {"loaded", "held"} /\ readAt'[t] = stamp[t] /\ groups'[t] = export[t]
      BY <1>7, <2>4 DEF Loads, TypeOK
    <3> QED BY <2>1, <3>1
  <2> QED BY <2>2, <2>3, <2>4
<1>8. ASSUME NEW s \in Site, Connects(s) PROVE Tables'
  <2> SUFFICES ASSUME NEW t \in Site
               PROVE  /\ phase'[t] = "loaded" /\ readAt[t] = stamp[t] => groups'[t] = export[t]
                      /\ phase'[t] = "running" /\ readAt[t] = stamp[t]
                         => groups'[t] = Datapoints(Loaded(built'[t]), export[t], t)
    BY <1>8 DEF Tables, Connects
  <2>1. CASE t # s
    <3>1. phase'[t] = phase[t] /\ groups'[t] = groups[t] /\ built'[t] = built[t]
      BY <1>8, <2>1 DEF Connects, TypeOK
    <3> QED BY <3>1 DEF Tables
  <2>2. CASE t = s
    <3>1. /\ phase[t] = "loaded" /\ phase'[t] = "running" /\ built'[t] = rules[t]
          /\ groups'[t] = Datapoints(Loaded(rules[t]), groups[t], t)
      BY <1>8, <2>2 DEF Connects, TypeOK
    <3> QED BY <3>1 DEF Tables
  <2> QED BY <2>1, <2>2
<1>9. ASSUME NEW s \in Site, GoesDown(s) \/ Restarts(s) PROVE Tables'
  <2>1. \A t \in Site : phase'[t] = phase[t] \/ phase'[t] \notin {"loaded", "running"}
    BY <1>9 DEF GoesDown, Restarts, TypeOK
  <2> QED BY <1>9, <2>1, KeptTables DEF GoesDown, Restarts
<1>10. CASE UNCHANGED vars
  BY <1>10, KeptTables DEF vars
<1> QED BY <1>1, <1>2, <1>3, <1>4, <1>5, <1>6, <1>7, <1>8, <1>9, <1>10 DEF Next

LEMMA InitTables == Init => Tables
PROOF BY DEF Init, Tables

\* A connected site stores its addresses by the rules now in the file when
\* nothing is on its way (service.js:474-477): the lines that the signature
\* compares are all that the table depends on (initDatapoints), and a site whose
\* lines have changed has been restarted.
THEOREM RulesRight == Spec => []RulesInForce
PROOF
<1>1. IInv /\ TypeOK /\ Tables => RulesInForce
  <2> SUFFICES ASSUME IInv, TypeOK, Tables, NEW s \in Site,
                      Settled, phase[s] = "running", ~early[s], Whole(built[s]),
                      readAt[s] = stamp[s], Whole(file)
               PROVE  groups[s] = Datapoints(file, export[s], s)
    BY DEF RulesInForce
  <2>1. built[s] \in Seq(Line) /\ file \in Seq(Line)
    BY FileLines DEF TypeOK
  <2>2. Loaded(built[s]) = built[s]
    BY <2>1, LoadedType
  <2>3. MappingSignature(built[s], s) = MappingSignature(file, s)
    BY DEF IInv, Seen, Lines, Settled
  <2>4. groups[s] = Datapoints(built[s], export[s], s)
    BY <2>2 DEF Tables
  <2> QED BY <2>1, <2>3, <2>4, SameTable
<1> QED BY <1>1, InitInv, NextInv, InitType, NextType, InitTables, NextTables, PTL DEF Spec

=============================================================================
