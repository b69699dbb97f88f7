------------------------------ MODULE Mapping ------------------------------
(***************************************************************************)
(* Which group addresses a site stores, and as what: its ETS export and    *)
(* dptmappings.txt, read when the site starts (strtodpt.js, site.js) and   *)
(* put together when its tunnel first comes up, and how the main thread    *)
(* finds the sites that an edit of either file concerns (service.js).      *)
(* Each worker thread has its own copy of the rules; with every site in    *)
(* one thread they all have the one read last.  A text is what it matches: *)
(* a name rule is the set of names it fits.                                *)
(***************************************************************************)
EXTENDS Integers, Sequences, FiniteSets, SequencesExt

CONSTANTS
  Site, Ga, Dpt,
  Name,       \* names of group addresses, an address's own text among them
  None,       \* no name, no DPT; and the address of a rule on names
  Shared,     \* the owner of a rule without a location, ""
  Nobody,     \* the owner of a line that starts like no site's
  File,       \* the contents dptmappings.txt may have: sequences of lines
  Export,     \* the contents of ETS exports
  Subtyped,   \* a DPT with the default subtype, if ETS gave only the main type
  Accepted,   \* the DPTs the decoder's Datapoint can be built with
  Titled,     \* the DPTs with a type name in dptnames.json
  MaxSaves    \* bound: saves of any file

ASSUME GaAssumption == Ga \subseteq Name
ASSUME NoneAssumption == None \notin Name \cup Dpt
ASSUME OwnerAssumption == Shared # Nobody /\ {Shared, Nobody} \cap Site = {}
ASSUME DptAssumption == Subtyped \in [Dpt -> Dpt]
ASSUME SavesAssumption == MaxSaves \in Nat

Watched == {"hamon.yml", "dptmappings.txt"}
Running == {"starting", "loaded", "running"}
Phase   == Running \cup {"held", "down"}

\* `ok` is FALSE for a line that has no comma, or only a carriage return
Line  == [owner : Site \cup {Shared, Nobody}, ga : Ga \cup {None}, names : SUBSET Name,
          dpt : Dpt \cup {None}, override : BOOLEAN, name : Name \cup {None}, ok : BOOLEAN]
Entry == [name : Name, dpt : Dpt \cup {None}, stored : BOOLEAN]
Table == UNION {[G -> Entry] : G \in SUBSET Ga}

ASSUME FileAssumption == File \subseteq Seq(Line) /\ File # {}
ASSUME ExportAssumption == Export \subseteq Table /\ Export # {}

VARIABLES
  oneThread,   \* `threads: false`
  file,        \* dptmappings.txt
  export,      \* the ETS export of each site
  stamp,       \* and its mtime
  saves,       \* saves so far
  unseen,      \* watched files whose last save fs.watchFile has not reported
  gap,         \* a reload was less than RELOAD_GAP ago
  deferred,    \* the reload put off to the end of the gap: "none", "waiting" or "due"
  mapsig,      \* the mapping lines of each site as the last reload saw them
  noted,       \* the mtimes as the last reload saw them
  phase,       \* what each site's worker is at
  rules,       \* the contents each worker's strtodpt.js loaded last
  groups,      \* groupAddresses of each site
  readAt,      \* history: the mtime of the export that was read
  built,       \* history: the mapping file the datapoints were built with
  early        \* history: the last reload had not seen those lines yet

disk  == <<oneThread, file, export, stamp, saves>>
main  == <<unseen, gap, deferred, mapsig, noted>>
sites == <<phase, rules, groups, readAt, built, early>>
vars  == <<disk, main, sites>>

-----------------------------------------------------------------------------
\* loadmapping() throws at the first malformed line and keeps the rules before it
Loaded(f) == LET bad == SelectInSeq(f, LAMBDA l : ~l.ok)
             IN  IF bad = 0 THEN f ELSE SubSeq(f, 1, bad - 1)

Whole(f) == \A i \in 1..Len(f) : f[i].ok

\* the rule for an exact address, as an index, 0 if there is none
MapAddress(r, s, g) == SelectInSeq(r, LAMBDA l : l.owner = s /\ l.ga = g)

\* the first of addressRules() that adds an address, as an index
AddedBy(r, s, g) == SelectInSeq(r, LAMBDA l : l.owner = s /\ l.ga = g /\ l.dpt # None)

\* the DPT of the first rule that fits a name
MapString(r, s, n) ==
  LET i == SelectInSeq(r, LAMBDA l : l.ga = None /\ l.owner \in {s, Shared} /\ n \in l.names)
  IN  IF i = 0 THEN None ELSE r[i].dpt

\* a finite set of numbers as an ascending sequence
Ascending(K) == CHOOSE q \in [1..Cardinality(K) -> K] :
                  \A i, j \in 1..Cardinality(K) : i < j => q[i] < q[j]

\* the lines of f at the indices K, in their order
LinesAt(f, K) == LET q == Ascending(K) IN [i \in 1..Cardinality(K) |-> f[q[i]]]

\* mutant: shared rules belong to no site
OwnSignature(f, s) == LinesAt(f, {i \in 1..Len(f) : f[i].owner = s})

\* the lines of f that a site uses
MappingSignature(f, s) == LinesAt(f, {i \in 1..Len(f) : f[i].owner \in {s, Shared}})

\* mutant: an added address has its rule's name or none
ExtendedUnnamed(r, e, s) ==
  [g \in DOMAIN e \cup {h \in Ga : AddedBy(r, s, h) # 0} |->
     IF g \in DOMAIN e THEN e[g]
     ELSE [name |-> r[AddedBy(r, s, g)].name, dpt |-> None, stored |-> FALSE]]

\* the export, and the addresses that rules with a DPT add to it
Extended(r, e, s) ==
  [g \in DOMAIN e \cup {h \in Ga : AddedBy(r, s, h) # 0} |->
     IF g \in DOMAIN e THEN e[g]
     ELSE LET l == r[AddedBy(r, s, g)]
          IN  [name |-> IF l.name = None THEN g ELSE l.name, dpt |-> None, stored |-> FALSE]]

\* an address rule's name, and its DPT if it overrides or there is none
Ruled(r, s, g, x) ==
  LET i == MapAddress(r, s, g)
  IN  IF i = 0 THEN x
      ELSE [x EXCEPT !.name = IF r[i].name = None THEN @ ELSE r[i].name,
                     !.dpt  = IF r[i].dpt # None /\ (r[i].override \/ @ = None) THEN r[i].dpt ELSE @]

\* the name rules for an address without a DPT, the default subtype, and what
\* the decoder and dptnames.json make of the DPT
Typed(r, s, x) ==
  LET asked == IF x.dpt = None THEN MapString(r, s, x.name) ELSE x.dpt
      full  == IF asked = None THEN None ELSE Subtyped[asked]
      dpt   == IF full \in Accepted THEN full ELSE None
  IN  [x EXCEPT !.dpt = dpt, !.stored = dpt \in Titled]

\* initDatapoints()
Datapoints(r, e, s) ==
  LET all == Extended(r, e, s)
  IN  [g \in DOMAIN all |-> Typed(r, s, Ruled(r, s, g, all[g]))]

-----------------------------------------------------------------------------
\* an editor saves a watched file, or an ETS export
SaveMappings(f) ==
  /\ saves < MaxSaves
  /\ f # file
  /\ file' = f
  /\ saves' = saves + 1
  /\ unseen' = unseen \cup {"dptmappings.txt"}
  /\ UNCHANGED <<oneThread, export, stamp, gap, deferred, mapsig, noted, sites>>

SaveYml ==
  /\ saves < MaxSaves
  /\ saves' = saves + 1
  /\ unseen' = unseen \cup {"hamon.yml"}
  /\ UNCHANGED <<oneThread, file, export, stamp, gap, deferred, mapsig, noted, sites>>

SaveExport(s, e) ==
  /\ saves < MaxSaves
  /\ e # export[s]
  /\ export' = [export EXCEPT ![s] = e]
  /\ stamp' = [stamp EXCEPT ![s] = @ + 1]
  /\ saves' = saves + 1
  /\ UNCHANGED <<oneThread, file, main, sites>>

\* mutant: a site goes by its mapping lines alone
RestartedByMappings(s) == phase[s] \in Running /\ mapsig[s] # MappingSignature(file, s)

\* ConnectionService() restarts a site: its export has changed, or it runs and
\* its mapping lines have
Restarted(s) ==
  \/ stamp[s] # noted[s]
  \/ phase[s] \in Running /\ mapsig[s] # MappingSignature(file, s)

\* reload(), hamon.yml being as it was but for its mtime
Reload ==
  /\ phase' = [s \in Site |-> IF Restarted(s) THEN "starting" ELSE phase[s]]
  /\ mapsig' = [s \in Site |-> MappingSignature(file, s)]
  /\ noted' = stamp
  /\ gap' = TRUE
  /\ UNCHANGED <<disk, rules, groups, readAt, built, early>>

\* mutant: a save inside the gap is dropped
ChangedOrDropped(w) ==
  /\ w \in unseen
  /\ unseen' = unseen \ {w}
  /\ IF gap THEN UNCHANGED <<disk, gap, deferred, mapsig, noted, sites>>
            ELSE Reload /\ UNCHANGED deferred

\* fs.watchFile reports a save: changed()
Changed(w) ==
  /\ w \in unseen
  /\ unseen' = unseen \ {w}
  /\ IF gap
     THEN /\ deferred' = IF deferred = "none" THEN "waiting" ELSE deferred
          /\ UNCHANGED <<disk, gap, mapsig, noted, sites>>
     ELSE Reload /\ UNCHANGED deferred

\* RELOAD_GAP after the last reload; the deferred one is due 100 ms later
GapEnds ==
  /\ gap
  /\ gap' = FALSE
  /\ deferred' = IF deferred = "waiting" THEN "due" ELSE deferred
  /\ UNCHANGED <<disk, unseen, mapsig, noted, sites>>

\* mutant: the timer leaves the reload to the next save
DeferredSkips ==
  /\ deferred = "due"
  /\ deferred' = "none"
  /\ UNCHANGED <<disk, unseen, gap, mapsig, noted, sites>>

DeferredFires ==
  /\ deferred = "due"
  /\ deferred' = "none"
  /\ Reload
  /\ UNCHANGED unseen

-----------------------------------------------------------------------------
\* loadmapping() replaces the rules of the thread, which may be all sites'
Replaced(s) == [t \in Site |-> IF oneThread \/ t = s THEN file ELSE rules[t]]

\* start() up to the look-up of the gateway: an export without addresses or a
\* line that does not parse ends the site as misconfigured
Loads(s) ==
  /\ phase[s] = "starting"
  /\ IF DOMAIN export[s] = {}
     THEN /\ phase' = [phase EXCEPT ![s] = "held"]
          /\ UNCHANGED <<rules, groups, readAt>>
     ELSE /\ phase' = [phase EXCEPT ![s] = IF Whole(file) THEN "loaded" ELSE "held"]
          /\ rules' = Replaced(s)
          /\ groups' = [groups EXCEPT ![s] = export[s]]
          /\ readAt' = [readAt EXCEPT ![s] = stamp[s]]
  /\ UNCHANGED <<disk, main, built, early>>

\* the tunnel comes up for the first time
Connects(s) ==
  /\ phase[s] = "loaded"
  /\ phase' = [phase EXCEPT ![s] = "running"]
  /\ groups' = [groups EXCEPT ![s] = Datapoints(Loaded(rules[s]), @, s)]
  /\ built' = [built EXCEPT ![s] = rules[s]]
  /\ early' = [early EXCEPT ![s] = MappingSignature(rules[s], s) # mapsig[s]]
  /\ UNCHANGED <<disk, main, rules, readAt>>

\* the worker ends, and waits out its back-off
GoesDown(s) ==
  /\ phase[s] \in {"loaded", "running"}
  /\ phase' = [phase EXCEPT ![s] = "down"]
  /\ UNCHANGED <<disk, main, rules, groups, readAt, built, early>>

\* the back-off is over, or a kpipe restart
Restarts(s) ==
  /\ phase[s] \in {"down", "held"}
  /\ phase' = [phase EXCEPT ![s] = "starting"]
  /\ UNCHANGED <<disk, main, rules, groups, readAt, built, early>>

Init ==
  /\ oneThread \in BOOLEAN
  /\ file \in File
  /\ export \in [Site -> Export]
  /\ stamp = [s \in Site |-> 0]
  /\ saves = 0
  /\ unseen = {}
  /\ gap = FALSE
  /\ deferred = "none"
  /\ mapsig = [s \in Site |-> MappingSignature(file, s)]
  /\ noted = stamp
  /\ phase = [s \in Site |-> "starting"]
  /\ rules = [s \in Site |-> <<>>]
  /\ groups = [s \in Site |-> <<>>]
  /\ readAt = stamp
  /\ built = rules
  /\ early = [s \in Site |-> FALSE]

Next ==
  \/ \E f \in File : SaveMappings(f)
  \/ SaveYml
  \/ \E s \in Site, e \in Export : SaveExport(s, e)
  \/ \E w \in Watched : Changed(w)
  \/ GapEnds
  \/ DeferredFires
  \/ \E s \in Site : Loads(s) \/ Connects(s) \/ GoesDown(s) \/ Restarts(s)

Spec == Init /\ [][Next]_vars

\* fs.watchFile polls and setTimeout fires
Fairness ==
  /\ \A w \in Watched : WF_vars(Changed(w))
  /\ WF_vars(GapEnds)
  /\ WF_vars(DeferredFires)

FairSpec == Spec /\ Fairness

-----------------------------------------------------------------------------
\* TypeOK: files, timers and the sites' tables keep their shape.
TypeOK ==
  /\ oneThread \in BOOLEAN
  /\ file \in File /\ rules \in [Site -> File \cup {<<>>}] /\ built \in [Site -> File \cup {<<>>}]
  /\ export \in [Site -> Export] /\ groups \in [Site -> Table]
  /\ stamp \in [Site -> Nat] /\ noted \in [Site -> Nat] /\ readAt \in [Site -> Nat]
  /\ saves \in Nat
  /\ unseen \subseteq Watched
  /\ gap \in BOOLEAN /\ deferred \in {"none", "waiting", "due"}
  /\ mapsig \in [Site -> Seq(Line)]
  /\ phase \in [Site -> Phase]
  /\ early \in [Site -> BOOLEAN]

Settled == unseen = {} /\ deferred = "none"

\* "A change inside it is applied when the gap ends, not dropped"
\* (service.js:648-650): once no save is waiting to be reported and no reload is
\* put off, the last reload saw dptmappings.txt as it is.
NoSaveLost == Settled => \A s \in Site : mapsig[s] = MappingSignature(file, s)

\* A change in the watched file is seen in the end, however saves and gaps fall.
SavesApplied == \A s \in Site : []<>(mapsig[s] = MappingSignature(file, s))

\* A connected site stores its addresses by the rules now in the file, all of
\* them and in their order, when nothing is on its way: its lines are all the
\* signature compares, but they are also all that its table depends on.  Left
\* out are tables built from lines the last reload had not seen, which an undone
\* edit leaves behind, and from a file that one thread read to its error.
RulesInForce ==
  \A s \in Site :
    /\ Settled /\ phase[s] = "running" /\ ~early[s] /\ Whole(built[s])
    /\ readAt[s] = stamp[s] /\ Whole(file)
    => groups[s] = Datapoints(file, export[s], s)

\* No site has an export older than the one the last reload compared, though
\* the site reads it after the reload noted its mtime.
ExportNotStale == \A s \in Site : phase[s] \in {"loaded", "running"} => readAt[s] >= noted[s]
=============================================================================
