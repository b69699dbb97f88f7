----------------------------- MODULE SiteState -----------------------------
(***************************************************************************)
(* What src/src/sitestate.js keeps about each site, as constant operators  *)
(* on records.  Supervisor holds one function of these records in memory   *)
(* and one on disk.                                                        *)
(*                                                                         *)
(* A hamon.yml entry is [enabled, cfg]: cfg stands for the other fields of *)
(* CHANGE_FIELDS, the stack and the GA file's mtime, which the code only   *)
(* ever compares.  The times of a record are kept as what the code asks of *)
(* them: lastConnected is "never", "recent" (within PRECHECK_DAYS) or      *)
(* "old"; nextRetry is there exactly in state "down", and whether it is    *)
(* still ahead is the reader's choice.  since, reason, detail and          *)
(* tunnelVersion are for display only and left out.                        *)
(***************************************************************************)
EXTENDS Naturals

CONSTANTS Cfg,   \* the configurations a site's entry can have
          None   \* null: no entry, no record, no worker, no fingerprint

Entry == [enabled : BOOLEAN, cfg : Cfg]

\* the states a site is held in, with no timed retry
Held == {"blocked", "misconfigured"}

States == Held \cup {"starting", "connected", "down", "disabled"}

Ages == {"never", "recent", "old"}

\* fingerprint(): the compared fields side by side, so two entries have one
\* fingerprint exactly when no field differs
Fingerprint(e) == <<e.enabled, e.cfg>>

Prints == BOOLEAN \X Cfg

ASSUME NoneAssumption == None \notin Entry /\ None \notin Prints

Rec == [state : States, failures : Nat, last : Ages, fp : Prints \cup {None}]

ASSUME NoRecAssumption == None \notin Rec

\* the mapping `sites` as read from a missing or damaged file
NoSites(S) == [s \in S |-> None]

LastConnected(r) == IF r = None THEN "never" ELSE r.last

\* mutant: the state is asked instead of the time of the last connection
NotConnectedNow(r) == r = None \/ r.state # "connected"

\* needsPrecheck(): no connection recorded within PRECHECK_DAYS
NeedsPrecheck(r) == LastConnected(r) # "recent"

\* SiteState.set(): the record that replaces r.  Connecting clears the
\* failures and stamps the time; a fingerprint survives only in a held state
SetState(r, state, failures, fp) ==
  [state    |-> state,
   failures |-> IF state = "connected" THEN 0 ELSE failures,
   last     |-> IF state = "connected" THEN "recent" ELSE LastConnected(r),
   fp       |-> IF state \in Held THEN fp ELSE None]

\* mutant: only "blocked" is kept over a restart
StillBlockedOnly(r, fp) == r # None /\ r.state = "blocked" /\ r.fp = fp

\* SiteState.stillBlocked()
StillBlocked(r, fp) == r # None /\ r.state \in Held /\ r.fp = fp

\* SiteState.retain(): only the sites of names keep a record
Retain(sites, names) ==
  [s \in DOMAIN sites |-> IF s \in names THEN sites[s] ELSE None]

\* PRECHECK_DAYS go by without a connection being recorded
Aged(r) == IF r # None /\ r.last = "recent" THEN [r EXCEPT !.last = "old"] ELSE r
=============================================================================
