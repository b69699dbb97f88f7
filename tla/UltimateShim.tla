---------------------------- MODULE UltimateShim ----------------------------
(***************************************************************************)
(* src/src/ultimate-shim.js: one tunnel through KNXUltimate, behind the    *)
(* interface of knx.  The library (`lib`) is external: it connects, fails  *)
(* and reconnects by itself and says so in events.  What the shim emits to *)
(* the site is a conjunct the site's module adds to these actions, as the  *)
(* listeners run within them.  Telegrams are left to the site.             *)
(***************************************************************************)

VARIABLES
  state,           \* this.state; "none" before Connection() is called
  closing,         \* Disconnect() has been called
  probing,         \* the local address is being found
  client,          \* this.client is there
  lib,             \* what the library does: nothing, try to connect, have a
                   \* tunnel, or close it
  autoReconnect,   \* the library's own retry
  judging,         \* the setImmediate() of an error is due
  errorForwarded   \* an error of this outage has been passed on

shim == <<state, closing, probing, client, lib, autoReconnect, judging, errorForwarded>>

ShimInit ==
  /\ state = "none"
  /\ closing = FALSE
  /\ probing = FALSE
  /\ client = FALSE
  /\ lib = "down"
  /\ autoReconnect = TRUE
  /\ judging = FALSE
  /\ errorForwarded = FALSE

ShimTypeOK ==
  /\ state \in {"none", "connecting", "idle", "disconnected"}
  /\ {closing, probing, client, autoReconnect, judging, errorForwarded} \subseteq BOOLEAN
  /\ lib \in {"down", "trying", "up", "ending"}

\* Connection()
Open ==
  /\ state' = "connecting"
  /\ probing' = TRUE
  /\ UNCHANGED <<closing, client, lib, autoReconnect, judging, errorForwarded>>

\* mutant: a Disconnect() while the address was being found is overlooked
ClientStartsAnyway ==
  /\ probing
  /\ probing' = FALSE
  /\ client' = TRUE
  /\ lib' = "trying"
  /\ UNCHANGED <<state, closing, autoReconnect, judging, errorForwarded>>

\* startClient(), once the local address is known
ClientStarts ==
  /\ probing
  /\ probing' = FALSE
  /\ client' = TRUE
  /\ lib' = IF closing THEN "down" ELSE "trying"
  /\ UNCHANGED <<state, closing, autoReconnect, judging, errorForwarded>>

\* startClient() throws: emits 'disconnected' (unless it is) and 'error'
ClientStartFails ==
  /\ probing
  /\ probing' = FALSE
  /\ client' \in BOOLEAN
  /\ state' = "disconnected"
  /\ UNCHANGED <<closing, lib, autoReconnect, judging, errorForwarded>>

\* mutant: the next outage is taken for the last one
LibConnectsSameOutage ==
  /\ lib = "trying"
  /\ lib' = "up"
  /\ state' = "idle"
  /\ UNCHANGED <<closing, probing, client, autoReconnect, judging, errorForwarded>>

\* the library has a tunnel: emits 'connected'
LibConnects ==
  /\ lib = "trying"
  /\ lib' = "up"
  /\ state' = "idle"
  /\ errorForwarded' = FALSE
  /\ UNCHANGED <<closing, probing, client, autoReconnect, judging>>

\* an attempt fails, with an error; the library tries again
LibFails ==
  /\ lib = "trying"
  /\ state' = "disconnected"
  /\ judging' = TRUE
  /\ UNCHANGED <<closing, probing, client, lib, autoReconnect, errorForwarded>>

\* the gateway refuses the secure session: no retry until the worker restarts
LibRefused ==
  /\ lib = "trying"
  /\ lib' = "down"
  /\ state' = "disconnected"
  /\ autoReconnect' = FALSE
  /\ judging' = TRUE
  /\ UNCHANGED <<closing, probing, client, errorForwarded>>

\* the tunnel is lost, with an error (a heartbeat) or without (the gateway
\* closes it)
LibLoses(error) ==
  /\ lib = "up"
  /\ lib' = IF autoReconnect THEN "trying" ELSE "down"
  /\ state' = "disconnected"
  /\ judging' = (judging \/ error)
  /\ UNCHANGED <<closing, probing, client, autoReconnect, errorForwarded>>

\* an error that leaves the tunnel up
LibTrips ==
  /\ lib = "up"
  /\ ~judging
  /\ judging' = TRUE
  /\ UNCHANGED <<state, closing, probing, client, lib, autoReconnect, errorForwarded>>

\* an error reaches the site if it is the first of an outage
Forwards == ~closing /\ lib # "up" /\ ~errorForwarded

\* the setImmediate() of an error: emits 'error' if it Forwards
Judge ==
  /\ judging
  /\ judging' = FALSE
  /\ errorForwarded' = (errorForwarded \/ Forwards)
  /\ UNCHANGED <<state, closing, probing, client, lib, autoReconnect>>

\* Disconnect(): without a client it is over at once
Disconnect ==
  /\ closing' = TRUE
  /\ IF client
     THEN lib' = "ending" /\ UNCHANGED state
     ELSE state' = "disconnected" /\ UNCHANGED lib
  /\ UNCHANGED <<probing, client, autoReconnect, judging, errorForwarded>>

\* the library has closed the tunnel: emits 'disconnected' (unless it is)
LibEnds ==
  /\ lib = "ending"
  /\ lib' = "down"
  /\ state' = "disconnected"
  /\ UNCHANGED <<closing, probing, client, autoReconnect, judging, errorForwarded>>
=============================================================================
