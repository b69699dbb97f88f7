----------------------------- MODULE SiteWorker -----------------------------
(***************************************************************************)
(* src/src/site.js on the knxultimate stack, and what carries it: a worker *)
(* thread (src/src/connection.js) or, with `threads: false`, the main      *)
(* thread itself (InlineWorker in src/src/service.js).  One event handler, *)
(* timer or continuation of start() is one action; the shim calls the      *)
(* site's handlers within its own.                                         *)
(***************************************************************************)
EXTENDS UltimateShim, WorkerView, Naturals

CONSTANT MaxUnread   \* bound: reports the main thread may leave unread

ASSUME MaxUnreadAssumption == MaxUnread \in Nat

VARIABLES
  inline,            \* threads: false
  precheck,          \* opts.precheck
  connectedBefore,   \* opts.connectedBefore
  stage,             \* how far start() has come
  firstTimer,        \* firstConnectHandle is set
  recovery,          \* timerHandle is set
  inited,            \* the datapoints are there
  mqtt,              \* the MQTT client is
  gas,               \* of one chatty GA, what dedupe knows: nothing, a value
                     \* written, or a repeat held besides
  attached,          \* the connection is there, with the site's handlers on it
  finished,          \* nothing more is to be reported
  stopping,          \* stop() waits: not at all, for the next tick, or for an
                     \* open tunnel to close
  hook,              \* what to report once it has stopped; None if it was told to exit
  gone,              \* it has exited
  told, outbox       \* see WorkerView

opts   == <<inline, precheck, connectedBefore>>
timers == <<firstTimer, recovery>>
ends   == <<attached, finished, stopping, hook, gone, outbox>>
vars   == <<shim, opts, stage, timers, inited, mqtt, gas, ends, told>>

Nothing == "nothing"

-----------------------------------------------------------------------------
(* Stopping.                                                               *)

\* a thread that has exited does nothing more; in the main thread what was
\* scheduled still runs
Runs == ~gone \/ inline

\* the worker is over, with the last things it says
Leave(words) ==
  /\ outbox' = outbox \o Append(words, "exit")
  /\ gone' = TRUE

\* stop() before there was a connection: it has stopped at once
StopUnconnected(words) ==
  /\ Leave(words)
  /\ UNCHANGED <<shim, attached, stopping, hook>>

\* mutant: a stop waits for the confirmation of any tunnel not yet down
StopConnectedAny(why) ==
  /\ hook' = why
  /\ stopping' = state
  /\ Disconnect
  /\ UNCHANGED <<attached, gone>>

\* stop() with a connection: wait for it to close
StopConnected(why) ==
  /\ hook' = why
  /\ stopping' = IF state = "idle" THEN "open" ELSE "tick"
  /\ Disconnect
  /\ UNCHANGED <<attached, gone>>

\* stop(): the timers, MQTT and what dedupe holds are dealt with first
Stop(why) ==
  /\ finished' = TRUE
  /\ firstTimer' = FALSE
  /\ recovery' = FALSE
  /\ mqtt' = FALSE
  /\ gas' = "empty"
  /\ IF attached
     THEN StopConnected(why) /\ UNCHANGED outbox
     ELSE StopUnconnected(IF why = Nothing THEN <<>> ELSE <<why>>)

\* finish(): report once, after the site has stopped
Finish(why) ==
  IF finished THEN UNCHANGED <<shim, timers, mqtt, gas, ends>> ELSE Stop(why)

\* the promise of stop() resolves: the handlers come off the connection, and
\* the hook is called
Resolve ==
  /\ stopping' = "no"
  /\ attached' = FALSE
  /\ Leave(IF hook = Nothing THEN <<>> ELSE <<hook>>)
  /\ UNCHANGED <<finished, hook>>

\* mutant: STOP_WAIT dropped, an open tunnel waits for its gateway
StopExpiresUnlessOpen ==
  /\ Runs
  /\ stopping = "tick"
  /\ Resolve
  /\ UNCHANGED <<shim, opts, stage, timers, inited, mqtt, gas, told>>

\* stop() has waited long enough
StopExpires ==
  /\ Runs
  /\ stopping # "no"
  /\ Resolve
  /\ UNCHANGED <<shim, opts, stage, timers, inited, mqtt, gas, told>>

\* the connection says 'disconnected' when the library has closed it
TunnelEnds ==
  /\ Runs
  /\ LibEnds
  /\ IF stopping = "open" /\ attached THEN Resolve ELSE UNCHANGED ends
  /\ UNCHANGED <<opts, stage, timers, inited, mqtt, gas, told>>

\* exit() while the site stops of itself.  A thread throws its error one turn
\* after the hook: process.exit() then comes first, and nobody hears of it
ExitWhileStopping ==
  /\ hook' = IF hook = "error" /\ ~inline THEN Nothing ELSE hook
  /\ UNCHANGED <<shim, timers, mqtt, gas, attached, finished, stopping, gone, outbox>>

\* { exit: true } arrives: exit()
TakeExit ==
  /\ told
  /\ ~gone
  /\ IF stopping = "no" THEN Stop(Nothing) ELSE ExitWhileStopping
  /\ UNCHANGED <<opts, stage, inited, told>>

\* an error nobody catches ends a thread as it stands, and its sockets with it
ThreadDies ==
  /\ ~inline
  /\ ~gone
  /\ Leave(<<"error">>)
  /\ attached' = FALSE
  /\ lib' = "down"
  /\ mqtt' = FALSE
  /\ UNCHANGED <<state, closing, probing, client, autoReconnect, judging, errorForwarded,
                 opts, stage, timers, inited, gas, finished, stopping, hook, told>>

-----------------------------------------------------------------------------
(* start().                                                                *)

\* start() returns: the site was stopped while it waited
GivesUp ==
  /\ stage' = "over"
  /\ UNCHANGED <<shim, timers, mqtt, gas, ends>>

\* start() finds a reason to end
StartEnds(why) ==
  /\ stage' = "over"
  /\ Finish(why)

\* connect(), which may fail to create the connection
Connect ==
  \/ StartEnds("error")
  \/ /\ stage' = "over"
     /\ Open
     /\ attached' = TRUE
     /\ UNCHANGED <<timers, mqtt, gas, finished, stopping, hook, gone, outbox>>

\* start(), to its first await.  The site's own files may be wrong
Start ==
  /\ Runs
  /\ stage = "new"
  /\ \/ ~finished /\ StartEnds("config")
     \/ /\ stage' \in {"lookup"} \cup (IF finished THEN {"over"} ELSE {})
        /\ firstTimer' = ~connectedBefore
        /\ UNCHANGED <<shim, recovery, mqtt, gas, ends>>
  /\ UNCHANGED <<opts, inited, told>>

\* the name has been looked up
Resolved ==
  \/ StartEnds("dns")
  \/ ~precheck /\ Connect
  \/ /\ precheck
     /\ stage' = "describe"
     /\ UNCHANGED <<shim, timers, mqtt, gas, ends>>

\* mutant: start() goes on although the site has been stopped
LookedUpRegardless ==
  /\ Runs
  /\ stage = "lookup"
  /\ Resolved
  /\ UNCHANGED <<opts, inited, told>>

LookedUp ==
  /\ Runs
  /\ stage = "lookup"
  /\ IF finished THEN GivesUp ELSE Resolved
  /\ UNCHANGED <<opts, inited, told>>

\* the gateway has answered the DESCRIPTION request, or has not
Described ==
  /\ Runs
  /\ stage = "describe"
  /\ IF finished THEN GivesUp ELSE StartEnds("unreachable") \/ Connect
  /\ UNCHANGED <<opts, inited, told>>

-----------------------------------------------------------------------------
(* The handlers of the connection and the timers.                          *)

\* mutant: the first-connection timer runs on
OnConnectedTimerOn ==
  /\ outbox' = Append(outbox, "connected")
  /\ inited' = TRUE
  /\ recovery' = FALSE
  /\ mqtt' = (mqtt \/ ~inited)
  /\ UNCHANGED <<firstTimer, gas, attached, finished, stopping, hook, gone>>

\* mutant: only the first connection clears the timers
OnConnectedOnce ==
  /\ outbox' = Append(outbox, "connected")
  /\ inited' = TRUE
  /\ firstTimer' = FALSE
  /\ recovery' = (recovery /\ inited)
  /\ mqtt' = (mqtt \/ ~inited)
  /\ UNCHANGED <<gas, attached, finished, stopping, hook, gone>>

\* `connected`: say so, clear the timers, and set up what the site needs the
\* first time
OnConnected ==
  /\ outbox' = Append(outbox, "connected")
  /\ inited' = TRUE
  /\ firstTimer' = FALSE
  /\ recovery' = FALSE
  /\ mqtt' = (mqtt \/ ~inited)
  /\ UNCHANGED <<gas, attached, finished, stopping, hook, gone>>

\* mutant: before the first connection it is left to the other timer
OnErrorOnceInited ==
  /\ recovery' = (recovery \/ inited)
  /\ UNCHANGED <<firstTimer, mqtt, gas, ends>>

\* `error`: the recovery timer runs from the first one
OnError ==
  /\ recovery' = TRUE
  /\ UNCHANGED <<firstTimer, mqtt, gas, ends>>

TunnelUp ==
  /\ Runs
  /\ attached
  /\ Len(outbox) < MaxUnread
  /\ LibConnects
  /\ OnConnected
  /\ UNCHANGED <<opts, stage, told>>

\* the datapoints cannot be built: the `connected` handler throws
TunnelUpThrows ==
  /\ attached
  /\ ~inited
  /\ ~finished
  /\ lib = "trying"
  /\ Len(outbox) < MaxUnread
  /\ outbox' = Append(outbox, "connected")
  /\ inited' = TRUE
  /\ finished' = TRUE
  /\ hook' = "error"
  /\ stopping' = "open"
  /\ firstTimer' = FALSE
  /\ recovery' = FALSE
  /\ mqtt' = FALSE
  /\ gas' = "empty"
  /\ state' = "idle"
  /\ errorForwarded' = FALSE
  /\ closing' = TRUE
  /\ lib' = "ending"
  /\ UNCHANGED <<probing, client, autoReconnect, judging, attached, gone, opts, stage, told>>

TunnelStarts ==
  /\ Runs
  /\ ClientStarts
  /\ UNCHANGED <<opts, stage, timers, inited, mqtt, gas, ends, told>>

TunnelStartFails ==
  /\ Runs
  /\ ClientStartFails
  /\ IF attached THEN OnError ELSE UNCHANGED <<timers, mqtt, gas, ends>>
  /\ UNCHANGED <<opts, stage, inited, told>>

\* the library on its own: the site hears of none of it
TunnelChanges ==
  /\ Runs
  /\ LibFails \/ LibRefused \/ LibTrips \/ \E error \in BOOLEAN : LibLoses(error)
  /\ UNCHANGED <<opts, stage, timers, inited, mqtt, gas, ends, told>>

TunnelErrs ==
  /\ Runs
  /\ Judge
  /\ IF Forwards /\ attached THEN OnError ELSE UNCHANGED <<timers, mqtt, gas, ends>>
  /\ UNCHANGED <<opts, stage, inited, told>>

\* a telegram of the chatty GA: written, or held if it repeats the last one.
\* They still come in while an open tunnel is being closed
Telegram ==
  /\ Runs
  /\ attached
  /\ inited
  /\ state = "idle"
  /\ gas' \in IF gas = "empty" THEN {"written"} ELSE {"written", "held"}
  /\ UNCHANGED <<shim, opts, stage, timers, inited, mqtt, ends, told>>

\* the `event` handler throws
TelegramThrows ==
  /\ attached
  /\ inited
  /\ state = "idle"
  /\ ~finished
  /\ Finish("error")
  /\ UNCHANGED <<opts, stage, inited, told>>

\* dedupe's timer writes what it holds
HeldWritten ==
  /\ Runs
  /\ gas = "held"
  /\ gas' = "written"
  /\ UNCHANGED <<shim, opts, stage, timers, inited, mqtt, ends, told>>

\* FIRST_CONNECT_WAIT or ERROR_WAIT is over: handleTimeout(), which does
\* nothing once the site has finished
TimerFires ==
  /\ Runs
  /\ ~finished
  /\ firstTimer \/ recovery
  /\ Finish("timeout")
  /\ UNCHANGED <<opts, stage, inited, told>>

-----------------------------------------------------------------------------
(* The main thread.                                                        *)

Told ==
  /\ ~told
  /\ told' = TRUE
  /\ UNCHANGED <<shim, opts, stage, timers, inited, mqtt, gas, ends>>

Taken ==
  /\ outbox # <<>>
  /\ outbox' = Tail(outbox)
  /\ UNCHANGED <<shim, opts, stage, timers, inited, mqtt, gas, attached, finished, stopping,
                 hook, gone, told>>

-----------------------------------------------------------------------------
Init ==
  /\ ShimInit
  /\ inline \in BOOLEAN
  /\ precheck \in BOOLEAN
  /\ connectedBefore \in BOOLEAN
  /\ stage = "new"
  /\ firstTimer = FALSE
  /\ recovery = FALSE
  /\ inited = FALSE
  /\ mqtt = FALSE
  /\ gas = "empty"
  /\ attached = FALSE
  /\ finished = FALSE
  /\ stopping = "no"
  /\ hook = Nothing
  /\ gone = FALSE
  /\ told = FALSE
  /\ outbox = <<>>

\* an attempt of the library to connect comes to something
Attempt == TunnelUp \/ TunnelUpThrows \/ (TunnelChanges /\ lib = "trying")

Next ==
  \/ Start \/ LookedUp \/ Described
  \/ TunnelStarts \/ TunnelStartFails
  \/ TunnelUp \/ TunnelUpThrows \/ TunnelChanges \/ TunnelErrs \/ TunnelEnds
  \/ Telegram \/ TelegramThrows \/ HeldWritten
  \/ TimerFires \/ StopExpires \/ TakeExit \/ ThreadDies
  \/ Told \/ Taken

Spec == Init /\ [][Next]_vars

\* the event loops run what is due, timers go off, look-ups and the library's
\* attempts come to an end; a gateway and the main thread owe nothing
Fairness ==
  /\ WF_vars(Start) /\ WF_vars(LookedUp) /\ WF_vars(Described)
  /\ WF_vars(TunnelStarts \/ TunnelStartFails)
  /\ WF_vars(Attempt) /\ WF_vars(TunnelErrs)
  /\ WF_vars(TimerFires) /\ WF_vars(StopExpires) /\ WF_vars(TakeExit)
  /\ WF_vars(Taken)

FairSpec == Spec /\ Fairness

-----------------------------------------------------------------------------
\* TypeOK: every variable keeps the shape the code gives it.
TypeOK ==
  /\ ShimTypeOK
  /\ {inline, precheck, connectedBefore, firstTimer, recovery, inited, mqtt,
      attached, finished, gone, told} \subseteq BOOLEAN
  /\ stage \in {"new", "lookup", "describe", "over"}
  /\ gas \in {"empty", "written", "held"}
  /\ stopping \in {"no", "tick", "open"}
  /\ hook \in Endings \cup {Nothing}
  /\ outbox \in Seq(Reports)

\* what the main thread can see of it
View ==
  [precheck |-> precheck, told |-> told, outbox |-> outbox,
   life |-> IF gone THEN "ended"
            ELSE IF attached /\ state = "idle" THEN "connected"
            ELSE IF inited THEN "lost" ELSE "starting"]

Contract == INSTANCE WorkerContract WITH view <- View

\* The site keeps to what service.js relies on, however stops, timers, look-ups
\* and the library's events interleave: one ending at most, nothing after it, no
\* timeout while the link is up, no hold once it has been up.
KeepsContract == Contract!Spec

\* A site that has stopped leaves nothing behind that acts on its own (site.js:18):
\* no tunnel open or being opened, no MQTT client, and no handler that could
\* open one, even when it was stopped in the middle of start().
LeavesNothing == gone => ~attached /\ ~mqtt /\ lib \notin {"trying", "up"}

\* Once the shim has passed on an outage's first error and hides the rest
\* (ultimate-shim.js:45), the site's recovery timer is running: no outage is
\* both silent and without end.
OutageIsTimed == errorForwarded /\ attached /\ ~closing => recovery

\* The recovery timer never runs against a tunnel that is up (ultimate-shim.js:45).
TimerMeansOutage == recovery /\ attached => state # "idle"

\* A site is never stuck: again and again it is connected, stopping or gone,
\* whatever the library's attempts come to.
NeverStuck == []<>(lib = "up" \/ finished \/ gone)

\* A site told to exit exits, whatever it is in the middle of.
ToldLeaves == told ~> gone

-----------------------------------------------------------------------------
(* What the comments of the code say and the code does not keep.           *)

\* site.js:454, "held repeats are written, not lost" when a site stops: a
\* thread does not exit with one.
StopLosesNothing == [][StopExpires \/ TunnelEnds => inline \/ ~gone' \/ gas # "held"]_vars
=============================================================================
