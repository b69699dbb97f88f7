----------------------------- MODULE WorkerView -----------------------------
(***************************************************************************)
(* A worker as the main thread can see it: what service.js may rely on of  *)
(* connection.js and site.js.  A view is a record with at least            *)
(*   precheck  the worker checks that its gateway answers before it connects *)
(*   told      { exit: true } has been posted to it                        *)
(*   life      whether its KNX link is up, or it has ended                 *)
(*   outbox    what it has reported and the main thread has yet to take up, *)
(*             in order; the last thing a worker reports is "exit"         *)
(***************************************************************************)
EXTENDS Sequences

\* the reasons of { stopped, reason } a site is held for
Reasons == {"dns", "unreachable", "config"}

\* why a worker ends of itself
Endings == Reasons \cup {"timeout", "error"}

Reports == Endings \cup {"connected", "exit"}

Lives == {"starting", "connected", "lost", "ended"}

Fresh(precheck) ==
  [precheck |-> precheck, told |-> FALSE, life |-> "starting", outbox |-> <<>>]

\* the endings open to v: reasons it can only find before it has connected,
\* the recovery and first-connection timers, an uncaught error at any time
EndingsOf(v) ==
  {"error"}
    \cup (IF v.life # "connected" THEN {"timeout"} ELSE {})
    \cup (IF v.life = "starting" THEN {"config", "dns"} ELSE {})
    \cup (IF v.life = "starting" /\ v.precheck THEN {"unreachable"} ELSE {})

\* the link comes up, and the worker says so
Up(v) == [v EXCEPT !.life = "connected", !.outbox = Append(@, "connected")]

\* the link is lost; the worker says nothing and tries again
Down(v) == [v EXCEPT !.life = "lost"]

\* the worker stops, says why and exits
Ended(v, e) == [v EXCEPT !.life = "ended", !.outbox = @ \o <<e, "exit">>]

\* told to exit, the worker stops and exits without a word
Obeyed(v) == [v EXCEPT !.life = "ended", !.outbox = Append(@, "exit")]

\* what a worker may do next.  Being told to exit does not prevent an ending:
\* it may be under way when the message arrives
Step(v, u) ==
  /\ v.life # "ended"
  /\ \/ v.life # "connected" /\ u = Up(v)
     \/ v.life = "connected" /\ u = Down(v)
     \/ \E e \in EndingsOf(v) : u = Ended(v, e)
     \/ v.told /\ u = Obeyed(v)

\* what the main thread may do to it
Tell(v, u) == u = [v EXCEPT !.told = TRUE]
Take(v, u) == v.outbox # <<>> /\ u = [v EXCEPT !.outbox = Tail(@)]
=============================================================================
