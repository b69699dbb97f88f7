-------------------------- MODULE SiteWorkerProofs --------------------------
(***************************************************************************)
(* SiteWorker implements WorkerContract, which is what Supervisor assumes  *)
(* of its workers, and leaves nothing behind: for every length of the      *)
(* report queue and every order of stops, timers and events.               *)
(***************************************************************************)
EXTENDS SiteWorker, TLAPS

\* before the connection is created there is nothing of it
Untouched == /\ state = "none" /\ lib = "down" /\ ~probing /\ ~client
             /\ ~judging /\ ~errorForwarded

\* start() and the connection
StageInv ==
  /\ stage # "over" => ~attached /\ Untouched
  /\ stage = "describe" => precheck
  /\ attached => stage = "over"
  /\ ~attached /\ ~gone => Untouched /\ ~inited /\ ~mqtt

\* the shim and its library
LinkInv ==
  /\ probing => ~client /\ lib = "down" /\ state # "idle"
  /\ lib # "down" => client
  /\ lib = "up" => state = "idle"
  /\ lib = "trying" => state # "idle"
  /\ state = "idle" /\ ~closing /\ Runs => lib = "up"
  /\ closing => lib \in {"ending", "down"}
  /\ state = "idle" => client /\ inited /\ ~firstTimer /\ ~recovery

\* stopping: what stop() waits for, and what it may report then
StopInv ==
  /\ gone /\ inline => finished
  /\ finished /\ attached => stopping # "no"
  /\ stopping # "no" => ~mqtt
  /\ stopping # "no" /\ Runs => attached /\ finished /\ closing
  /\ gone /\ inline /\ probing => closing
  /\ stopping # "no" => hook \in {"error", "timeout", Nothing}
  /\ stopping # "no" /\ hook = "timeout" => state # "idle"
  /\ stopping # "no" /\ hook = Nothing => told
  /\ stopping = "tick" => state # "idle"

IInv == TypeOK /\ StageInv /\ LinkInv /\ StopInv /\ LeavesNothing /\ OutageIsTimed

\* Whatever is left to say when a worker exits, "exit" is said last.
LEMMA Words ==
  ASSUME NEW q \in Seq(Reports)
  PROVE  /\ q \o Append(<<>>, "exit") \in Seq(Reports)
         /\ \A r \in Reports : q \o Append(<<r>>, "exit") \in Seq(Reports)
         /\ Append(q, "connected") \in Seq(Reports)
         /\ q # <<>> => Tail(q) \in Seq(Reports)
PROOF
<1>1. "exit" \in Reports /\ "connected" \in Reports
  BY DEF Reports
<1>2. Append(<<>>, "exit") \in Seq(Reports)
  BY <1>1
<1>3. \A r \in Reports : Append(<<r>>, "exit") \in Seq(Reports)
  BY <1>1
<1> QED BY <1>1, <1>2, <1>3

LEMMA OutboxType == TypeOK /\ [Next]_vars => outbox' \in Seq(Reports)
PROOF
<1> SUFFICES ASSUME TypeOK, [Next]_vars PROVE outbox' \in Seq(Reports)
  OBVIOUS
<1>a. outbox \in Seq(Reports) /\ hook \in Endings \cup {Nothing}
  BY DEF TypeOK
<1>b. /\ outbox \o Append(<<>>, "exit") \in Seq(Reports)
      /\ \A r \in Reports : outbox \o Append(<<r>>, "exit") \in Seq(Reports)
      /\ Append(outbox, "connected") \in Seq(Reports)
      /\ outbox # <<>> => Tail(outbox) \in Seq(Reports)
  BY <1>a, Words
<1>c. Endings \subseteq Reports /\ {"config", "dns", "unreachable", "error", "timeout"} \subseteq Endings
  BY DEF Reports, Endings, Reasons
<1> USE <1>a, <1>b, <1>c DEF ends
<1>1. CASE Start
  BY <1>1 DEF Start, StartEnds, Finish, Stop, StopUnconnected, StopConnected, Disconnect, Leave, Nothing
<1>2. CASE LookedUp
  BY <1>2 DEF LookedUp, Resolved, GivesUp, Connect, Open, StartEnds, Finish, Stop, StopUnconnected, StopConnected, Disconnect, Leave, Nothing
<1>3. CASE Described
  BY <1>3 DEF Described, GivesUp, Connect, Open, StartEnds, Finish, Stop, StopUnconnected, StopConnected, Disconnect, Leave, Nothing
<1>4. CASE TunnelStarts
  BY <1>4 DEF TunnelStarts, ClientStarts
<1>5. CASE TunnelStartFails
  BY <1>5 DEF TunnelStartFails, ClientStartFails, OnError
<1>6. CASE TunnelUp
  BY <1>6 DEF TunnelUp, LibConnects, OnConnected
<1>7. CASE TunnelUpThrows
  BY <1>7 DEF TunnelUpThrows
<1>8. CASE TunnelChanges
  BY <1>8 DEF TunnelChanges, LibFails, LibRefused, LibTrips, LibLoses
<1>9. CASE TunnelErrs
  BY <1>9 DEF TunnelErrs, Judge, Forwards, OnError
<1>10. CASE TunnelEnds
  BY <1>10 DEF TunnelEnds, LibEnds, Resolve, Leave, Nothing
<1>11. CASE Telegram
  BY <1>11 DEF Telegram
<1>12. CASE TelegramThrows
  BY <1>12 DEF TelegramThrows, Finish, Stop, StopUnconnected, StopConnected, Disconnect, Leave, Nothing
<1>13. CASE HeldWritten
  BY <1>13 DEF HeldWritten
<1>14. CASE TimerFires
  BY <1>14 DEF TimerFires, Finish, Stop, StopUnconnected, StopConnected, Disconnect, Leave, Nothing
<1>15. CASE StopExpires
  BY <1>15 DEF StopExpires, Resolve, Leave, Nothing
<1>16. CASE TakeExit
  BY <1>16 DEF TakeExit, ExitWhileStopping, Stop, StopUnconnected, StopConnected, Disconnect, Leave, Nothing
<1>17. CASE ThreadDies
  BY <1>17 DEF ThreadDies, Leave, Nothing
<1>18. CASE Told
  BY <1>18 DEF Told
<1>19. CASE Taken
  BY <1>19 DEF Taken
<1>20. CASE UNCHANGED vars
  BY <1>20 DEF vars
<1> QED BY <1>1, <1>2, <1>3, <1>4, <1>5, <1>6, <1>7, <1>8, <1>9, <1>10, <1>11, <1>12, <1>13, <1>14, <1>15, <1>16, <1>17, <1>18, <1>19, <1>20 DEF Next

\* TypeOK but for the outbox
TypeRest ==
  /\ ShimTypeOK
  /\ {inline, precheck, connectedBefore, firstTimer, recovery, inited, mqtt,
      attached, finished, gone, told} \subseteq BOOLEAN
  /\ stage \in {"new", "lookup", "describe", "over"}
  /\ gas \in {"empty", "written", "held"}
  /\ stopping \in {"no", "tick", "open"}
  /\ hook \in Endings \cup {Nothing}

LEMMA TypeInductive == TypeOK /\ [Next]_vars => TypeOK'
PROOF
<1> SUFFICES ASSUME TypeRest, [Next]_vars PROVE TypeRest'
  BY OutboxType DEF TypeOK, TypeRest
<1> USE DEF TypeRest, ShimTypeOK, shim, opts, timers, ends, Nothing, Endings, Reasons
<1>1. CASE Start
  BY <1>1 DEF Start, StartEnds, Finish, Stop, StopUnconnected, StopConnected, Disconnect, Leave
<1>2. CASE LookedUp
  BY <1>2 DEF LookedUp, Resolved, GivesUp, Connect, Open, StartEnds, Finish, Stop, StopUnconnected, StopConnected, Disconnect, Leave
<1>3. CASE Described
  BY <1>3 DEF Described, GivesUp, Connect, Open, StartEnds, Finish, Stop, StopUnconnected, StopConnected, Disconnect, Leave
<1>4. CASE TunnelStarts
  BY <1>4 DEF TunnelStarts, ClientStarts
<1>5. CASE TunnelStartFails
  BY <1>5 DEF TunnelStartFails, ClientStartFails, OnError
<1>6. CASE TunnelUp
  BY <1>6 DEF TunnelUp, LibConnects, OnConnected
<1>7. CASE TunnelUpThrows
  BY <1>7 DEF TunnelUpThrows
<1>8. CASE TunnelChanges
  BY <1>8 DEF TunnelChanges, LibFails, LibRefused, LibTrips, LibLoses
<1>9. CASE TunnelErrs
  BY <1>9 DEF TunnelErrs, Judge, Forwards, OnError
<1>10. CASE TunnelEnds
  BY <1>10 DEF TunnelEnds, LibEnds, Resolve, Leave
<1>11. CASE Telegram
  BY <1>11 DEF Telegram
<1>12. CASE TelegramThrows
  BY <1>12 DEF TelegramThrows, Finish, Stop, StopUnconnected, StopConnected, Disconnect, Leave
<1>13. CASE HeldWritten
  BY <1>13 DEF HeldWritten
<1>14. CASE TimerFires
  BY <1>14 DEF TimerFires, Finish, Stop, StopUnconnected, StopConnected, Disconnect, Leave
<1>15. CASE StopExpires
  BY <1>15 DEF StopExpires, Resolve, Leave
<1>16. CASE TakeExit
  BY <1>16 DEF TakeExit, ExitWhileStopping, Stop, StopUnconnected, StopConnected, Disconnect, Leave
<1>17. CASE ThreadDies
  BY <1>17 DEF ThreadDies, Leave
<1>18. CASE Told
  BY <1>18 DEF Told
<1>19. CASE Taken
  BY <1>19 DEF Taken
<1>20. CASE UNCHANGED vars
  BY <1>20 DEF vars
<1> QED BY <1>1, <1>2, <1>3, <1>4, <1>5, <1>6, <1>7, <1>8, <1>9, <1>10, <1>11, <1>12, <1>13, <1>14, <1>15, <1>16, <1>17, <1>18, <1>19, <1>20 DEF Next

LEMMA Inductive == IInv /\ [Next]_vars => IInv'
PROOF
<1> SUFFICES ASSUME IInv, [Next]_vars PROVE IInv'
  OBVIOUS
<1>t. TypeOK'
  BY TypeInductive DEF IInv
<1> USE <1>t DEF IInv, StageInv, LinkInv, StopInv, LeavesNothing, OutageIsTimed, Untouched, Runs,
             TypeOK, ShimTypeOK, shim, opts, timers, ends, Nothing
<1>1. CASE Start
  BY <1>1 DEF Start, StartEnds, Finish, Stop, StopUnconnected, StopConnected, Disconnect, Leave
<1>2. CASE LookedUp
  BY <1>2 DEF LookedUp, Resolved, GivesUp, Connect, Open, StartEnds, Finish, Stop, StopUnconnected, StopConnected, Disconnect, Leave
<1>3. CASE Described
  BY <1>3 DEF Described, GivesUp, Connect, Open, StartEnds, Finish, Stop, StopUnconnected, StopConnected, Disconnect, Leave
<1>4. CASE TunnelStarts
  BY <1>4 DEF TunnelStarts, ClientStarts
<1>5. CASE TunnelStartFails
  BY <1>5 DEF TunnelStartFails, ClientStartFails, OnError
<1>6. CASE TunnelUp
  BY <1>6 DEF TunnelUp, LibConnects, OnConnected
<1>7. CASE TunnelUpThrows
  BY <1>7 DEF TunnelUpThrows
<1>8. CASE TunnelChanges
  BY <1>8 DEF TunnelChanges, LibFails, LibRefused, LibTrips, LibLoses
<1>9. CASE TunnelErrs
  BY <1>9 DEF TunnelErrs, Judge, Forwards, OnError
<1>10. CASE TunnelEnds
  BY <1>10 DEF TunnelEnds, LibEnds, Resolve, Leave
<1>11. CASE Telegram
  BY <1>11 DEF Telegram
<1>12. CASE TelegramThrows
  BY <1>12 DEF TelegramThrows, Finish, Stop, StopUnconnected, StopConnected, Disconnect, Leave
<1>13. CASE HeldWritten
  BY <1>13 DEF HeldWritten
<1>14. CASE TimerFires
  BY <1>14 DEF TimerFires, Finish, Stop, StopUnconnected, StopConnected, Disconnect, Leave
<1>15. CASE StopExpires
  BY <1>15 DEF StopExpires, Resolve, Leave
<1>16. CASE TakeExit
  BY <1>16 DEF TakeExit, ExitWhileStopping, Stop, StopUnconnected, StopConnected, Disconnect, Leave
<1>17. CASE ThreadDies
  BY <1>17 DEF ThreadDies, Leave
<1>18. CASE Told
  BY <1>18 DEF Told
<1>19. CASE Taken
  BY <1>19 DEF Taken
<1>20. CASE UNCHANGED vars
  BY <1>20 DEF vars
<1> QED BY <1>1, <1>2, <1>3, <1>4, <1>5, <1>6, <1>7, <1>8, <1>9, <1>10, <1>11, <1>12, <1>13, <1>14, <1>15, <1>16, <1>17, <1>18, <1>19, <1>20 DEF Next

LEMMA Initial == Init => IInv
PROOF
<1> SUFFICES ASSUME Init PROVE IInv
  OBVIOUS
<1>1. outbox \in Seq(Reports)
  <2>1. outbox = <<>>
    BY DEF Init
  <2> QED BY <2>1
<1>2. TypeOK
  BY <1>1 DEF Init, ShimInit, TypeOK, ShimTypeOK
<1>3. StageInv /\ LinkInv /\ StopInv
  BY DEF Init, ShimInit, StageInv, LinkInv, StopInv, Untouched
<1>4. LeavesNothing /\ OutageIsTimed
  BY DEF Init, ShimInit, LeavesNothing, OutageIsTimed
<1> QED BY <1>2, <1>3, <1>4 DEF IInv

\* The inductive invariant holds: what start(), the shim and stop() keep true of
\* one another between any two callbacks.
THEOREM Invariant == Spec => []IInv
PROOF BY Initial, Inductive, PTL DEF Spec

-----------------------------------------------------------------------------
(* The steps of the contract, told from what changes in the view.          *)

Life == View.life

Quiet == UNCHANGED <<precheck, told, outbox>> /\ Life' = Life

ComesUp ==
  /\ Life \notin {"connected", "ended"} /\ Life' = "connected"
  /\ outbox' = Append(outbox, "connected")
  /\ UNCHANGED <<precheck, told>>

GoesDown == Life = "connected" /\ Life' = "lost" /\ UNCHANGED <<precheck, told, outbox>>

EndsWith(e) ==
  /\ Life # "ended" /\ Life' = "ended"
  /\ outbox' = outbox \o <<e, "exit">>
  /\ UNCHANGED <<precheck, told>>

Obeys ==
  /\ told /\ Life # "ended" /\ Life' = "ended"
  /\ outbox' = Append(outbox, "exit")
  /\ UNCHANGED <<precheck, told>>

\* the endings of the contract, by the life they end
LEMMA EndingsByLife ==
  /\ "error" \in Contract!EndingsOf(View)
  /\ Life # "connected" => "timeout" \in Contract!EndingsOf(View)
  /\ Life = "starting" => {"config", "dns"} \subseteq Contract!EndingsOf(View)
  /\ Life = "starting" /\ precheck => "unreachable" \in Contract!EndingsOf(View)
PROOF
<1>1. View.precheck = precheck
  BY DEF View
<1> QED BY <1>1 DEF Life, Contract!EndingsOf

LEMMA ViewParts ==
  /\ View = [precheck |-> precheck, told |-> told, outbox |-> outbox, life |-> Life]
  /\ View' = [precheck |-> precheck', told |-> told', outbox |-> outbox', life |-> Life']
PROOF BY DEF View, Life

\* an edit of a view, field by field
LEMMA ViewEdits ==
  ASSUME NEW q
  PROVE  /\ [View EXCEPT !.told = q]
              = [precheck |-> precheck, told |-> q, outbox |-> outbox, life |-> Life]
         /\ [View EXCEPT !.outbox = q]
              = [precheck |-> precheck, told |-> told, outbox |-> q, life |-> Life]
PROOF
<1> DEFINE l == Life
           w == [precheck |-> precheck, told |-> told, outbox |-> outbox, life |-> l]
<1>1. View = w
  BY ViewParts
<1> HIDE DEF l
<1>2. [w EXCEPT !.told = q] = [precheck |-> precheck, told |-> q, outbox |-> outbox, life |-> l]
  OBVIOUS
<1>3. [w EXCEPT !.outbox = q] = [precheck |-> precheck, told |-> told, outbox |-> q, life |-> l]
  OBVIOUS
<1> HIDE DEF w
<1>4. /\ [View EXCEPT !.told = q] = [w EXCEPT !.told = q]
      /\ [View EXCEPT !.outbox = q] = [w EXCEPT !.outbox = q]
  BY <1>1
<1> QED BY <1>2, <1>3, <1>4 DEF l

\* what the contract's operators make of the view
LEMMA ViewMoves ==
  /\ Contract!Up(View) = [precheck |-> precheck, told |-> told,
                          outbox |-> Append(outbox, "connected"), life |-> "connected"]
  /\ Contract!Obeyed(View) = [precheck |-> precheck, told |-> told,
                              outbox |-> Append(outbox, "exit"), life |-> "ended"]
  /\ \A e : Contract!Ended(View, e) = [precheck |-> precheck, told |-> told,
                                       outbox |-> outbox \o <<e, "exit">>, life |-> "ended"]
PROOF
<1>1. View.outbox = outbox
  BY DEF View
<1>2. Contract!Up(View) = [View EXCEPT !.life = "connected", !.outbox = Append(outbox, "connected")]
  BY <1>1 DEF Contract!Up
<1>3. Contract!Obeyed(View) = [View EXCEPT !.life = "ended", !.outbox = Append(outbox, "exit")]
  BY <1>1 DEF Contract!Obeyed
<1>4. \A e : Contract!Ended(View, e) = [View EXCEPT !.life = "ended", !.outbox = outbox \o <<e, "exit">>]
  BY <1>1 DEF Contract!Ended
<1>6. ASSUME NEW q, NEW l
      PROVE  [View EXCEPT !.life = l, !.outbox = q]
               = [precheck |-> precheck, told |-> told, outbox |-> q, life |-> l]
  <2> DEFINE w == [precheck |-> precheck, told |-> told, outbox |-> outbox, life |-> l]
  <2>1. [View EXCEPT !.life = l] = w
    BY DEF View
  <2>2. [w EXCEPT !.outbox = q] = [precheck |-> precheck, told |-> told, outbox |-> q, life |-> l]
    OBVIOUS
  <2>3. [View EXCEPT !.life = l, !.outbox = q] = [[View EXCEPT !.life = l] EXCEPT !.outbox = q]
    OBVIOUS
  <2> QED BY <2>1, <2>2, <2>3
<1> QED BY <1>2, <1>3, <1>4, <1>6

\* a step of the contract of each kind
LEMMA Moves ==
  /\ Quiet => View' = View
  /\ ComesUp => Contract!Next
  /\ GoesDown => Contract!Next
  /\ \A e \in Contract!EndingsOf(View) : EndsWith(e) => Contract!Next
  /\ Obeys => Contract!Next
PROOF
<1>1. Quiet => View' = View
  BY ViewParts DEF Quiet
<1>2. ComesUp => Contract!Next
  <2> SUFFICES ASSUME ComesUp PROVE View' = Contract!Up(View) /\ View.life \notin {"connected", "ended"}
    BY DEF Contract!Next, Contract!Step
  <2> QED BY ViewParts, ViewMoves DEF ComesUp
<1>3. GoesDown => Contract!Next
  <2> SUFFICES ASSUME GoesDown PROVE View' = Contract!Down(View) /\ View.life = "connected"
    BY DEF Contract!Next, Contract!Step
  <2> QED BY ViewParts DEF GoesDown, Contract!Down
<1>4. ASSUME NEW e \in Contract!EndingsOf(View), EndsWith(e) PROVE Contract!Next
  <2>1. View' = Contract!Ended(View, e) /\ View.life # "ended"
    BY ViewParts, ViewMoves, <1>4 DEF EndsWith
  <2> QED BY <2>1 DEF Contract!Next, Contract!Step
<1>5. Obeys => Contract!Next
  <2> SUFFICES ASSUME Obeys
               PROVE  View' = Contract!Obeyed(View) /\ View.life # "ended" /\ View.told
    BY DEF Contract!Next, Contract!Step
  <2> QED BY ViewParts, ViewMoves DEF Obeys
<1> QED BY <1>1, <1>2, <1>3, <1>4, <1>5

LEMMA ToldMoves == Told => Contract!Next
PROOF
<1> SUFFICES ASSUME Told PROVE View' = [View EXCEPT !.told = TRUE]
  BY DEF Contract!Next, Contract!Tell
<1>1. told' = TRUE /\ UNCHANGED <<precheck, outbox>> /\ Life' = Life
  BY DEF Told, Life, View, shim, opts, ends
<1>2. [View EXCEPT !.told = TRUE]
        = [precheck |-> precheck, told |-> TRUE, outbox |-> outbox, life |-> Life]
  BY ONLY ViewEdits
<1>3. View' = [precheck |-> precheck', told |-> told', outbox |-> outbox', life |-> Life']
  BY ViewParts
<1> QED BY ONLY <1>1, <1>2, <1>3

LEMMA TakenMoves == Taken => Contract!Next
PROOF
<1> SUFFICES ASSUME Taken PROVE View.outbox # <<>> /\ View' = [View EXCEPT !.outbox = Tail(View.outbox)]
  BY DEF Contract!Next, Contract!Take
<1>1. outbox # <<>> /\ outbox' = Tail(outbox) /\ UNCHANGED <<precheck, told>> /\ Life' = Life
  BY DEF Taken, Life, View, shim, opts
<1>2. View.outbox = outbox
  BY DEF View
<1>3. [View EXCEPT !.outbox = Tail(outbox)]
        = [precheck |-> precheck, told |-> told, outbox |-> Tail(outbox), life |-> Life]
  BY ONLY ViewEdits
<1>4. View' = [precheck |-> precheck', told |-> told', outbox |-> outbox', life |-> Life']
  BY ViewParts
<1> QED BY ONLY <1>1, <1>2, <1>3, <1>4

\* what a worker says last
LEMMA LastWords ==
  ASSUME NEW q \in Seq(Reports)
  PROVE  /\ q \o Append(<<>>, "exit") = Append(q, "exit")
         /\ \A e : q \o Append(<<e>>, "exit") = q \o <<e, "exit">>
PROOF OBVIOUS

\* Every step of the site is one the contract allows, or shows nothing of itself.
LEMMA Refines == IInv /\ [Next]_vars => [Contract!Next]_View
PROOF
<1> SUFFICES ASSUME IInv, [Next]_vars
             PROVE  \/ Quiet \/ ComesUp \/ GoesDown \/ Obeys
                    \/ \E e \in Contract!EndingsOf(View) : EndsWith(e)
                    \/ Contract!Next
  BY Moves
<1>a. outbox \in Seq(Reports)
  BY DEF IInv, TypeOK
<1>b. /\ outbox \o Append(<<>>, "exit") = Append(outbox, "exit")
      /\ \A e : outbox \o Append(<<e>>, "exit") = outbox \o <<e, "exit">>
  BY <1>a, LastWords
<1>c. Life = IF gone THEN "ended"
             ELSE IF attached /\ state = "idle" THEN "connected"
             ELSE IF inited THEN "lost" ELSE "starting"
  BY DEF Life, View
<1>d. Life' = IF gone' THEN "ended"
              ELSE IF attached' /\ state' = "idle" THEN "connected"
              ELSE IF inited' THEN "lost" ELSE "starting"
  BY DEF Life, View
<1>e. TypeRest /\ StageInv /\ LinkInv /\ StopInv /\ LeavesNothing
  BY DEF IInv, TypeOK, TypeRest
<1> USE <1>b, <1>c, <1>d, <1>e, EndingsByLife
        DEF TypeRest, ShimTypeOK, StageInv, LinkInv, StopInv, LeavesNothing, Untouched, Runs,
            shim, opts, timers, ends, Nothing, Quiet, ComesUp, GoesDown, Obeys, EndsWith
<1>1. CASE Start
  <2>1. CASE ~finished /\ StartEnds("config")
    <3>1. Life = "starting" /\ ~attached
      BY <1>1, <2>1 DEF Start
    <3>2. EndsWith("config")
      BY <1>1, <2>1, <3>1 DEF Start, StartEnds, Finish, Stop, StopUnconnected, Leave
    <3> QED BY <3>1, <3>2
  <2>2. CASE UNCHANGED <<shim, mqtt, gas, ends>>
    BY <1>1, <2>2 DEF Start
  <2> QED BY <1>1, <2>1, <2>2 DEF Start
<1>2. CASE LookedUp
  BY <1>2 DEF LookedUp, Resolved, GivesUp, Connect, Open, StartEnds, Finish, Stop, StopUnconnected, StopConnected, Disconnect, Leave
<1>3. CASE Described
  BY <1>3 DEF Described, GivesUp, Connect, Open, StartEnds, Finish, Stop, StopUnconnected, StopConnected, Disconnect, Leave
<1>4. CASE TunnelStarts
  BY <1>4 DEF TunnelStarts, ClientStarts
<1>5. CASE TunnelStartFails
  BY <1>5 DEF TunnelStartFails, ClientStartFails, OnError
<1>6. CASE TunnelUp
  BY <1>6 DEF TunnelUp, LibConnects, OnConnected
<1>7. CASE TunnelUpThrows
  BY <1>7 DEF TunnelUpThrows
<1>8. CASE TunnelChanges
  BY <1>8 DEF TunnelChanges, LibFails, LibRefused, LibTrips, LibLoses
<1>9. CASE TunnelErrs
  BY <1>9 DEF TunnelErrs, Judge, Forwards, OnError
<1>10. CASE TunnelEnds
  BY <1>10 DEF TunnelEnds, LibEnds, Resolve, Leave
<1>11. CASE Telegram
  BY <1>11 DEF Telegram
<1>12. CASE TelegramThrows
  BY <1>12 DEF TelegramThrows, Finish, Stop, StopUnconnected, StopConnected, Disconnect, Leave
<1>13. CASE HeldWritten
  BY <1>13 DEF HeldWritten
<1>14. CASE TimerFires
  BY <1>14 DEF TimerFires, Finish, Stop, StopUnconnected, StopConnected, Disconnect, Leave
<1>15. CASE StopExpires
  BY <1>15 DEF StopExpires, Resolve, Leave
<1>16. CASE TakeExit
  BY <1>16 DEF TakeExit, ExitWhileStopping, Stop, StopUnconnected, StopConnected, Disconnect, Leave
<1>17. CASE ThreadDies
  BY <1>17 DEF ThreadDies, Leave
<1>18. CASE Told
  BY <1>18, ToldMoves
<1>19. CASE Taken
  BY <1>19, TakenMoves
<1>20. CASE UNCHANGED vars
  BY <1>20 DEF vars
<1> QED BY <1>1, <1>2, <1>3, <1>4, <1>5, <1>6, <1>7, <1>8, <1>9, <1>10, <1>11, <1>12, <1>13, <1>14, <1>15, <1>16, <1>17, <1>18, <1>19, <1>20 DEF Next

-----------------------------------------------------------------------------
\* Every variable of the site, the shim and the reports keeps its shape.
THEOREM TypeCorrect == Spec => []TypeOK
PROOF
<1>1. IInv => TypeOK
  BY DEF IInv
<1> QED BY <1>1, Invariant, PTL

\* A site that has stopped leaves no tunnel, MQTT client or handler behind
\* (site.js:18), in a thread or in the main thread, whenever it is stopped.
THEOREM NothingLeft == Spec => []LeavesNothing
PROOF
<1>1. IInv => LeavesNothing
  BY DEF IInv
<1> QED BY <1>1, Invariant, PTL

\* Whenever the shim hides the errors of an outage (ultimate-shim.js:45) the
\* recovery timer of site.js is running.
THEOREM OutagesTimed == Spec => []OutageIsTimed
PROOF
<1>1. IInv => OutageIsTimed
  BY DEF IInv
<1> QED BY <1>1, Invariant, PTL

\* The recovery timer never runs against a tunnel that is up.
THEOREM TimersMeanOutages == Spec => []TimerMeansOutage
PROOF
<1>1. IInv => TimerMeansOutage
  BY DEF IInv, LinkInv, TimerMeansOutage
<1> QED BY <1>1, Invariant, PTL

\* A site on the knxultimate stack implements the contract that service.js
\* relies on: what Supervisor assumes of a worker is what site.js and
\* connection.js do.
THEOREM ContractKept == Spec => KeepsContract
PROOF
<1>1. Init => Contract!Init
  <2> SUFFICES ASSUME Init PROVE View = Contract!Fresh(precheck) /\ precheck \in BOOLEAN
    BY DEF Contract!Init
  <2> QED BY DEF Init, View, Contract!Fresh
<1>2. IInv /\ [Next]_vars => [Contract!Next]_View
  BY Refines
<1> QED BY <1>1, <1>2, Invariant, PTL DEF Spec, KeepsContract, Contract!Spec
=============================================================================
