------------------------------- MODULE PartsProofs -------------------------------
(***************************************************************************)
(* The parts side by side: each of them behaves as it does on its own, so   *)
(* that what the modules this one extends prove of it holds here.           *)
(*                                                                          *)
(* And what is proved of the last part, the closing of the window, for any  *)
(* number of pages, any grace period and any time between pings of at least *)
(* two seconds: a reload does not end the program, a server that closes     *)
(* returns, and a closed window ends the program in time.                   *)
(***************************************************************************)
EXTENDS Parts, ProcessGroupProofs, HelloProofs, EtwWorkerProofs

Counted(s) == stream[s] # "none"
Due == "waiter" \in due

TypesInv ==
  /\ stream \in [Stream -> {"none", "open", "broken"}] /\ write \in [Stream -> 0..Ping]
  /\ waiter \in {"off", "on", "done"} /\ server \in {"serving", "closing", "returned"}
  /\ idle \in Nat /\ gone \in Nat /\ seen \in BOOLEAN
  /\ (Due => waiter = "on") /\ (idle > 0 => seen)
  /\ (opener \in {"asking", "adopting"} => waiter = "off") /\ (waiter = "off" => idle = 0)
  /\ (waiter = "on" => idle < Grace)
  /\ server # "serving" => why # None

\* While seconds without a page are counted, a stream that is there is a new one.
FreshInv ==
  waiter = "on" /\ idle > 0 /\ server = "serving" =>
    \A s \in Stream : Counted(s) => write[s] = Ping \/ (Due /\ write[s] = Ping - 1)

\* No more of them are counted than have passed, or a stream has come just now.
CountInv ==
  waiter = "on" /\ server = "serving" =>
    \/ idle <= gone \/ (~Due /\ idle <= gone + 1)
    \/ \E s \in Stream : Counted(s)

\* A stream of a closing server ends in time.
ClosingInv ==
  server = "closing" =>
    gone <= Ping /\ \A s \in Stream : Counted(s) => write[s] + gone <= Ping

WindowInv == TypesInv /\ FreshInv /\ CountInv /\ ClosingInv

(* No client is counted exactly when there is no stream.                      *)
LEMMA NoClients ==
  ASSUME WindowParameters
  PROVE  (Clients = 0 <=> \A s \in Stream : ~Counted(s)) /\ (Clients > 0 => Clients # 0)
<1> DEFINE S == {s \in Stream : stream[s] # "none"}
<1>1. IsFiniteSet(S)
  BY FS_Subset DEF WindowParameters
<1>2. Clients \in Nat /\ (Clients = 0 <=> S = {})
  BY <1>1, FS_EmptySet, FS_CardinalityType DEF Clients
<1>3. S = {} <=> \A s \in Stream : ~Counted(s)
  BY DEF Counted
<1> HIDE DEF S
<1> QED BY <1>2, <1>3

LEMMA InitInv == ASSUME WindowParameters, Init PROVE WindowInv
<1>1. TypesInv
  <2>1. /\ stream \in [Stream -> {"none", "open", "broken"}]
        /\ write \in [Stream -> 0..Ping]
    BY DEF WindowParameters, Init
  <2>2. /\ waiter = "off" /\ server = "serving" /\ idle = 0 /\ gone = 0
        /\ seen \in BOOLEAN /\ ~Due
    BY DEF Init, Due
  <2> QED BY <2>1, <2>2 DEF TypesInv
<1>2. FreshInv /\ CountInv /\ ClosingInv
  BY DEF Init, FreshInv, CountInv, ClosingInv
<1> QED BY <1>1, <1>2 DEF WindowInv

(* Steps that change neither streams nor counts keep the invariant.           *)
LEMMA QuietStep ==
  ASSUME WindowParameters, WindowInv,
         UNCHANGED <<stream, write, idle, gone, seen, server>>,
         Due' <=> Due, Due => waiter' = "on",
         waiter' \in {"off", "on", "done"}, waiter' # waiter => waiter = "off",
         opener' \in {"asking", "adopting"} => waiter' = "off", waiter' = "off" => waiter = "off",
         why # None => why' # None
  PROVE  WindowInv'
<1>1. TypesInv'
  BY DEF WindowInv, TypesInv, WindowParameters
<1>2. FreshInv' /\ CountInv'
  BY DEF WindowInv, TypesInv, FreshInv, CountInv, Counted
<1>3. ClosingInv'
  BY DEF WindowInv, ClosingInv, Counted
<1> QED BY <1>1, <1>2, <1>3 DEF WindowInv

LEMMA PageStep ==
  ASSUME WindowParameters, WindowInv, NEW s \in Stream,
         PageConnects(s) \/ PageLeaves(s) \/ StreamWakes(s)
  PROVE  WindowInv'
<1> USE DEF WindowInv, TypesInv, FreshInv, CountInv, ClosingInv, Due, Counted, WindowParameters
<1>1. CASE PageConnects(s)
  <2>1. CASE server = "closing"
    BY <1>1, <2>1 DEF PageConnects, watchVars
  <2>2. CASE server # "closing"
    <3>1. /\ stream' = [stream EXCEPT ![s] = "open"] /\ write' = [write EXCEPT ![s] = Ping]
          /\ gone' = 0 /\ seen' = TRUE
          /\ UNCHANGED <<opener, waiter, idle, due, why, server>>
      BY <1>1, <2>2 DEF PageConnects
    <3>2. server = "serving"
      BY <1>1, <2>2 DEF PageConnects, Running
    <3>3. TypesInv'
      BY <3>1
    <3>4. FreshInv'
      BY <3>1, <3>2
    <3>5. CountInv' /\ ClosingInv'
      BY <3>1, <3>2
    <3> QED BY <3>3, <3>4, <3>5
  <2> QED BY <2>1, <2>2
<1>2. CASE PageLeaves(s)
  <2>1. /\ stream[s] = "open" /\ stream' = [stream EXCEPT ![s] = "broken"]
        /\ UNCHANGED <<opener, write, waiter, idle, due, why, server, seen, gone>>
    BY <1>2 DEF PageLeaves, timers
  <2>2. TypesInv' /\ \A t \in Stream : Counted(t)' <=> Counted(t)
    BY <2>1
  <2>3. FreshInv' /\ CountInv'
    BY <2>1, <2>2
  <2>4. ClosingInv'
    BY <2>1, <2>2
  <2> QED BY <2>2, <2>3, <2>4
<1>3. CASE StreamWakes(s)
  <2>1. /\ Counted(s) /\ write[s] = 0 /\ server # "returned"
        /\ UNCHANGED <<opener, waiter, idle, due, why, server, seen, gone>>
    BY <1>3 DEF StreamWakes, Running
  <2>2. waiter = "on" /\ server = "serving" => idle = 0
    BY <2>1
  <2>3. CASE server = "closing" \/ stream[s] = "broken"
    <3>1. stream' = [stream EXCEPT ![s] = "none"] /\ write' = write
      BY <1>3, <2>3 DEF StreamWakes
    <3>2. TypesInv' /\ FreshInv'
      BY <2>1, <2>2, <3>1
    <3>3. CountInv' /\ ClosingInv'
      BY <2>1, <2>2, <3>1
    <3> QED BY <3>2, <3>3
  <2>4. CASE ~(server = "closing" \/ stream[s] = "broken")
    <3>1. stream' = stream /\ write' = [write EXCEPT ![s] = Ping]
      BY <1>3, <2>4 DEF StreamWakes
    <3>2. TypesInv' /\ FreshInv'
      BY <2>1, <2>2, <3>1
    <3>3. CountInv' /\ ClosingInv'
      BY <2>1, <2>2, <2>4, <3>1
    <3> QED BY <3>2, <3>3
  <2> QED BY <2>3, <2>4
<1> QED BY <1>1, <1>2, <1>3

LEMMA WaiterStep ==
  ASSUME WindowParameters, WindowInv, WaiterTicks
  PROVE  WindowInv'
<1> USE DEF WindowInv, TypesInv, FreshInv, CountInv, ClosingInv, Due, Counted, WindowParameters
<1>1. /\ Due /\ due' = due \ {"waiter"} /\ server # "returned" /\ waiter = "on"
      /\ idle' = IF seen /\ Clients = 0 THEN idle + 1 ELSE 0
      /\ UNCHANGED <<opener, stream, write, seen, server, gone>>
      /\ (idle' < Grace /\ waiter' = waiter) \/ waiter' = "done"
      /\ why' = why \/ why' = IF why = None THEN "page" ELSE why
  BY NoClients DEF WaiterTicks, Quit, Running, watchVars
<1>2. TypesInv'
  BY <1>1
<1>3. idle' > 0 => \A s \in Stream : ~Counted(s)
  BY <1>1, NoClients
<1>4. FreshInv'
  BY <1>1, <1>3
<1>5. CountInv'
  <2>1. idle' = 0 \/ idle' = idle + 1
    BY <1>1
  <2> QED BY <1>1, <1>2, <1>3, <2>1
<1>6. ClosingInv'
  BY <1>1
<1> QED BY <1>2, <1>4, <1>5, <1>6

LEMMA SecondStep ==
  ASSUME WindowParameters, WindowInv, Second
  PROVE  WindowInv'
<1> USE DEF WindowInv, TypesInv, FreshInv, CountInv, ClosingInv, Due, Counted, WindowParameters
<1>1. /\ ~Due /\ server # "returned" /\ (Due' <=> waiter = "on")
      /\ \A s \in Stream : Counted(s) => write[s] > 0
      /\ (server = "closing" => Clients > 0)
      /\ write' = [s \in Stream |-> Less(write[s])]
      /\ gone' = IF ~Forsaken THEN 0 ELSE IF gone <= Late THEN gone + 1 ELSE gone
      /\ UNCHANGED <<opener, stream, seen, waiter, idle, why, server>>
  BY DEF Second, Running
<1>2. \A s \in Stream : Less(write[s]) = IF write[s] = 0 THEN 0 ELSE write[s] - 1
  BY DEF Less
<1>3. /\ \A s \in Stream : write'[s] \in 0..Ping /\ (Counted(s) => write'[s] = write[s] - 1)
      /\ gone' \in Nat /\ gone' <= gone + 1
  BY <1>1, <1>2
<1>4. TypesInv'
  BY <1>1, <1>3
<1>5. FreshInv'
  BY <1>1, <1>3
<1>6. CountInv'
  <2>1. SUFFICES ASSUME waiter = "on", server = "serving", \A s \in Stream : ~Counted(s)
                 PROVE  idle <= gone'
    BY <1>1
  <2>2. CASE idle = 0
    BY <2>2, <1>3
  <2>3. CASE idle # 0
    <3>1. Forsaken
      BY <2>1, <2>3 DEF Forsaken, Connected
    <3>2. idle <= gone + 1
      BY <2>1, <1>1
    <3>3. gone' = gone + 1 \/ (gone > Late /\ gone' = gone)
      BY <1>1, <3>1 DEF Late
    <3>4. Late \in Nat /\ Late >= Grace /\ idle < Grace
      BY <2>1, <1>1 DEF Late
    <3> QED BY <3>2, <3>3, <3>4
  <2> QED BY <2>2, <2>3
<1>7. ClosingInv'
  <2>1. SUFFICES ASSUME server = "closing"
                 PROVE  gone' <= Ping /\ \A s \in Stream : Counted(s) => write'[s] + gone' <= Ping
    BY <1>1
  <2>2. \A s \in Stream : Counted(s) => write'[s] + gone' <= Ping
    BY <2>1, <1>3
  <2>3. PICK s \in Stream : Counted(s)
    BY <2>1, <1>1, NoClients
  <2> QED BY <2>2, <2>3, <1>3
<1> QED BY <1>4, <1>5, <1>6, <1>7

THEOREM WindowInvariant == ASSUME WindowParameters PROVE Spec => []WindowInv
<1>1. Init => WindowInv
  BY InitInv
<1>2. WindowInv /\ [Next]_vars => WindowInv'
  <2> SUFFICES ASSUME WindowInv, [Next]_vars PROVE WindowInv'
    OBVIOUS
  <2>1. ASSUME NEW s \in Stream, PageConnects(s) \/ PageLeaves(s) \/ StreamWakes(s)
        PROVE  WindowInv'
    BY <2>1, PageStep
  <2>2. CASE WaiterTicks
    BY <2>2, WaiterStep
  <2>3. CASE WatchPolls
    BY <2>3, QuietStep DEF WatchPolls, Quit, WindowInv, TypesInv, Due
  <2>4. CASE Adopted
    BY <2>4, QuietStep DEF Adopted, timers, WindowInv, TypesInv, Due
  <2>5. CASE BrowserChanges
    <3>1. /\ UNCHANGED <<stream, write, idle, seen, server, waiter, opener, why, due>>
          /\ gone' = gone \/ (gone' = 0 /\ seen = FALSE /\ server = "serving")
      BY <2>5 DEF BrowserChanges, timers, WindowInv, TypesInv
    <3> QED BY <3>1 DEF WindowInv, TypesInv, FreshInv, CountInv, ClosingInv, Counted, Due
  <2>6. CASE Signal
    BY <2>6, QuietStep DEF Signal, timers, Quit, WindowInv, TypesInv, Due
  <2>7. ASSUME NEW result \in Result, Opened(result)
        PROVE  WindowInv'
    BY <2>7, QuietStep DEF Opened, Result, timers, WindowInv, TypesInv, Due
  <2>8. CASE ServerCloses
    BY <2>8 DEF ServerCloses, timers, WindowInv, TypesInv, FreshInv, CountInv, ClosingInv,
                Counted, Due, WindowParameters
  <2>9. CASE ServerReturns
    BY <2>9 DEF ServerReturns, timers, WindowInv, TypesInv, FreshInv, CountInv, ClosingInv,
                Counted, Due
  <2>10. CASE Second
    BY <2>10, SecondStep
  <2>11. CASE UNCHANGED vars
    BY <2>11 DEF vars, watchVars, WindowInv, TypesInv, FreshInv, CountInv, ClosingInv, Counted, Due
  <2> QED BY <2>1, <2>2, <2>3, <2>4, <2>5, <2>6, <2>7, <2>8, <2>9, <2>10, <2>11 DEF Next
<1> QED BY <1>1, <1>2, PTL DEF Spec

(* The first reason to end is a closed page only when no page was there, and *)
(* had not been for the grace period less a second.                          *)
THEOREM PageEndIsLate == ASSUME WindowParameters PROVE Spec => ReloadDoesNotEnd
<1> DEFINE Step == why = None /\ why' = "page" => ~Connected /\ gone >= Grace - 1
<1>1. WindowInv /\ [Next]_vars => [Step]_vars
  <2> SUFFICES ASSUME WindowInv, Next, why = None, why' = "page"
               PROVE  ~Connected /\ gone >= Grace - 1
    BY DEF WindowParameters
  <2>1. WaiterTicks
    BY DEF Next, PageConnects, PageLeaves, StreamWakes, WatchPolls, Adopted, BrowserChanges,
           Signal, Opened, ServerCloses, ServerReturns, Second, Quit, WindowParameters, vars
  <2>2. /\ Due /\ waiter = "on" /\ server = "serving"
        /\ idle' = IF seen /\ Clients = 0 THEN idle + 1 ELSE 0
        /\ idle' >= Grace
    BY <2>1 DEF WaiterTicks, Due, Running, WindowInv, TypesInv, Quit, WindowParameters
  <2>3. Clients = 0 /\ idle + 1 >= Grace
    BY <2>2 DEF WindowParameters
  <2>4. \A s \in Stream : ~Counted(s)
    BY <2>3, NoClients
  <2>5. idle <= gone
    BY <2>2, <2>4 DEF WindowInv, CountInv
  <2> QED BY <2>3, <2>4, <2>5 DEF Connected, Counted, WindowInv, TypesInv, WindowParameters
<1> QED BY <1>1, WindowInvariant, PTL DEF Spec, ReloadDoesNotEnd

(* A server that closes has no stream left once a ping has passed.           *)
THEOREM ServerEndsInTime == ASSUME WindowParameters PROVE Spec => []ClosingServerReturns
<1>1. WindowInv => ClosingServerReturns
  BY DEF WindowInv, ClosingInv, ClosingServerReturns
<1> QED BY <1>1, WindowInvariant, PTL
-----------------------------------------------------------------------------
(* The window that is gone.                                                  *)

\* While neither a page nor the end of the browser was seen, the search is on.
WatchInv ==
  /\ searched \in 0..Search + 1
  /\ opener = "window" /\ ~seen /\ why = None => watch = "on"

\* What has passed since there was nothing left was spent on the pings of the
\* streams, then on the grace period, or else on the search.
GoneInv ==
  server = "serving" /\ why = None /\ gone > 0 =>
    /\ waiter = "on" /\ ~Connected
    /\ \A s \in Stream : Counted(s) => write[s] + gone <= Ping
    /\ seen /\ (\A s \in Stream : ~Counted(s)) => gone <= Ping + idle + (IF Due THEN 1 ELSE 0)
    /\ ~seen => /\ opener = "window" /\ ~browser /\ gone <= searched
                /\ "watch" \in due \/ searched <= Search

\* Steps that leave the streams, the search and the reason alone.
LEMMA QuietGone ==
  ASSUME WindowInv, WatchInv, GoneInv,
         UNCHANGED <<stream, write, idle, gone, seen, server, due, browser, searched>>,
         why = None \/ why' # None,
         \/ UNCHANGED <<opener, waiter, watch>>
         \/ waiter = "off" /\ (opener' = "window" => watch' = "on")
  PROVE  WatchInv' /\ GoneInv'
  BY DEF WatchInv, GoneInv, Connected, Counted, Due, WindowInv, TypesInv

LEMMA PageGone ==
  ASSUME WindowParameters, WindowInv, WatchInv, GoneInv, NEW s \in Stream,
         PageConnects(s) \/ PageLeaves(s) \/ StreamWakes(s)
  PROVE  WatchInv' /\ GoneInv'
<1> USE DEF WatchInv, GoneInv, Connected, Counted, Due
<1>1. CASE PageConnects(s)
  BY <1>1 DEF PageConnects, watchVars, Running, WindowInv, TypesInv
<1>2. CASE PageLeaves(s)
  BY <1>2 DEF PageLeaves, timers, WindowInv, TypesInv
<1>3. CASE StreamWakes(s)
  <2>1. /\ Counted(s) /\ write[s] = 0
        /\ UNCHANGED <<opener, due, seen, waiter, idle, watch, searched, browser, why, server, gone>>
        /\ \/ stream' = [stream EXCEPT ![s] = "none"] /\ write' = write
           \/ stream[s] = "open" /\ stream' = stream
    BY <1>3 DEF StreamWakes, watchVars, WindowInv, TypesInv
  <2>2. stream \in [Stream -> {"none", "open", "broken"}] /\ write \in [Stream -> 0..Ping]
        /\ idle \in Nat /\ gone \in Nat /\ Ping \in Nat
    BY DEF WindowInv, TypesInv, WindowParameters
  <2> QED BY <2>1, <2>2
<1> QED BY <1>1, <1>2, <1>3

LEMMA WaiterGone ==
  ASSUME WindowParameters, WindowInv, WatchInv, GoneInv, WaiterTicks
  PROVE  WatchInv' /\ GoneInv'
<1>1. /\ Due /\ due' = due \ {"waiter"}
      /\ idle' = IF seen /\ Clients = 0 THEN idle + 1 ELSE 0
      /\ UNCHANGED <<opener, stream, write, seen, watch, searched, browser, server, gone>>
      /\ (waiter' = waiter /\ why' = why) \/ why' # None
  BY DEF WaiterTicks, Quit, watchVars, WindowParameters, Due
<1>2. (\A s \in Stream : ~Counted(s)) => Clients = 0
  BY NoClients
<1>3. idle \in Nat /\ gone \in Nat /\ Ping \in Nat
  BY DEF WindowInv, TypesInv, WindowParameters
<1> QED BY <1>1, <1>2, <1>3 DEF WatchInv, GoneInv, Connected, Counted, Due

LEMMA SecondGone ==
  ASSUME WindowParameters, WindowInv, WatchInv, GoneInv, Second
  PROVE  WatchInv' /\ GoneInv'
<1>1. /\ due = {} /\ (server = "serving" => why = None)
      /\ \A s \in Stream : Counted(s) => write[s] > 0
      /\ write' = [s \in Stream |-> Less(write[s])]
      /\ (waiter = "on" <=> "waiter" \in due') /\ (watch = "on" <=> "watch" \in due')
      /\ searched' = IF watch = "on" /\ searched <= Search THEN searched + 1 ELSE searched
      /\ gone' = IF ~Forsaken THEN 0 ELSE IF gone <= Late THEN gone + 1 ELSE gone
      /\ UNCHANGED <<opener, stream, seen, waiter, idle, watch, browser, why, server>>
  BY DEF Second, Counted
<1>2. /\ stream \in [Stream -> {"none", "open", "broken"}] /\ write \in [Stream -> 0..Ping]
      /\ idle \in Nat /\ gone \in Nat /\ Ping \in Nat /\ Search \in Nat
      /\ searched \in 0..Search + 1
  BY DEF WindowInv, TypesInv, WindowParameters, WatchInv
<1>3. WatchInv'
  BY <1>1, <1>2 DEF WatchInv
<1>4. ASSUME server = "serving", why = None, gone' > 0
      PROVE  /\ waiter = "on" /\ ~Connected /\ (seen \/ (opener = "window" /\ ~browser))
             /\ gone' \in Nat /\ gone' <= gone + 1
  BY <1>1, <1>2, <1>4 DEF Forsaken
<1>5. ASSUME server = "serving", why = None, gone' > 0, NEW s \in Stream, Counted(s)
      PROVE  write'[s] + gone' <= Ping
  <2>1. write'[s] = write[s] - 1
    BY <1>1, <1>2, <1>5 DEF Less
  <2>2. write[s] + gone <= Ping
    BY <1>2, <1>5 DEF GoneInv
  <2> QED BY <1>2, <1>4, <1>5, <2>1, <2>2
<1>6. ASSUME server = "serving", why = None, gone' > 0, seen, \A s \in Stream : ~Counted(s)
      PROVE  gone' <= Ping + idle + 1
  <2>1. gone <= Ping + idle
    BY <1>1, <1>2, <1>6 DEF GoneInv, Due
  <2> QED BY <1>2, <1>4, <1>6, <2>1
<1>7. ASSUME server = "serving", why = None, gone' > 0, ~seen
      PROVE  gone' <= searched' /\ "watch" \in due'
  <2>1. watch = "on" /\ "watch" \in due'
    BY <1>1, <1>4, <1>7 DEF WatchInv
  <2>2. gone = 0 \/ (gone <= searched /\ searched <= Search)
    BY <1>1, <1>2, <1>7 DEF GoneInv
  <2> QED BY <1>1, <1>2, <1>4, <1>7, <2>1, <2>2
<1>8. GoneInv'
  BY <1>1, <1>4, <1>5, <1>6, <1>7 DEF GoneInv, Connected, Counted, Due
<1> QED BY <1>3, <1>8

(* A closed window ends the program: a gone one is noticed within the grace  *)
(* period and a ping, one that never showed up within the time of the search *)
(* (wait_closed of alive.rs, Watch::wait of window.rs).                      *)
THEOREM ClosedWindowEnds == ASSUME WindowParameters PROVE Spec => []GoneWindowEnds
<1> DEFINE Inv == WatchInv /\ GoneInv
<1>1. Init => Inv
  BY DEF Init, WatchInv, GoneInv, WindowParameters
<1>2. WindowInv /\ Inv /\ [Next]_vars => Inv'
  <2> SUFFICES ASSUME WindowInv, WatchInv, GoneInv, [Next]_vars PROVE WatchInv' /\ GoneInv'
    OBVIOUS
  <2>1. ASSUME NEW s \in Stream, PageConnects(s) \/ PageLeaves(s) \/ StreamWakes(s)
        PROVE  WatchInv' /\ GoneInv'
    BY <2>1, PageGone
  <2>2. CASE WaiterTicks
    BY <2>2, WaiterGone
  <2>3. CASE WatchPolls
    <3>1. /\ "waiter" \in due <=> "waiter" \in due'
          /\ UNCHANGED <<opener, stream, write, seen, waiter, idle, searched, browser, server, gone>>
      BY <2>3 DEF WatchPolls
    <3>2. \/ why' # None
          \/ watch' = "done" /\ seen /\ why' = why
          \/ /\ watch' = watch /\ why' = why
             /\ browser \/ ~(searched > Search)
      BY <2>3 DEF WatchPolls, Quit, WindowParameters
    <3>3. searched \in 0..Search + 1 /\ Search \in Nat
      BY DEF WatchInv, WindowParameters
    <3> QED BY <3>1, <3>2, <3>3 DEF WatchInv, GoneInv, Connected, Counted, Due
  <2>4. CASE Adopted
    BY <2>4, QuietGone DEF Adopted, timers, WindowInv, TypesInv
  <2>5. CASE BrowserChanges
    <3>1. /\ UNCHANGED <<opener, wait, write, due, searched, stream, seen, waiter, idle, watch,
                         found, why, server>>
          /\ browser' = ~browser
          /\ gone' = IF browser' /\ ~seen /\ server = "serving" THEN 0 ELSE gone
      BY <2>5 DEF BrowserChanges, timers
    <3> QED BY <3>1 DEF WatchInv, GoneInv, Connected, Counted, Due, WindowInv, TypesInv
  <2>6. CASE Signal
    BY <2>6, QuietGone DEF Signal, timers, Quit, WindowInv, TypesInv, WindowParameters
  <2>7. ASSUME NEW result \in Result, Opened(result)
        PROVE  WatchInv' /\ GoneInv'
    BY <2>7, QuietGone DEF Opened, Result, timers, WindowInv, TypesInv
  <2>8. CASE ServerCloses \/ ServerReturns
    BY <2>8 DEF ServerCloses, ServerReturns, timers, WatchInv, GoneInv
  <2>9. CASE Second
    BY <2>9, SecondGone
  <2>10. CASE UNCHANGED vars
    BY <2>10 DEF vars, watchVars, WatchInv, GoneInv, Connected, Counted, Due
  <2> QED BY <2>1, <2>2, <2>3, <2>4, <2>5, <2>6, <2>7, <2>8, <2>9, <2>10 DEF Next
<1>3. WindowInv /\ Inv => GoneWindowEnds
  <2> SUFFICES ASSUME WindowInv, WatchInv, GoneInv, server = "serving", why = None
               PROVE  gone <= Late
    BY DEF GoneWindowEnds
  <2>1. /\ gone \in Nat /\ idle \in Nat /\ Grace \in Nat \ {0} /\ Ping \in Nat /\ Search \in Nat
        /\ searched <= Search + 1 /\ (waiter = "on" => idle < Grace)
        /\ write \in [Stream -> 0..Ping]
    BY DEF WindowInv, TypesInv, WatchInv, WindowParameters
  <2>2. CASE gone = 0
    BY <2>1, <2>2 DEF Late
  <2>3. CASE gone > 0
    <3>1. CASE \E s \in Stream : Counted(s)
      <4>1. PICK s \in Stream : write[s] + gone <= Ping
        BY <2>3, <3>1 DEF GoneInv
      <4>2. gone <= Ping
        BY <2>1, <4>1
      <4> QED BY <2>1, <4>2 DEF Late
    <3>2. CASE seen /\ \A s \in Stream : ~Counted(s)
      <4>1. gone <= Ping + idle + 1 /\ idle < Grace
        BY <2>1, <2>3, <3>2 DEF GoneInv
      <4> QED BY <2>1, <4>1 DEF Late
    <3>3. CASE ~seen
      <4>1. gone <= searched /\ searched \in 0..Search + 1
        BY <2>3, <3>3 DEF GoneInv, WatchInv
      <4> QED BY <2>1, <4>1 DEF Late
    <3> QED BY <3>1, <3>2, <3>3
  <2> QED BY <2>1, <2>2, <2>3
<1> QED BY <1>1, <1>2, <1>3, WindowInvariant, PTL DEF Spec
-----------------------------------------------------------------------------
\* What TypeOK says that WindowInv does not.
LimitsInv ==
  /\ opener \in {"adopting", "asking", "window", "detached", "adopted", "failed", "none"}
  /\ wait \in 0..Adopting /\ found \in BOOLEAN /\ browser \in BOOLEAN
  /\ watch \in {"off", "on", "done"} /\ due \subseteq {"waiter", "watch"}
  /\ idle <= Grace /\ searched \in 0..Search + 1 /\ gone <= Late + 1
  /\ why \in {"page", "window", "signal", None}
  /\ \A s \in Stream : Counted(s) => seen

LEMMA LimitsKept ==
  ASSUME WindowParameters, WindowInv, LimitsInv, Next
  PROVE  LimitsInv'
<1> USE DEF LimitsInv, Counted
<1>1. /\ stream \in [Stream -> {"none", "open", "broken"}] /\ seen \in BOOLEAN
      /\ idle \in Nat /\ gone \in Nat /\ (waiter = "on" => idle < Grace)
      /\ Grace \in Nat \ {0} /\ Late \in Nat /\ Adopting \in Nat /\ Search \in Nat
  BY DEF WindowInv, TypesInv, WindowParameters, Late
<1>2. ASSUME NEW s \in Stream, PageConnects(s) PROVE LimitsInv'
  BY <1>1, <1>2 DEF PageConnects, watchVars
<1>3. ASSUME NEW s \in Stream, PageLeaves(s) PROVE LimitsInv'
  BY <1>1, <1>3 DEF PageLeaves, timers
<1>4. ASSUME NEW s \in Stream, StreamWakes(s) PROVE LimitsInv'
  BY <1>1, <1>4 DEF StreamWakes, watchVars
<1>5. CASE WaiterTicks
  <2>1. waiter = "on"
    BY <1>5 DEF WaiterTicks, WindowInv, TypesInv, Due
  <2>2. idle' \in {0, idle + 1} /\ idle' <= Grace
    BY <1>1, <1>5, <2>1 DEF WaiterTicks
  <2>3. why' \in {why, "page"} /\ due' \subseteq due
    BY <1>5 DEF WaiterTicks, Quit
  <2>4. UNCHANGED <<opener, wait, stream, seen, watch, found, searched, browser, gone>>
    BY <1>5 DEF WaiterTicks, watchVars
  <2> QED BY <1>1, <2>2, <2>3, <2>4
<1>6. CASE WatchPolls
  <2>1. why' \in {why, "window"} /\ due' \subseteq due /\ watch' \in {watch, "done"} /\ found' \in BOOLEAN
    BY <1>6 DEF WatchPolls, Quit
  <2>2. UNCHANGED <<opener, wait, stream, seen, idle, searched, browser, gone>>
    BY <1>6 DEF WatchPolls
  <2> QED BY <1>1, <2>1, <2>2
<1>7. CASE Adopted
  BY <1>1, <1>7 DEF Adopted, timers
<1>8. ASSUME NEW result \in Result, Opened(result) PROVE LimitsInv'
  BY <1>1, <1>8 DEF Opened, Result, timers
<1>9. CASE BrowserChanges
  <2>1. browser' \in BOOLEAN /\ gone' \in {gone, 0}
    BY <1>9 DEF BrowserChanges
  <2>2. UNCHANGED <<opener, wait, stream, seen, idle, watch, found, searched, due, why>>
    BY <1>9 DEF BrowserChanges, timers
  <2> QED BY <1>1, <2>1, <2>2
<1>10. CASE Signal
  BY <1>1, <1>10 DEF Signal, Quit, timers
<1>11. CASE ServerCloses \/ ServerReturns
  <2>1. gone' \in {gone, 0}
    BY <1>11 DEF ServerCloses, ServerReturns
  <2>2. UNCHANGED <<opener, wait, stream, seen, idle, watch, found, searched, browser, due, why>>
    BY <1>11 DEF ServerCloses, ServerReturns, timers
  <2> QED BY <1>1, <2>1, <2>2
<1>12. CASE Second
  <2>1. /\ wait' \in 0..Adopting /\ due' \subseteq {"waiter", "watch"}
        /\ searched' \in 0..Search + 1 /\ gone' <= Late + 1
    BY <1>1, <1>12 DEF Second, Less
  <2>2. UNCHANGED <<opener, stream, seen, idle, watch, found, browser, why>>
    BY <1>12 DEF Second
  <2> QED BY <1>1, <2>1, <2>2
<1> QED BY <1>2, <1>3, <1>4, <1>5, <1>6, <1>7, <1>8, <1>9, <1>10, <1>11, <1>12 DEF Next

(* The timers of the window keep their ranges, and a page that is there has   *)
(* been seen (Alive, wait_closed, Watch::wait).                               *)
THEOREM WindowTypes == ASSUME WindowParameters PROVE Spec => []TypeOK
<1>1. Init => LimitsInv
  <2> SUFFICES ASSUME Init PROVE LimitsInv
    OBVIOUS
  <2>1. /\ Late \in Nat /\ wait \in 0..Adopting /\ idle <= Grace /\ searched \in 0..Search + 1
        /\ gone = 0
    BY DEF Init, WindowParameters, Late
  <2>2. /\ opener \in {"adopting", "asking", "none"} /\ found \in BOOLEAN /\ browser \in BOOLEAN
        /\ watch = "off" /\ due = {} /\ why = None /\ \A s \in Stream : stream[s] = "none"
    BY DEF Init
  <2> QED BY <2>1, <2>2 DEF LimitsInv, Counted
<1>2. WindowInv /\ LimitsInv /\ [Next]_vars => LimitsInv'
  <2>1. ASSUME LimitsInv, UNCHANGED vars PROVE LimitsInv'
    BY <2>1 DEF LimitsInv, Counted, vars, watchVars
  <2> QED BY <2>1, LimitsKept
<1>3. WindowInv /\ LimitsInv => TypeOK
  BY DEF WindowInv, TypesInv, LimitsInv, Counted, TypeOK, WindowParameters
<1> QED BY <1>1, <1>2, <1>3, WindowInvariant, PTL DEF Spec
-----------------------------------------------------------------------------
(* A behaviour of the parts side by side is one of each of them: a part moves *)
(* by its own steps and otherwise stays as it is.                             *)
LEMMA PartsAreApart ==
  PartsSpec => GroupSpec /\ TlsSpec /\ QuicSpec /\ Spec /\ EtwSpec
<1>1. PartsInit => GroupInit /\ TlsInit /\ QuicInit /\ Init /\ EtwInit
  BY DEF PartsInit
<1>2. [PartsNext]_allVars => /\ [GroupNext]_groupVars /\ [TlsNext]_tlsVars /\ [QuicNext]_quicVars
                             /\ [Next]_vars /\ [EtwNext]_etwVars
  BY DEF PartsNext, allVars
<1> QED BY <1>1, <1>2, PTL DEF PartsSpec, GroupSpec, TlsSpec, QuicSpec, Spec, EtwSpec

(* The state of every part keeps its type and its limits: recorded processes  *)
(* (DumpMeta), the bytes of a hello (Flow), the numbers of Dedup and of the   *)
(* work queue.                                                                *)
THEOREM PartsTypes ==
  PartsSpec => []PartsTypeOK
<1>1. /\ GroupSpec => []GroupTypeOK
      /\ TlsSpec => []TlsTypeOK
      /\ QuicSpec => []QuicTypeOK
      /\ Spec => []TypeOK
      /\ EtwSpec => []EtwTypeOK
  BY PartsAssumption, GroupsTypes, TlsTypes, QuicTypes, WindowTypes, EtwTypes
<1>2. GroupTypeOK /\ TlsTypeOK /\ QuicTypeOK /\ TypeOK /\ EtwTypeOK => PartsTypeOK
  BY DEF PartsTypeOK
<1> QED BY <1>1, <1>2, PartsAreApart, PTL

(* What the run of the parts checks holds of them for every value of their    *)
(* constants: groups (MembersDescend, GroupIsOfSelected, GroupEndIsSeen),     *)
(* hellos (the names of TLS and QUIC, NearPacketIsOpened), the window         *)
(* (GoneWindowEnds, ClosingServerReturns, ReloadDoesNotEnd), and the worker   *)
(* on Windows (SavedIsWhole, RequestsAreAnswered).                            *)
THEOREM PartsAreCorrect ==
  PartsSpec => /\ [](MembersDescend /\ GroupIsOfSelected) /\ GroupEndIsSeen
               /\ [](TlsHelloIsNamed /\ QuicHelloIsNamed /\ NearPacketIsOpened)
               /\ NameIsOfItsConnection
               /\ [](GoneWindowEnds /\ ClosingServerReturns) /\ ReloadDoesNotEnd
               /\ [](SavedIsWhole /\ RequestsAreAnswered)
<1>1. GroupSpec => []MembersDescend /\ []GroupIsOfSelected /\ GroupEndIsSeen
  BY PartsAssumption, RecordedDescend, GroupsAreOfSelected, GroupEndsAreSeen
<1>2. TlsSpec => []TlsHelloIsNamed /\ NameIsOfItsConnection
  BY PartsAssumption, TlsHellosAreNamed, NamesAreOfTheirConnection
<1>3. QuicSpec => []QuicHelloIsNamed /\ []NearPacketIsOpened
  BY PartsAssumption, HellosAreNamed, NearPacketsOpen
<1>4. Spec => []GoneWindowEnds /\ []ClosingServerReturns /\ ReloadDoesNotEnd
  BY PartsAssumption, ClosedWindowEnds, ServerEndsInTime, PageEndIsLate
<1>5. EtwSpec => []SavedIsWhole /\ []RequestsAreAnswered
  BY PartsAssumption, SavedDumpsAreWhole, AnswersCome
<1> QED BY <1>1, <1>2, <1>3, <1>4, <1>5, PartsAreApart, PTL
=============================================================================
