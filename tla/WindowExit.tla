------------------------------ MODULE WindowExit ------------------------------
(***************************************************************************)
(* How the program sees that its window was closed (src/src/alive.rs,       *)
(* src/src/window.rs and spawn_window of src/src/main.rs, on Linux): by the *)
(* streams that its pages hold open, by the browser process of its profile, *)
(* or by a signal; and how the server then comes to an end.                 *)
(*                                                                          *)
(* Time passes in seconds, and only when nothing is due.                    *)
(***************************************************************************)
EXTENDS Integers, FiniteSets

CONSTANTS
  Stream,   \* connections to /api/alive at a time
  None,
  Grace,    \* wait_closed is given 10 seconds
  Ping,     \* a stream is written to every 2 seconds
  Search,   \* Watch::wait looks for the browser for 15 seconds
  Adopting  \* a program that takes over waits 15 seconds for a page

WindowParameters ==
  /\ IsFiniteSet(Stream) /\ None \notin {"page", "window", "signal"}
  /\ Grace \in Nat \ {0} /\ Search \in Nat /\ Adopting \in Nat
  \* A page stays connected while wait_closed looks at least once.
  /\ Ping \in Nat /\ Ping >= 2

VARIABLES
  opener,   \* spawn_window: what became of the window
  wait,     \* seconds until a program that takes over looks at `seen`
  stream,   \* whether its page is there; one that lost its page is still counted
  write,    \* seconds until the next write to a stream
  seen,     \* Alive::seen
  waiter, idle,            \* wait_closed
  watch, found, searched,  \* Watch::wait
  browser,  \* the browser of the profile runs
  due,      \* who is to run in this second
  why,      \* the first message of the quit channel
  server,
  gone      \* history: seconds for which there was nothing left to wait for

vars == <<opener, wait, stream, write, seen, waiter, idle, watch, found, searched,
          browser, due, why, server, gone>>

watchVars == <<watch, found, searched>>
timers == <<wait, write, due, searched>>

Late == IF Grace + Ping > Search + 1 THEN Grace + Ping ELSE Search + 1

TypeOK ==
  /\ opener \in {"adopting", "asking", "window", "detached", "adopted", "failed", "none"}
  /\ wait \in 0..Adopting /\ write \in [Stream -> 0..Ping]
  /\ stream \in [Stream -> {"none", "open", "broken"}]
  /\ seen \in BOOLEAN /\ found \in BOOLEAN /\ browser \in BOOLEAN
  /\ waiter \in {"off", "on", "done"} /\ watch \in {"off", "on", "done"}
  /\ idle \in 0..Grace /\ searched \in 0..Search + 1
  /\ due \subseteq {"waiter", "watch"}
  /\ why \in {"page", "window", "signal", None}
  /\ server \in {"serving", "closing", "returned"} /\ gone \in 0..Late + 1
  /\ (\E s \in Stream : stream[s] # "none") => seen

\* main: --open, --adopt or neither.
Init ==
  /\ opener \in {"asking", "adopting", "none"} /\ wait = Adopting
  /\ stream = [s \in Stream |-> "none"] /\ write = [s \in Stream |-> 0]
  /\ seen = FALSE /\ waiter = "off" /\ idle = 0
  /\ watch = "off" /\ found = FALSE /\ searched = 0
  /\ browser \in BOOLEAN /\ due = {} /\ why = None /\ server = "serving" /\ gone = 0

Running == server # "returned"
Connected == \E s \in Stream : stream[s] = "open"
Clients == Cardinality({s \in Stream : stream[s] # "none"})

Quit(reason) == why' = IF why = None THEN reason ELSE why
-----------------------------------------------------------------------------
\* stream() and its first event, which is sent at once: a page that is gone
\* by then is noticed by the second.  After `closing` the stream ends at once.
PageConnects(s) ==
  /\ Running /\ stream[s] = "none" /\ seen' = TRUE
  /\ IF server = "closing" THEN UNCHANGED <<stream, write, gone>>
     ELSE /\ stream' = [stream EXCEPT ![s] = "open"]
          /\ write' = [write EXCEPT ![s] = Ping] /\ gone' = 0
  /\ UNCHANGED <<opener, wait, waiter, idle, watchVars, browser, due, why, server>>

\* The page is closed or reloaded; the server learns of it when it writes.
PageLeaves(s) ==
  /\ Running /\ stream[s] = "open"
  /\ stream' = [stream EXCEPT ![s] = "broken"]
  /\ UNCHANGED <<opener, timers, seen, waiter, idle, watch, found, browser, why, server, gone>>

\* Mutant: a stream does not look at `closing`.
StreamWakesDeaf(s) ==
  /\ Running /\ stream[s] # "none" /\ write[s] = 0
  /\ IF stream[s] = "broken"
     THEN stream' = [stream EXCEPT ![s] = "none"] /\ UNCHANGED write
     ELSE write' = [write EXCEPT ![s] = Ping] /\ UNCHANGED stream
  /\ UNCHANGED <<opener, wait, due, seen, waiter, idle, watchVars, browser, why, server, gone>>

\* The next event of a stream, or its end: Client is dropped.
StreamWakes(s) ==
  /\ Running /\ stream[s] # "none" /\ write[s] = 0
  /\ IF server = "closing" \/ stream[s] = "broken"
     THEN stream' = [stream EXCEPT ![s] = "none"] /\ UNCHANGED write
     ELSE write' = [write EXCEPT ![s] = Ping] /\ UNCHANGED stream
  /\ UNCHANGED <<opener, wait, due, seen, waiter, idle, watchVars, browser, why, server, gone>>

\* Mutant: seconds without a page are summed up.
WaiterTicksSumming ==
  /\ Running /\ "waiter" \in due /\ due' = due \ {"waiter"}
  /\ idle' = IF seen /\ Clients = 0 THEN idle + 1 ELSE idle
  /\ IF idle' >= Grace THEN waiter' = "done" /\ Quit("page") ELSE UNCHANGED <<waiter, why>>
  /\ UNCHANGED <<opener, wait, stream, write, seen, watchVars, browser, server, gone>>

\* wait_closed.
WaiterTicks ==
  /\ Running /\ "waiter" \in due /\ due' = due \ {"waiter"}
  /\ idle' = IF seen /\ Clients = 0 THEN idle + 1 ELSE 0
  /\ IF idle' >= Grace THEN waiter' = "done" /\ Quit("page") ELSE UNCHANGED <<waiter, why>>
  /\ UNCHANGED <<opener, wait, stream, write, seen, watchVars, browser, server, gone>>
-----------------------------------------------------------------------------
\* A program that took over finds a page of its predecessor, or opens a window.
Adopted ==
  /\ Running /\ opener = "adopting" /\ wait = 0
  /\ opener' = IF seen THEN "adopted" ELSE "asking"
  /\ waiter' = IF seen THEN "on" ELSE "off"
  /\ UNCHANGED <<timers, stream, seen, idle, watch, found, browser, why, server, gone>>

\* window::open has started the browser, or handed the address to a running one
\* or to the default browser, or failed.
Result == {"window", "detached", "failed"}

\* spawn_window acts on it.
Opened(result) ==
  /\ Running /\ opener = "asking"
  /\ opener' = result
  /\ waiter' = IF result = "failed" THEN "off" ELSE "on"
  /\ watch' = IF result = "window" THEN "on" ELSE "off"
  /\ UNCHANGED <<timers, stream, seen, idle, found, browser, why, server, gone>>

\* Mutant: only a page that was seen is taken for a closed window.
WatchPollsSeen ==
  /\ Running /\ "watch" \in due /\ due' = due \ {"watch"}
  /\ found' = (found \/ browser)
  /\ IF ~browser /\ (found \/ searched > Search)
     THEN watch' = "done" /\ IF found \/ seen THEN Quit("window") ELSE UNCHANGED why
     ELSE UNCHANGED <<watch, why>>
  /\ UNCHANGED <<opener, wait, stream, write, seen, waiter, idle, searched, browser, server, gone>>

\* One round of Watch::wait, which asks every 0.7 seconds: the browser has ended,
\* or was never found and there is no page either.
WatchPolls ==
  /\ Running /\ "watch" \in due /\ due' = due \ {"watch"}
  /\ found' = (found \/ browser)
  /\ IF ~browser /\ (found \/ searched > Search)
     THEN watch' = "done" /\ IF found \/ ~seen THEN Quit("window") ELSE UNCHANGED why
     ELSE UNCHANGED <<watch, why>>
  /\ UNCHANGED <<opener, wait, stream, write, seen, waiter, idle, searched, browser, server, gone>>

\* The browser of the profile starts late, is another one, or ends.
BrowserChanges ==
  /\ Running /\ browser' = ~browser
  /\ gone' = IF browser' /\ ~seen /\ server = "serving" THEN 0 ELSE gone
  /\ UNCHANGED <<opener, timers, stream, seen, waiter, idle, watch, found, why, server>>

\* spawn_signal_watch.
Signal ==
  /\ Running /\ Quit("signal")
  /\ UNCHANGED <<opener, timers, stream, seen, waiter, idle, watch, found, browser, server, gone>>
-----------------------------------------------------------------------------
\* The future given to with_graceful_shutdown.
ServerCloses ==
  /\ server = "serving" /\ why # None
  /\ server' = "closing" /\ gone' = 0
  /\ UNCHANGED <<opener, timers, stream, seen, waiter, idle, watch, found, browser, why>>

\* axum::serve returns when no connection is left; main goes on to shutdown.
ServerReturns ==
  /\ server = "closing" /\ Clients = 0
  /\ server' = "returned"
  /\ UNCHANGED <<opener, timers, stream, seen, waiter, idle, watch, found, browser, why, gone>>

\* Nothing is left that the program should stay for.
Forsaken ==
  \/ server = "closing"
  \/ /\ waiter = "on" /\ ~Connected
     /\ seen \/ (opener = "window" /\ ~browser)

Less(n) == IF n = 0 THEN 0 ELSE n - 1

Second ==
  /\ Running /\ due = {} /\ (opener = "adopting" => wait > 0)
  /\ \A s \in Stream : stream[s] # "none" => write[s] > 0
  /\ server = "serving" => why = None
  /\ server = "closing" => Clients > 0
  /\ wait' = Less(wait) /\ write' = [s \in Stream |-> Less(write[s])]
  /\ due' = {w \in {"waiter", "watch"} : "on" = IF w = "waiter" THEN waiter ELSE watch}
  /\ searched' = IF watch = "on" /\ searched <= Search THEN searched + 1 ELSE searched
  /\ gone' = IF ~Forsaken THEN 0 ELSE IF gone <= Late THEN gone + 1 ELSE gone
  /\ UNCHANGED <<opener, stream, seen, waiter, idle, watch, found, browser, why, server>>

Next ==
  \/ \E s \in Stream : PageConnects(s) \/ PageLeaves(s) \/ StreamWakes(s)
  \/ WaiterTicks \/ WatchPolls \/ Adopted \/ BrowserChanges \/ Signal
  \/ \E result \in Result : Opened(result)
  \/ ServerCloses \/ ServerReturns \/ Second

Spec == Init /\ [][Next]_vars
-----------------------------------------------------------------------------
(* A page that is reloaded, or one of several that is closed, does not end   *)
(* the program: it takes its pages for closed only when none was there for   *)
(* as long as the grace period (10 seconds in a row), give or take a second. *)
ReloadDoesNotEnd ==
  [][why = None /\ why' = "page" => ~Connected /\ gone >= Grace - 1]_vars

(* Closing the window ends the program, and in time: when its pages are gone, *)
(* or neither a page nor the browser of its profile was ever found, it quits  *)
(* within the grace period and a ping, or the time of the search.             *)
GoneWindowEnds == server = "serving" /\ why = None => gone <= Late

(* Open streams do not keep the server from returning: each ends at its next  *)
(* event (graceful shutdown would wait for them forever).                     *)
ClosingServerReturns == server = "closing" => gone <= Ping
=============================================================================
