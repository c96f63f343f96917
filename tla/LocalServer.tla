---------------------------- MODULE LocalServer -----------------------------
(***************************************************************************)
(* The server the desktop app runs itself (local-server.mjs): one child    *)
(* process at a time behind `server`, a start that concurrent callers      *)
(* share, and a stop that waits for a start in flight, drains the child    *)
(* and kills it when that takes too long.  A child told to stop, or        *)
(* killed, drains before it exits (entry.mjs).  A child whose log cannot   *)
(* be opened goes on, and the module never hears of it.  DesktopShell says *)
(* who asks for starts and stops; nothing orders the requests.             *)
(***************************************************************************)
EXTENDS Naturals

CONSTANTS
  Window,    \* callers of startLocalServer
  Stopper,   \* callers of stopLocalServer: a restart, a forgotten account, a quit
  MaxForks   \* bound: children forked

ASSUME LocalAssumption == MaxForks \in Nat

VARIABLES
  child,     \* the children
  forks,     \* how many there are
  server,    \* the running one, as the module sees it
  starting,  \* the start in flight
  opening,   \* windows that wait for it
  stop,      \* the stops under way
  asked,     \* forks that each stop has to end
  unlogged   \* children whose log could not be opened

localVars == <<child, forks, server, starting, opening, stop, asked, unlogged>>

Child == 1 .. MaxForks
NoChild == 0

\* "leaving": told to stop, or killed, and not gone yet.
ChildState == {"none", "booting", "listening", "leaving", "gone"}
NoStart == [step |-> "none", child |-> NoChild]
NoStop == [step |-> "none", child |-> NoChild]

LocalTypeOK ==
  /\ child \in [Child -> ChildState]
  /\ forks \in 0 .. MaxForks
  /\ server \in Child \cup {NoChild}
  /\ starting \in [step : {"probing"}, child : {NoChild}] \cup [step : {"booting"}, child : Child]
                    \cup {NoStart}
  /\ opening \subseteq Window
  /\ stop \in [Stopper -> [step : {"none", "settling", "draining"}, child : Child \cup {NoChild}]]
  /\ asked \in [Stopper -> 0 .. MaxForks + 1]
  /\ unlogged \subseteq Child

LocalInit ==
  /\ child = [c \in Child |-> "none"]
  /\ forks = 0
  /\ server = NoChild
  /\ starting = NoStart
  /\ opening = {}
  /\ stop = [s \in Stopper |-> NoStop]
  /\ asked = [s \in Stopper |-> 0]
  /\ unlogged = {}

Turns(c, state) == child' = [child EXCEPT ![c] = state]

-----------------------------------------------------------------------------
(* Starting.                                                               *)

\* Mutant: a start in flight is not shared.
StartedAgain == IF server = NoChild
                THEN starting' = [step |-> "probing", child |-> NoChild]
                ELSE UNCHANGED starting

\* startLocalServer, by a window that waits for it or by nobody who does.
Started == IF server = NoChild /\ starting = NoStart
           THEN starting' = [step |-> "probing", child |-> NoChild]
           ELSE UNCHANGED starting

Opens(w) ==
  /\ w \notin opening
  /\ Started
  /\ opening' = IF server = NoChild THEN opening \cup {w} ELSE opening
  /\ UNCHANGED <<child, forks, server, stop, asked, unlogged>>

\* A port is chosen and the child forked.
Forks ==
  /\ starting.step = "probing" /\ forks < MaxForks
  /\ forks' = forks + 1
  /\ Turns(forks + 1, "booting")
  /\ starting' = [step |-> "booting", child |-> forks + 1]
  /\ UNCHANGED <<server, opening, stop, asked, unlogged>>

\* openLog throws after the fork: the start is over, and the child goes on.
ForksUnlogged ==
  /\ starting.step = "probing" /\ forks < MaxForks
  /\ forks' = forks + 1
  /\ Turns(forks + 1, "booting")
  /\ unlogged' = unlogged \cup {forks + 1}
  /\ starting' = NoStart
  /\ opening' = {}
  /\ UNCHANGED <<server, stop, asked>>

\* Not built, or no port is free: everyone who waits for the start is told.
CannotFork ==
  /\ starting.step = "probing"
  /\ starting' = NoStart
  /\ opening' = {}
  /\ UNCHANGED <<child, forks, server, stop, asked, unlogged>>

Listens ==
  /\ starting.step = "booting"
  /\ Turns(starting.child, "listening")
  /\ server' = starting.child
  /\ starting' = NoStart
  /\ opening' = {}
  /\ UNCHANGED <<forks, stop, asked, unlogged>>

\* Mutant: a start that fails leaves those who wait without an answer.
StartFailsMute ==
  /\ starting.step = "booting"
  /\ \E state \in {"gone", "leaving"} : Turns(starting.child, state)
  /\ starting' = NoStart
  /\ UNCHANGED <<forks, server, opening, stop, asked, unlogged>>

\* The child exits while starting, or does not listen in time and is killed.
StartFails ==
  /\ starting.step = "booting"
  /\ \E state \in {"gone", "leaving"} : Turns(starting.child, state)
  /\ starting' = NoStart
  /\ opening' = {}
  /\ UNCHANGED <<forks, server, stop, asked, unlogged>>

-----------------------------------------------------------------------------
(* Stopping.                                                               *)

\* stopLocalServer waits for a start in flight first.
Stops(s) ==
  /\ stop[s] = NoStop
  /\ stop' = [stop EXCEPT ![s] = [step |-> "settling", child |-> NoChild]]
  /\ asked' = [asked EXCEPT ![s] = IF starting.step = "probing" THEN forks + 1 ELSE forks]
  /\ UNCHANGED <<child, forks, server, starting, opening, unlogged>>

\* Mutant: it does not.
SettledAnyway == TRUE

Settled == starting = NoStart

StopIsOver(s) ==
  /\ stop' = [stop EXCEPT ![s] = NoStop]
  /\ asked' = [asked EXCEPT ![s] = 0]

StopTakes(s) ==
  /\ stop[s].step = "settling" /\ Settled
  /\ IF server = NoChild
     THEN StopIsOver(s) /\ UNCHANGED <<child, server>>
     ELSE /\ server' = NoChild
          /\ Turns(server, "leaving")
          /\ stop' = [stop EXCEPT ![s].step = "draining", ![s].child = server]
          /\ UNCHANGED asked
  /\ UNCHANGED <<forks, starting, opening, unlogged>>

\* The child has exited, or had its time and was killed.
StopEnds(s) ==
  /\ stop[s].step = "draining"
  /\ StopIsOver(s)
  /\ UNCHANGED <<child, forks, server, starting, opening, unlogged>>

-----------------------------------------------------------------------------
(* The children.                                                           *)

\* A child nobody asked to stop: the module forgets it and tells the window.
Exits(c) ==
  /\ child[c] = "listening" \/ (child[c] = "booting" /\ c \in unlogged)
  /\ Turns(c, "gone")
  /\ server' = IF server = c THEN NoChild ELSE server
  /\ UNCHANGED <<forks, starting, opening, stop, asked, unlogged>>

\* It says so to nobody.
ListensUnheard(c) ==
  /\ c \in unlogged /\ child[c] = "booting"
  /\ Turns(c, "listening")
  /\ UNCHANGED <<forks, server, starting, opening, stop, asked, unlogged>>

Leaves(c) ==
  /\ child[c] = "leaving"
  /\ Turns(c, "gone")
  /\ UNCHANGED <<forks, server, starting, opening, stop, asked, unlogged>>

\* A stop that has nothing to wait for goes on before anything else happens.
Quiet == \A s \in Stopper : stop[s].step = "settling" => starting # NoStart

StartStep == Forks \/ ForksUnlogged \/ CannotFork \/ Listens \/ StartFails
ChildStep(c) == Exits(c) \/ ListensUnheard(c) \/ Leaves(c)
StopStep(s) == StopTakes(s) \/ (Quiet /\ StopEnds(s))

LocalNext ==
  \/ \E s \in Stopper : StopStep(s)
  \/ /\ Quiet
     /\ \/ \E w \in Window : Opens(w)
        \/ \E s \in Stopper : Stops(s)
        \/ StartStep
        \/ \E c \in Child : ChildStep(c)

LocalSpec == LocalInit /\ [][LocalNext]_localVars

-----------------------------------------------------------------------------
(* Properties.                                                             *)

Serves(c) == child[c] \in {"booting", "listening"}

\* Two servers on one data directory: the only child that serves is the one `server` or
\* the start in flight knows, so a second one can only be on its way out, unless its log
\* could not be opened.
NoStrayServer ==
  \A c \in Child : Serves(c) => c = server \/ c = starting.child \/ c \in unlogged

\* Once a stop is over, no child that ran or was being started when it was asked serves,
\* whatever other stops, starts and exits came in between, with the same exception.
StopStops ==
  [][\A s \in Stopper : stop[s] # NoStop /\ stop'[s] = NoStop =>
       \A c \in Child \ unlogged :
         c <= asked[s] => child'[c] \notin {"booting", "listening"}]_localVars
=============================================================================
