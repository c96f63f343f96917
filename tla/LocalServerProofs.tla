------------------------- MODULE LocalServerProofs -------------------------
(***************************************************************************)
(* Proofs about the desktop app's own server, for any number of windows,   *)
(* stops and children: no child serves that the app lost sight of, and a   *)
(* stop that is over has stopped what it was asked to stop, but for a      *)
(* child whose log could not be opened.                                    *)
(***************************************************************************)
EXTENDS DesktopShell, TLAPS

USE LocalAssumption DEF Child, NoChild

\* The server and the start in flight are children in the state they should be in, and
\* there is never one and the other.  A child without a log is neither.
KnownInv ==
  /\ server # NoChild => child[server] = "listening" /\ starting = NoStart
  /\ starting.step = "booting" => child[starting.child] = "booting"
  /\ \A c \in Child : c > forks => child[c] = "none"
  /\ \A c \in unlogged : c <= forks /\ c # server /\ c # starting.child

\* A stop that waits may have been asked while the next child was only being prepared;
\* one that drains has already put an end to all that it has to.
StopsInv ==
  \A s \in Stopper :
    /\ stop[s].step = "settling" =>
         asked[s] <= forks \/ (asked[s] = forks + 1 /\ server = NoChild /\ starting.step # "booting")
    /\ stop[s].step = "draining" =>
         asked[s] <= forks /\ \A c \in Child \ unlogged : c <= asked[s] => ~Serves(c)

LocalInv == LocalTypeOK /\ KnownInv /\ NoStrayServer /\ StopsInv

\* What a stop may be.
StopRecord == [step : {"none", "settling", "draining"}, child : Child \cup {NoChild}]

LEMMA Typed ==
  ASSUME LocalTypeOK
  PROVE  /\ child \in [Child -> ChildState] /\ forks \in Nat /\ forks <= MaxForks
         /\ server \in Child \cup {NoChild}
         /\ starting.child \in Child \cup {NoChild}
         /\ starting.step \in {"none", "probing", "booting"}
         /\ starting.step = "booting" => starting.child \in Child
         /\ starting.step # "booting" => starting.child = NoChild
         /\ starting.step = "none" <=> starting = NoStart
         /\ stop \in [Stopper -> StopRecord]
         /\ asked \in [Stopper -> 0 .. MaxForks + 1]
         /\ opening \subseteq Window /\ unlogged \subseteq Child
  BY DEF LocalTypeOK, NoStart, StopRecord

-----------------------------------------------------------------------------
(* The invariant, by the variables a step changes.                         *)

LEMMA LocalStart == LocalInit => LocalInv
  BY DEF LocalInit, LocalInv, LocalTypeOK, KnownInv, NoStrayServer, StopsInv, Serves, NoStart,
     NoStop, ChildState

\* A start begins, for a window or after a stop, or is already on its way.
LEMMA StartedStep ==
  ASSUME LocalInv, Started \/ UNCHANGED starting,
         UNCHANGED <<child, forks, server, unlogged>>,
         opening' \subseteq Window,
         \/ UNCHANGED <<stop, asked>>
         \/ \E s \in Stopper : /\ stop' = [stop EXCEPT ![s] = NoStop]
                               /\ asked' = [asked EXCEPT ![s] = 0]
  PROVE  LocalInv'
  <1>1. LocalTypeOK
    BY DEF LocalInv
  <1>2. \/ UNCHANGED starting
        \/ /\ server = NoChild /\ starting = NoStart
           /\ starting' = [step |-> "probing", child |-> NoChild]
    BY DEF Started
  <1>3. /\ stop' \in [Stopper -> StopRecord] /\ asked' \in [Stopper -> 0 .. MaxForks + 1]
        /\ \A s \in Stopper : \/ stop'[s] = stop[s] /\ asked'[s] = asked[s]
                              \/ stop'[s] = NoStop
    <2>1. CASE UNCHANGED <<stop, asked>>
      BY <1>1, <2>1, Typed
    <2>2. ASSUME NEW s \in Stopper,
                 stop' = [stop EXCEPT ![s] = NoStop], asked' = [asked EXCEPT ![s] = 0]
          PROVE  /\ stop' \in [Stopper -> StopRecord] /\ asked' \in [Stopper -> 0 .. MaxForks + 1]
                 /\ \A q \in Stopper : \/ stop'[q] = stop[q] /\ asked'[q] = asked[q]
                                       \/ stop'[q] = NoStop
      <3>1. NoStop \in StopRecord /\ 0 \in 0 .. MaxForks + 1
        BY DEF StopRecord, NoStop
      <3>2. stop \in [Stopper -> StopRecord] /\ asked \in [Stopper -> 0 .. MaxForks + 1]
        BY <1>1, Typed
      <3> QED
        BY ONLY <2>2, <3>1, <3>2
    <2> QED
      BY <2>1, <2>2
  <1>4. LocalTypeOK'
    <2>1. starting' \in [step : {"probing"}, child : {NoChild}]
                          \cup [step : {"booting"}, child : Child] \cup {NoStart}
      BY <1>1, <1>2 DEF LocalTypeOK
    <2> QED
      BY <1>1, <1>3, <2>1 DEF LocalTypeOK, StopRecord
  <1>5. KnownInv'
    BY <1>1, <1>2, Typed DEF LocalInv, KnownInv, NoStart
  <1>6. NoStrayServer'
    BY <1>1, <1>2, Typed DEF LocalInv, NoStrayServer, Serves, NoStart
  <1>7. StopsInv'
    BY <1>1, <1>2, <1>3, Typed DEF LocalInv, StopsInv, Serves, NoStop, NoStart
  <1> QED
    BY <1>4, <1>5, <1>6, <1>7 DEF LocalInv

\* A start that is over without a server.
LEMMA StartEndsStep ==
  ASSUME LocalInv, starting' = NoStart, opening' = {},
         UNCHANGED <<forks, server, stop, asked, unlogged>>,
         \/ starting.step = "probing" /\ UNCHANGED child
         \/ /\ starting.step = "booting"
            /\ \E state \in {"gone", "leaving"} : Turns(starting.child, state)
  PROVE  LocalInv'
  <1>1. LocalTypeOK
    BY DEF LocalInv
  <1>2. /\ child' \in [Child -> ChildState]
        /\ \A c \in Child : child'[c] = child[c] \/ c = starting.child
        /\ starting.step = "booting" =>
             child'[starting.child] \notin {"booting", "listening"}
    <2>1. CASE starting.step = "probing" /\ UNCHANGED child
      BY <2>1, <1>1, Typed
    <2>2. ASSUME starting.step = "booting", NEW state \in {"gone", "leaving"},
                 Turns(starting.child, state)
          PROVE  /\ child' \in [Child -> ChildState]
                 /\ \A c \in Child : child'[c] = child[c] \/ c = starting.child
                 /\ child'[starting.child] \notin {"booting", "listening"}
      <3>1. /\ state \in ChildState /\ child \in [Child -> ChildState]
            /\ starting.child \in Child
            /\ child' = [child EXCEPT ![starting.child] = state]
        BY <2>2, <1>1, Typed DEF ChildState, Turns
      <3> QED
        BY <3>1
    <2> QED
      BY <2>1, <2>2
  <1>3. LocalTypeOK'
    BY <1>1, <1>2 DEF LocalTypeOK
  <1>4. server = NoChild
    BY DEF LocalInv, KnownInv, NoStart
  <1>5. \A c \in Child \ unlogged : ~Serves(c)'
    <2>1. ASSUME NEW c \in Child \ unlogged, Serves(c) PROVE c = starting.child /\ starting.step = "booting"
      BY <2>1, <1>1, <1>4, Typed DEF LocalInv, NoStrayServer
    <2> QED
      BY <2>1, <1>2 DEF Serves
  <1>6. KnownInv'
    BY <1>1, <1>2, <1>4, Typed DEF LocalInv, KnownInv, NoStart, Turns
  <1>7. NoStrayServer' /\ StopsInv'
    BY <1>4, <1>5 DEF LocalInv, NoStrayServer, StopsInv, Serves, NoStart
  <1> QED
    BY <1>3, <1>6, <1>7 DEF LocalInv

LEMMA ForksStep == LocalInv /\ Forks => LocalInv'
  <1> SUFFICES ASSUME LocalInv, Forks PROVE LocalInv'
    OBVIOUS
  <1> DEFINE new == forks + 1
  <1>1. LocalTypeOK
    BY DEF LocalInv
  <1>2. /\ starting.step = "probing" /\ new \in Child /\ child[new] = "none"
        /\ forks' = new /\ child' = [child EXCEPT ![new] = "booting"]
        /\ starting' = [step |-> "booting", child |-> new]
        /\ UNCHANGED <<server, opening, stop, asked, unlogged>>
    BY <1>1, Typed DEF Forks, Turns, LocalInv, KnownInv
  <1>3. server = NoChild /\ starting.child = NoChild
    BY <1>1, <1>2, Typed DEF LocalInv, KnownInv, NoStart
  <1>4. /\ child' \in [Child -> ChildState] /\ child'[new] = "booting"
        /\ \A c \in Child : c # new => child'[c] = child[c]
    BY <1>1, <1>2, Typed DEF ChildState
  <1>5. LocalTypeOK'
    BY <1>1, <1>2, <1>4, Typed DEF LocalTypeOK
  <1>6. KnownInv'
    BY <1>1, <1>2, <1>3, <1>4, Typed DEF LocalInv, KnownInv
  <1>7. NoStrayServer'
    BY <1>1, <1>2, <1>3, <1>4, Typed DEF LocalInv, NoStrayServer, Serves
  <1>8. StopsInv'
    BY <1>1, <1>2, <1>4, Typed DEF LocalInv, StopsInv, Serves
  <1> QED
    BY <1>5, <1>6, <1>7, <1>8 DEF LocalInv

LEMMA ForksUnloggedStep == LocalInv /\ ForksUnlogged => LocalInv'
  <1> SUFFICES ASSUME LocalInv, ForksUnlogged PROVE LocalInv'
    OBVIOUS
  <1> DEFINE new == forks + 1
  <1>1. LocalTypeOK
    BY DEF LocalInv
  <1>2. /\ starting.step = "probing" /\ new \in Child
        /\ forks' = new /\ child' = [child EXCEPT ![new] = "booting"]
        /\ starting' = NoStart /\ opening' = {} /\ unlogged' = unlogged \cup {new}
        /\ UNCHANGED <<server, stop, asked>>
    BY <1>1, Typed DEF ForksUnlogged, Turns
  <1>3. server = NoChild /\ starting.child = NoChild
    BY <1>1, <1>2, Typed DEF LocalInv, KnownInv, NoStart
  <1>4. /\ child' \in [Child -> ChildState]
        /\ \A c \in Child : c # new => child'[c] = child[c]
    BY <1>1, <1>2, Typed DEF ChildState
  <1>5. LocalTypeOK'
    BY <1>1, <1>2, <1>4, Typed DEF LocalTypeOK
  <1>6. KnownInv'
    BY <1>1, <1>2, <1>3, <1>4, Typed DEF LocalInv, KnownInv, NoStart
  <1>7. NoStrayServer'
    BY <1>1, <1>2, <1>3, <1>4, Typed DEF LocalInv, NoStrayServer, Serves, NoStart
  <1>8. StopsInv'
    BY <1>1, <1>2, <1>4, Typed DEF LocalInv, StopsInv, Serves, NoStart
  <1> QED
    BY <1>5, <1>6, <1>7, <1>8 DEF LocalInv

LEMMA ListensStep == LocalInv /\ Listens => LocalInv'
  <1> SUFFICES ASSUME LocalInv, Listens PROVE LocalInv'
    OBVIOUS
  <1> DEFINE new == starting.child
  <1>1. LocalTypeOK
    BY DEF LocalInv
  <1>2. /\ starting.step = "booting" /\ new \in Child /\ child[new] = "booting"
        /\ child' = [child EXCEPT ![new] = "listening"]
        /\ server' = new /\ starting' = NoStart /\ opening' = {}
        /\ UNCHANGED <<forks, stop, asked, unlogged>>
    BY <1>1, Typed DEF Listens, Turns, LocalInv, KnownInv
  <1>3. server = NoChild
    BY <1>2 DEF LocalInv, KnownInv, NoStart
  <1>4. /\ child' \in [Child -> ChildState] /\ child'[new] = "listening"
        /\ \A c \in Child : c # new => child'[c] = child[c]
    BY <1>1, <1>2, Typed DEF ChildState
  <1>5. LocalTypeOK'
    BY <1>1, <1>2, <1>4 DEF LocalTypeOK
  <1>6. KnownInv'
    BY <1>1, <1>2, <1>4, Typed DEF LocalInv, KnownInv, NoStart
  <1>7. NoStrayServer'
    BY <1>1, <1>2, <1>3, <1>4 DEF LocalInv, NoStrayServer, Serves
  <1>8. StopsInv'
    BY <1>1, <1>2, <1>4, Typed DEF LocalInv, StopsInv, Serves
  <1> QED
    BY <1>5, <1>6, <1>7, <1>8 DEF LocalInv

LEMMA StopsStep ==
  ASSUME LocalInv, NEW s \in Stopper, Stops(s)
  PROVE  LocalInv'
  <1>1. LocalTypeOK
    BY DEF LocalInv
  <1>2. /\ stop' = [stop EXCEPT ![s] = [step |-> "settling", child |-> NoChild]]
        /\ asked' = [asked EXCEPT ![s] = IF starting.step = "probing" THEN forks + 1 ELSE forks]
        /\ UNCHANGED <<child, forks, server, starting, opening, unlogged>>
    BY DEF Stops
  <1>3. /\ stop' \in [Stopper -> StopRecord] /\ asked' \in [Stopper -> 0 .. MaxForks + 1]
        /\ stop'[s].step = "settling"
        /\ asked'[s] = IF starting.step = "probing" THEN forks + 1 ELSE forks
        /\ \A q \in Stopper : q # s => stop'[q] = stop[q] /\ asked'[q] = asked[q]
    BY <1>1, <1>2, Typed DEF StopRecord
  <1>4. LocalTypeOK'
    BY <1>1, <1>2, <1>3 DEF LocalTypeOK, StopRecord
  <1>5. KnownInv' /\ NoStrayServer'
    BY <1>2 DEF LocalInv, KnownInv, NoStrayServer, Serves
  <1>6. StopsInv'
    <2>1. starting.step = "probing" => server = NoChild
      BY DEF LocalInv, KnownInv, NoStart
    <2> QED
      BY <1>1, <1>2, <1>3, <2>1, Typed DEF LocalInv, StopsInv, Serves
  <1> QED
    BY <1>4, <1>5, <1>6 DEF LocalInv

\* The stop takes the server and waits for it to drain.
LEMMA DrainStep ==
  ASSUME LocalInv, NEW s \in Stopper, stop[s].step = "settling", starting = NoStart,
         server # NoChild, server' = NoChild, Turns(server, "leaving"),
         stop' = [stop EXCEPT ![s].step = "draining", ![s].child = server],
         UNCHANGED <<starting, asked, forks, opening, unlogged>>
  PROVE  LocalInv'
  <1>1. LocalTypeOK /\ server \in Child
    BY Typed DEF LocalInv
  <1>2. /\ child' \in [Child -> ChildState] /\ child'[server] = "leaving"
        /\ \A c \in Child : c # server => child'[c] = child[c]
    BY <1>1, Typed DEF Turns, ChildState
  <1>3. \A c \in Child \ unlogged : ~Serves(c)'
    BY <1>1, <1>2 DEF LocalInv, NoStrayServer, Serves, NoStart
  <1>4. /\ stop' \in [Stopper -> StopRecord]
        /\ stop'[s].step = "draining"
        /\ \A q \in Stopper : q # s => stop'[q] = stop[q]
    <2>1. stop[s] \in StopRecord
      BY <1>1, Typed
    <2>2. stop' = [stop EXCEPT ![s] = [stop[s] EXCEPT !.step = "draining", !.child = server]]
      BY <1>1, Typed
    <2>3. [stop[s] EXCEPT !.step = "draining", !.child = server] \in StopRecord
      BY <1>1, <2>1 DEF StopRecord
    <2> QED
      BY <1>1, <2>2, <2>3, Typed DEF StopRecord
  <1>5. LocalTypeOK'
    BY <1>1, <1>2, <1>4 DEF LocalTypeOK, StopRecord
  <1>6. KnownInv'
    BY <1>1, <1>2, Typed DEF LocalInv, KnownInv, NoStart
  <1>7. NoStrayServer'
    BY <1>3 DEF NoStrayServer
  <1>8. StopsInv'
    BY <1>1, <1>3, <1>4, Typed DEF LocalInv, StopsInv, NoStart
  <1> QED
    BY <1>5, <1>6, <1>7, <1>8 DEF LocalInv

\* A child that exits by itself, is done leaving, or listens unheard.
LEMMA ChildMovesOn ==
  ASSUME LocalInv, NEW c \in Child, ChildStep(c)
  PROVE  LocalInv'
  <1>1. LocalTypeOK
    BY DEF LocalInv
  <1>2. PICK state \in {"gone", "listening"} :
          /\ Turns(c, state) /\ child[c] \notin {"none", state} /\ c # starting.child
          /\ state = "listening" => c \in unlogged
          /\ server' = IF server = c THEN NoChild ELSE server
          /\ UNCHANGED <<forks, starting, opening, stop, asked, unlogged>>
    <2>1. /\ c \in unlogged => c # server /\ c # starting.child
          /\ child[c] # "booting" => c # starting.child
          /\ child[c] = "leaving" => c # server
      BY <1>1, Typed DEF LocalInv, KnownInv
    <2> QED
      BY <2>1 DEF ChildStep, Exits, ListensUnheard, Leaves
  <1>3. /\ child' \in [Child -> ChildState] /\ child'[c] = state
        /\ \A d \in Child : d # c => child'[d] = child[d]
    BY <1>1, <1>2, Typed DEF Turns, ChildState
  <1>4. LocalTypeOK'
    BY <1>1, <1>2, <1>3 DEF LocalTypeOK
  <1>5. KnownInv'
    BY <1>1, <1>2, <1>3, Typed DEF LocalInv, KnownInv
  <1>6. NoStrayServer'
    BY <1>1, <1>2, <1>3, Typed DEF LocalInv, NoStrayServer, Serves
  <1>7. StopsInv'
    BY <1>1, <1>2, <1>3, Typed DEF LocalInv, StopsInv, Serves
  <1> QED
    BY <1>4, <1>5, <1>6, <1>7 DEF LocalInv

LEMMA LocalStep == LocalInv /\ [LocalNext]_localVars => LocalInv'
  <1> SUFFICES ASSUME LocalInv, [LocalNext]_localVars PROVE LocalInv'
    OBVIOUS
  <1>t. opening \subseteq Window
    BY DEF LocalInv, LocalTypeOK
  <1>1. ASSUME NEW w \in Window, Opens(w) PROVE LocalInv'
    BY <1>1, <1>t, StartedStep DEF Opens
  <1>2. ASSUME NEW s \in Stopper, StopTakes(s) PROVE LocalInv'
    <2>1. CASE server = NoChild
      BY <1>2, <2>1, <1>t, StartedStep DEF StopTakes, StopIsOver
    <2>2. CASE server # NoChild
      BY <1>2, <2>2, DrainStep DEF StopTakes, Settled
    <2> QED
      BY <2>1, <2>2
  <1>3. ASSUME NEW s \in Stopper, StopEnds(s) PROVE LocalInv'
    BY <1>3, <1>t, StartedStep DEF StopEnds, StopIsOver
  <1>4. CASE CannotFork \/ StartFails
    BY <1>4, StartEndsStep DEF CannotFork, StartFails
  <1>5. CASE UNCHANGED localVars
    BY <1>5, <1>t, StartedStep DEF localVars
  <1> QED
    BY <1>1, <1>2, <1>3, <1>4, <1>5, ForksStep, ForksUnloggedStep, ListensStep, StopsStep,
       ChildMovesOn
       DEF LocalNext, StopStep, StartStep

THEOREM LocalKeepsInv == LocalSpec => []LocalInv
  BY LocalStart, LocalStep, PTL DEF LocalSpec

-----------------------------------------------------------------------------
(* What follows.                                                           *)

\* The variables of local-server.mjs keep to their types.
THEOREM LocalIsTyped == LocalSpec => []LocalTypeOK
  <1>1. LocalInv => LocalTypeOK
    BY DEF LocalInv
  <1> QED
    BY <1>1, LocalKeepsInv, PTL

\* The app never loses sight of a child that serves, but for those whose log could not be
\* opened after they were forked (local-server.mjs).
THEOREM NoServerIsStray == LocalSpec => []NoStrayServer
  <1>1. LocalInv => NoStrayServer
    BY DEF LocalInv
  <1> QED
    BY <1>1, LocalKeepsInv, PTL

\* A window that waits has a start in flight to wait for, and nothing keeps that start
\* from going on: whichever way it ends, the window hears (startLocalServer,
\* local-server.mjs).
OpeningHasStart == opening # {} => starting # NoStart /\ Quiet

\* No window waits for a start that is not there: the safety half of StartsEnd, in the app
\* as well, by ShellIsLocal.
THEOREM NoWindowIsForgotten == LocalSpec => []OpeningHasStart
  <1>1. starting # NoStart => Quiet
    BY DEF Quiet
  <1>2. LocalInit => OpeningHasStart
    BY DEF LocalInit, OpeningHasStart
  <1>3. LocalInv /\ OpeningHasStart /\ [LocalNext]_localVars => OpeningHasStart'
    <2> SUFFICES ASSUME LocalInv, opening # {} => starting # NoStart, [LocalNext]_localVars,
                        opening' # {}
                 PROVE  starting' # NoStart
      BY DEF OpeningHasStart, Quiet
    <2>1. ASSUME NEW w \in Window, Opens(w)
          PROVE  starting' # NoStart
      BY <2>1 DEF Opens, Started, NoStart, LocalInv, KnownInv
    <2>2. StartStep => starting' # NoStart
      BY DEF StartStep, Forks, ForksUnlogged, CannotFork, Listens, StartFails, NoStart
    <2>3. ASSUME UNCHANGED <<starting, opening>>
          PROVE  starting' # NoStart
      BY <2>3
    <2>4. ASSUME NEW s \in Stopper, Stops(s) \/ StopStep(s)
          PROVE  starting' # NoStart
      BY <2>3, <2>4 DEF Stops, StopStep, StopTakes, StopEnds
    <2>5. ASSUME NEW c \in Child, ChildStep(c)
          PROVE  starting' # NoStart
      BY <2>3, <2>5 DEF ChildStep, Exits, ListensUnheard, Leaves
    <2> QED
      BY <2>1, <2>2, <2>3, <2>4, <2>5 DEF LocalNext, localVars
  <1> QED
    BY <1>2, <1>3, LocalKeepsInv, PTL DEF LocalSpec

\* A stop that is over has ended every child that ran or was being started when it was
\* asked for, but for those whose log could not be opened (stopLocalServer,
\* local-server.mjs).
THEOREM StopsDoStop == LocalSpec => StopStops
  <1> DEFINE StopsAsked ==
        \A s \in Stopper : stop[s] # NoStop /\ stop'[s] = NoStop =>
          \A c \in Child \ unlogged : c <= asked[s] => child'[c] \notin {"booting", "listening"}
  <1>1. ASSUME LocalInv, [LocalNext]_localVars PROVE [StopsAsked]_localVars
    <2> SUFFICES ASSUME NEW s \in Stopper, stop[s] # NoStop, stop'[s] = NoStop, LocalNext,
                        NEW c \in Child \ unlogged, c <= asked[s]
                 PROVE  child'[c] \notin {"booting", "listening"}
      BY <1>1
    <2>t. LocalTypeOK
      BY <1>1 DEF LocalInv
    <2>1. PICK q \in Stopper : StopTakes(q) \/ StopEnds(q)
      <3>1. ASSUME NEW q \in Stopper, Stops(q) PROVE FALSE
        BY <3>1, <2>t, Typed DEF Stops, NoStop
      <3>2. CASE UNCHANGED stop
        BY <3>2
      <3> QED
        BY <3>1, <3>2 DEF LocalNext, StopStep, StartStep, Forks, ForksUnlogged, CannotFork,
           Listens, StartFails, Opens, ChildStep, Exits, ListensUnheard, Leaves
    <2>2. q = s
      BY <2>1, <2>t, Typed DEF StopTakes, StopEnds, StopIsOver
    <2>3. CASE StopTakes(s)
      <3>1. server = NoChild /\ starting = NoStart /\ UNCHANGED child
        <4>1. CASE server # NoChild
          <5>1. stop' = [stop EXCEPT ![s] = [stop[s] EXCEPT !.step = "draining", !.child = server]]
            BY <2>3, <4>1, <2>t, Typed DEF StopTakes
          <5>2. stop'[s].step = "draining"
            BY <5>1, <2>t, Typed DEF StopRecord
          <5> QED
            BY <5>2 DEF NoStop
        <4> QED
          BY <2>3, <4>1 DEF StopTakes, Settled
      <3> QED
        BY <3>1, <1>1 DEF LocalInv, NoStrayServer, Serves, NoStart
    <2>4. CASE StopEnds(s)
      BY <2>4, <1>1 DEF StopEnds, LocalInv, StopsInv, Serves
    <2> QED
      BY <2>1, <2>2, <2>3, <2>4
  <1> QED
    BY <1>1, LocalKeepsInv, PTL DEF LocalSpec, StopStops

-----------------------------------------------------------------------------
(* The app around it.                                                      *)

NoServer == server = NoChild /\ starting = NoStart

\* Errands are for accounts that were given, and once the stop of a forgetting or of a quit
\* has taken the server there is none again, unless it was asked for.
CalmInv ==
  /\ account # NoAccount => account = ids
  /\ \A s \in Stopper :
       /\ errand[s].for \in {"forget", "restart"} => errand[s].account \in 1 .. ids
       /\ errand[s].for = "quit" => quitting # "no"
       /\ stop[s].step # "settling" =>
            /\ errand[s].for = "forget" /\ errand[s].account \notin late => NoServer
            /\ errand[s].for = "quit" /\ NoAccount \notin late => NoServer
  /\ account = NoAccount /\ ids \notin late => NoServer
  /\ quitting = "done" /\ NoAccount \notin late => NoServer

\* The registry and the windows agree.
WindowsInv ==
  /\ \A a \in Account : windows[a] # NoWindow =>
       a <= ids /\ owner[windows[a]] = a /\ frame[windows[a]] \in {"open", "closing"}
  /\ \A a \in 1 .. ids : (a # account \/ Forgetting(a)) /\ a \notin late => windows[a] = NoWindow
  /\ \A w \in Frame : frame[w] = "open" => owner[w] \in Account
  /\ \A w \in Frame : frame[w] = "open" /\ w \notin disowned => windows[owner[w]] = w
  /\ \A w \in Frame : frame[w] # "none" => owner[w] \in Account
  /\ \A a \in badged : windows[a] # NoWindow

ShellInv == LocalInv /\ ShellTypeOK /\ CalmInv /\ WindowsInv

LEMMA ShellTyped ==
  ASSUME ShellTypeOK
  PROVE  /\ ids \in Nat /\ ids <= MaxAccounts /\ account \in 0 .. ids
         /\ \A a \in 1 .. ids : a \in Account
         /\ windows \in [Account -> Frame \cup {NoWindow}]
         /\ NoWindow \notin Frame /\ Frame \subseteq Window /\ Background \in Window
         /\ frame \in [Frame -> {"none", "open", "closing", "destroyed"}]
         /\ owner \in [Frame -> 0 .. MaxAccounts]
         /\ errand \in [Stopper -> Errand \cup {NoErrand}]
         /\ badged \subseteq Account /\ late \subseteq 0 .. ids /\ disowned \subseteq Frame
  BY ShellAssumption DEF ShellTypeOK, Account, NoAccount, Frame

LEMMA ShellStart == ShellInit => ShellInv
  <1> SUFFICES ASSUME ShellInit PROVE ShellInv
    OBVIOUS
  <1>1. LocalInv /\ LocalTypeOK
    BY LocalStart DEF ShellInit, LocalInv
  <1>2. ShellTypeOK
    BY <1>1, ShellAssumption DEF ShellInit, ShellTypeOK, Account, NoAccount, Frame
  <1>3. CalmInv
    BY DEF ShellInit, CalmInv, LocalInit, NoServer, NoErrand, Account, NoAccount
  <1>4. WindowsInv
    BY DEF ShellInit, WindowsInv, NoErrand, Account, NoAccount, Forgetting
  <1> QED
    BY <1>1, <1>2, <1>3, <1>4 DEF ShellInv

\* What is asked of the server is one of its own steps.
LEMMA AskIsLocal ==
  ASSUME NEW w \in Window, AsksFor(w), Quiet
  PROVE  [LocalNext]_localVars
  BY DEF AsksFor, LocalNext, localVars

LEMMA RestartAsksAWindow ==
  ASSUME ShellTypeOK, NEW s \in Stopper, Restarted(s)
  PROVE  \E w \in Window : AsksFor(w)
  <1>1. errand[s].account \in Account
    BY ShellTyped DEF Restarted, CanGoOn, Errand, NoErrand
  <1>2. windows[errand[s].account] \in Frame \cup {NoWindow}
    BY <1>1, ShellTyped
  <1> QED
    BY <1>2, ShellTyped DEF Restarted

LEMMA ShellStepIsLocal == ShellTypeOK /\ [ShellNext]_shellVars => [LocalNext]_localVars
  <1> SUFFICES ASSUME ShellTypeOK, ShellNext PROVE [LocalNext]_localVars
    BY DEF shellVars
  <1>1. CASE StartGoesOn
    BY <1>1 DEF StartGoesOn, LocalNext
  <1>2. ASSUME NEW s \in Stopper, ErrandGoesOn(s) PROVE [LocalNext]_localVars
    BY <1>2, RestartAsksAWindow, AskIsLocal DEF ErrandGoesOn, LocalNext, StopStep, QuitGoesOn
  <1>3. CASE Quiet /\ \E c \in Child : ChildStep(c)
    BY <1>3 DEF LocalNext
  <1>4. CASE Quiet /\ (Launches \/ OpensLocal \/ AddsLocal)
    BY <1>4, ShellTyped, AskIsLocal DEF Launches, OpensLocal, AddsLocal, OpensAccount
  <1>5. ASSUME NEW w \in Frame, Quiet, AsksAgain(w) \/ Shown(w) \/ UserCloses(w) \/ WindowClosed(w)
        PROVE  [LocalNext]_localVars
    BY <1>5, ShellTyped, AskIsLocal DEF AsksAgain, Shown, UserCloses, WindowClosed
  <1>6. ASSUME NEW s \in Stopper, Quiet, Forgets(s) \/ Forgotten(s) \/ Restarts(s) \/ Quits(s)
        PROVE  [LocalNext]_localVars
    BY <1>6 DEF Forgets, Forgotten, Restarts, Quits, Sends, LocalNext
  <1> QED
    BY <1>1, <1>2, <1>3, <1>4, <1>5, <1>6 DEF ShellNext

\* A step of the server, or one that asks nothing of it, that no errand is done by.
LEMMA ServerMoves ==
  ASSUME ShellInv, UNCHANGED shell, LocalInv', NoServer => NoServer',
         \A s \in Stopper : stop[s].step = "settling" =>
           stop'[s].step = "settling" \/ NoServer'
  PROVE  ShellInv'
  <1>1. ShellTypeOK'
    BY DEF ShellInv, ShellTypeOK, shell, LocalInv
  <1>2. CalmInv'
    BY DEF ShellInv, CalmInv, shell
  <1>3. WindowsInv'
    BY DEF ShellInv, WindowsInv, Forgetting, shell
  <1> QED
    BY <1>1, <1>2, <1>3 DEF ShellInv

LEMMA StartMoves ==
  ASSUME ShellInv, LocalInv', StartGoesOn
  PROVE  ShellInv'
  <1>1. NoServer => NoServer'
    BY DEF StartGoesOn, StartStep, Forks, ForksUnlogged, CannotFork, Listens, StartFails,
       NoServer, NoStart
  <1>2. UNCHANGED <<shell, stop>>
    BY DEF StartGoesOn, StartStep, Forks, ForksUnlogged, CannotFork, Listens, StartFails
  <1> QED
    BY <1>1, <1>2, ServerMoves

LEMMA ChildMoves ==
  ASSUME ShellInv, LocalInv', UNCHANGED shell, NEW c \in Child, ChildStep(c)
  PROVE  ShellInv'
  <1>1. UNCHANGED <<starting, stop>> /\ (server = NoChild => server' = NoChild)
    BY DEF ChildStep, Exits, ListensUnheard, Leaves
  <1> QED
    BY <1>1, ServerMoves DEF NoServer

LEMMA StopMoves ==
  ASSUME ShellInv, LocalInv', UNCHANGED shell, NEW s \in Stopper, StopTakes(s) \/ StopEnds(s)
  PROVE  ShellInv'
  <1>1. stop \in [Stopper -> StopRecord]
    BY Typed DEF ShellInv, LocalInv
  <1>2. \A q \in Stopper : q # s => stop'[q] = stop[q]
    BY <1>1 DEF StopTakes, StopEnds, StopIsOver
  <1>3. CASE StopTakes(s)
    <2>1. NoServer'
      BY <1>3 DEF StopTakes, Settled, NoServer, StopIsOver
    <2> QED
      BY <1>2, <2>1, ServerMoves
  <1>4. CASE StopEnds(s)
    <2>1. NoServer => NoServer'
      BY <1>4 DEF StopEnds, StopIsOver, NoServer
    <2>2. stop[s].step # "settling"
      BY <1>4 DEF StopEnds
    <2> QED
      BY <1>2, <2>1, <2>2, ServerMoves
  <1> QED
    BY <1>3, <1>4

\* Whoever asks for the server marks what is under way against it.
LEMMA AskMarks ==
  ASSUME ShellInv, NEW w \in Window, AsksFor(w), quitting # "done"
  PROVE  /\ UNCHANGED stop
         /\ late' \subseteq 0 .. ids /\ late \subseteq late'
         /\ \A s \in Stopper : errand[s].for = "forget" => errand[s].account \in late'
         /\ \A s \in Stopper : errand[s].for = "quit" => NoAccount \in late'
         /\ account = NoAccount /\ ids >= 1 => ids \in late'
         /\ \A a \in 1 .. ids : Forgetting(a) => a \in late'
  <1>1. ids \in Nat /\ late \subseteq 0 .. ids /\ errand \in [Stopper -> Errand \cup {NoErrand}]
    BY ShellTyped DEF ShellInv
  <1>2. UNCHANGED stop
    BY DEF AsksFor, Opens, localVars
  <1>3. late' = late \cup {a \in 1 .. ids : Forgetting(a) \/ (a = ids /\ account = NoAccount)}
                     \cup {a \in {NoAccount} : quitting = "stopping"}
    BY DEF AsksFor
  <1>4. ASSUME NEW s \in Stopper, errand[s].for = "forget" PROVE errand[s].account \in late'
    <2>1. errand[s].account \in 1 .. ids
      BY <1>4 DEF ShellInv, CalmInv
    <2>2. errand[s] = [for |-> "forget", account |-> errand[s].account]
      BY <1>1, <1>4 DEF Errand, NoErrand
    <2> QED
      BY <1>3, <2>1, <2>2 DEF Forgetting
  <1>5. ASSUME NEW s \in Stopper, errand[s].for = "quit" PROVE NoAccount \in late'
    <2>1. quitting = "stopping"
      BY <1>5 DEF ShellInv, CalmInv, ShellTypeOK
    <2> QED
      BY <1>3, <2>1
  <1>6. late' \subseteq 0 .. ids /\ late \subseteq late'
    <2>1. NoAccount \in 0 .. ids
      BY <1>1 DEF NoAccount
    <2>2. ASSUME NEW x \in late' PROVE x \in 0 .. ids
      <3>1. CASE x \in late
        BY <3>1, <1>1
      <3>2. CASE x \in 1 .. ids
        BY <3>2, <1>1
      <3> QED
        BY <1>3, <2>1, <2>2, <3>1, <3>2
    <2> QED
      BY <1>3, <2>2
  <1>7. /\ account = NoAccount /\ ids >= 1 => ids \in late'
        /\ \A a \in 1 .. ids : Forgetting(a) => a \in late'
    BY <1>1, <1>3
  <1> QED
    BY <1>2, <1>4, <1>5, <1>6, <1>7

\* The server is asked for, by nobody who opens a window for it.
LEMMA PlainAskStep ==
  ASSUME ShellInv, LocalInv', quitting # "done", NEW w \in Window, AsksFor(w),
         account # NoAccount \/ ids >= 1,
         UNCHANGED <<account, ids, frames, sent, quitting>>,
         errand' \in [Stopper -> Errand \cup {NoErrand}],
         \A s \in Stopper : errand'[s] = errand[s] \/ errand'[s] = NoErrand
  PROVE  ShellInv'
  <1>1. ShellTypeOK'
    BY AskMarks DEF ShellInv, ShellTypeOK, LocalInv, frames
  <1>2. CalmInv'
    <2>1. ids >= 1
      BY ShellTyped DEF ShellInv, NoAccount
    <2> QED
      BY <2>1, AskMarks DEF ShellInv, CalmInv, NoErrand
  <1>3. WindowsInv'
    <2>1. \A a \in 1 .. ids : Forgetting(a)' => Forgetting(a)
      BY DEF Forgetting, NoErrand
    <2>2. \A a \in 1 .. ids : (a # account \/ Forgetting(a)) /\ a \notin late => windows[a] = NoWindow
      BY DEF ShellInv, WindowsInv
    <2>3. \A a \in 1 .. ids : ((a # account \/ Forgetting(a)) /\ a \notin late => windows[a] = NoWindow)'
      BY <2>1, <2>2, AskMarks DEF frames
    <2> QED
      BY <2>3 DEF ShellInv, WindowsInv, frames
  <1> QED
    BY <1>1, <1>2, <1>3 DEF ShellInv

\* A window is opened for the account that is listed, or for one that is added.
LEMMA OpenStep ==
  ASSUME ShellInv, LocalInv', quitting # "done", NEW a \in Account, OpensAccount(a),
         account' = a,
         \/ account = a /\ ids' = ids
         \/ account = NoAccount /\ a = ids + 1 /\ ids' = a
  PROVE  ShellInv'
  <1>1. PICK w \in Frame :
          /\ frame[w] = "none"
          /\ frame' = [frame EXCEPT ![w] = "open"]
          /\ owner' = [owner EXCEPT ![w] = a]
          /\ windows' = [windows EXCEPT ![a] = w]
          /\ AsksFor(w)
    BY DEF OpensAccount
  <1>2. windows[a] = NoWindow /\ UNCHANGED <<badged, disowned, errand, sent, quitting>>
    BY DEF OpensAccount
  <1>3. w \in Window /\ w # NoWindow /\ a # NoAccount /\ a \in Nat /\ ids \in Nat /\ a <= ids'
    BY ShellTyped DEF ShellInv, Account, NoAccount, CalmInv
  <1>4. /\ UNCHANGED stop /\ late' \subseteq 0 .. ids /\ late \subseteq late'
        /\ \A s \in Stopper : errand[s].for = "forget" => errand[s].account \in late'
        /\ \A s \in Stopper : errand[s].for = "quit" => NoAccount \in late'
        /\ \A b \in 1 .. ids : Forgetting(b) => b \in late'
    BY <1>1, <1>3, AskMarks
  <1>5. /\ frame'[w] = "open" /\ owner'[w] = a /\ windows'[a] = w
        /\ \A v \in Frame : v # w => frame'[v] = frame[v] /\ owner'[v] = owner[v]
        /\ \A b \in Account : b # a => windows'[b] = windows[b]
    BY <1>1, ShellTyped DEF ShellInv
  <1>6. ids' \in Nat /\ ids <= ids' /\ ids' <= MaxAccounts
    BY <1>3, ShellTyped DEF ShellInv, Account
  <1>7. ShellTypeOK'
    BY <1>1, <1>2, <1>3, <1>4, <1>6 DEF ShellInv, ShellTypeOK, LocalInv, Account, NoAccount
  <1>8. CalmInv'
    BY <1>2, <1>3, <1>4, <1>6 DEF ShellInv, CalmInv, NoErrand
  <1>9. WindowsInv'
    <2>1. \A b \in Account : windows'[b] # NoWindow =>
            b <= ids' /\ owner'[windows'[b]] = b /\ frame'[windows'[b]] \in {"open", "closing"}
      <3>1. ASSUME NEW b \in Account, b # a, windows[b] # NoWindow PROVE windows[b] # w
        BY <3>1, <1>1 DEF ShellInv, WindowsInv
      <3>2. \A b \in Account : windows[b] # NoWindow => windows[b] \in Frame
        BY ShellTyped DEF ShellInv
      <3> QED
        BY <1>3, <1>5, <1>6, <3>1, <3>2 DEF ShellInv, WindowsInv, Account
    <2>2. \A b \in 1 .. ids' : (b # account' \/ Forgetting(b)') /\ b \notin late' =>
            windows'[b] = NoWindow
      <3>1. ASSUME NEW b \in 1 .. ids', b # a PROVE b \in 1 .. ids /\ b \in Account
        <4>1. b \in Nat /\ b >= 1 /\ b <= ids' /\ (ids' = ids \/ (ids' = ids + 1 /\ a = ids + 1))
          BY <1>6
        <4> QED
          BY <1>3, <1>6, <3>1, <4>1, ShellAssumption DEF Account
      <3>2. ~Forgetting(a) \/ a \in late'
        <4>1. CASE a \in 1 .. ids
          BY <4>1, <1>4
        <4>2. ASSUME Forgetting(a) PROVE a \in 1 .. ids
          BY <4>2 DEF Forgetting, ShellInv, CalmInv
        <4> QED
          BY <4>1, <4>2
      <3>3. \A b \in Account : Forgetting(b)' <=> Forgetting(b)
        BY <1>2 DEF Forgetting
      <3>4. \A b \in 1 .. ids : b # a => b # account
        BY DEF NoAccount
      <3> QED
        BY <1>3, <1>4, <1>5, <3>1, <3>2, <3>3, <3>4 DEF ShellInv, WindowsInv
    <2>3. \A v \in Frame : frame'[v] # "none" => owner'[v] \in Account
      BY <1>5 DEF ShellInv, WindowsInv
    <2>4. \A v \in Frame : frame'[v] = "open" /\ v \notin disowned' => windows'[owner'[v]] = v
      <3>1. ASSUME NEW v \in Frame, v # w, frame[v] = "open", v \notin disowned, owner[v] = a
            PROVE  FALSE
        BY <3>1, <1>2, ShellTyped DEF ShellInv, WindowsInv
      <3> QED
        BY <1>2, <1>5, <3>1 DEF ShellInv, WindowsInv
    <2>5. \A b \in badged' : windows'[b] # NoWindow
      <3>1. ASSUME NEW b \in badged PROVE b \in Account /\ windows[b] # NoWindow
        BY ShellTyped DEF ShellInv, WindowsInv
      <3> QED
        BY <1>2, <1>3, <1>5, <3>1
    <2> QED
      BY <2>1, <2>2, <2>3, <2>4, <2>5 DEF WindowsInv
  <1> QED
    BY <1>7, <1>8, <1>9 DEF ShellInv

\* What sending an errand changes of the errands and their stops.
LEMMA SendFacts ==
  ASSUME ShellInv, NEW s \in Stopper, NEW for, Sends(s, for),
         for \in {"forget", "restart"} => account # NoAccount,
         for \in {"forget", "restart", "quit"}
  PROVE  /\ errand' \in [Stopper -> Errand \cup {NoErrand}]
         /\ errand'[s] = [for |-> for, account |-> account]
         /\ \A q \in Stopper : q # s => errand'[q] = errand[q] /\ stop'[q] = stop[q]
         /\ stop'[s].step = "settling" /\ sent' \in 0 .. MaxErrands
         /\ UNCHANGED <<server, starting>>
  <1>1. /\ errand \in [Stopper -> Errand \cup {NoErrand}] /\ stop \in [Stopper -> StopRecord]
        /\ account \in 0 .. ids /\ ids \in Nat /\ ids <= MaxAccounts
    BY ShellTyped, Typed DEF ShellInv, LocalInv
  <1>2. [for |-> for, account |-> account] \in Errand
    <2>1. account = NoAccount \/ account \in Account
      BY <1>1, ShellAssumption DEF Account, NoAccount
    <2> QED
      BY <2>1 DEF Errand
  <1>3. sent' \in 0 .. MaxErrands
    BY ShellAssumption DEF Sends, ShellInv, ShellTypeOK
  <1>4. /\ errand' = [errand EXCEPT ![s] = [for |-> for, account |-> account]]
        /\ stop' = [stop EXCEPT ![s] = [step |-> "settling", child |-> NoChild]]
        /\ UNCHANGED <<server, starting>>
    BY DEF Sends, Stops
  <1> QED
    BY <1>1, <1>2, <1>3, <1>4

LEMMA SendStep ==
  ASSUME ShellInv, LocalInv', NEW s \in Stopper, Restarts(s) \/ Quits(s)
  PROVE  ShellInv'
  <1>1. PICK for \in {"restart", "quit"} :
          /\ Sends(s, for) /\ (for = "restart" => account # NoAccount)
          /\ for = "quit" => quitting' = "stopping"
    BY DEF Restarts, Quits
  <1>2. /\ errand' \in [Stopper -> Errand \cup {NoErrand}]
        /\ errand'[s] = [for |-> for, account |-> account]
        /\ \A q \in Stopper : q # s => errand'[q] = errand[q] /\ stop'[q] = stop[q]
        /\ stop'[s].step = "settling" /\ sent' \in 0 .. MaxErrands
        /\ UNCHANGED <<server, starting>>
    BY <1>1, SendFacts
  <1>3. /\ UNCHANGED <<account, ids, frames, late>>
        /\ quitting' = quitting \/ (quitting = "no" /\ quitting' = "stopping")
    BY DEF Restarts, Quits
  <1>4. ShellTypeOK'
    BY <1>2, <1>3 DEF ShellInv, ShellTypeOK, LocalInv, frames
  <1>5. CalmInv'
    <2>1. account # NoAccount => account \in 1 .. ids
      BY ShellTyped DEF ShellInv, NoAccount
    <2>2. NoServer' <=> NoServer
      BY <1>2 DEF NoServer
    <2>3. ASSUME NEW q \in Stopper
          PROVE  /\ errand'[q].for \in {"forget", "restart"} => errand'[q].account \in 1 .. ids
                 /\ errand'[q].for = "quit" => quitting' # "no"
                 /\ stop'[q].step # "settling" =>
                      /\ errand'[q].for = "forget" /\ errand'[q].account \notin late => NoServer
                      /\ errand'[q].for = "quit" /\ NoAccount \notin late => NoServer
      <3>1. CASE q = s
        BY <3>1, <1>1, <1>2, <2>1
      <3>2. CASE q # s
        BY <3>2, <1>2, <1>3 DEF ShellInv, CalmInv
      <3> QED
        BY <3>1, <3>2
    <2> QED
      BY <1>3, <2>2, <2>3 DEF ShellInv, CalmInv
  <1>6. WindowsInv'
    <2>1. \A a \in Account : Forgetting(a)' => Forgetting(a)
      BY <1>1, <1>2 DEF Forgetting
    <2>2. \A a \in 1 .. ids : a \in Account
      BY ShellTyped DEF ShellInv
    <2>3. \A a \in 1 .. ids : ((a # account \/ Forgetting(a)) /\ a \notin late => windows[a] = NoWindow)'
      BY <1>3, <2>1, <2>2 DEF ShellInv, WindowsInv, frames
    <2> QED
      BY <1>3, <2>3 DEF ShellInv, WindowsInv, frames
  <1> QED
    BY <1>4, <1>5, <1>6 DEF ShellInv

LEMMA ForgetStep ==
  ASSUME ShellInv, LocalInv', NEW s \in Stopper, Forgets(s)
  PROVE  ShellInv'
  <1>1. /\ account # NoAccount /\ Sends(s, "forget")
        /\ frame' = [w \in Frame |-> IF w = windows[account] THEN "closing" ELSE frame[w]]
        /\ windows' = [windows EXCEPT ![account] = NoWindow]
        /\ badged' = badged \ {account}
        /\ UNCHANGED <<account, ids, owner, disowned, quitting, late>>
    BY DEF Forgets
  <1>2. /\ errand' \in [Stopper -> Errand \cup {NoErrand}]
        /\ errand'[s] = [for |-> "forget", account |-> account]
        /\ \A q \in Stopper : q # s => errand'[q] = errand[q] /\ stop'[q] = stop[q]
        /\ stop'[s].step = "settling" /\ sent' \in 0 .. MaxErrands
        /\ UNCHANGED <<server, starting>>
    BY <1>1, SendFacts
  <1>3. account \in 1 .. ids /\ account \in Account /\ account = ids
    BY <1>1, ShellTyped DEF ShellInv, NoAccount, CalmInv
  <1>4. /\ windows'[account] = NoWindow /\ windows' \in [Account -> Frame \cup {NoWindow}]
        /\ \A a \in Account : a # account => windows'[a] = windows[a]
    BY <1>1, <1>3, ShellTyped DEF ShellInv
  <1>5. ShellTypeOK'
    <2>1. frame' \in [Frame -> {"none", "open", "closing", "destroyed"}]
      BY <1>1, ShellTyped DEF ShellInv
    <2> QED
      BY <1>1, <1>2, <1>4, <2>1 DEF ShellInv, ShellTypeOK, LocalInv
  <1>6. CalmInv'
    <2>1. NoServer' <=> NoServer
      BY <1>2 DEF NoServer
    <2>2. ASSUME NEW q \in Stopper
          PROVE  /\ errand'[q].for \in {"forget", "restart"} => errand'[q].account \in 1 .. ids
                 /\ errand'[q].for = "quit" => quitting # "no"
                 /\ stop'[q].step # "settling" =>
                      /\ errand'[q].for = "forget" /\ errand'[q].account \notin late => NoServer
                      /\ errand'[q].for = "quit" /\ NoAccount \notin late => NoServer
      <3>1. CASE q = s
        BY <3>1, <1>2, <1>3
      <3>2. CASE q # s
        BY <3>2, <1>2 DEF ShellInv, CalmInv
      <3> QED
        BY <3>1, <3>2
    <2> QED
      BY <1>1, <2>1, <2>2 DEF ShellInv, CalmInv
  <1>7. WindowsInv'
    <2>1. \A a \in Account : Forgetting(a)' => Forgetting(a) \/ a = account
      BY <1>2 DEF Forgetting
    <2>2. \A a \in 1 .. ids : a \in Account
      BY ShellTyped DEF ShellInv
    <2>3. \A a \in 1 .. ids : (a # account' \/ Forgetting(a)') /\ a \notin late' => windows'[a] = NoWindow
      BY <1>1, <1>4, <2>1, <2>2 DEF ShellInv, WindowsInv
    <2>4. \A a \in Account : windows'[a] # NoWindow =>
            a <= ids' /\ owner'[windows'[a]] = a /\ frame'[windows'[a]] \in {"open", "closing"}
      <3>1. ASSUME NEW a \in Account, windows'[a] # NoWindow
            PROVE  a # account /\ windows'[a] = windows[a] /\ windows[a] \in Frame
        BY <3>1, <1>4
      <3> QED
        BY <1>1, <3>1 DEF ShellInv, WindowsInv
    <2>5. /\ \A w \in Frame : frame'[w] # "none" => owner'[w] \in Account
          /\ \A w \in Frame : frame'[w] = "open" => owner'[w] \in Account
      <3>1. ASSUME NEW w \in Frame, frame'[w] # "none" PROVE frame[w] # "none"
        <4>1. CASE w = windows[account]
          <5>1. windows[account] # NoWindow
            BY <4>1, ShellTyped DEF ShellInv
          <5> QED
            BY <4>1, <5>1, <1>3 DEF ShellInv, WindowsInv
        <4> QED
          BY <1>1, <3>1, <4>1
      <3> QED
        BY <1>1, <3>1 DEF ShellInv, WindowsInv
    <2>6. \A w \in Frame : frame'[w] = "open" /\ w \notin disowned' => windows'[owner'[w]] = w
      <3>1. ASSUME NEW w \in Frame, frame'[w] = "open", w \notin disowned'
            PROVE  /\ w # windows[account] /\ frame[w] = "open" /\ owner[w] \in Account
                   /\ windows[owner[w]] = w
        BY <1>1, <3>1 DEF ShellInv, WindowsInv
      <3> QED
        BY <1>1, <1>4, <3>1
    <2>7. \A a \in badged' : windows'[a] # NoWindow
      <3>1. \A a \in badged : a \in Account
        BY ShellTyped DEF ShellInv
      <3> QED
        BY <1>1, <1>4, <3>1 DEF ShellInv, WindowsInv
    <2> QED
      BY <1>1, <2>3, <2>4, <2>5, <2>6, <2>7 DEF WindowsInv
  <1> QED
    BY <1>5, <1>6, <1>7 DEF ShellInv

\* An errand is done: the account goes, or the app.
LEMMA DoneStep ==
  ASSUME ShellInv, LocalInv', NEW s \in Stopper, Forgotten(s) \/ QuitGoesOn(s)
  PROVE  ShellInv'
  <1>1. /\ errand' = [errand EXCEPT ![s] = NoErrand] /\ stop[s] = NoStop
        /\ UNCHANGED <<localVars, ids, frames, sent, late>>
        /\ quitting' = quitting \/ quitting' = "done"
        /\ account' = account \/ account' = NoAccount
    BY DEF Forgotten, QuitGoesOn, Back, CanGoOn
  <1>2. /\ errand' \in [Stopper -> Errand \cup {NoErrand}] /\ errand'[s] = NoErrand
        /\ \A q \in Stopper : q # s => errand'[q] = errand[q]
    BY <1>1, ShellTyped DEF ShellInv
  <1>3. UNCHANGED <<stop, server, starting>> /\ (NoServer' <=> NoServer)
    BY <1>1 DEF localVars, NoServer
  <1>4. ids \in Nat /\ account' \in 0 .. ids
    BY <1>1, ShellTyped DEF ShellInv, NoAccount
  <1>5. ShellTypeOK'
    BY <1>1, <1>2, <1>4 DEF ShellInv, ShellTypeOK, LocalInv, frames
  <1>6. CalmInv'
    <2>1. stop[s].step # "settling"
      BY <1>1 DEF NoStop
    <2>2. account' = NoAccount /\ ids \notin late => NoServer
      <3>1. CASE account' # account
        BY <3>1, <2>1 DEF Forgotten, QuitGoesOn, CanGoOn, ShellInv, CalmInv
      <3>2. CASE account' = account
        BY <3>2 DEF ShellInv, CalmInv
      <3> QED
        BY <3>1, <3>2
    <2>3. quitting' = "done" /\ NoAccount \notin late => NoServer
      BY <2>1 DEF Forgotten, QuitGoesOn, CanGoOn, ShellInv, CalmInv
    <2>4. ASSUME NEW q \in Stopper
          PROVE  /\ errand'[q].for \in {"forget", "restart"} => errand'[q].account \in 1 .. ids
                 /\ errand'[q].for = "quit" => quitting' # "no"
                 /\ stop[q].step # "settling" =>
                      /\ errand'[q].for = "forget" /\ errand'[q].account \notin late => NoServer
                      /\ errand'[q].for = "quit" /\ NoAccount \notin late => NoServer
      <3>1. CASE q = s
        BY <3>1, <1>2 DEF NoErrand
      <3>2. CASE q # s
        BY <3>2, <1>1, <1>2 DEF ShellInv, CalmInv
      <3> QED
        BY <3>1, <3>2
    <2> QED
      BY <1>1, <1>3, <2>2, <2>3, <2>4 DEF ShellInv, CalmInv
  <1>7. WindowsInv'
    <2>1. \A a \in Account : Forgetting(a)' => Forgetting(a)
      BY <1>2 DEF Forgetting, NoErrand
    <2>2. \A a \in 1 .. ids : a \in Account
      BY ShellTyped DEF ShellInv
    <2>3. \A a \in 1 .. ids : a # account' => a # account \/ Forgetting(a)
      <3>1. CASE account' # account
        <4>1. errand[s].for = "forget" /\ errand[s].account = account
          BY <3>1 DEF Forgotten, QuitGoesOn, CanGoOn
        <4>2. errand[s] = [for |-> "forget", account |-> account]
          BY <4>1, ShellTyped DEF ShellInv, Errand, NoErrand
        <4> QED
          BY <4>2 DEF Forgetting
      <3> QED
        BY <3>1
    <2>4. \A a \in 1 .. ids : (a # account' \/ Forgetting(a)') /\ a \notin late => windows[a] = NoWindow
      BY <2>1, <2>2, <2>3 DEF ShellInv, WindowsInv
    <2> QED
      BY <1>1, <2>4 DEF ShellInv, WindowsInv, frames
  <1> QED
    BY <1>5, <1>6, <1>7 DEF ShellInv

\* What only the windows see.
LEMMA WindowStep ==
  ASSUME ShellInv, LocalInv', NEW w \in Frame, Shown(w) \/ UserCloses(w) \/ WindowClosed(w)
  PROVE  ShellInv'
  <1>1. UNCHANGED <<localVars, account, ids, owner, errand, sent, quitting, late>>
    BY DEF Shown, UserCloses, WindowClosed
  <1>2. CalmInv'
    BY <1>1 DEF ShellInv, CalmInv, NoServer, localVars
  <1>3. \A a \in 1 .. ids : Forgetting(a)' <=> Forgetting(a)
    BY <1>1 DEF Forgetting
  <1>4. CASE Shown(w)
    <2>1. PICK a \in Account : windows[a] = w
      BY <1>4 DEF Shown, Registered
    <2>2. owner[w] = a /\ windows[a] # NoWindow
      BY <2>1, ShellTyped DEF ShellInv, WindowsInv
    <2>3. badged' = badged \cup {a} /\ UNCHANGED <<windows, frame, disowned>>
      BY <1>4, <2>2 DEF Shown
    <2>4. ShellTypeOK'
      BY <1>1, <2>3 DEF ShellInv, ShellTypeOK, LocalInv
    <2>5. WindowsInv'
      BY <1>1, <1>3, <2>2, <2>3 DEF ShellInv, WindowsInv
    <2> QED
      BY <1>2, <2>4, <2>5 DEF ShellInv
  <1>5. CASE UserCloses(w)
    <2>1. frame[w] = "open" /\ frame' = [frame EXCEPT ![w] = "closing"] /\ UNCHANGED <<windows, badged, disowned>>
      BY <1>5 DEF UserCloses
    <2>2. frame' \in [Frame -> {"none", "open", "closing", "destroyed"}] /\ frame'[w] = "closing"
          /\ \A v \in Frame : v # w => frame'[v] = frame[v]
      BY <2>1, ShellTyped DEF ShellInv
    <2>3. ShellTypeOK'
      BY <1>1, <2>1, <2>2 DEF ShellInv, ShellTypeOK, LocalInv
    <2>4. \A a \in Account : windows[a] # NoWindow => windows[a] \in Frame
      BY ShellTyped DEF ShellInv
    <2>5. WindowsInv'
      BY <1>1, <1>3, <2>1, <2>2, <2>4 DEF ShellInv, WindowsInv
    <2> QED
      BY <1>2, <2>3, <2>5 DEF ShellInv
  <1>6. CASE WindowClosed(w)
    <2> DEFINE o == owner[w]
    <2>1. /\ frame[w] = "closing" /\ frame' = [frame EXCEPT ![w] = "destroyed"]
          /\ windows' = [windows EXCEPT ![o] = NoWindow] /\ badged' = badged \ {o}
          /\ disowned' = disowned \cup ({windows[o]} \ {w, NoWindow})
      BY <1>6 DEF WindowClosed
    <2>2. o \in Account
      BY <2>1 DEF ShellInv, WindowsInv
    <2>3. /\ frame' \in [Frame -> {"none", "open", "closing", "destroyed"}] /\ frame'[w] = "destroyed"
          /\ \A v \in Frame : v # w => frame'[v] = frame[v]
          /\ windows' \in [Account -> Frame \cup {NoWindow}] /\ windows'[o] = NoWindow
          /\ \A a \in Account : a # o => windows'[a] = windows[a]
      BY <2>1, <2>2, ShellTyped DEF ShellInv
    <2>4. ShellTypeOK'
      BY <1>1, <2>1, <2>2, <2>3, ShellTyped DEF ShellInv, ShellTypeOK, LocalInv
    <2>5. \A a \in Account : windows'[a] # NoWindow =>
            a # o /\ windows'[a] = windows[a] /\ windows[a] \in Frame /\ windows[a] # w
      BY <2>2, <2>3, ShellTyped DEF ShellInv, WindowsInv
    <2>6. \A v \in Frame : frame'[v] = "open" /\ v \notin disowned' => windows'[owner'[v]] = v
      <3>1. ASSUME NEW v \in Frame, frame'[v] = "open", v \notin disowned'
            PROVE  windows'[owner'[v]] = v
        <4>1. v # w /\ frame[v] = "open" /\ v \notin disowned /\ v # NoWindow
          BY <3>1, <2>1, <2>3, ShellTyped DEF ShellInv
        <4>2. owner[v] \in Account /\ windows[owner[v]] = v
          BY <4>1 DEF ShellInv, WindowsInv
        <4>3. owner[v] # o
          BY <4>1, <4>2, <3>1, <2>1
        <4> QED
          BY <1>1, <2>3, <4>2, <4>3
      <3> QED
        BY <3>1
    <2>7. /\ \A v \in Frame : frame'[v] # "none" => frame[v] # "none"
          /\ \A v \in Frame : frame'[v] = "open" => frame[v] = "open"
      BY <2>1, <2>3
    <2>8. \A a \in badged' : windows'[a] # NoWindow
      <3>1. \A a \in badged : a \in Account
        BY ShellTyped DEF ShellInv
      <3> QED
        BY <2>1, <2>3, <3>1 DEF ShellInv, WindowsInv
    <2>9. \A a \in 1 .. ids : a \in Account
      BY ShellTyped DEF ShellInv
    <2>10. \A a \in 1 .. ids : (a # account' \/ Forgetting(a)') /\ a \notin late => windows'[a] = NoWindow
      BY <1>1, <1>3, <2>3, <2>9 DEF ShellInv, WindowsInv
    <2>11. WindowsInv'
      BY <1>1, <2>3, <2>5, <2>6, <2>7, <2>8, <2>10 DEF ShellInv, WindowsInv
    <2> QED
      BY <1>2, <2>4, <2>11 DEF ShellInv
  <1> QED
    BY <1>4, <1>5, <1>6

LEMMA ShellStep == ShellInv /\ [ShellNext]_shellVars => ShellInv'
  <1> SUFFICES ASSUME ShellInv, [ShellNext]_shellVars PROVE ShellInv'
    OBVIOUS
  <1>1. LocalInv'
    BY ShellStepIsLocal, LocalStep DEF ShellInv
  <1>2. CASE UNCHANGED shellVars
    <2>1. UNCHANGED <<shell, stop, server, starting>>
      BY <1>2 DEF shellVars, localVars
    <2> QED
      BY <1>1, <2>1, ServerMoves DEF NoServer
  <1>3. CASE StartGoesOn
    BY <1>1, <1>3, StartMoves
  <1>4. ASSUME NEW s \in Stopper, ErrandGoesOn(s) PROVE ShellInv'
    <2>1. CASE (StopTakes(s) \/ StopEnds(s)) /\ UNCHANGED shell
      BY <1>1, <2>1, StopMoves
    <2>2. CASE Restarted(s)
      <3>1. PICK w \in Window : AsksFor(w)
        BY <2>2, RestartAsksAWindow DEF ShellInv
      <3>2. /\ errand' = [errand EXCEPT ![s] = NoErrand] /\ errand[s].for = "restart"
            /\ UNCHANGED <<account, ids, frames, sent, quitting>>
        BY <2>2 DEF Restarted, CanGoOn, Back
      <3>3. /\ errand' \in [Stopper -> Errand \cup {NoErrand}]
            /\ \A q \in Stopper : errand'[q] = errand[q] \/ errand'[q] = NoErrand
        BY <3>2, ShellTyped DEF ShellInv
      <3>4. ids >= 1
        BY <3>2, ShellTyped DEF ShellInv, CalmInv
      <3>5. quitting # "done"
        BY <1>4 DEF ErrandGoesOn
      <3> QED
        BY <1>1, <3>1, <3>2, <3>3, <3>4, <3>5, PlainAskStep
    <2>3. CASE QuitGoesOn(s)
      BY <1>1, <2>3, DoneStep
    <2> QED
      BY <1>4, <2>1, <2>2, <2>3 DEF ErrandGoesOn
  <1>5. ASSUME NEW c \in Child, ChildStep(c), UNCHANGED shell PROVE ShellInv'
    BY <1>1, <1>5, ChildMoves
  <1>t. /\ account \in 0 .. ids /\ ids \in Nat /\ ids <= MaxAccounts /\ (account # NoAccount => account = ids)
        /\ errand \in [Stopper -> Errand \cup {NoErrand}] /\ Background \in Window /\ Frame \subseteq Window
        /\ NoWindow \notin Frame
    BY ShellTyped DEF ShellInv, CalmInv
  <1>6. ASSUME Launches, quitting # "done" PROVE ShellInv'
    BY <1>1, <1>6, <1>t, PlainAskStep DEF Launches
  <1>7. ASSUME OpensLocal \/ AddsLocal, quitting # "done" PROVE ShellInv'
    <2>1. CASE OpensLocal
      <3>1. account \in Account
        BY <2>1, <1>t, ShellAssumption DEF OpensLocal, Account, NoAccount
      <3> QED
        BY <1>1, <1>7, <2>1, <3>1, OpenStep DEF OpensLocal
    <2>2. CASE AddsLocal
      <3>1. ids + 1 \in Account
        BY <2>2, <1>t, ShellAssumption DEF AddsLocal, Account
      <3> QED
        BY <1>1, <1>7, <2>2, <3>1, OpenStep DEF AddsLocal
    <2> QED
      BY <1>7, <2>1, <2>2
  <1>8. ASSUME NEW w \in Frame, AsksAgain(w), quitting # "done" PROVE ShellInv'
    <2>1. account # NoAccount
      <3>1. PICK a \in Account : windows[a] = w
        BY <1>8 DEF AsksAgain, Registered
      <3>2. owner[w] = a
        BY <3>1, <1>t DEF ShellInv, WindowsInv
      <3> QED
        BY <1>8, <3>2 DEF AsksAgain, Account, NoAccount
    <2> QED
      BY <1>1, <1>8, <1>t, <2>1, PlainAskStep DEF AsksAgain
  <1>9. ASSUME NEW w \in Frame, Shown(w) \/ UserCloses(w) \/ WindowClosed(w) PROVE ShellInv'
    BY <1>1, <1>9, WindowStep
  <1>10. ASSUME NEW s \in Stopper, Forgets(s) \/ Forgotten(s) \/ Restarts(s) \/ Quits(s) PROVE ShellInv'
    BY <1>1, <1>10, ForgetStep, DoneStep, SendStep
  <1> QED
    BY <1>2, <1>3, <1>4, <1>5, <1>6, <1>7, <1>8, <1>9, <1>10 DEF ShellNext

THEOREM ShellKeepsInv == ShellSpec => []ShellInv
  BY ShellStart, ShellStep, PTL DEF ShellSpec

\* The app uses its server in no way but those LocalServer allows: what is proved of the
\* server holds in the app (main.mjs, local-server.mjs).
THEOREM ShellIsLocal == ShellSpec => LocalSpec
  <1>1. ShellInit => LocalInit
    BY DEF ShellInit
  <1>2. ShellInv /\ [ShellNext]_shellVars => [LocalNext]_localVars
    BY ShellStepIsLocal DEF ShellInv
  <1> QED
    BY <1>1, <1>2, ShellKeepsInv, PTL DEF ShellSpec, LocalSpec

\* No server without an account, no window of a forgotten account and no window that the
\* app cannot find, but for what was asked at the wrong time (main.mjs).
THEOREM NothingStaysBehind == ShellSpec => []NothingIsOrphaned
  <1>1. ShellInv => NothingIsOrphaned
    BY DEF ShellInv, CalmInv, WindowsInv, NoServer, NothingIsOrphaned
  <1> QED
    BY <1>1, ShellKeepsInv, PTL
=============================================================================
