------------------------------ MODULE LiveView ------------------------------
(***************************************************************************)
(* The attention board as the operator's browser shows it (AttentionStore, *)
(* RootStore), and what keeps it fresh: the doorbell a change rings        *)
(* (attention.ts, operator-events.ts), the stream that carries it          *)
(* (operator-routes.ts, the client's EventSource), the load that each bell *)
(* starts and whose answers come back in any order, and the operator's     *)
(* own answers, which drop an item before the board is loaded again.       *)
(*                                                                         *)
(* A bell says that something changed, not what.  `version` counts the     *)
(* changes of the board; a load answers with the items of some version.    *)
(***************************************************************************)
EXTENDS Naturals

CONSTANTS
  Item,       \* attention items; ids are never reused
  JobItem,    \* those that belong to a job
  MaxBells,   \* bound: bells on their way
  MaxLoads,   \* bound: loads the server has not read yet
  MaxBreaks   \* bound: times the stream breaks

ASSUME ViewAssumption ==
  JobItem \subseteq Item /\ MaxBells \in Nat /\ MaxLoads \in Nat \ {0} /\ MaxBreaks \in Nat

VARIABLES
  board,    \* open items
  past,     \* items raised so far
  version,  \* changes of the board so far
  stream,   \* of the browser: "opening" until the server has subscribed it
  bells,    \* on their way to the browser
  requests, \* loads on their way to the server
  answers,  \* answers on their way back
  shown,    \* items
  best,     \* newest version ever shown
  reply,    \* the operator's answers, under way
  overtook, \* history: the last answer was older than one before it
  unheard,  \* history: the network kept the last change from the browser
  unrung,   \* history: no bell was rung for the last change
  breaks

viewVars == <<board, past, version, stream, bells, requests, answers, shown, best, reply,
              overtook, unheard, unrung, breaks>>

Answer == [version : Nat, items : SUBSET Item]

ViewTypeOK ==
  /\ board \subseteq past /\ past \subseteq Item
  /\ version \in Nat
  /\ stream \in {"opening", "live"}
  /\ bells \in 0 .. MaxBells
  /\ requests \in 0 .. MaxLoads
  /\ answers \subseteq Answer
  /\ shown \subseteq Item
  /\ best \in Nat
  /\ reply \in [Item -> {"none", "asked", "answered", "refused"}]
  /\ overtook \in BOOLEAN /\ unheard \in BOOLEAN /\ unrung \in BOOLEAN
  /\ breaks \in 0 .. MaxBreaks

\* connect: the board is loaded, and then the stream opened.
ViewInit ==
  /\ board = {} /\ past = {} /\ version = 0
  /\ stream = "opening" /\ bells = 0
  /\ requests = 1 /\ answers = {}
  /\ shown = {} /\ best = 0
  /\ reply = [i \in Item |-> "none"]
  /\ overtook = FALSE /\ unheard = FALSE /\ unrung = FALSE /\ breaks = 0

loads == <<requests, answers, shown, best, overtook>>

-----------------------------------------------------------------------------
(* The server.                                                             *)

\* The board changes, and the bell is rung for the browsers whose stream is subscribed.
Changes(items) == board' = items /\ version' = version + 1

Rung ==
  /\ stream = "live" => bells < MaxBells
  /\ bells' = IF stream = "live" THEN bells + 1 ELSE bells
  /\ unheard' = (stream # "live") /\ unrung' = FALSE

\* raise and raiseRequest.
ItemRaised(i) ==
  /\ i \notin past
  /\ past' = past \cup {i}
  /\ Changes(board \cup {i}) /\ Rung
  /\ UNCHANGED <<stream, loads, reply, breaks>>

\* answer, resolveRequest and dismissRequest, from another device of the operator.
ItemClosed(i) ==
  /\ i \in board
  /\ Changes(board \ {i}) /\ Rung
  /\ UNCHANGED <<past, stream, loads, reply, breaks>>

\* cancelForJob, at the end of a job: it rings no bell.  That of the job has the browser
\* load the jobs and the overview of the staff, and not the board.
JobItemsCancelled ==
  /\ board \cap JobItem # {}
  /\ Changes(board \ JobItem)
  /\ unheard' = (stream # "live") /\ unrung' = TRUE
  /\ UNCHANGED <<past, stream, bells, loads, reply, breaks>>

-----------------------------------------------------------------------------
(* The stream.                                                             *)

\* The server says "ready", which nobody listens for, and subscribes the browser.
StreamSubscribed ==
  /\ stream = "opening"
  /\ stream' = "live"
  /\ UNCHANGED <<board, past, version, bells, loads, reply, unheard, unrung, breaks>>

\* It breaks, or the server restarts; the EventSource opens another one.
Breaks ==
  /\ stream = "live" /\ breaks < MaxBreaks
  /\ breaks' = breaks + 1
  /\ stream' = "opening" /\ bells' = 0
  /\ unheard' = (unheard \/ bells > 0)
  /\ UNCHANGED <<board, past, version, loads, reply, unrung>>

-----------------------------------------------------------------------------
(* The browser.                                                            *)

\* Mutant: no load is started while one is under way.
HeardIdle ==
  /\ bells > 0 /\ requests < MaxLoads
  /\ bells' = bells - 1
  /\ requests' = IF requests = 0 /\ answers = {} THEN 1 ELSE requests
  /\ UNCHANGED <<board, past, version, stream, answers, shown, best, overtook, reply, unheard,
                 unrung, breaks>>

\* Every bell starts a load.
Heard ==
  /\ bells > 0 /\ requests < MaxLoads
  /\ bells' = bells - 1
  /\ requests' = requests + 1
  /\ UNCHANGED <<board, past, version, stream, answers, shown, best, overtook, reply, unheard,
                 unrung, breaks>>

LoadRead ==
  /\ requests > 0
  /\ requests' = requests - 1
  /\ answers' = answers \cup {[version |-> version, items |-> board]}
  /\ UNCHANGED <<board, past, version, stream, bells, shown, best, overtook, reply, unheard,
                 unrung, breaks>>

\* The last answer to arrive is shown, whichever load it answers.
LoadArrives(a) ==
  /\ a \in answers
  /\ answers' = answers \ {a}
  /\ shown' = a.items
  /\ best' = IF a.version > best THEN a.version ELSE best
  /\ overtook' = (a.version < best)
  /\ UNCHANGED <<board, past, version, stream, bells, requests, reply, unheard, unrung, breaks>>

\* The board stays as it is.
LoadFails ==
  /\ \/ /\ requests > 0
        /\ requests' = requests - 1
        /\ unheard' = TRUE
        /\ UNCHANGED answers
     \/ \E a \in answers :
        /\ answers' = answers \ {a}
        /\ unheard' = (unheard \/ a.version = version)
        /\ UNCHANGED requests
  /\ UNCHANGED <<board, past, version, stream, bells, shown, best, overtook, reply, unrung,
                 breaks>>

Replies(i, to) == reply' = [reply EXCEPT ![i] = to]

OperatorAnswers(i) ==
  /\ i \in shown /\ reply[i] = "none"
  /\ Replies(i, "asked")
  /\ UNCHANGED <<board, past, version, stream, bells, loads, unheard, unrung, breaks>>

\* The route, which refuses an item that is not open any more.
ReplyTaken(i) ==
  /\ reply[i] = "asked"
  /\ IF i \in board
     THEN Replies(i, "answered") /\ Changes(board \ {i}) /\ Rung
     ELSE Replies(i, "refused") /\ UNCHANGED <<board, version, bells, unheard, unrung>>
  /\ UNCHANGED <<past, stream, loads, breaks>>

\* The item is dropped, of whatever is shown by now.
ItemDropped(i) ==
  /\ reply[i] = "answered"
  /\ Replies(i, "none")
  /\ shown' = shown \ {i}
  /\ UNCHANGED <<board, past, version, stream, bells, requests, answers, best, overtook, unheard,
                 unrung, breaks>>

\* Refused, or lost on its way there or back: the item stays on the board.
ReplyFails(i) ==
  /\ reply[i] # "none"
  /\ Replies(i, "none")
  /\ UNCHANGED <<board, past, version, stream, bells, loads, unheard, unrung, breaks>>

ViewNext ==
  \/ \E i \in Item : ItemRaised(i) \/ ItemClosed(i)
  \/ JobItemsCancelled
  \/ StreamSubscribed \/ Breaks
  \/ Heard \/ LoadRead \/ LoadFails
  \/ \E a \in answers : LoadArrives(a)
  \/ \E i \in Item : OperatorAnswers(i) \/ ReplyTaken(i) \/ ItemDropped(i) \/ ReplyFails(i)

ViewSpec == ViewInit /\ [][ViewNext]_viewVars

-----------------------------------------------------------------------------
(* Properties.                                                             *)

\* Something on its way will show the board as it is.
FreshAhead == bells > 0 \/ requests > 0 \/ \E a \in answers : a.version = version

\* "There are no timers: freshness is a push" (RootStore.ts): a board that shows anything
\* but the open items has a bell or a load ahead of it that will put it right, through any
\* order of bells, answers and drops.  Only four things leave it wrong until something else
\* changes: a bell or a load the network lost, also before the stream is subscribed; an
\* older answer that overtook a newer one; and a change that rang no bell.
StaleIsExcused ==
  shown # board => FreshAhead \/ unheard \/ unrung \/ overtook

\* "Coordinator write-paths publish() a content-free 'this slice changed' signal"
\* (operator-events.ts): no change leaves it wrong by ringing no bell.
ChangesAreRung ==
  shown # board => FreshAhead \/ unheard \/ overtook
=============================================================================
