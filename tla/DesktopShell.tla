---------------------------- MODULE DesktopShell ----------------------------
(***************************************************************************)
(* The desktop app around its local server (main.mjs): the one local       *)
(* account, the windows that show it, and the requests that start and stop *)
(* the server for it.  A window is registered under its account's id, and  *)
(* forgotten when its `closed` event comes, which is some time after it    *)
(* was told to close.  Forgetting the account, restarting the server and   *)
(* quitting each wait for a stop and then go on with what they knew, and   *)
(* nothing keeps windows, menu and launcher from asking meanwhile.         *)
(***************************************************************************)
EXTENDS LocalServer

CONSTANTS
  Background,   \* a start that no window waits for
  NoWindow,
  MaxAccounts,  \* bound: ids given to the local account, one after the other
  MaxErrands    \* bound: errands sent

ASSUME ShellAssumption ==
  Background \in Window /\ NoWindow \notin Window /\ MaxAccounts \in Nat /\ MaxErrands \in Nat

VARIABLES
  account,   \* the local account in the store, or NoAccount
  ids,       \* ids given so far
  windows,   \* the registry: window of an account, or NoWindow
  badged,    \* accounts whose counts are in the app's badge
  frame,     \* the BrowserWindows
  owner,     \* the account each was opened for
  errand,    \* what each stop is for
  sent,      \* how many there were
  quitting,
  late,      \* history: accounts for whose sake or not the server was asked for while they
             \* were being forgotten or after, and NoAccount for a quit under way
  disowned   \* history: windows that lost their place to the `closed` event of another

shell == <<account, ids, windows, badged, frame, owner, errand, sent, quitting, late,
           disowned>>
shellVars == <<localVars, shell>>

Account == 1 .. MaxAccounts
NoAccount == 0
Frame == Window \ {Background}
NoErrand == [for |-> "none", account |-> NoAccount]
Errand == [for : {"forget", "restart"}, account : Account]
            \cup [for : {"quit"}, account : Account \cup {NoAccount}]

ShellTypeOK ==
  /\ LocalTypeOK
  /\ ids \in 0 .. MaxAccounts /\ account \in 0 .. ids
  /\ windows \in [Account -> Frame \cup {NoWindow}]
  /\ badged \subseteq Account
  /\ frame \in [Frame -> {"none", "open", "closing", "destroyed"}]
  /\ owner \in [Frame -> Account \cup {NoAccount}]
  /\ errand \in [Stopper -> Errand \cup {NoErrand}]
  /\ sent \in 0 .. MaxErrands
  /\ quitting \in {"no", "stopping", "done"}
  /\ late \subseteq 0 .. ids
  /\ disowned \subseteq Frame

\* An earlier run of the app may have left an account, which starts the server.
ShellInit ==
  /\ LocalInit
  /\ ids \in {0} \cup (Account \cap {1}) /\ account = ids
  /\ windows = [a \in Account |-> NoWindow]
  /\ badged = {}
  /\ frame = [w \in Frame |-> "none"]
  /\ owner = [w \in Frame |-> NoAccount]
  /\ errand = [s \in Stopper |-> NoErrand]
  /\ sent = 0 /\ quitting = "no" /\ late = {} /\ disowned = {}

frames == <<windows, badged, frame, owner, disowned>>

-----------------------------------------------------------------------------
(* Asking for the server.                                                  *)

Forgetting(a) == \E s \in Stopper : errand[s] = [for |-> "forget", account |-> a]

\* openLocal for a window, startLocalInBackground for none.
AsksFor(w) ==
  /\ Opens(w) \/ (w \in opening /\ UNCHANGED localVars)
  /\ late' = late \cup {a \in 1 .. ids : Forgetting(a) \/ (a = ids /\ account = NoAccount)}
                  \cup {a \in {NoAccount} : quitting = "stopping"}

Launches ==
  /\ account = 1 /\ forks = 0 /\ starting = NoStart /\ \A w \in Frame : frame[w] = "none"
  /\ \A s \in Stopper : errand[s] = NoErrand
  /\ AsksFor(Background)
  /\ UNCHANGED <<account, ids, frames, errand, sent, quitting>>

\* Nothing tells the windows apart that are not open yet.
NewFrame == CHOOSE w \in Frame : frame[w] = "none" \/ \A v \in Frame : frame[v] # "none"

\* openAccount: a window that is there is shown, also one that is closing.
OpensAccount(a) ==
  /\ windows[a] = NoWindow
  /\ \E w \in Frame :
       /\ w = NewFrame /\ frame[w] = "none"
       /\ frame' = [frame EXCEPT ![w] = "open"]
       /\ owner' = [owner EXCEPT ![w] = a]
       /\ windows' = [windows EXCEPT ![a] = w]
       /\ AsksFor(w)
  /\ UNCHANGED <<badged, disowned, errand, sent, quitting>>

OpensLocal ==
  /\ account # NoAccount
  /\ OpensAccount(account)
  /\ UNCHANGED <<account, ids>>

AddsLocal ==
  /\ account = NoAccount /\ ids < MaxAccounts
  /\ ids' = ids + 1 /\ account' = ids + 1
  /\ OpensAccount(ids + 1)

Registered(w) == \E a \in Account : windows[a] = w

\* Retry on the error page, and the UI when it finds no session: of a window that is
\* registered, for an account that is listed.
AsksAgain(w) ==
  /\ Registered(w) /\ owner[w] = account
  /\ AsksFor(w)
  /\ UNCHANGED <<account, ids, frames, errand, sent, quitting>>

-----------------------------------------------------------------------------
(* Windows.                                                                *)

Shown(w) ==
  /\ Registered(w)
  /\ badged' = badged \cup {owner[w]}
  /\ UNCHANGED <<localVars, account, ids, windows, frame, owner, disowned, errand, sent,
                 quitting, late>>

UserCloses(w) ==
  /\ frame[w] = "open"
  /\ frame' = [frame EXCEPT ![w] = "closing"]
  /\ UNCHANGED <<localVars, account, ids, windows, badged, owner, disowned, errand, sent,
                 quitting, late>>

\* The handler forgets whatever window its account has by now.
WindowClosed(w) ==
  /\ frame[w] = "closing"
  /\ frame' = [frame EXCEPT ![w] = "destroyed"]
  /\ windows' = [windows EXCEPT ![owner[w]] = NoWindow]
  /\ badged' = badged \ {owner[w]}
  /\ disowned' = disowned \cup ({windows[owner[w]]} \ {w, NoWindow})
  /\ UNCHANGED <<localVars, account, ids, owner, errand, sent, quitting, late>>

-----------------------------------------------------------------------------
(* Errands that wait for a stop.                                           *)

\* Nor the stops that are not under way.
NewStop == CHOOSE s \in Stopper : errand[s] = NoErrand \/ \A q \in Stopper : errand[q] # NoErrand

Sends(s, for) ==
  /\ s = NewStop /\ errand[s] = NoErrand /\ sent < MaxErrands
  /\ sent' = sent + 1
  /\ errand' = [errand EXCEPT ![s] = [for |-> for, account |-> account]]
  /\ Stops(s)

Back(s) == errand' = [errand EXCEPT ![s] = NoErrand]

CanGoOn(s, for) == errand[s].for = for /\ stop[s] = NoStop

Forgets(s) ==
  /\ account # NoAccount
  /\ Sends(s, "forget")
  /\ frame' = [w \in Frame |-> IF w = windows[account] THEN "closing" ELSE frame[w]]
  /\ windows' = [windows EXCEPT ![account] = NoWindow]
  /\ badged' = badged \ {account}
  /\ UNCHANGED <<account, ids, owner, disowned, quitting, late>>

\* The session's storage is cleared, and the account goes from the list.
Forgotten(s) ==
  /\ CanGoOn(s, "forget")
  /\ account' = IF account = errand[s].account THEN NoAccount ELSE account
  /\ Back(s)
  /\ UNCHANGED <<localVars, ids, frames, sent, quitting, late>>

Restarts(s) ==
  /\ account # NoAccount
  /\ Sends(s, "restart")
  /\ UNCHANGED <<account, ids, frames, quitting, late>>

\* For the window the account has by now, whether it is still listed or not.
Restarted(s) ==
  /\ CanGoOn(s, "restart")
  /\ LET w == windows[errand[s].account]
     IN  AsksFor(IF w = NoWindow THEN Background ELSE w)
  /\ Back(s)
  /\ UNCHANGED <<account, ids, frames, sent, quitting>>

Quits(s) ==
  /\ quitting = "no"
  /\ quitting' = "stopping"
  /\ Sends(s, "quit")
  /\ UNCHANGED <<account, ids, frames, late>>

QuitGoesOn(s) ==
  /\ CanGoOn(s, "quit")
  /\ quitting' = "done"
  /\ Back(s)
  /\ UNCHANGED <<localVars, account, ids, frames, sent, late>>

\* What a restart and a quit do after their stop comes before anything else happens.
Idle == \A s \in Stopper : ~CanGoOn(s, "restart") /\ ~CanGoOn(s, "quit")

StartGoesOn == quitting # "done" /\ Quiet /\ Idle /\ StartStep /\ UNCHANGED shell

ErrandGoesOn(s) ==
  /\ quitting # "done"
  /\ \/ (StopTakes(s) \/ (Quiet /\ Idle /\ StopEnds(s))) /\ UNCHANGED shell
     \/ Quiet /\ (Restarted(s) \/ QuitGoesOn(s))

ShellNext ==
  \/ StartGoesOn
  \/ \E s \in Stopper : ErrandGoesOn(s)
  \/ /\ quitting # "done" /\ Quiet /\ Idle
     /\ \/ (\E c \in Child : ChildStep(c)) /\ UNCHANGED shell
        \/ Launches \/ OpensLocal \/ AddsLocal
        \/ \E w \in Frame : AsksAgain(w) \/ Shown(w) \/ UserCloses(w) \/ WindowClosed(w)
        \/ \E s \in Stopper : Forgets(s) \/ Forgotten(s) \/ Restarts(s) \/ Quits(s)

ShellSpec == ShellInit /\ [][ShellNext]_shellVars

\* Probing ends, starting and stopping have a timeout, and a promise that is settled runs
\* who awaits it.
ShellFairness ==
  /\ WF_shellVars(StartGoesOn)
  /\ \A s \in Stopper : WF_shellVars(ErrandGoesOn(s))

FairShellSpec == ShellSpec /\ ShellFairness

-----------------------------------------------------------------------------
(* Properties.                                                             *)

\* Once the account is forgotten no server runs or starts and no window shows it, unless
\* somebody asked for the server while it was being forgotten or since.  A quit goes
\* through with no server of its own left, with the same exception.  And a window that is
\* open can be found, unless the `closed` event of an earlier one took its place.
NothingIsOrphaned ==
  /\ account = NoAccount /\ ids \notin late => server = NoChild /\ starting = NoStart
  /\ quitting = "done" /\ NoAccount \notin late => server = NoChild /\ starting = NoStart
  /\ \A a \in 1 .. ids : a # account /\ a \notin late => windows[a] = NoWindow
  /\ \A w \in Frame : frame[w] = "open" /\ w \notin disowned => windows[owner[w]] = w
  /\ \A a \in badged : windows[a] # NoWindow

\* A window that waits for the server gets it or hears why not, unless the app goes.
StartsEnd == \A w \in Window : w \in opening ~> w \notin opening \/ quitting = "done"
=============================================================================
