------------------------------- MODULE Chats -------------------------------
(***************************************************************************)
(* The chats of one agent (chats.ts, chat-routes.ts), the turns that run   *)
(* in their sessions, the dots of the chats at work (activity.ts) and the  *)
(* badges of unread replies (unread.ts), which the observer of             *)
(* chat-activity.ts keeps from the turns' events.                          *)
(*                                                                         *)
(* A session names a conversation in Flue, which outlives the row of its   *)
(* chat.  The first main chat of an agent takes the session every agent    *)
(* had before there were chats, the bare one; any other chat takes one     *)
(* with its own id.                                                        *)
(***************************************************************************)
EXTENDS Naturals, FiniteSets

CONSTANTS
  MaxChats,    \* bound: chats ever opened; ids are never reused
  MaxUnread,   \* bound: unread replies counted in one chat
  MaxCrashes   \* bound: deaths of the process

ASSUME ChatsAssumption == MaxChats \in Nat /\ MaxUnread \in Nat /\ MaxCrashes \in Nat

VARIABLES
  chat,      \* the chats table
  opened,    \* ids handed out so far
  unread,    \* chat_unread: count for each session
  active,    \* ActivityTracker: sessions with a turn in flight
  spoken,    \* sessions that hold a conversation in Flue
  buried,    \* sessions whose chat was deleted
  mainless,  \* once the agent lost its main chat: the live one was reopened, which makes
             \* it a side chat, or a death in clearMain left none
  torn,      \* sessions whose chat was deleted by a request that died before it cleared
             \* the badge
  crashes

chatsVars == <<chat, opened, unread, active, spoken, buried, mainless, torn, crashes>>

ChatId == 1 .. MaxChats
Bare == 0
ChatSession == ChatId \cup {Bare}   \* a chat's own session is named by its id

NoChat == [kind |-> "none", closed |-> FALSE, session |-> Bare]
ChatRow == [kind : {"main", "side"}, closed : BOOLEAN, session : ChatSession]

ChatsTypeOK ==
  /\ chat \in [ChatId -> ChatRow \cup {NoChat}]
  /\ opened \in 0 .. MaxChats
  /\ \A c \in ChatId : c > opened => chat[c] = NoChat
  /\ unread \in [ChatSession -> 0 .. MaxUnread]
  /\ active \subseteq ChatSession
  /\ spoken \subseteq ChatSession
  /\ buried \subseteq ChatSession
  /\ mainless \in BOOLEAN
  /\ torn \subseteq ChatSession
  /\ crashes \in 0 .. MaxCrashes

\* The agent may be older than its chats, and hold a conversation already.
ChatsInit ==
  /\ chat = [c \in ChatId |-> NoChat]
  /\ opened = 0
  /\ unread = [s \in ChatSession |-> 0]
  /\ active = {}
  /\ spoken \in {{}, {Bare}}
  /\ buried = {} /\ torn = {}
  /\ mainless = FALSE
  /\ crashes = 0

-----------------------------------------------------------------------------
(* The store.  An operator that changes the table is a function of it.     *)

Exists(table, c) == table[c] # NoChat
OpenMains(table) == {c \in ChatId : table[c].kind = "main" /\ ~table[c].closed}
HasMain(table) == OpenMains(table) # {}
SessionsOf(table) == {table[c].session : c \in {d \in ChatId : Exists(table, d)}}

\* Mutant: every main chat takes the bare session.
SessionForMain(table, c, kind) == IF kind = "main" THEN Bare ELSE c

\* #session: bare for a main chat when no other row, open or closed, is one.
SessionFor(table, c, kind) ==
  IF kind = "main" /\ \A d \in ChatId : table[d].kind # "main" THEN Bare ELSE c

\* #insert fails, and changes nothing, when its session is taken: the column is unique.
CanInsert(table, c, kind) == c \in ChatId /\ SessionFor(table, c, kind) \notin SessionsOf(table)

Inserted(table, c, kind) ==
  [table EXCEPT ![c] = [kind |-> kind, closed |-> FALSE, session |-> SessionFor(table, c, kind)]]

Closed(table, c) == [table EXCEPT ![c].closed = TRUE]
\* Mutant: a chat comes back as what it was.
ReopenedAsIs(table, c) == [table EXCEPT ![c].closed = FALSE]

Reopened(table, c) == [table EXCEPT ![c].closed = FALSE, ![c].kind = "side"]

\* Mutant: a closed main chat is protected, and the live one is not.
IsClosedMain(c) == chat[c].kind = "main" /\ chat[c].closed

IsLiveMain(c) == c \in OpenMains(chat)

badges == <<unread, active, spoken, torn>>

OpenMain ==
  /\ ~HasMain(chat)
  /\ CanInsert(chat, opened + 1, "main")
  /\ chat' = Inserted(chat, opened + 1, "main")
  /\ opened' = opened + 1
  /\ UNCHANGED <<badges, buried, mainless, crashes>>

OpenSide ==
  /\ CanInsert(chat, opened + 1, "side")
  /\ chat' = Inserted(chat, opened + 1, "side")
  /\ opened' = opened + 1
  /\ UNCHANGED <<badges, buried, mainless, crashes>>

\* The close route.
CloseChat(c) ==
  /\ Exists(chat, c) /\ ~IsLiveMain(c)
  /\ chat' = Closed(chat, c)
  /\ UNCHANGED <<opened, badges, buried, mainless, crashes>>

\* The reopen route takes any chat, also the live main.
ReopenChat(c) ==
  /\ Exists(chat, c)
  /\ chat' = Reopened(chat, c)
  /\ mainless' = (mainless \/ IsLiveMain(c))
  /\ UNCHANGED <<opened, badges, buried, crashes>>

\* The delete route: the row, then the badge.
DeleteRow(c) ==
  /\ Exists(chat, c) /\ ~IsLiveMain(c)
  /\ chat' = [chat EXCEPT ![c] = NoChat]
  /\ buried' = buried \cup {chat[c].session}
  /\ UNCHANGED <<opened, active, spoken, mainless>>

MarkRead(s) ==
  /\ unread' = [unread EXCEPT ![s] = 0]
  /\ torn' = torn \ {s}

DeleteChat(c) ==
  /\ DeleteRow(c)
  /\ MarkRead(chat[c].session)
  /\ UNCHANGED crashes

\* clearMain: the current main, which may have to be made first, is closed and a new
\* one inserted, if it can be.
StartOver ==
  \E c \in OpenMains(chat) :
    LET closed == Closed(chat, c)
        inserts == CanInsert(closed, opened + 1, "main") IN
      /\ opened < MaxChats
      /\ chat' = IF inserts THEN Inserted(closed, opened + 1, "main") ELSE closed
      /\ opened' = IF inserts THEN opened + 1 ELSE opened
      /\ UNCHANGED <<badges, buried, mainless, crashes>>

ReadChat(c) ==
  /\ Exists(chat, c)
  /\ MarkRead(chat[c].session)
  /\ UNCHANGED <<chat, opened, active, spoken, buried, mainless, crashes>>

-----------------------------------------------------------------------------
(* Turns and the observer.                                                 *)

\* agent_start, in the session of a chat or of one that is no more.
TurnBegins(s) ==
  /\ s \in SessionsOf(chat) \cup spoken
  /\ s \notin active
  /\ active' = active \cup {s}
  /\ spoken' = spoken \cup {s}
  /\ UNCHANGED <<chat, opened, unread, buried, mainless, torn, crashes>>

\* Mutant: the reply is counted whoever may read it.
CountsAny(s) == TRUE

\* agent_end: the badge counts the reply if the session still has a chat.
Counts(s) == s \in SessionsOf(chat)

TurnEnds(s) ==
  /\ s \in active
  /\ unread[s] < MaxUnread
  /\ active' = active \ {s}
  /\ unread' = IF Counts(s) THEN [unread EXCEPT ![s] = @ + 1] ELSE unread
  /\ UNCHANGED <<chat, opened, spoken, buried, mainless, torn, crashes>>

-----------------------------------------------------------------------------
(* Deaths of the process.  Flue takes interrupted turns up again later.    *)

Crash ==
  /\ crashes < MaxCrashes
  /\ crashes' = crashes + 1
  /\ active' = {}

ChatsDie ==
  /\ Crash
  /\ UNCHANGED <<chat, opened, unread, spoken, buried, mainless, torn>>

\* In clearMain, between the two writes.
DiesInStartOver ==
  \E c \in OpenMains(chat) :
    /\ Crash
    /\ chat' = Closed(chat, c)
    /\ mainless' = TRUE
    /\ UNCHANGED <<opened, unread, spoken, buried, torn>>

\* In the delete route, before the badge is cleared.
DiesInDelete(c) ==
  /\ Exists(chat, c) /\ ~IsLiveMain(c)
  /\ Crash
  /\ chat' = [chat EXCEPT ![c] = NoChat]
  /\ buried' = buried \cup {chat[c].session}
  /\ torn' = torn \cup {chat[c].session}
  /\ UNCHANGED <<opened, unread, spoken, mainless>>

ChatsOperatorStep ==
  \/ OpenMain \/ OpenSide \/ StartOver
  \/ \E c \in ChatId : CloseChat(c) \/ ReopenChat(c) \/ DeleteChat(c) \/ ReadChat(c)

TurnStep == \E s \in ChatSession : TurnBegins(s) \/ TurnEnds(s)

ChatsDeath == ChatsDie \/ DiesInStartOver \/ \E c \in ChatId : DiesInDelete(c)

ChatsNext == ChatsOperatorStep \/ TurnStep \/ ChatsDeath

ChatsSpec == ChatsInit /\ [][ChatsNext]_chatsVars

-----------------------------------------------------------------------------
(* Properties.                                                             *)

\* "always as a side chat so it cannot become a 2nd main" (chats.ts): an agent never
\* has two open main chats, however chats are closed, reopened and started over.
OneMain == Cardinality(OpenMains(chat)) <= 1

\* The lazy insert of main() finds its session free: the bare session is held by a side
\* chat while no chat is a main only after the agent once lost its main, by a reopen of
\* the live one or a death in clearMain.
MainCanBeOpened ==
  ~HasMain(chat) /\ opened < MaxChats /\ ~mainless => CanInsert(chat, opened + 1, "main")

\* "Flue's copy stays, unreachable" (chats.ts): no chat gets the session of one that was
\* deleted, unless the agent once lost its main and the bare session came free that way.
BuriedStaysBuried == ~mainless => buried \cap SessionsOf(chat) = {}

\* A badge can be cleared: unread replies are of a session that has a chat to open,
\* except where a death cut the delete route short.
BadgeHasChat == \A s \in ChatSession : unread[s] > 0 => s \in SessionsOf(chat) \cup torn
=============================================================================
