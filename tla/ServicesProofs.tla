--------------------------- MODULE ServicesProofs ---------------------------
(***************************************************************************)
(* Proofs about the services that have no proof module of their own: the   *)
(* chats of an agent (Chats), what the browser's board and the archive     *)
(* promise those who read them (LiveView, Memory), and the questions       *)
(* agents ask each other (Questions); and about the composition of all     *)
(* services (MCServices), where each of them is proved to behave as it     *)
(* does alone, so that what is proved of it holds there too.               *)
(***************************************************************************)
EXTENDS MCServices, SchedulerProofs, ConnectionsProofs, SandboxPoolProofs, LocalServerProofs

-----------------------------------------------------------------------------
(* The chats, of any number, with any number of replies and crashes.  The  *)
(* four safety properties rest on one invariant: a session is held by one  *)
(* row, and an agent that never lost its main chat has one, or never had   *)
(* any and its bare session is untouched.                                  *)

USE ChatsAssumption DEF ChatId, Bare, ChatSession

Held(s) == \E c \in ChatId : Exists(chat, c) /\ chat[c].session = s

\* Where a row's session comes from, and that it is the only one to hold it.
SessionsInv ==
  /\ \A c \in ChatId : Exists(chat, c) => chat[c].session \in {Bare, c}
  /\ \A c, d \in ChatId :
       Exists(chat, c) /\ Exists(chat, d) /\ chat[c].session = chat[d].session => c = d
  /\ \A s \in buried : s <= opened

OneOpenMain ==
  \A c, d \in ChatId : c \in OpenMains(chat) /\ d \in OpenMains(chat) => c = d

\* An agent that never lost its main chat.
MainKept ==
  ~mainless =>
    /\ \/ HasMain(chat)
       \/ /\ \A c \in ChatId : chat[c].kind # "main"
          /\ ~Held(Bare) /\ Bare \notin buried
    /\ \A s \in buried : ~Held(s)

BadgesInv == \A s \in ChatSession : unread[s] > 0 => Held(s) \/ s \in torn

ChatsInv == ChatsTypeOK /\ SessionsInv /\ OneOpenMain /\ MainKept /\ BadgesInv

-----------------------------------------------------------------------------
(* The rows.                                                               *)

LEMMA HeldIsSession ==
  ASSUME NEW s PROVE s \in SessionsOf(chat) <=> Held(s)
  BY DEF SessionsOf, Held

\* Ids are handed out in order: the next one is free, and so is its session.
LEMMA NextIsFree ==
  ASSUME ChatsInv, opened + 1 \in ChatId
  PROVE  /\ chat[opened + 1] = NoChat
         /\ ~Held(opened + 1)
         /\ opened + 1 \notin buried
  <1>1. opened \in Nat /\ chat[opened + 1] = NoChat
    BY DEF ChatsInv, ChatsTypeOK
  <1>2. \A c \in ChatId : chat[c].session = opened + 1 /\ Exists(chat, c) => c = opened + 1
    BY <1>1 DEF ChatsInv, SessionsInv
  <1>3. \A s \in buried : s <= opened
    BY DEF ChatsInv, SessionsInv
  <1> QED
    BY <1>1, <1>2, <1>3 DEF Held, Exists

LEMMA MainIsRow ==
  ASSUME NEW c \in ChatId, chat[c].kind = "main" PROVE Exists(chat, c)
  BY DEF Exists, NoChat

\* A row that goes in, for a session that is free.
LEMMA InsertStep ==
  ASSUME ChatsInv, NEW kind \in {"main", "side"},
         kind = "main" => ~HasMain(chat),
         CanInsert(chat, opened + 1, kind),
         chat' = Inserted(chat, opened + 1, kind), opened' = opened + 1,
         UNCHANGED <<badges, buried, mainless, crashes>>
  PROVE  ChatsInv'
  <1> DEFINE n == opened + 1
             session == SessionFor(chat, n, kind)
             new == [kind |-> kind, closed |-> FALSE, session |-> session]
  <1>1. n \in ChatId /\ chat[n] = NoChat /\ ~Held(n) /\ n \notin buried
    BY NextIsFree DEF CanInsert
  <1>2. session \in {Bare, n} /\ ~Held(session)
    BY HeldIsSession DEF CanInsert, SessionFor
  <1>3. new \in ChatRow /\ new # NoChat
    BY <1>1, <1>2 DEF ChatRow, NoChat, ChatsInv, ChatsTypeOK
  <1>4. chat' = [chat EXCEPT ![n] = new]
    BY DEF Inserted
  <1>5. /\ chat'[n] = new
        /\ \A c \in ChatId : c # n => chat'[c] = chat[c]
    BY <1>1, <1>4 DEF ChatsInv, ChatsTypeOK
  <1>6. \A s : Held(s)' <=> Held(s) \/ s = session
    BY <1>1, <1>3, <1>5 DEF Held, Exists
  <1>7. ChatsTypeOK'
    <2>1. chat' \in [ChatId -> ChatRow \cup {NoChat}]
      BY <1>1, <1>3, <1>4 DEF ChatsInv, ChatsTypeOK
    <2>2. opened' \in 0 .. MaxChats /\ \A c \in ChatId : c > opened' => chat'[c] = NoChat
      BY <1>1, <1>5 DEF ChatsInv, ChatsTypeOK
    <2> QED
      BY <2>1, <2>2 DEF ChatsInv, ChatsTypeOK, badges
  <1>8. SessionsInv'
    <2>1. \A c \in ChatId : Exists(chat, c)' => chat'[c].session \in {Bare, c}
      BY <1>2, <1>5 DEF ChatsInv, SessionsInv, Exists
    <2>2. \A c, d \in ChatId :
            Exists(chat, c)' /\ Exists(chat, d)' /\ chat'[c].session = chat'[d].session => c = d
      BY <1>2, <1>5 DEF ChatsInv, SessionsInv, Exists, Held
    <2>3. \A s \in buried' : s <= opened'
      BY DEF ChatsInv, ChatsTypeOK, SessionsInv
    <2> QED
      BY <2>1, <2>2, <2>3 DEF SessionsInv
  <1>9. OneOpenMain'
    BY <1>1, <1>5 DEF ChatsInv, OneOpenMain, OpenMains, HasMain
  <1>10. MainKept'
    <2> SUFFICES ASSUME ~mainless' PROVE MainKept'
      BY DEF MainKept
    <2>1. ~mainless /\ buried' = buried
      OBVIOUS
    <2>2. CASE HasMain(chat)
      <3>1. kind = "side" /\ session = n
        BY <2>2 DEF SessionFor
      <3>2. HasMain(chat)'
        BY <2>2, <1>1, <1>5 DEF HasMain, OpenMains, NoChat
      <3> QED
        BY <3>1, <3>2, <2>1, <1>1, <1>6 DEF MainKept, ChatsInv
    <2>3. CASE ~HasMain(chat) /\ kind = "main"
      <3>1. session = Bare /\ Bare \notin buried
        BY <2>1, <2>3 DEF MainKept, ChatsInv, SessionFor
      <3>2. HasMain(chat)'
        BY <2>3, <1>1, <1>5 DEF HasMain, OpenMains
      <3> QED
        BY <3>1, <3>2, <2>1, <1>6 DEF MainKept, ChatsInv
    <2>4. CASE ~HasMain(chat) /\ kind = "side"
      <3>1. session = n /\ n # Bare
        BY <2>4 DEF SessionFor, ChatsInv, ChatsTypeOK
      <3>2. \A c \in ChatId : chat'[c].kind # "main"
        BY <2>1, <2>4, <1>5 DEF MainKept, ChatsInv
      <3> QED
        BY <3>1, <3>2, <2>1, <2>4, <1>1, <1>6 DEF MainKept, ChatsInv
    <2> QED
      BY <2>2, <2>3, <2>4
  <1>11. BadgesInv'
    BY <1>6 DEF ChatsInv, BadgesInv, badges
  <1> QED
    BY <1>7, <1>8, <1>9, <1>10, <1>11 DEF ChatsInv

\* A row that changes and keeps its session: closed, or open again as a side chat.
LEMMA RowsChange ==
  ASSUME ChatsInv, NEW c \in ChatId, Exists(chat, c),
         NEW table, table \in {Closed(chat, c), Reopened(chat, c)},
         chat' = table, mainless' \in BOOLEAN,
         mainless \/ IsLiveMain(c) => mainless',
         UNCHANGED <<opened, unread, spoken, torn, buried>>,
         active' \subseteq ChatSession, crashes' \in 0 .. MaxCrashes
  PROVE  ChatsInv'
  <1>1. chat[c] \in ChatRow /\ chat \in [ChatId -> ChatRow \cup {NoChat}]
    BY DEF ChatsInv, ChatsTypeOK, Exists
  <1>2. /\ chat'[c] \in ChatRow /\ chat'[c].session = chat[c].session
        /\ chat'[c] # NoChat
        /\ \A d \in ChatId : d # c => chat'[d] = chat[d]
        /\ chat' \in [ChatId -> ChatRow \cup {NoChat}]
    <2>1. CASE table = Closed(chat, c)
      <3>1. chat' = [chat EXCEPT ![c] = [@ EXCEPT !.closed = TRUE]]
        BY <2>1 DEF Closed
      <3>2. chat'[c] = [chat[c] EXCEPT !.closed = TRUE]
        BY <3>1, <1>1
      <3>3. chat'[c] \in ChatRow /\ chat'[c].session = chat[c].session
        BY <3>2, <1>1 DEF ChatRow
      <3> QED
        BY <3>1, <3>3, <1>1 DEF ChatRow, NoChat
    <2>2. CASE table = Reopened(chat, c)
      <3>1. chat' = [chat EXCEPT ![c] = [@ EXCEPT !.closed = FALSE, !.kind = "side"]]
        BY <2>2, <1>1 DEF Reopened
      <3>2. chat'[c] = [chat[c] EXCEPT !.closed = FALSE, !.kind = "side"]
        BY <3>1, <1>1
      <3>3. chat'[c] \in ChatRow /\ chat'[c].session = chat[c].session
        BY <3>2, <1>1 DEF ChatRow
      <3> QED
        BY <3>1, <3>3, <1>1 DEF ChatRow, NoChat
    <2> QED
      BY <2>1, <2>2
  <1>3. chat'[c].kind = "main" /\ ~chat'[c].closed => FALSE
    BY <1>1 DEF Closed, Reopened, ChatRow
  <1>4. chat'[c].kind = "main" => chat[c].kind = "main"
    BY <1>1 DEF Closed, Reopened, ChatRow
  <1>5. \A s : Held(s)' <=> Held(s)
    BY <1>2 DEF Held, Exists
  <1>6. ChatsTypeOK'
    BY <1>2 DEF ChatsInv, ChatsTypeOK, Exists
  <1>7. SessionsInv'
    BY <1>2 DEF ChatsInv, SessionsInv, Exists
  <1>8. OneOpenMain'
    BY <1>2, <1>3 DEF ChatsInv, OneOpenMain, OpenMains
  <1>9. MainKept'
    <2> SUFFICES ASSUME ~mainless' PROVE MainKept'
      BY DEF MainKept
    <2>1. ~mainless /\ ~IsLiveMain(c)
      BY DEF ChatsInv, ChatsTypeOK
    <2>2. HasMain(chat) => HasMain(chat)'
      BY <2>1, <1>2 DEF HasMain, OpenMains, IsLiveMain
    <2>3. (\A d \in ChatId : chat[d].kind # "main") => \A d \in ChatId : chat'[d].kind # "main"
      BY <1>2, <1>4
    <2> QED
      BY <2>1, <2>2, <2>3, <1>5 DEF MainKept, ChatsInv
  <1>10. BadgesInv'
    BY <1>5 DEF ChatsInv, BadgesInv
  <1> QED
    BY <1>6, <1>7, <1>8, <1>9, <1>10 DEF ChatsInv

\* A row that goes, which is not the live main.
LEMMA DeleteStep ==
  ASSUME ChatsInv, NEW c \in ChatId, Exists(chat, c), ~IsLiveMain(c),
         chat' = [chat EXCEPT ![c] = NoChat],
         buried' = buried \cup {chat[c].session},
         UNCHANGED <<opened, spoken, mainless>>,
         unread' \in [ChatSession -> 0 .. MaxUnread], torn' \subseteq ChatSession,
         \A s \in ChatSession : s # chat[c].session =>
           unread'[s] = unread[s] /\ (s \in torn => s \in torn'),
         unread'[chat[c].session] > 0 => chat[c].session \in torn',
         active' \subseteq ChatSession, crashes' \in 0 .. MaxCrashes
  PROVE  ChatsInv'
  <1> DEFINE session == chat[c].session
  <1>1. /\ chat[c] \in ChatRow /\ chat \in [ChatId -> ChatRow \cup {NoChat}]
        /\ session \in {Bare, c} /\ c <= opened
    BY DEF ChatsInv, ChatsTypeOK, SessionsInv, Exists
  <1>2. /\ chat'[c] = NoChat
        /\ \A d \in ChatId : d # c => chat'[d] = chat[d]
        /\ chat' \in [ChatId -> ChatRow \cup {NoChat}]
    BY <1>1
  <1>3. \A s : Held(s)' <=> Held(s) /\ s # session
    BY <1>2 DEF Held, Exists, ChatsInv, SessionsInv
  <1>4. ChatsTypeOK'
    <2>1. \A d \in ChatId : d > opened' => chat'[d] = NoChat
      BY <1>2 DEF ChatsInv, ChatsTypeOK
    <2>2. buried' \subseteq ChatSession
      BY <1>1 DEF ChatsInv, ChatsTypeOK
    <2> QED
      BY <1>2, <2>1, <2>2 DEF ChatsInv, ChatsTypeOK
  <1>5. SessionsInv'
    <2>1. \A s \in buried' : s <= opened'
      BY <1>1 DEF ChatsInv, ChatsTypeOK, SessionsInv
    <2> QED
      BY <2>1, <1>2 DEF ChatsInv, SessionsInv, Exists
  <1>6. OneOpenMain'
    BY <1>2 DEF ChatsInv, OneOpenMain, OpenMains, NoChat
  <1>7. MainKept'
    <2> SUFFICES ASSUME ~mainless' PROVE MainKept'
      BY DEF MainKept
    <2>1. HasMain(chat) => HasMain(chat)'
      BY <1>2 DEF HasMain, OpenMains, IsLiveMain
    <2>2. ~HasMain(chat) => ~Held(Bare) /\ session # Bare
      BY DEF MainKept, ChatsInv, Held
    <2>3. (\A d \in ChatId : chat[d].kind # "main") => \A d \in ChatId : chat'[d].kind # "main"
      BY <1>2 DEF NoChat
    <2>4. \A s \in buried' : ~Held(s)'
      BY <1>3 DEF MainKept, ChatsInv
    <2> QED
      BY <2>1, <2>2, <2>3, <2>4, <1>3 DEF MainKept, ChatsInv
  <1>8. BadgesInv'
    BY <1>1, <1>3 DEF ChatsInv, BadgesInv
  <1> QED
    BY <1>4, <1>5, <1>6, <1>7, <1>8 DEF ChatsInv

\* A step that leaves the rows alone.
LEMMA BadgeStep ==
  ASSUME ChatsInv, UNCHANGED <<chat, opened, buried, mainless>>,
         unread' \in [ChatSession -> 0 .. MaxUnread], torn' \subseteq ChatSession,
         active' \subseteq ChatSession, spoken' \subseteq ChatSession,
         crashes' \in 0 .. MaxCrashes,
         \A s \in ChatSession : unread'[s] > 0 =>
           \/ Held(s)
           \/ unread'[s] = unread[s] /\ (s \in torn => s \in torn')
  PROVE  ChatsInv'
  <1>1. \A s : Held(s)' <=> Held(s)
    BY DEF Held, Exists
  <1>2. ChatsTypeOK' /\ SessionsInv' /\ OneOpenMain'
    BY DEF ChatsInv, ChatsTypeOK, SessionsInv, OneOpenMain, Exists, OpenMains
  <1>3. MainKept'
    BY <1>1 DEF ChatsInv, MainKept, HasMain, OpenMains
  <1>4. BadgesInv'
    BY <1>1 DEF ChatsInv, BadgesInv
  <1> QED
    BY <1>2, <1>3, <1>4 DEF ChatsInv

\* The main is closed and a new one, with a session of its own, takes its place.
LEMMA StartOverStep == ChatsInv /\ StartOver => ChatsInv'
  <1> SUFFICES ASSUME ChatsInv, StartOver PROVE ChatsInv'
    OBVIOUS
  <1> DEFINE n == opened + 1
             new == [kind |-> "main", closed |-> FALSE, session |-> n]
  <1>1. PICK c \in OpenMains(chat) :
          LET closed == Closed(chat, c) inserts == CanInsert(closed, n, "main") IN
            /\ opened < MaxChats
            /\ chat' = IF inserts THEN Inserted(closed, n, "main") ELSE closed
            /\ opened' = IF inserts THEN n ELSE opened
            /\ UNCHANGED <<badges, buried, mainless, crashes>>
    BY DEF StartOver
  <1> DEFINE closed == Closed(chat, c)
  <1>2. n \in ChatId /\ chat[n] = NoChat /\ ~Held(n) /\ n \notin buried
    <2>1. n \in ChatId
      BY <1>1 DEF ChatsInv, ChatsTypeOK
    <2> QED
      BY <2>1, NextIsFree
  <1>3. /\ c \in ChatId /\ chat[c].kind = "main" /\ ~chat[c].closed
        /\ chat[c] \in ChatRow /\ chat \in [ChatId -> ChatRow \cup {NoChat}] /\ c # n
        /\ chat[c] # NoChat
    BY <1>2 DEF OpenMains, ChatsInv, ChatsTypeOK, NoChat
  <1>4. /\ closed = [chat EXCEPT ![c] = [chat[c] EXCEPT !.closed = TRUE]]
        /\ closed[c] = [chat[c] EXCEPT !.closed = TRUE]
    BY <1>3 DEF Closed
  <1>5. /\ closed[c].kind = "main" /\ closed[c].closed /\ closed[c].session = chat[c].session
        /\ closed[c] \in ChatRow
    BY <1>3, <1>4 DEF ChatRow
  <1>6. SessionFor(closed, n, "main") = n
    BY <1>3, <1>5 DEF SessionFor
  <1>7. \A d \in ChatId : d # c => closed[d] = chat[d]
    BY <1>4, <1>3
  <1>8. CanInsert(closed, n, "main")
    <2>1. \A d \in ChatId : closed[d].session = chat[d].session
      BY <1>5, <1>7
    <2>2. \A d \in ChatId : Exists(closed, d) => Exists(chat, d)
      BY <1>3, <1>7 DEF Exists
    <2> QED
      BY <1>2, <1>6, <2>1, <2>2 DEF CanInsert, SessionsOf, Held
  <1>9. chat' = [closed EXCEPT ![n] = new] /\ opened' = n
    BY <1>1, <1>6, <1>8 DEF Inserted
  <1>10. closed \in [ChatId -> ChatRow \cup {NoChat}]
    BY <1>3, <1>4, <1>5
  <1>11. /\ chat'[n] = new /\ chat'[c] = closed[c]
         /\ \A d \in ChatId : d # c /\ d # n => chat'[d] = chat[d]
    BY <1>2, <1>3, <1>7, <1>9, <1>10
  <1>12. new \in ChatRow /\ new # NoChat /\ closed[c] # NoChat
    BY <1>2, <1>5 DEF ChatRow, NoChat
  <1>13. \A s : Held(s)' <=> Held(s) \/ s = n
    <2>1. ASSUME NEW s, Held(s) PROVE Held(s)'
      BY <2>1, <1>2, <1>5, <1>11, <1>12 DEF Held, Exists
    <2>2. ASSUME NEW s, Held(s)' PROVE Held(s) \/ s = n
      <3>1. PICK d \in ChatId : Exists(chat, d)' /\ chat'[d].session = s
        BY <2>2 DEF Held
      <3>2. CASE d = n
        BY <3>1, <3>2, <1>11
      <3>3. CASE d = c
        BY <3>1, <3>3, <1>3, <1>5, <1>11 DEF Held, Exists, NoChat
      <3>4. CASE d # n /\ d # c
        BY <3>1, <3>4, <1>11 DEF Held, Exists
      <3> QED
        BY <3>2, <3>3, <3>4
    <2>3. ASSUME NEW s, s = n PROVE Held(s)'
      BY <2>3, <1>2, <1>11, <1>12 DEF Held, Exists
    <2> QED
      BY <2>1, <2>2, <2>3
  <1>14. UNCHANGED <<unread, active, spoken, torn, buried, mainless, crashes>>
    BY <1>1 DEF badges
  <1>15. ChatsTypeOK'
    <2>1. chat' \in [ChatId -> ChatRow \cup {NoChat}]
      BY <1>2, <1>9, <1>10, <1>12
    <2>2. opened' \in 0 .. MaxChats /\ \A d \in ChatId : d > opened' => chat'[d] = NoChat
      <3>1. c <= opened /\ opened \in 0 .. MaxChats
        BY <1>3 DEF ChatsInv, ChatsTypeOK, NoChat
      <3> QED
        BY <1>2, <1>9, <1>11, <3>1 DEF ChatsInv, ChatsTypeOK
    <2> QED
      BY <2>1, <2>2, <1>14 DEF ChatsInv, ChatsTypeOK
  <1>16. SessionsInv'
    <2>1. \A d \in ChatId : Exists(chat, d)' => chat'[d].session \in {Bare, d}
      BY <1>3, <1>5, <1>11 DEF ChatsInv, SessionsInv, Exists, NoChat
    <2>2. ASSUME NEW d \in ChatId, NEW e \in ChatId,
                 Exists(chat, d)', Exists(chat, e)', chat'[d].session = chat'[e].session
          PROVE  d = e
      <3>1. \A f \in ChatId : f # n => chat'[f].session = chat[f].session
        BY <1>5, <1>11
      <3>2. \A f \in ChatId : f # n /\ Exists(chat, f)' => Exists(chat, f)
        BY <1>3, <1>11 DEF Exists
      <3>3. \A f \in ChatId : f # n /\ Exists(chat, f)' => chat'[f].session # n
        BY <3>1, <3>2, <1>2 DEF Held
      <3> QED
        BY <2>2, <3>1, <3>2, <3>3, <1>11 DEF ChatsInv, SessionsInv
    <2>3. \A s \in buried' : s <= opened'
      BY <1>9, <1>14 DEF ChatsInv, ChatsTypeOK, SessionsInv
    <2> QED
      BY <2>1, <2>2, <2>3 DEF SessionsInv
  <1>17. OneOpenMain'
    BY <1>1, <1>5, <1>11 DEF ChatsInv, OneOpenMain, OpenMains
  <1>18. MainKept'
    <2>1. HasMain(chat)'
      BY <1>2, <1>11 DEF HasMain, OpenMains
    <2>2. ~mainless => \A s \in buried : ~Held(s)'
      BY <1>2, <1>13 DEF ChatsInv, MainKept
    <2> QED
      BY <2>1, <2>2, <1>14 DEF MainKept
  <1>19. BadgesInv'
    BY <1>13, <1>14 DEF ChatsInv, BadgesInv
  <1> QED
    BY <1>15, <1>16, <1>17, <1>18, <1>19 DEF ChatsInv

-----------------------------------------------------------------------------
(* The invariant.                                                          *)

LEMMA Zero == 0 \in 0 .. MaxUnread /\ 0 \in 0 .. MaxChats /\ 0 \in 0 .. MaxCrashes
  OBVIOUS

LEMMA ChatsStart == ChatsInit => ChatsInv
  <1> SUFFICES ASSUME ChatsInit PROVE ChatsInv
    OBVIOUS
  <1> USE DEF ChatsInit
  <1>1. ChatsTypeOK
    <2>1. spoken \subseteq ChatSession
      OBVIOUS
    <2>2. \A c \in ChatId : chat[c] = NoChat
      OBVIOUS
    <2>3. chat \in [ChatId -> ChatRow \cup {NoChat}] /\ unread \in [ChatSession -> 0 .. MaxUnread]
      OBVIOUS
    <2> QED
      BY <2>1, <2>2, <2>3, Zero DEF ChatsTypeOK
  <1>2. SessionsInv /\ OneOpenMain /\ BadgesInv
    BY DEF SessionsInv, OneOpenMain, OpenMains, BadgesInv, Exists, NoChat
  <1>3. MainKept
    BY DEF MainKept, Held, Exists, NoChat
  <1> QED
    BY <1>1, <1>2, <1>3 DEF ChatsInv

LEMMA ChatsStep == ChatsInv /\ [ChatsNext]_chatsVars => ChatsInv'
  <1> SUFFICES ASSUME ChatsInv, [ChatsNext]_chatsVars PROVE ChatsInv'
    OBVIOUS
  <1> USE DEF badges, Crash
  <1>t. /\ unread \in [ChatSession -> 0 .. MaxUnread] /\ active \subseteq ChatSession
        /\ spoken \subseteq ChatSession /\ torn \subseteq ChatSession
        /\ mainless \in BOOLEAN /\ crashes \in 0 .. MaxCrashes
    BY DEF ChatsInv, ChatsTypeOK
  <1>1. CASE OpenMain
    BY <1>1, InsertStep DEF OpenMain
  <1>2. CASE OpenSide
    BY <1>2, InsertStep DEF OpenSide
  <1>3. CASE StartOver
    BY <1>3, StartOverStep
  <1>4. ASSUME NEW c \in ChatId, CloseChat(c)
        PROVE  ChatsInv'
    <2>1. chat' = Closed(chat, c)
      BY <1>4 DEF CloseChat
    <2> QED
      BY <1>4, <1>t, <2>1, RowsChange DEF CloseChat
  <1>5. ASSUME NEW c \in ChatId, ReopenChat(c)
        PROVE  ChatsInv'
    <2>1. chat' = Reopened(chat, c) /\ mainless' \in BOOLEAN
      BY <1>5, <1>t DEF ReopenChat, IsLiveMain
    <2> QED
      BY <1>5, <1>t, <2>1, RowsChange DEF ReopenChat
  <1>6. ASSUME NEW c \in ChatId, DeleteChat(c)
        PROVE  ChatsInv'
    <2>1. chat[c].session \in ChatSession
      BY <1>6 DEF DeleteChat, DeleteRow, Exists, ChatsInv, SessionsInv
    <2>2. /\ unread' = [unread EXCEPT ![chat[c].session] = 0]
          /\ torn' = torn \ {chat[c].session}
      BY <1>6 DEF DeleteChat, MarkRead
    <2>3. /\ unread'[chat[c].session] = 0
          /\ \A s \in ChatSession : s # chat[c].session =>
               unread'[s] = unread[s] /\ (s \in torn => s \in torn')
      BY <2>1, <2>2, <1>t
    <2>6. unread' \in [ChatSession -> 0 .. MaxUnread]
      BY ONLY <2>2, <1>t, Zero
    <2>7. torn' \subseteq ChatSession
      BY <2>2, <1>t
    <2>8. unread'[chat[c].session] > 0 => chat[c].session \in torn'
      BY <2>3
    <2>4. Exists(chat, c) /\ ~IsLiveMain(c) /\ chat' = [chat EXCEPT ![c] = NoChat]
      BY <1>6 DEF DeleteChat, DeleteRow
    <2>5. /\ buried' = buried \cup {chat[c].session}
          /\ UNCHANGED <<opened, spoken, mainless, active, crashes>>
      BY <1>6 DEF DeleteChat, DeleteRow
    <2> QED
      BY <1>t, <2>3, <2>4, <2>5, <2>6, <2>7, <2>8, DeleteStep
  <1>7. ASSUME NEW c \in ChatId, ReadChat(c)
        PROVE  ChatsInv'
    <2>1. chat[c].session \in ChatSession
      BY <1>7 DEF ReadChat, Exists, ChatsInv, SessionsInv
    <2>2. UNCHANGED <<chat, opened, buried, mainless, active, spoken, crashes>>
      BY <1>7 DEF ReadChat
    <2>3. /\ unread' = [unread EXCEPT ![chat[c].session] = 0]
          /\ torn' = torn \ {chat[c].session}
      BY <1>7 DEF ReadChat, MarkRead
    <2>4. \A s \in ChatSession : unread'[s] > 0 =>
            unread'[s] = unread[s] /\ (s \in torn => s \in torn')
      BY <2>1, <2>3, <1>t
    <2>5. unread' \in [ChatSession -> 0 .. MaxUnread]
      BY ONLY <2>3, <1>t, Zero
    <2>6. torn' \subseteq ChatSession
      BY <2>3, <1>t
    <2> QED
      BY <2>2, <2>4, <2>5, <2>6, <1>t, BadgeStep
  <1>8. ASSUME NEW s \in ChatSession, TurnBegins(s)
        PROVE  ChatsInv'
    BY <1>8, <1>t, BadgeStep DEF TurnBegins
  <1>9. ASSUME NEW s \in ChatSession, TurnEnds(s)
        PROVE  ChatsInv'
    <2>1. unread' \in [ChatSession -> 0 .. MaxUnread]
      BY <1>9, <1>t DEF TurnEnds
    <2>2. \A r \in ChatSession : unread'[r] = unread[r] \/ Held(r)
      BY <1>9, <1>t, HeldIsSession DEF TurnEnds, Counts
    <2> QED
      BY <1>9, <1>t, <2>1, <2>2, BadgeStep DEF TurnEnds
  <1>10. CASE ChatsDie
    BY <1>10, <1>t, BadgeStep DEF ChatsDie
  <1>11. CASE DiesInStartOver
    <2>1. PICK c \in OpenMains(chat) :
            /\ Crash
            /\ chat' = Closed(chat, c)
            /\ mainless' = TRUE
            /\ UNCHANGED <<opened, unread, spoken, buried, torn>>
      BY <1>11 DEF DiesInStartOver
    <2>2. c \in ChatId /\ Exists(chat, c)
      BY MainIsRow DEF OpenMains
    <2>3. active' \subseteq ChatSession /\ crashes' \in 0 .. MaxCrashes
      BY <2>1, <1>t
    <2> QED
      BY <2>1, <2>2, <2>3, RowsChange
  <1>12. ASSUME NEW c \in ChatId, DiesInDelete(c)
        PROVE  ChatsInv'
    <2>1. chat[c].session \in ChatSession
      BY <1>12 DEF DiesInDelete, Exists, ChatsInv, SessionsInv
    <2>2. Exists(chat, c) /\ ~IsLiveMain(c) /\ chat' = [chat EXCEPT ![c] = NoChat]
      BY <1>12 DEF DiesInDelete
    <2>3. /\ buried' = buried \cup {chat[c].session}
          /\ torn' = torn \cup {chat[c].session}
          /\ UNCHANGED <<opened, unread, spoken, mainless>>
      BY <1>12 DEF DiesInDelete
    <2>4. active' \subseteq ChatSession /\ crashes' \in 0 .. MaxCrashes
      BY <1>12, <1>t DEF DiesInDelete
    <2> QED
      BY <1>t, <2>1, <2>2, <2>3, <2>4, DeleteStep
  <1>13. CASE UNCHANGED chatsVars
    BY <1>13, <1>t, BadgeStep DEF chatsVars, ChatsInv, BadgesInv
  <1> QED
    BY <1>1, <1>2, <1>3, <1>4, <1>5, <1>6, <1>7, <1>8, <1>9, <1>10, <1>11, <1>12, <1>13
       DEF ChatsNext, ChatsOperatorStep, TurnStep, ChatsDeath

THEOREM ChatsKeepInv == ChatsSpec => []ChatsInv
  BY ChatsStart, ChatsStep, PTL DEF ChatsSpec

-----------------------------------------------------------------------------
(* What follows.                                                           *)

\* The variables of the chats keep to their types.
THEOREM ChatsAreTyped == ChatsSpec => []ChatsTypeOK
  <1>1. ChatsInv => ChatsTypeOK
    BY DEF ChatsInv
  <1> QED
    BY <1>1, ChatsKeepInv, PTL

\* An agent never has two open main chats (chats.ts).
THEOREM AtMostOneMain == ChatsSpec => []OneMain
  <1>1. ASSUME ChatsInv PROVE OneMain
    <2>1. CASE OpenMains(chat) = {}
      BY <2>1, FS_EmptySet DEF OneMain
    <2>2. CASE OpenMains(chat) # {}
      <3>1. PICK c : c \in OpenMains(chat)
        BY <2>2
      <3>2. OpenMains(chat) = {c}
        BY <1>1, <3>1 DEF ChatsInv, OneOpenMain, OpenMains
      <3> QED
        BY <3>2, FS_Singleton DEF OneMain
    <2> QED
      BY <2>1, <2>2
  <1> QED
    BY <1>1, ChatsKeepInv, PTL

\* The insert of a lazy main() finds its session free, unless the agent lost its main.
THEOREM MainOpens == ChatsSpec => []MainCanBeOpened
  <1>1. ASSUME ChatsInv PROVE MainCanBeOpened
    <2> SUFFICES ASSUME ~HasMain(chat), opened < MaxChats, ~mainless
                 PROVE  CanInsert(chat, opened + 1, "main")
      BY DEF MainCanBeOpened
    <2>1. opened + 1 \in ChatId
      BY <1>1 DEF ChatsInv, ChatsTypeOK
    <2>2. SessionFor(chat, opened + 1, "main") = Bare /\ ~Held(Bare)
      BY <1>1 DEF ChatsInv, MainKept, SessionFor
    <2> QED
      BY <2>1, <2>2, HeldIsSession DEF CanInsert
  <1> QED
    BY <1>1, ChatsKeepInv, PTL

\* The session of a deleted chat is not given out again, unless the agent lost its main.
THEOREM DeletedStaysDeleted == ChatsSpec => []BuriedStaysBuried
  <1>1. ASSUME ChatsInv PROVE BuriedStaysBuried
    BY <1>1, HeldIsSession DEF ChatsInv, MainKept, BuriedStaysBuried
  <1> QED
    BY <1>1, ChatsKeepInv, PTL

\* Unread replies are of chats that can be opened (unread.ts).
THEOREM BadgesCanBeCleared == ChatsSpec => []BadgeHasChat
  <1>1. ASSUME ChatsInv PROVE BadgeHasChat
    BY <1>1, HeldIsSession DEF ChatsInv, BadgesInv, BadgeHasChat
  <1> QED
    BY <1>1, ChatsKeepInv, PTL

HIDE ChatsAssumption DEF ChatId, Bare, ChatSession

-----------------------------------------------------------------------------
(* The browser's board.                                                    *)

\* An answer of the last version holds the board.  What the board was before its last
\* change may be shown only while something is ahead or excuses it; once its last version
\* was shown, only an older answer can take its place.
BoardInv ==
  /\ best <= version
  /\ \A a \in answers : a.version <= version /\ (a.version = version => a.items = board)
  /\ \A i \in Item : reply[i] = "answered" => i \in past \ board
  /\ best < version => FreshAhead \/ unheard \/ unrung
  /\ best = version /\ ~overtook => shown = board

ViewInv == ViewTypeOK /\ BoardInv

LEMMA ViewStart == ViewInit => ViewInv
  <1> SUFFICES ASSUME ViewInit PROVE ViewInv
    OBVIOUS
  <1>1. /\ bells \in 0 .. MaxBells /\ requests \in 0 .. MaxLoads /\ breaks \in 0 .. MaxBreaks
        /\ version \in Nat /\ best \in Nat /\ best <= version
    BY ViewAssumption DEF ViewInit
  <1>2. ViewTypeOK
    BY <1>1 DEF ViewInit, ViewTypeOK
  <1>3. BoardInv
    BY <1>1 DEF ViewInit, BoardInv
  <1> QED
    BY <1>2, <1>3 DEF ViewInv

\* The board changes and bells, stream and loads do what they do.
LEMMA BoardMoves ==
  ASSUME ViewInv, NEW items \in SUBSET Item, Changes(items), items \subseteq past',
         past' \subseteq Item, past \subseteq past',
         \A i \in past : i \in items => i \in board,
         Rung \/ (unheard' = (stream # "live") /\ unrung' = TRUE /\ UNCHANGED bells),
         UNCHANGED <<stream, loads, breaks>>,
         reply' \in [Item -> {"none", "asked", "answered", "refused"}],
         \A i \in Item : reply'[i] = "answered" => reply[i] = "answered" \/ i \in board \ items
  PROVE  ViewInv'
  <1>1. /\ board' = items /\ version' = version + 1
        /\ UNCHANGED <<stream, requests, answers, shown, best, overtook, breaks>>
        /\ unheard' \in BOOLEAN /\ unrung' \in BOOLEAN
        /\ bells' \in 0 .. MaxBells
        /\ bells' > 0 \/ unheard' \/ unrung'
    <2>1. bells \in 0 .. MaxBells /\ MaxBells \in Nat
      BY ViewAssumption DEF ViewInv, ViewTypeOK
    <2>2. CASE Rung
      <3>1. unheard' \in BOOLEAN /\ unrung' \in BOOLEAN
        BY <2>2 DEF Rung
      <3>2. bells' \in 0 .. MaxBells /\ (bells' > 0 \/ unheard' \/ unrung')
        <4>1. CASE stream = "live"
          BY <2>1, <2>2, <4>1 DEF Rung
        <4>2. CASE stream # "live"
          BY <2>1, <2>2, <4>2 DEF Rung
        <4> QED
          BY <4>1, <4>2
      <3> QED
        BY <3>1, <3>2 DEF Changes, loads
    <2>3. CASE unheard' = (stream # "live") /\ unrung' = TRUE /\ UNCHANGED bells
      BY <2>1, <2>3 DEF Changes, loads
    <2> QED
      BY <2>2, <2>3
  <1>2. version \in Nat /\ best \in Nat /\ answers \subseteq Answer
    BY DEF ViewInv, ViewTypeOK
  <1>3. ViewTypeOK'
    BY <1>1, <1>2 DEF ViewInv, ViewTypeOK
  <1>4. BoardInv'
    <2>1. \A a \in answers : a.version \in Nat
      BY <1>2 DEF Answer
    <2>2. \A i \in Item : reply'[i] = "answered" => i \in past' \ board'
      BY <1>1 DEF ViewInv, ViewTypeOK, BoardInv
    <2> QED
      BY <1>1, <1>2, <2>1, <2>2 DEF ViewInv, BoardInv, FreshAhead
  <1> QED
    BY <1>3, <1>4 DEF ViewInv

\* The board stays as it is, and so does what is shown and asked of it.
LEMMA PassStep ==
  ASSUME ViewInv, ViewTypeOK', UNCHANGED <<board, past, version, shown, best, overtook>>,
         answers' \subseteq answers \cup {[version |-> version, items |-> board]},
         FreshAhead \/ unheard \/ unrung => FreshAhead' \/ unheard' \/ unrung',
         \A i \in Item : reply'[i] = "answered" => reply[i] = "answered"
  PROVE  ViewInv'
  <1>1. version \in Nat /\ best \in Nat
    BY DEF ViewInv, ViewTypeOK
  <1>2. \A a \in answers' : a.version <= version /\ (a.version = version => a.items = board)
    <2>1. ASSUME NEW a \in answers'
          PROVE  a \in answers \/ (a.version = version /\ a.items = board)
      BY <2>1
    <2> QED
      BY <1>1, <2>1 DEF ViewInv, BoardInv
  <1>3. best < version => FreshAhead' \/ unheard' \/ unrung'
    BY DEF ViewInv, BoardInv
  <1> QED
    BY <1>2, <1>3 DEF ViewInv, BoardInv

LEMMA ViewStep == ViewInv /\ [ViewNext]_viewVars => ViewInv'
  <1> SUFFICES ASSUME ViewInv, [ViewNext]_viewVars PROVE ViewInv'
    OBVIOUS
  <1>t. /\ board \subseteq past /\ past \subseteq Item /\ version \in Nat /\ best \in Nat
        /\ bells \in 0 .. MaxBells /\ requests \in 0 .. MaxLoads /\ answers \subseteq Answer
        /\ shown \subseteq Item /\ breaks \in 0 .. MaxBreaks
        /\ reply \in [Item -> {"none", "asked", "answered", "refused"}]
        /\ MaxBells \in Nat /\ MaxLoads \in Nat /\ MaxBreaks \in Nat
        /\ stream \in {"opening", "live"} /\ unheard \in BOOLEAN /\ unrung \in BOOLEAN
        /\ overtook \in BOOLEAN
    BY ViewAssumption DEF ViewInv, ViewTypeOK
  <1>a. \A i \in Item : reply[i] = "answered" => i \in past \ board
    BY DEF ViewInv, BoardInv
  <1>1. ASSUME NEW i \in Item, ItemRaised(i) PROVE ViewInv'
    BY <1>1, <1>t, BoardMoves DEF ItemRaised
  <1>2. ASSUME NEW i \in Item, ItemClosed(i) PROVE ViewInv'
    BY <1>2, <1>t, BoardMoves DEF ItemClosed
  <1>3. CASE JobItemsCancelled
    BY <1>3, <1>t, BoardMoves DEF JobItemsCancelled
  <1>4. CASE StreamSubscribed
    BY <1>4, <1>t, PassStep DEF StreamSubscribed, loads, ViewInv, ViewTypeOK, FreshAhead
  <1>5. CASE Breaks
    <2>1. FreshAhead \/ unheard \/ unrung => FreshAhead' \/ unheard' \/ unrung'
      <3>1. /\ bells > 0 => unheard'
            /\ unheard => unheard'
            /\ UNCHANGED <<requests, answers, version, unrung>>
        BY <1>5 DEF Breaks, loads
      <3> QED
        BY <3>1 DEF FreshAhead
    <2>2. ViewTypeOK'
      BY <1>5, <1>t DEF Breaks, loads, ViewInv, ViewTypeOK
    <2> QED
      BY <1>5, <2>1, <2>2, PassStep DEF Breaks, loads
  <1>6. CASE Heard
    BY <1>6, <1>t, PassStep DEF Heard, ViewInv, ViewTypeOK, FreshAhead
  <1>7. CASE LoadRead
    <2>1. [version |-> version, items |-> board] \in Answer
      BY <1>t DEF Answer
    <2> QED
      BY <1>7, <1>t, <2>1, PassStep DEF LoadRead, ViewInv, ViewTypeOK, FreshAhead
  <1>8. CASE LoadFails
    <2>1. /\ UNCHANGED <<board, past, version, stream, bells, shown, best, overtook, reply, unrung,
                          breaks>>
          /\ \/ /\ requests > 0 /\ requests' = requests - 1 /\ unheard' = TRUE
                /\ UNCHANGED answers
             \/ /\ \E a \in answers : /\ answers' = answers \ {a}
                                       /\ unheard' = (unheard \/ a.version = version)
                /\ UNCHANGED requests
      BY <1>8 DEF LoadFails
    <2>2. FreshAhead \/ unheard \/ unrung => FreshAhead' \/ unheard' \/ unrung'
      <3>1. CASE unheard' = TRUE
        BY <3>1
      <3>2. ASSUME NEW a \in answers, answers' = answers \ {a}, UNCHANGED requests,
                   unheard' = (unheard \/ a.version = version)
            PROVE  FreshAhead \/ unheard \/ unrung => FreshAhead' \/ unheard' \/ unrung'
        BY <2>1, <3>2 DEF FreshAhead
      <3> QED
        BY <2>1, <3>1, <3>2
    <2>3. unheard' \in BOOLEAN /\ requests' \in 0 .. MaxLoads /\ answers' \subseteq answers
      <3>1. unheard' \in BOOLEAN
        BY <2>1
      <3>2. requests' \in 0 .. MaxLoads /\ answers' \subseteq answers
        BY <1>t, <2>1
      <3> QED
        BY <3>1, <3>2
    <2>4. ViewTypeOK'
      BY <1>t, <2>1, <2>3 DEF ViewInv, ViewTypeOK
    <2> QED
      BY <2>1, <2>2, <2>3, <2>4, PassStep
  <1>9. ASSUME NEW a \in answers, LoadArrives(a) PROVE ViewInv'
    <2>1. /\ answers' = answers \ {a} /\ shown' = a.items
          /\ best' = IF a.version > best THEN a.version ELSE best
          /\ overtook' = (a.version < best)
          /\ UNCHANGED <<board, past, version, stream, bells, requests, reply, unheard, unrung,
                         breaks>>
      BY <1>9 DEF LoadArrives
    <2>2. a.version \in Nat /\ a.items \subseteq Item /\ a.version <= version /\ best <= version
      BY <1>t DEF Answer, ViewInv, BoardInv
    <2>3. ViewTypeOK'
      BY <1>t, <2>1, <2>2 DEF ViewInv, ViewTypeOK
    <2>4. best' < version' => FreshAhead' \/ unheard' \/ unrung'
      <3>1. ASSUME best' < version' PROVE a.version # version /\ best < version
        BY <1>t, <2>1, <2>2, <3>1
      <3> QED
        BY <2>1, <3>1 DEF ViewInv, BoardInv, FreshAhead
    <2>5. best' = version' /\ ~overtook' => shown' = board'
      <3>1. ASSUME best' = version, ~overtook' PROVE a.version = version
        <4>1. ~(a.version < best)
          BY <2>1, <3>1
        <4>2. best' = IF a.version > best THEN a.version ELSE best
          BY <2>1
        <4> QED
          BY <1>t, <2>2, <3>1, <4>1, <4>2
      <3> QED
        BY <2>1, <3>1 DEF ViewInv, BoardInv
    <2> QED
      BY <1>t, <2>1, <2>2, <2>3, <2>4, <2>5 DEF ViewInv, BoardInv
  <1>10. ASSUME NEW i \in Item, OperatorAnswers(i) \/ ReplyFails(i) PROVE ViewInv'
    <2>1. /\ reply' \in [Item -> {"none", "asked", "answered", "refused"}]
          /\ \A j \in Item : reply'[j] = "answered" => reply[j] = "answered"
      BY <1>10, <1>t DEF OperatorAnswers, ReplyFails, Replies
    <2> QED
      BY <1>10, <1>t, <2>1, PassStep
         DEF OperatorAnswers, ReplyFails, loads, ViewInv, ViewTypeOK, FreshAhead
  <1>11. ASSUME NEW i \in Item, ReplyTaken(i) PROVE ViewInv'
    <2>1. CASE i \in board
      <3>1. /\ reply' \in [Item -> {"none", "asked", "answered", "refused"}]
            /\ \A j \in Item : reply'[j] = "answered" => reply[j] = "answered" \/ j = i
        BY <1>11, <1>t, <2>1 DEF ReplyTaken, Replies
      <3> QED
        BY <1>11, <1>t, <2>1, <3>1, BoardMoves DEF ReplyTaken
    <2>2. CASE i \notin board
      <3>1. /\ reply' \in [Item -> {"none", "asked", "answered", "refused"}]
            /\ \A j \in Item : reply'[j] = "answered" => reply[j] = "answered"
        BY <1>11, <1>t, <2>2 DEF ReplyTaken, Replies
      <3> QED
        BY <1>11, <1>t, <2>2, <3>1, PassStep DEF ReplyTaken, loads, ViewInv, ViewTypeOK, FreshAhead
    <2> QED
      BY <2>1, <2>2
  <1>12. ASSUME NEW i \in Item, ItemDropped(i) PROVE ViewInv'
    <2>1. /\ reply[i] = "answered" /\ reply' = [reply EXCEPT ![i] = "none"] /\ shown' = shown \ {i}
          /\ UNCHANGED <<board, past, version, stream, bells, requests, answers, best, overtook,
                         unheard, unrung, breaks>>
      BY <1>12 DEF ItemDropped, Replies
    <2>2. /\ reply' \in [Item -> {"none", "asked", "answered", "refused"}]
          /\ \A j \in Item : reply'[j] = "answered" => reply[j] = "answered"
      BY <1>t, <2>1
    <2>3. shown = board => shown' = board
      BY <1>a, <2>1
    <2>4. ViewTypeOK'
      BY <1>t, <2>1, <2>2 DEF ViewInv, ViewTypeOK
    <2> QED
      BY <2>1, <2>2, <2>3, <2>4 DEF ViewInv, BoardInv, FreshAhead
  <1>13. CASE UNCHANGED viewVars
    BY <1>13 DEF viewVars, ViewInv, ViewTypeOK, BoardInv, FreshAhead
  <1> QED
    BY <1>1, <1>2, <1>3, <1>4, <1>5, <1>6, <1>7, <1>8, <1>9, <1>10, <1>11, <1>12, <1>13 DEF ViewNext

\* The board's invariant, for any items, bells, loads and breaks.
THEOREM ViewKeepsInv == ViewSpec => []ViewInv
  BY ViewStart, ViewStep, PTL DEF ViewSpec

\* A board that shows anything but the open items has a reason that is named, or will be
\* put right (AttentionStore.ts, RootStore.ts, operator-events.ts).
THEOREM StaleHasExcuse == ViewSpec => []StaleIsExcused
  <1>1. ViewInv => StaleIsExcused
    BY DEF ViewInv, ViewTypeOK, BoardInv, StaleIsExcused
  <1> QED
    BY <1>1, ViewKeepsInv, PTL

-----------------------------------------------------------------------------
(* The archive.                                                            *)

USE DEF EntryId, NoEntryId, AnyId, AnyKey

\* What is replaced is superseded, and is replaced once.
EntriesInv ==
  /\ \A e \in EntryId : archive[e].version <= e
  /\ \A w \in Writer : recall[w] <= made
  /\ \A e \in EntryId : archive[e].supersedes # NoEntryId =>
       archive[archive[e].supersedes].status = "superseded"
  /\ \A e, f \in EntryId :
       archive[e].supersedes = archive[f].supersedes /\ archive[e].supersedes # NoEntryId => e = f

\* As long as a key has never lost its entry, its versions are counted in one line that ends
\* in the active entry.
KeysInv ==
  \A k \in Key \ vacated :
    /\ \A e \in EntryId : archive[e].key = k =>
         /\ ActiveByKey(k) # {}
         /\ \A a \in ActiveByKey(k) : archive[e].version <= archive[a].version
    /\ \A e, f \in EntryId :
         archive[e].key = k /\ archive[f].key = k /\ archive[e].version = archive[f].version
            => e = f

ClaimsInv ==
  \A e \in EntryId :
    claimed[e] # NoEntryId /\ archive[e].supersedes # claimed[e] => archive[e].key \in vacated

MemInv == MemoryTypeOK /\ EntriesInv /\ KeysInv /\ ClaimsInv

LEMMA ArchiveTyped ==
  ASSUME MemoryTypeOK
  PROVE  /\ made \in Nat /\ made <= MaxEntries /\ MaxEntries \in Nat
         /\ archive \in [EntryId -> Entry \cup {Blank}]
         /\ \A e \in EntryId : /\ archive[e].version \in Nat
                               /\ archive[e].supersedes \in AnyId
                               /\ archive[e].key \in AnyKey
                               /\ e <= made => archive[e] \in Entry
                               /\ e > made => archive[e] = Blank
                               /\ archive[e].status = "active" => e <= made
         /\ recall \in [Writer -> AnyId] /\ claimed \in [EntryId -> AnyId]
         /\ vacated \subseteq Key /\ indexed \subseteq EntryId
  BY MemoryAssumption DEF MemoryTypeOK, Entry, Blank

LEMMA MemoryStart == MemoryInit => MemInv
  <1> SUFFICES ASSUME MemoryInit PROVE MemInv
    OBVIOUS
  <1>1. MemoryTypeOK
    BY MemoryAssumption DEF MemoryInit, MemoryTypeOK
  <1>2. EntriesInv
    BY DEF MemoryInit, EntriesInv, Blank
  <1>3. KeysInv /\ ClaimsInv
    BY MemoryAssumption DEF MemoryInit, KeysInv, ClaimsInv, Blank
  <1> QED
    BY <1>1, <1>2, <1>3 DEF MemInv

\* A first or a next version, of an entry that is active.
LEMMA SavedStep ==
  ASSUME MemInv, NEW w \in Writer, NEW old \in AnyId, NEW key \in AnyKey, NEW basis \in AnyId,
         Saved(w, old, key, basis),
         old # NoEntryId => IsActiveEntry(old),
         basis # NoEntryId /\ old # basis => key \in vacated
  PROVE  MemInv'
  <1> DEFINE new == made + 1
             next == IF old = NoEntryId THEN 1 ELSE archive[old].version + 1
             written == [key |-> key, status |-> "active", supersedes |-> old, version |-> next]
  <1>t. /\ made \in Nat /\ made <= MaxEntries /\ MaxEntries \in Nat
        /\ archive \in [EntryId -> Entry \cup {Blank}]
        /\ \A e \in EntryId : /\ archive[e].version \in Nat
                              /\ archive[e].supersedes \in AnyId
                              /\ archive[e].key \in AnyKey
                              /\ e <= made => archive[e] \in Entry
                              /\ e > made => archive[e] = Blank
                              /\ archive[e].status = "active" => e <= made
        /\ recall \in [Writer -> AnyId] /\ claimed \in [EntryId -> AnyId]
        /\ vacated \subseteq Key /\ indexed \subseteq EntryId
    BY ArchiveTyped DEF MemInv
  <1>1. new \in EntryId /\ made' = new /\ (key = NoKey \/ ActiveByKey(key) \subseteq {old})
    BY <1>t DEF Saved
  <1>2. old # NoEntryId => old \in EntryId /\ old <= made /\ archive[old].status = "active"
    BY <1>t DEF IsActiveEntry
  <1>3. next \in EntryId /\ next <= new
    <2>1. old # NoEntryId => archive[old].version <= made
      BY <1>t, <1>2 DEF MemInv, EntriesInv
    <2> QED
      BY <1>t, <1>1, <1>2, <2>1
  <1>4. /\ archive'[new] = written
        /\ old # NoEntryId => archive'[old] = [archive[old] EXCEPT !.status = "superseded"]
        /\ \A e \in EntryId : e # new /\ e # old => archive'[e] = archive[e]
    <2> DEFINE After(e) == CASE e = new   -> written
                             [] e = old -> [archive[e] EXCEPT !.status = "superseded"]
                             [] OTHER     -> archive[e]
    <2>1. archive' = [e \in EntryId |-> After(e)]
      BY DEF Saved
    <2>2. old # new /\ (old # NoEntryId => old \in EntryId)
      BY <1>t, <1>1, <1>2
    <2> HIDE DEF After
    <2>r. \A e \in EntryId : archive'[e] = After(e)
      BY <2>1
    <2>3. archive'[new] = written
      <3>1. After(new) = written
        BY <2>2 DEF After
      <3> QED
        BY <1>1, <2>r, <3>1
    <2>4. old # NoEntryId => archive'[old] = [archive[old] EXCEPT !.status = "superseded"]
      BY <2>r, <2>2 DEF After
    <2>5. \A e \in EntryId : e # new /\ e # old => archive'[e] = archive[e]
      BY <2>r DEF After
    <2> QED
      BY <2>3, <2>4, <2>5
  <1>5. /\ \A e \in EntryId : e # new => /\ archive'[e].key = archive[e].key
                                         /\ archive'[e].version = archive[e].version
                                         /\ archive'[e].supersedes = archive[e].supersedes
                                         /\ e # old => archive'[e].status = archive[e].status
        /\ old # NoEntryId => archive'[old].status = "superseded"
    <2>1. old # NoEntryId => archive[old] \in Entry
      BY <1>t, <1>2
    <2> QED
      BY <1>4, <2>1 DEF Entry
  <1>6. /\ recall' = [recall EXCEPT ![w] = new]
        /\ claimed' = [claimed EXCEPT ![new] = basis]
        /\ indexed' = (indexed \ {old}) \cup {new}
        /\ vacated' = vacated \cup (IF old = NoEntryId THEN {}
                                   ELSE {archive[old].key} \ {NoKey, key})
    BY DEF Saved
  <1>7. MemoryTypeOK'
    <2>1. written \in Entry
      BY <1>3 DEF Entry
    <2>2. /\ \A e \in EntryId : archive'[e] \in Entry \cup {Blank}
          /\ \A e \in EntryId : e <= new => archive'[e] \in Entry
          /\ \A e \in EntryId : e > new => archive'[e] = Blank
      <3>1. old # NoEntryId => archive'[old] \in Entry
        BY <1>2, <1>4, <1>t DEF Entry
      <3>2. ASSUME NEW e \in EntryId
            PROVE  IF e <= new THEN archive'[e] \in Entry ELSE archive'[e] = Blank
        <4>1. CASE e = new
          BY <1>4, <2>1, <4>1, <1>t
        <4>2. CASE e # new /\ e = old
          BY <1>2, <1>t, <3>1, <4>2
        <4>3. CASE e # new /\ e # old
          BY <1>4, <1>t, <4>3
        <4> QED
          BY <4>1, <4>2, <4>3
      <3>3. \A e \in EntryId : e <= new \/ e > new
        BY <1>t
      <3>4. \A e \in EntryId : e > new => ~(e <= new)
        BY <1>t
      <3> QED
        BY <3>2, <3>3, <3>4
    <2>3. \A e \in Entry : e # Blank
      BY DEF Entry, Blank
    <2>4. archive' \in [EntryId -> Entry \cup {Blank}]
      BY <2>2 DEF Saved
    <2>5. \A e \in EntryId : archive'[e] = Blank <=> e > made'
      BY <1>t, <1>1, <2>2, <2>3
    <2>6. vacated' \subseteq Key
      BY <1>t, <1>2, <1>6
    <2>7. made' \in 0 .. MaxEntries
      BY <1>t, <1>1
    <2> QED
      BY <1>t, <1>1, <1>6, <2>4, <2>5, <2>6, <2>7 DEF MemoryTypeOK
  <1>8. EntriesInv'
    <2>1. \A e \in EntryId : archive'[e].version <= e
      BY <1>3, <1>4, <1>5 DEF MemInv, EntriesInv
    <2>2. \A v \in Writer : recall'[v] <= made'
      <3>1. \A v \in Writer : recall[v] <= made /\ recall[v] \in Nat
        BY <1>t DEF MemInv, EntriesInv
      <3> QED
        BY <1>t, <1>1, <1>6, <3>1
    <2>3. \A e \in EntryId : archive[e].supersedes # NoEntryId => archive[e].supersedes # old
      BY <1>2 DEF MemInv, EntriesInv
    <2>4. \A e \in EntryId : archive'[e].supersedes # NoEntryId =>
            archive'[archive'[e].supersedes].status = "superseded"
      <3>1. CASE old # NoEntryId
        <4>1. ASSUME NEW e \in EntryId, e # new, archive[e].supersedes # NoEntryId
              PROVE  archive'[archive[e].supersedes].status = "superseded"
          <5>1. /\ archive[e].supersedes \in EntryId
                /\ archive[archive[e].supersedes].status = "superseded"
            BY <4>1, <1>t DEF MemInv, EntriesInv
          <5>2. archive[e].supersedes # new
            BY <5>1, <1>t, <1>1 DEF Blank
          <5> QED
            BY <4>1, <5>1, <5>2, <1>5, <2>3
        <4> QED
          BY <3>1, <4>1, <1>4, <1>5
      <3>2. CASE old = NoEntryId
        <4>1. ASSUME NEW e \in EntryId, e # new, archive[e].supersedes # NoEntryId
              PROVE  archive'[archive[e].supersedes].status = "superseded"
          <5>1. /\ archive[e].supersedes \in EntryId
                /\ archive[archive[e].supersedes].status = "superseded"
            BY <4>1, <1>t DEF MemInv, EntriesInv
          <5>2. archive[e].supersedes # new
            BY <5>1, <1>t, <1>1 DEF Blank
          <5> QED
            BY <3>2, <5>1, <5>2, <1>5
        <4> QED
          BY <3>2, <4>1, <1>4, <1>5
      <3> QED
        BY <3>1, <3>2
    <2>5. \A e, f \in EntryId : archive'[e].supersedes = archive'[f].supersedes
                                /\ archive'[e].supersedes # NoEntryId => e = f
      BY <1>4, <1>5, <2>3 DEF MemInv, EntriesInv
    <2> QED
      BY <2>1, <2>2, <2>4, <2>5 DEF EntriesInv
  <1>9. KeysInv'
    <2> SUFFICES ASSUME NEW k \in Key, k \notin vacated'
                 PROVE  /\ \A e \in EntryId : archive'[e].key = k =>
                             /\ ActiveByKey(k)' # {}
                             /\ \A a \in ActiveByKey(k)' :
                                   archive'[e].version <= archive'[a].version
                        /\ \A e, f \in EntryId :
                             archive'[e].key = k /\ archive'[f].key = k
                             /\ archive'[e].version = archive'[f].version => e = f
      BY DEF KeysInv
    <2>1. k \notin vacated /\ k # NoKey /\ (old # NoEntryId /\ archive[old].key = k => key = k)
      BY <1>6, MemoryAssumption
    <2>2. archive[new].key # k
      BY <1>t, <1>1, <2>1 DEF Blank
    <2>3. /\ \A e \in EntryId : archive[e].key = k =>
               /\ ActiveByKey(k) # {}
               /\ \A a \in ActiveByKey(k) : archive[e].version <= archive[a].version
          /\ \A e, f \in EntryId : archive[e].key = k /\ archive[f].key = k
                                  /\ archive[e].version = archive[f].version => e = f
      BY <2>1 DEF MemInv, KeysInv
    <2>4. CASE key # k
      <3>1. old # NoEntryId => archive[old].key # k
        BY <2>1, <2>4
      <3>2. ActiveByKey(k)' = ActiveByKey(k)
        BY <1>2, <1>4, <1>5, <2>2, <2>4, <3>1 DEF ActiveByKey, IsActiveEntry
      <3>3. \A a \in ActiveByKey(k) : a \in EntryId /\ a # new
        BY <2>2 DEF ActiveByKey, IsActiveEntry
      <3> QED
        BY <1>4, <1>5, <2>3, <2>4, <3>2, <3>3
    <2>5. CASE key = k
      <3>1. ActiveByKey(k) \subseteq {old}
        BY <1>1, <2>1, <2>5
      <3>2. ActiveByKey(k)' = {new}
        <4>1. \A e \in EntryId :
                e # new /\ archive'[e].status = "active" /\ archive'[e].key = k => FALSE
          <5>1. ASSUME NEW e \in EntryId, e # new, archive'[e].status = "active",
                       archive'[e].key = k
                PROVE  FALSE
            <6>1. e # old
              BY <5>1, <1>5
            <6>2. e \in ActiveByKey(k)
              BY <5>1, <6>1, <1>5 DEF ActiveByKey, IsActiveEntry
            <6> QED
              BY <6>1, <6>2, <3>1
          <5> QED
            BY <5>1
        <4> QED
          BY <1>1, <1>4, <2>5, <4>1 DEF ActiveByKey, IsActiveEntry
      <3>3. \A e \in EntryId : archive[e].key = k => archive[e].version < next
        <4>1. ASSUME NEW e \in EntryId, archive[e].key = k PROVE archive[e].version < next
          <5>1. old \in ActiveByKey(k)
            BY <4>1, <2>3, <3>1
          <5>2. old \in EntryId /\ archive[e].version <= archive[old].version
            BY <4>1, <5>1, <2>3 DEF ActiveByKey, IsActiveEntry
          <5> QED
            BY <5>2, <1>t
        <4> QED
          BY <4>1
      <3>4. archive'[new].version = next
        BY <1>4
      <3>5. \A e \in EntryId : archive'[e].key = k =>
              e = new \/ (e # new /\ archive[e].key = k /\ archive'[e].version = archive[e].version
                          /\ archive[e].version < next)
        BY <1>5, <3>3
      <3>6. /\ \A e \in EntryId : archive[e].version \in Nat
            /\ next \in Nat
        BY <1>3, <1>t
      <3>7. \A e \in EntryId : archive'[e].key = k => archive'[e].version <= next
        BY <3>4, <3>5, <3>6
      <3>8. \A e, f \in EntryId : archive'[e].key = k /\ archive'[f].key = k
                                 /\ archive'[e].version = archive'[f].version => e = f
        BY <2>3, <3>4, <3>5, <3>6
      <3> QED
        BY <3>2, <3>4, <3>7, <3>8
    <2> QED
      BY <2>4, <2>5
  <1>10. ClaimsInv'
    <2>1. vacated \subseteq vacated'
      BY <1>6
    <2>2. \A e \in EntryId : e # new => claimed'[e] = claimed[e]
      BY <1>6, <1>t
    <2>3. claimed'[new] = basis
      BY <1>1, <1>6, <1>t
    <2> QED
      BY <1>4, <1>5, <2>1, <2>2, <2>3 DEF MemInv, ClaimsInv
  <1> QED
    BY <1>7, <1>8, <1>9, <1>10 DEF MemInv

LEMMA EntriesGo ==
  ASSUME MemInv, NEW e \in EntryId, NEW dies \in BOOLEAN, Forget(e, dies)
  PROVE  MemInv'
  <1>t. /\ made \in Nat /\ archive \in [EntryId -> Entry \cup {Blank}]
        /\ archive[e] \in Entry /\ e <= made /\ vacated \subseteq Key /\ indexed \subseteq EntryId
    BY ArchiveTyped DEF MemInv, Forget, IsActiveEntry
  <1>1. /\ archive[e].status = "active"
        /\ archive' = [archive EXCEPT ![e].status = "retracted"]
        /\ indexed' \subseteq indexed
        /\ vacated' = vacated \cup ({archive[e].key} \ {NoKey})
        /\ UNCHANGED <<made, recall, claimed>>
    BY DEF Forget, IsActiveEntry
  <1>2. archive'[e] = [archive[e] EXCEPT !.status = "retracted"]
        /\ \A f \in EntryId : f # e => archive'[f] = archive[f]
    BY <1>t, <1>1
  <1>3. /\ archive'[e].status = "retracted" /\ archive'[e] \in Entry
        /\ \A f \in EntryId : /\ archive'[f].key = archive[f].key
                              /\ archive'[f].version = archive[f].version
                              /\ archive'[f].supersedes = archive[f].supersedes
                              /\ f # e => archive'[f].status = archive[f].status
    BY <1>t, <1>2 DEF Entry
  <1>4. MemoryTypeOK'
    <2>1. archive' \in [EntryId -> Entry \cup {Blank}]
      BY <1>t, <1>1, <1>2, <1>3
    <2>2. \A f \in Entry : f # Blank
      BY DEF Entry, Blank
    <2>3. \A f \in EntryId : archive'[f] = Blank <=> f > made
      BY <1>t, <1>2, <1>3, <2>2 DEF MemInv, MemoryTypeOK
    <2>4. vacated' \subseteq Key
      <3>1. archive[e].key \in Key \cup {NoKey}
        BY <1>t DEF Entry
      <3> QED
        BY <1>t, <1>1, <3>1
    <2> QED
      BY <1>1, <1>t, <2>1, <2>3, <2>4 DEF MemInv, MemoryTypeOK
  <1>5. EntriesInv'
    <2>1. \A f \in EntryId : archive[f].supersedes # NoEntryId =>
            archive[f].supersedes \in EntryId /\ archive[f].supersedes # e
      BY <1>1, ArchiveTyped DEF MemInv, EntriesInv
    <2> QED
      BY <1>1, <1>3, <2>1 DEF MemInv, EntriesInv
  <1>6. KeysInv'
    <2>1. ASSUME NEW k \in Key, k \notin vacated'
          PROVE  k \notin vacated /\ archive[e].key # k /\ ActiveByKey(k)' = ActiveByKey(k)
      <3>1. k \notin vacated /\ archive[e].key # k
        BY <2>1, <1>1, MemoryAssumption
      <3> QED
        BY <3>1, <1>3 DEF ActiveByKey, IsActiveEntry
    <2>2. \A k \in Key : \A a \in ActiveByKey(k) : a \in EntryId
      BY DEF ActiveByKey
    <2> QED
      BY <1>3, <2>1, <2>2 DEF MemInv, KeysInv
  <1>7. ClaimsInv'
    BY <1>1, <1>3 DEF MemInv, ClaimsInv
  <1> QED
    BY <1>4, <1>5, <1>6, <1>7 DEF MemInv

LEMMA MemoryStep == MemInv /\ [MemoryNext]_memoryVars => MemInv'
  <1> SUFFICES ASSUME MemInv, [MemoryNext]_memoryVars PROVE MemInv'
    OBVIOUS
  <1>t. /\ recall \in [Writer -> AnyId] /\ made \in Nat
        /\ \A e \in EntryId : archive[e].key \in AnyKey
        /\ \A k \in Key : k \in AnyKey
    BY ArchiveTyped DEF MemInv
  <1>1. ASSUME NEW w \in Writer, NEW e \in EntryId, Recalls(w, e) PROVE MemInv'
    <2>1. /\ e <= made /\ recall' = [recall EXCEPT ![w] = e]
          /\ UNCHANGED <<archive, made, indexed, claimed, vacated>>
      BY <1>1 DEF Recalls
    <2>2. MemoryTypeOK' /\ EntriesInv'
      BY <1>t, <2>1 DEF MemInv, MemoryTypeOK, EntriesInv
    <2>3. KeysInv' /\ ClaimsInv'
      BY <2>1 DEF MemInv, KeysInv, ClaimsInv, ActiveByKey, IsActiveEntry
    <2> QED
      BY <2>2, <2>3 DEF MemInv
  <1>2. ASSUME NEW w \in Writer, NEW basis \in Basis(w), NEW key \in AnyKey,
               UpdateById(w, key, basis)
        PROVE  MemInv'
    <2>1. /\ recall[w] \in AnyId /\ basis \in AnyId /\ IsActiveEntry(recall[w])
          /\ basis # NoEntryId => recall[w] = basis
      BY <1>2, <1>t DEF UpdateById, Basis
    <2>2. PICK key2 \in AnyKey : Saved(w, recall[w], key2, basis)
      BY <1>2, <1>t, <2>1 DEF UpdateById, IsActiveEntry
    <2> QED
      BY <2>1, <2>2, SavedStep
  <1>3. ASSUME NEW w \in Writer, NEW basis \in Basis(w), NEW key \in Key, UpdateByKey(w, key, basis)
        PROVE  MemInv'
    <2>1. basis \in AnyId /\ (basis # NoEntryId => archive[basis].key = key) /\ key \in AnyKey
      BY <1>3, <1>t DEF UpdateByKey, Basis
    <2>2. ASSUME NEW old \in ActiveByKey(key), VersionAgrees(old, basis), Saved(w, old, key, basis)
          PROVE  MemInv'
      <3>1. old \in AnyId /\ IsActiveEntry(old) /\ archive[old].key = key /\ old \in EntryId
        BY DEF ActiveByKey
      <3>2. basis # NoEntryId /\ old # basis => key \in vacated
        BY <2>1, <2>2, <3>1 DEF VersionAgrees, MemInv, KeysInv
      <3> QED
        BY <2>1, <2>2, <3>1, <3>2, SavedStep
    <2>3. ASSUME ActiveByKey(key) = {}, Saved(w, NoEntryId, key, basis) PROVE MemInv'
      <3>1. basis # NoEntryId => key \in vacated
        BY <2>1, <2>3 DEF MemInv, KeysInv
      <3> QED
        BY <2>1, <2>3, <3>1, SavedStep
    <2> QED
      BY <1>3, <2>2, <2>3 DEF UpdateByKey
  <1>4. ASSUME NEW w \in Writer, SaveNew(w) PROVE MemInv'
    BY <1>4, SavedStep DEF SaveNew
  <1>5. CASE UNCHANGED memoryVars
    BY <1>5 DEF memoryVars, MemInv, MemoryTypeOK, EntriesInv, KeysInv, ClaimsInv, ActiveByKey,
                IsActiveEntry
  <1> QED
    BY <1>1, <1>2, <1>3, <1>4, <1>5, EntriesGo DEF MemoryNext

\* The archive's invariant, for any writers, keys and number of entries.
THEOREM MemoryKeepsInv == MemorySpec => []MemInv
  BY MemoryStart, MemoryStep, PTL DEF MemorySpec

\* An update that names the version it read replaces the entry it read, and no entry is
\* replaced twice (MemoryStore.update, memory.ts).
THEOREM UpdatesReplaceTheRead == MemorySpec => []UpdatesReplaceWhatTheyRead
  <1>1. MemInv => UpdatesReplaceWhatTheyRead
    BY DEF MemInv, EntriesInv, ClaimsInv, UpdatesReplaceWhatTheyRead
  <1> QED
    BY <1>1, MemoryKeepsInv, PTL

HIDE DEF EntryId, NoEntryId, AnyId, AnyKey

-----------------------------------------------------------------------------
(* The questions.                                                          *)

\* Turns are admitted in order.  A question that is waited for was put by an earlier turn,
\* which is still running in its tool call, and stands in the thread of the agent it asks
\* with that turn's agent.
WaitsInv ==
  /\ \A t \in Turn : stage[t] # "none" => \A u \in 1 .. t - 1 : stage[u] # "none"
  /\ \A t \in Turn : stage[t] # "none" => thread[t] \in Thread
  /\ \A q \in waited :
       /\ stage[q] # "none"
       /\ asker[q] \in 1 .. q - 1
       /\ stage[asker[q]] = "running"
       /\ thread[q][2] = thread[asker[q]][1] /\ thread[q][1] # thread[q][2]

QuestionInv == QuestionTypeOK /\ WaitsInv

LEMMA QuestionStart == QuestionInit => QuestionInv
  <1> SUFFICES ASSUME QuestionInit PROVE QuestionInv
    OBVIOUS
  <1>1. QuestionTypeOK
    BY QuestionsAssumption DEF QuestionInit, QuestionTypeOK
  <1> QED
    BY <1>1 DEF QuestionInv, WaitsInv, QuestionInit

\* A message to an agent, by an operator or by a turn that runs.
LEMMA AdmitStep ==
  ASSUME QuestionInv, NEW q \in Turn, NEW session \in Thread, NEW by \in 0 .. MaxTurns,
         Admits(q, session, by), UNCHANGED interrupts,
         \/ waited' = waited
         \/ /\ waited' = waited \cup {q}
            /\ by \in Turn /\ stage[by] = "running"
            /\ session[2] = thread[by][1] /\ session[1] # session[2]
  PROVE  QuestionInv'
  <1>t. QuestionTypeOK /\ WaitsInv
    BY DEF QuestionInv
  <1>1. /\ stage[q] = "none" /\ \A u \in 1 .. q - 1 : stage[u] # "none"
        /\ stage' = [stage EXCEPT ![q] = "queued"]
        /\ thread' = [thread EXCEPT ![q] = session]
        /\ asker' = [asker EXCEPT ![q] = by]
    BY DEF Admits
  <1>2. QuestionTypeOK'
    BY <1>t, <1>1 DEF QuestionTypeOK
  <1>3. ASSUME NEW t \in Turn, stage'[t] # "none"
        PROVE  thread'[t] \in Thread /\ \A u \in 1 .. t - 1 : stage'[u] # "none"
    <2>1. CASE t = q
      BY <1>t, <1>1, <2>1 DEF QuestionTypeOK, Turn
    <2>2. CASE t # q
      BY <1>t, <1>1, <1>3, <2>2 DEF QuestionTypeOK, WaitsInv, Turn
    <2> QED
      BY <2>1, <2>2
  <1>4. ASSUME NEW p \in waited'
        PROVE  /\ stage'[p] # "none"
               /\ asker'[p] \in 1 .. p - 1
               /\ stage'[asker'[p]] = "running"
               /\ thread'[p][2] = thread'[asker'[p]][1] /\ thread'[p][1] # thread'[p][2]
    <2>1. CASE p \in waited
      <3>1. /\ p \in Turn /\ stage[p] # "none" /\ asker[p] \in Turn /\ asker[p] \in 1 .. p - 1
            /\ stage[asker[p]] = "running"
            /\ thread[p][2] = thread[asker[p]][1] /\ thread[p][1] # thread[p][2]
        BY <1>t, <2>1 DEF QuestionTypeOK, WaitsInv, Turn
      <3>2. p # q /\ asker[p] # q
        BY <1>1, <3>1
      <3> QED
        BY <1>t, <1>1, <3>1, <3>2 DEF QuestionTypeOK
    <2>2. CASE p \notin waited
      <3>1. /\ p = q /\ by \in Turn /\ stage[by] = "running" /\ by # q
            /\ session[2] = thread[by][1] /\ session[1] # session[2]
        BY <1>1, <1>4, <2>2
      <3>2. by < q
        BY <1>t, <1>1, <3>1 DEF WaitsInv, Turn
      <3>3. stage'[q] = "queued" /\ asker'[q] = by /\ stage'[by] = "running"
            /\ thread'[q] = session /\ thread'[by] = thread[by]
        BY <1>t, <1>1, <3>1 DEF QuestionTypeOK
      <3> QED
        BY <3>1, <3>2, <3>3 DEF Turn
    <2> QED
      BY <2>1, <2>2
  <1> QED
    BY <1>2, <1>3, <1>4 DEF QuestionInv, WaitsInv

LEMMA QuestionStep == QuestionInv /\ [QuestionNext]_questionVars => QuestionInv'
  <1> SUFFICES ASSUME QuestionInv, [QuestionNext]_questionVars PROVE QuestionInv'
    OBVIOUS
  <1>t. QuestionTypeOK /\ WaitsInv
    BY DEF QuestionInv
  <1>1. ASSUME NEW t \in Turn, NEW a \in Staff, OperatorWrites(t, a)
        PROVE  QuestionInv'
    <2>1. <<a, Nobody>> \in Thread /\ 0 \in 0 .. MaxTurns
      BY QuestionsAssumption DEF Thread
    <2> QED
      BY <1>1, <2>1, AdmitStep DEF OperatorWrites
  <1>2. ASSUME NEW t \in Turn, NEW q \in Turn, NEW to \in Staff, Asks(t, q, to)
        PROVE  QuestionInv'
    <2>1. thread[t] \in Thread /\ stage[t] = "running" /\ to # thread[t][1]
      BY <1>t, <1>2 DEF Asks, WaitsInv
    <2>2. <<to, thread[t][1]>> \in Thread /\ t \in 0 .. MaxTurns
      BY <2>1 DEF Thread, Turn
    <2>3. Admits(q, <<to, thread[t][1]>>, t) /\ waited' = waited \cup {q} /\ UNCHANGED interrupts
      BY <1>2 DEF Asks
    <2> QED
      BY <2>1, <2>2, <2>3, AdmitStep
  <1>3. ASSUME NEW t \in Turn, Starts(t)
        PROVE  QuestionInv'
    BY <1>t, <1>3 DEF Starts, QuestionInv, QuestionTypeOK, WaitsInv, Turn
  <1>4. ASSUME NEW t \in Turn, TurnSettles(t)
        PROVE  QuestionInv'
    BY <1>t, <1>4 DEF TurnSettles, QuestionInv, QuestionTypeOK, WaitsInv, Turn
  <1>5. ASSUME NEW t \in Turn, Answered(t) \/ TimesOut(t)
        PROVE  QuestionInv'
    BY <1>t, <1>5 DEF Answered, TimesOut, QuestionInv, QuestionTypeOK, WaitsInv
  <1>6. CASE Interrupted
    BY <1>t, <1>6, QuestionsAssumption DEF Interrupted, QuestionInv, QuestionTypeOK, WaitsInv
  <1>7. CASE UNCHANGED questionVars
    BY <1>t, <1>7 DEF questionVars, QuestionInv, QuestionTypeOK, WaitsInv
  <1> QED
    BY <1>1, <1>2, <1>3, <1>4, <1>5, <1>6, <1>7 DEF QuestionNext

\* A question that is waited for has an asker that is still there for the answer
\* (ask-agent.ts).
THEOREM AskersWait == QuestionSpec => []QuestionInv
  BY QuestionStart, QuestionStep, PTL DEF QuestionSpec

\* What goes on by itself: a turn whose session comes to it, one that waits for no answer,
\* a wait, which its timer can always end.
CanStart(t) ==
  stage[t] = "queued" /\ \A u \in 1 .. t - 1 : thread[u] = thread[t] => stage[u] = "over"
CanSettle(t) == stage[t] = "running" /\ \A q \in waited : asker[q] # t

\* Agents that ask each other in circles never all wait for good: while a turn is not
\* over, some turn can start or settle or some wait can be ended (ask-agent.ts).
NotAllWait ==
  (\E t \in Turn : stage[t] \in {"queued", "running"}) =>
    waited # {} \/ \E t \in Turn : CanStart(t) \/ CanSettle(t)

\* ... as while nobody waits, the first turn that is not over heads its session.
LEMMA FirstGoesOn == QuestionInv => NotAllWait
  <1> SUFFICES ASSUME QuestionInv, waited = {}, \A t \in Turn : ~CanStart(t) /\ ~CanSettle(t),
                      NEW t \in Turn
               PROVE  stage[t] \notin {"queued", "running"}
    BY DEF NotAllWait
  <1> DEFINE Passed == {i \in 0 .. MaxTurns : \A u \in 1 .. i : stage[u] \in {"none", "over"}}
  <1>1. MaxTurns \in Nat
    BY QuestionsAssumption
  <1>2. 0 \in Passed
    BY <1>1
  <1>3. ASSUME NEW i \in 1 .. MaxTurns, i - 1 \in Passed
        PROVE  i \in Passed
    <2>1. i \in Turn /\ stage[i] \in {"none", "queued", "running", "over"}
      BY DEF Turn, QuestionInv, QuestionTypeOK
    <2>2. stage[i] # "running"
      BY <2>1 DEF CanSettle
    <2>3. CASE stage[i] = "queued"
      <3>1. \A u \in 1 .. i - 1 : stage[u] = "over"
        BY <1>3, <2>1, <2>3 DEF QuestionInv, WaitsInv
      <3> QED
        BY <2>1, <2>3, <3>1 DEF CanStart
    <2>4. CASE stage[i] \in {"none", "over"}
      BY <1>3, <2>4
    <2> QED
      BY <2>1, <2>2, <2>3, <2>4
  <1> HIDE DEF Passed
  <1>4. \A i \in 0 .. MaxTurns : i \in Passed
    BY <1>1, <1>2, <1>3, UpTo
  <1>5. t \in Passed /\ t \in 1 .. t
    BY <1>4 DEF Turn
  <1> QED
    BY <1>5 DEF Passed

THEOREM QuestionsMove == QuestionSpec => []NotAllWait
  BY FirstGoesOn, AskersWait, PTL

-----------------------------------------------------------------------------
(* The composition.                                                        *)

LEMMA PartsStart ==
  Init => /\ SchedInit /\ ChatsInit /\ ConnInit /\ PoolInit /\ ShellInit /\ ViewInit /\ MemoryInit
          /\ QuestionInit
  BY DEF Init

\* A step of the composition is one of the part in focus, and leaves the others alone.
LEMMA PartsStep ==
  [Next]_servicesVars =>
    /\ [SchedNext]_schedVars /\ [ChatsNext]_chatsVars /\ [ConnNext]_connVars
    /\ [PoolNext]_poolVars /\ [ShellNext]_shellVars /\ [ViewNext]_viewVars
    /\ [MemoryNext]_memoryVars /\ [QuestionNext]_questionVars
  BY DEF Next, Rest, servicesVars

\* Each part behaves in the composition as it does alone.
LEMMA PartsKeepTheirSpecs ==
  Spec => /\ SchedSpec /\ ChatsSpec /\ ConnSpec /\ PoolSpec
          /\ ShellSpec /\ ViewSpec /\ MemorySpec /\ QuestionSpec
  BY PartsStart, PartsStep, PTL
     DEF Spec, SchedSpec, ChatsSpec, ConnSpec, PoolSpec, ShellSpec, ViewSpec, MemorySpec,
         QuestionSpec

\* Whichever part moves, every part keeps to its types.
THEOREM ServicesAreTyped == Spec => []ServicesTypeOK
  <1>1. SchedSpec => []SchedTypeOK
    BY SchedIsTyped
  <1>2. ChatsSpec => []ChatsTypeOK
    BY ChatsAreTyped
  <1>3. ConnSpec => []ConnTypeOK
    BY ConnIsTyped
  <1>4. PoolSpec => []PoolTypeOK
    BY PoolIsTyped
  <1>5. ShellSpec => []ShellTypeOK
    <2>1. ShellInv => ShellTypeOK
      BY DEF ShellInv
    <2> QED
      BY <2>1, ShellKeepsInv, PTL
  <1>6. ViewSpec => []ViewTypeOK
    <2>1. ViewInv => ViewTypeOK
      BY DEF ViewInv
    <2> QED
      BY <2>1, ViewKeepsInv, PTL
  <1>7. MemorySpec => []MemoryTypeOK
    <2>1. MemInv => MemoryTypeOK
      BY DEF MemInv
    <2> QED
      BY <2>1, MemoryKeepsInv, PTL
  <1>8. QuestionSpec => []QuestionTypeOK
    <2>1. QuestionInv => QuestionTypeOK
      BY DEF QuestionInv
    <2> QED
      BY <2>1, AskersWait, PTL
  <1>9. /\ SchedTypeOK /\ ChatsTypeOK /\ ConnTypeOK /\ PoolTypeOK
        /\ ShellTypeOK /\ ViewTypeOK /\ MemoryTypeOK /\ QuestionTypeOK
        => ServicesTypeOK
    BY DEF ServicesTypeOK
  <1> QED
    BY PartsKeepTheirSpecs, <1>1, <1>2, <1>3, <1>4, <1>5, <1>6, <1>7, <1>8, <1>9, PTL
=============================================================================
