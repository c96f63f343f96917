------------------------- MODULE ConnectionsProofs -------------------------
(***************************************************************************)
(* Proofs about a user's connection, for any number of tool calls, grants, *)
(* rotations and deaths: the refresh lock implements TokenQueue, and on    *)
(* that rest the safety of the refresh token and of the user's consent.    *)
(***************************************************************************)
EXTENDS Connections, TLAPS

USE ConnAssumption DEF Grant, NoGrant, Generation

\* The promises of refresh-lock.ts are the line: each waits for the one before it, the
\* first for nobody, the last is the one the chain remembers.
LineInv ==
  /\ \A i, j \in 1 .. Len(line) : line[i] = line[j] => i = j
  /\ \A c \in Caller :
       phase[c] \in Serving \cup {"queued"} <=> \E i \in 1 .. Len(line) : line[i] = c
  /\ tail = IF line = <<>> THEN NoCaller ELSE line[Len(line)]
  /\ \A i \in 2 .. Len(line) : prior[line[i]] = line[i - 1] /\ phase[line[i]] = "queued"
  /\ line # <<>> => prior[line[1]] = NoCaller
  /\ \A c \in Caller : phase[c] \notin Serving \cup {"queued"} => prior[c] = NoCaller

Refreshing(c) == phase[c] \in {"refreshing", "answered"}

\* A grant that was not used yet has its first refresh token.
GrantsInv ==
  /\ cred # NoCred => flow[cred.grant] = "done"
  /\ \A c \in Caller : Refreshing(c) => held[c] # NoCred /\ flow[held[c].grant] = "done"
  /\ \A g \in Grant : flow[g] # "done" => honoured[g] = 0

\* What a refresh works with is good at the provider.
HeldIsLive ==
  \A c \in Caller : Refreshing(c) /\ held[c].grant \notin lost =>
    held[c].gen = honoured[held[c].grant]

StoredIsLive ==
  cred # NoCred /\ cred.grant \notin lost =>
    \/ cred.gen = honoured[cred.grant]
    \/ \E c \in Caller : phase[c] = "answered" /\ held[c].grant = cred.grant

\* What a refresh works with is what the user connected.
HeldIsWished == ~raced => \A c \in Caller : Refreshing(c) => held[c].grant = wish

TokensInv == GrantsInv /\ HeldIsLive /\ StoredIsLive /\ HeldIsWished /\ ConsentHolds

-----------------------------------------------------------------------------
(* Types.                                                                  *)

LEMMA ConnTyped ==
  ASSUME ConnTypeOK
  PROVE  /\ cred.grant \in Grant \cup {NoGrant} /\ cred.gen \in Generation
         /\ cred # NoCred => cred \in Credential /\ cred.grant \in Grant
         /\ cred = NoCred => cred.grant = NoGrant
         /\ \A c \in Caller :
              /\ held[c].grant \in Grant \cup {NoGrant} /\ held[c].gen \in Generation
              /\ held[c] # NoCred => held[c] \in Credential /\ held[c].grant \in Grant
              /\ phase[c] \in Phase
              /\ prior[c] \in Caller \cup {NoCaller}
  BY DEF ConnTypeOK, Credential, NoCred

-----------------------------------------------------------------------------
(* The line.                                                               *)

\* Who works is the first in line.
LEMMA FirstWorks ==
  ASSUME ConnTypeOK, LineInv, NEW c \in Caller, phase[c] \in Serving
  PROVE  line # <<>> /\ c = line[1] /\ prior[c] = NoCaller
  <1>1. PICK i \in 1 .. Len(line) : line[i] = c
    BY DEF LineInv
  <1>2. i = 1
    BY <1>1 DEF LineInv, Serving, ConnTypeOK
  <1> QED
    BY <1>1, <1>2 DEF LineInv, ConnTypeOK

LEMMA OneWorks ==
  ASSUME ConnTypeOK, LineInv, NEW c \in Caller, NEW d \in Caller,
         phase[c] \in Serving, phase[d] \in Serving
  PROVE  c = d
  BY FirstWorks

\* A caller asks: it is the new last.
LEMMA AskKeepsLine ==
  ASSUME ConnTypeOK, LineInv, NEW c \in Caller, Ask(c)
  PROVE  /\ LineInv'
         /\ \A i \in 1 .. Len(line) : line[i] # c
         /\ line = <<>> => phase'[c] \in Serving
         /\ line # <<>> => phase'[c] = "queued"
         /\ \A d \in Caller : d # c => phase'[d] = phase[d]
         /\ line' = Append(line, c)
  <1>1. /\ phase[c] = "idle" /\ line' = Append(line, c) /\ tail' = c
        /\ \A i \in 1 .. Len(line) : line[i] # c
        /\ line \in Seq(Caller) /\ phase \in [Caller -> Phase]
        /\ prior \in [Caller -> Caller \cup {NoCaller}]
    BY DEF Ask, LineInv, ConnTypeOK, Serving
  <1>2. /\ Len(line') = Len(line) + 1 /\ line'[Len(line) + 1] = c
        /\ \A i \in 1 .. Len(line) : line'[i] = line[i] /\ line[i] \in Caller
        /\ line' # <<>> /\ Len(line) \in Nat
    BY <1>1
  <1>3. CASE line = <<>>
    <2>1. Work(c) /\ UNCHANGED prior
      BY <1>3 DEF Ask, LineInv
    <2>2. /\ phase'[c] \in Serving
          /\ \A d \in Caller : d # c => phase'[d] = phase[d]
      BY <2>1, <1>1 DEF Work, Settles, Goes, Serving
    <2>3. prior[c] = NoCaller
      BY <1>1 DEF LineInv, Serving
    <2>4. LineInv'
      BY <1>1, <1>2, <1>3, <2>1, <2>2, <2>3 DEF LineInv
    <2> QED
      BY <1>1, <1>3, <2>2, <2>4
  <1>4. CASE line # <<>>
    <2>1. tail = line[Len(line)] /\ tail \in Caller /\ Len(line) >= 1
      BY <1>1, <1>4 DEF LineInv
    <2>2. prior' = [prior EXCEPT ![c] = tail] /\ phase' = [phase EXCEPT ![c] = "queued"]
      BY <2>1 DEF Ask, Goes
    <2>3. /\ phase'[c] = "queued" /\ prior'[c] = line[Len(line)]
          /\ \A d \in Caller : d # c => phase'[d] = phase[d] /\ prior'[d] = prior[d]
      BY <1>1, <2>1, <2>2
    <2>4. \A i, j \in 1 .. Len(line') : line'[i] = line'[j] => i = j
      BY <1>1, <1>2 DEF LineInv
    <2>5. \A d \in Caller :
            phase'[d] \in Serving \cup {"queued"} <=> \E i \in 1 .. Len(line') : line'[i] = d
      <3>1. phase'[c] \in Serving \cup {"queued"} /\ Len(line) + 1 \in 1 .. Len(line')
        BY <1>2, <2>3
      <3>2. ASSUME NEW d \in Caller, d # c
            PROVE  (\E i \in 1 .. Len(line) : line[i] = d) <=> \E i \in 1 .. Len(line') : line'[i] = d
        BY <3>2, <1>2
      <3> QED
        BY <3>1, <3>2, <1>2, <2>3 DEF LineInv
    <2>6. tail' = line'[Len(line')]
      BY <1>1, <1>2
    <2>7. ASSUME NEW i \in 2 .. Len(line')
          PROVE  prior'[line'[i]] = line'[i - 1] /\ phase'[line'[i]] = "queued"
      <3>1. CASE i = Len(line) + 1
        BY <3>1, <1>2, <2>1, <2>3
      <3>2. CASE i # Len(line) + 1
        <4>1. i \in 2 .. Len(line) /\ i - 1 \in 1 .. Len(line) /\ i \in 1 .. Len(line)
          BY <3>2, <1>2
        <4> QED
          BY <4>1, <1>1, <1>2, <2>3 DEF LineInv
      <3> QED
        BY <3>1, <3>2
    <2>8. prior'[line'[1]] = NoCaller
      BY <1>1, <1>2, <1>4, <2>1, <2>3 DEF LineInv
    <2>9. \A d \in Caller : phase'[d] \notin Serving \cup {"queued"} => prior'[d] = NoCaller
      BY <2>3 DEF LineInv
    <2>10. LineInv'
      BY <1>2, <2>4, <2>5, <2>6, <2>7, <2>8, <2>9 DEF LineInv
    <2> QED
      BY <1>1, <1>4, <2>3, <2>10
  <1> QED
    BY <1>3, <1>4

\* The first in line goes on, or its link resolves.
LEMMA EnterKeepsLine ==
  ASSUME ConnTypeOK, LineInv, NEW c \in Caller, Enter(c)
  PROVE  /\ LineInv' /\ line # <<>> /\ c = line[1] /\ phase[c] = "queued"
         /\ phase'[c] \in Serving /\ UNCHANGED line
         /\ \A d \in Caller : d # c => phase'[d] = phase[d]
  <1>1. /\ phase[c] = "queued" /\ prior[c] = NoCaller /\ Work(c) /\ UNCHANGED <<prior, tail, line>>
    BY DEF Enter, links
  <1>2. PICK i \in 1 .. Len(line) : line[i] = c
    BY <1>1 DEF LineInv
  <1>3. i = 1
    <2>1. i # 1 => i \in 2 .. Len(line) /\ line[i - 1] \in Caller
      BY DEF ConnTypeOK
    <2> QED
      BY <1>1, <1>2, <2>1 DEF LineInv
  <1>4. /\ phase'[c] \in Serving
        /\ \A d \in Caller : d # c => phase'[d] = phase[d]
    BY <1>1 DEF Work, Settles, Goes, Serving, ConnTypeOK
  <1>5. \A j \in 2 .. Len(line) : line[j] # c /\ line[j] \in Caller
    BY <1>2, <1>3 DEF LineInv, ConnTypeOK
  <1>6. LineInv'
    BY <1>1, <1>4, <1>5 DEF LineInv
  <1> QED
    BY <1>1, <1>2, <1>3, <1>4, <1>6

LEMMA SettleKeepsLine ==
  ASSUME ConnTypeOK, LineInv, NEW c \in Caller, LinkSettles(c)
  PROVE  /\ LineInv' /\ line # <<>> /\ c = line[1] /\ phase[c] \in Serving
         /\ phase'[c] \notin Serving /\ line' = Tail(line)
         /\ \A d \in Caller : d # c => phase'[d] = phase[d]
  <1>1. /\ phase[c] = "settled" /\ line' = Tail(line)
        /\ prior' = [d \in Caller |-> IF prior[d] = c THEN NoCaller ELSE prior[d]]
        /\ tail' = IF tail = c THEN NoCaller ELSE tail
        /\ phase' = [phase EXCEPT ![c] = IF token[c] = NoGrant THEN "idle" ELSE "calling"]
    BY DEF LinkSettles, Goes
  <1>2. line # <<>> /\ c = line[1] /\ prior[c] = NoCaller
    BY <1>1, FirstWorks DEF Serving
  <1>3. /\ phase'[c] \in {"idle", "calling"}
        /\ \A d \in Caller : d # c => phase'[d] = phase[d]
    BY <1>1 DEF ConnTypeOK
  <1>4. /\ line \in Seq(Caller) /\ Len(line) \in Nat /\ Len(line) >= 1
        /\ Len(line') = Len(line) - 1
        /\ \A i \in 1 .. Len(line') : line'[i] = line[i + 1]
        /\ \A i \in 1 .. Len(line) : line[i] \in Caller
    BY <1>1, <1>2 DEF ConnTypeOK
  <1>5. \A i \in 2 .. Len(line) : line[i] # c
    BY <1>2, <1>4 DEF LineInv
  <1>6. \A i, j \in 1 .. Len(line') : line'[i] = line'[j] => i = j
    <2>1. ASSUME NEW i \in 1 .. Len(line'), NEW j \in 1 .. Len(line'), line'[i] = line'[j]
          PROVE  i = j
      <3>1. i + 1 \in 1 .. Len(line) /\ j + 1 \in 1 .. Len(line) /\ line[i + 1] = line[j + 1]
        BY <2>1, <1>4
      <3>2. i + 1 = j + 1
        BY <3>1 DEF LineInv
      <3> QED
        BY <3>2
    <2> QED
      BY <2>1
  <1>7. ASSUME NEW d \in Caller
        PROVE  phase'[d] \in Serving \cup {"queued"} <=> \E i \in 1 .. Len(line') : line'[i] = d
    <2>1. CASE d = c
      <3>1. \A i \in 1 .. Len(line') : i + 1 \in 2 .. Len(line)
        BY <1>4
      <3> QED
        BY <2>1, <3>1, <1>3, <1>4, <1>5 DEF Serving
    <2>2. CASE d # c
      <3>1. (\E i \in 1 .. Len(line) : line[i] = d) <=> \E i \in 1 .. Len(line') : line'[i] = d
        <4>1. ASSUME NEW i \in 1 .. Len(line), line[i] = d
              PROVE  \E k \in 1 .. Len(line') : line'[k] = d
          <5>1. i # 1
            BY <4>1, <2>2, <1>2
          <5>2. i - 1 \in 1 .. Len(line') /\ (i - 1) + 1 = i
            BY <5>1, <1>4
          <5>3. line'[i - 1] = d
            BY <5>2, <4>1, <1>4
          <5> QED
            BY <5>2, <5>3
        <4>2. \A i \in 1 .. Len(line') : i + 1 \in 1 .. Len(line)
          BY <1>4
        <4> QED
          BY <4>1, <4>2, <1>4
      <3> QED
        BY <2>2, <3>1, <1>3 DEF LineInv
    <2> QED
      BY <2>1, <2>2
  <1>8. tail' = IF line' = <<>> THEN NoCaller ELSE line'[Len(line')]
    <2>1. CASE Len(line) = 1
      BY <2>1, <1>1, <1>2, <1>4 DEF LineInv
    <2>2. CASE Len(line) # 1
      <3>1. /\ Len(line) \in 2 .. Len(line) /\ Len(line') \in 1 .. Len(line')
            /\ Len(line') + 1 = Len(line)
        BY <2>2, <1>4
      <3>2. tail = line[Len(line)] /\ tail # c
        BY <3>1, <1>2, <1>5 DEF LineInv
      <3>3. line'[Len(line')] = line[Len(line)] /\ line' # <<>>
        BY <3>1, <1>4
      <3> QED
        BY <3>2, <3>3, <1>1
    <2> QED
      BY <2>1, <2>2
  <1>9. ASSUME NEW i \in 2 .. Len(line')
        PROVE  prior'[line'[i]] = line'[i - 1] /\ phase'[line'[i]] = "queued"
    <2>1. /\ i + 1 \in 2 .. Len(line) /\ i \in 2 .. Len(line) /\ i - 1 \in 1 .. Len(line')
          /\ i \in 1 .. Len(line') /\ (i - 1) + 1 = i /\ (i + 1) - 1 = i
          /\ i + 1 \in 1 .. Len(line)
      BY <1>4
    <2>2. line'[i] = line[i + 1] /\ line'[i - 1] = line[i] /\ line[i] # c
      BY <2>1, <1>4, <1>5
    <2>3. prior[line[i + 1]] = line[i] /\ phase[line[i + 1]] = "queued" /\ line[i + 1] # c
      BY <2>1, <1>5 DEF LineInv
    <2>4. line[i + 1] \in Caller
      BY <2>1, <1>4
    <2> QED
      BY <2>2, <2>3, <2>4, <1>1, <1>3
  <1>10. ASSUME line' # <<>> PROVE prior'[line'[1]] = NoCaller
    <2>1. 2 \in 2 .. Len(line) /\ 1 \in 1 .. Len(line') /\ 2 \in 1 .. Len(line)
      BY <1>4, <1>10, <1>1
    <2>2. line'[1] = line[2] /\ prior[line[2]] = c /\ line[2] \in Caller
      <3>1. line'[1] = line[1 + 1]
        BY <2>1, <1>4
      <3>2. prior[line[2]] = line[2 - 1]
        BY <2>1 DEF LineInv
      <3> QED
        BY <2>1, <3>1, <3>2, <1>2, <1>4
    <2> QED
      BY <2>2, <1>1
  <1>11. \A d \in Caller : phase'[d] \notin Serving \cup {"queued"} => prior'[d] = NoCaller
    <2>1. prior'[c] = NoCaller
      BY <1>1, <1>2
    <2> QED
      BY <2>1, <1>1, <1>3 DEF LineInv
  <1>12. LineInv'
    BY <1>6, <1>7, <1>8, <1>9, <1>10, <1>11 DEF LineInv
  <1> QED
    BY <1>1, <1>2, <1>3, <1>12 DEF Serving

\* Any other step of a caller stays on its side of the lock.
LEMMA StayKeepsLine ==
  ASSUME ConnTypeOK, LineInv, UNCHANGED links, phase' \in [Caller -> Phase],
         \A d \in Caller : \/ phase'[d] = phase[d]
                           \/ phase[d] \in Serving /\ phase'[d] \in Serving
                           \/ phase[d] = "calling" /\ phase'[d] = "idle"
  PROVE  /\ LineInv' /\ UNCHANGED <<line, InWork>>
  <1>1. UNCHANGED <<prior, tail, line>>
    BY DEF links
  <1>2. \A d \in Caller : /\ phase'[d] \in Serving <=> phase[d] \in Serving
                          /\ phase'[d] = "queued" <=> phase[d] = "queued"
    BY DEF Serving
  <1>3. \A i \in 1 .. Len(line) : line[i] \in Caller
    BY DEF ConnTypeOK
  <1>4. LineInv'
    BY <1>1, <1>2, <1>3 DEF LineInv
  <1> QED
    BY <1>1, <1>2, <1>4 DEF InWork

LEMMA DieKeepsLine ==
  ASSUME ConnTypeOK, ConnDies
  PROVE  LineInv' /\ line' = <<>> /\ InWork' = {}
  BY DEF ConnDies, LineInv, InWork, Serving

\* The steps that stay.
Stays == /\ UNCHANGED links /\ phase' \in [Caller -> Phase]
         /\ \A d \in Caller : \/ phase'[d] = phase[d]
                              \/ phase[d] \in Serving /\ phase'[d] \in Serving
                              \/ phase[d] = "calling" /\ phase'[d] = "idle"

LEMMA OthersStay ==
  ASSUME ConnTypeOK,
         \/ \E c \in Caller : Exchange(c) \/ Reply(c) \/ Call(c)
         \/ UserStep \/ Expires \/ UNCHANGED connVars
  PROVE  Stays
  <1> USE DEF ConnTypeOK, Phase, Serving, Goes, Settles, user, faults, locks
  <1>1. ASSUME NEW c \in Caller, Exchange(c) PROVE Stays
    BY <1>1 DEF Exchange, Refreshed, RefreshFails, Stays
  <1>2. ASSUME NEW c \in Caller, Reply(c) PROVE Stays
    BY <1>2 DEF Reply, Replied, ReplyLost, Stays
  <1>3. ASSUME NEW c \in Caller, Call(c) PROVE Stays
    BY <1>3 DEF Call, Accepted, Rejected, CallFails, Stays
  <1>4. CASE UserStep \/ Expires \/ UNCHANGED connVars
    <2>1. UNCHANGED <<phase, links>>
      BY <1>4 DEF UserStep, StartConnect, Callback, Connected, ConnectFails, Disconnect, Expires,
         connVars
    <2> QED
      BY <2>1 DEF Stays
  <1> QED
    BY <1>1, <1>2, <1>3, <1>4

-----------------------------------------------------------------------------
(* The types are kept.                                                     *)

LEMMA ConnTypes ==
  ASSUME ConnTypeOK, LineInv, TokensInv, [ConnNext]_connVars
  PROVE  ConnTypeOK'
  <1> USE DEF ConnTypeOK, user, faults, links, locks, Goes, Holds, Gets, Settles, Phase, Serving
  <1>w. ASSUME NEW c \in Caller, Work(c)
        PROVE  /\ phase' \in [Caller -> Phase] /\ held' \in [Caller -> Credential \cup {NoCred}]
               /\ token' \in [Caller -> Grant \cup {NoGrant}]
    <2>1. cred.grant \in Grant \cup {NoGrant}
      BY ConnTyped
    <2> QED
      BY <1>w, <2>1 DEF Work
  <1>1. ASSUME NEW c \in Caller, Ask(c) PROVE ConnTypeOK'
    <2>1. line' \in Seq(Caller) /\ tail' \in Caller
      BY <1>1 DEF Ask
    <2>2. CASE tail = NoCaller
      BY <1>1, <1>w, <2>1, <2>2 DEF Ask
    <2>3. CASE tail # NoCaller
      <3>1. /\ phase' = [phase EXCEPT ![c] = "queued"]
            /\ prior' = [prior EXCEPT ![c] = tail]
            /\ UNCHANGED <<held, token, cred, stale, honoured, flow, wish, raced, lost, kills>>
        BY <1>1, <2>3 DEF Ask
      <3>2. phase' \in [Caller -> Phase] /\ prior' \in [Caller -> Caller \cup {NoCaller}]
        BY ONLY <3>1, ConnTypeOK DEF ConnTypeOK, Phase
      <3> QED
        BY <2>1, <3>1, <3>2
    <2> QED
      BY <2>2, <2>3
  <1>2. ASSUME NEW c \in Caller, Enter(c) PROVE ConnTypeOK'
    BY <1>2, <1>w DEF Enter
  <1>3. ASSUME NEW c \in Caller, LinkSettles(c) PROVE ConnTypeOK'
    <2>1. line' \in Seq(Caller)
      <3>1. line' = Tail(line) /\ line # <<>> /\ line \in Seq(Caller)
        BY <1>3, SettleKeepsLine
      <3> QED
        BY ONLY <3>1
    <2>2. phase' \in [Caller -> Phase] /\ prior' \in [Caller -> Caller \cup {NoCaller}]
      BY <1>3 DEF LinkSettles
    <2> QED
      BY <1>3, <2>1, <2>2 DEF LinkSettles
  <1>4. ASSUME NEW c \in Caller, Refreshed(c) PROVE ConnTypeOK'
    <2>1. held[c] \in Credential /\ held[c].grant \in Grant
      BY <1>4, ConnTyped DEF Refreshed, TokensInv, GrantsInv, Refreshing
    <2>2. PICK gen \in Generation :
            /\ honoured' = [honoured EXCEPT ![held[c].grant] = gen]
            /\ held' = [held EXCEPT ![c] = [held[c] EXCEPT !.gen = gen, !.fresh = TRUE]]
      BY <1>4 DEF Refreshed
    <2>3. [held[c] EXCEPT !.gen = gen, !.fresh = TRUE] \in Credential
      BY <2>1 DEF Credential
    <2> QED
      BY <1>4, <2>1, <2>2, <2>3 DEF Refreshed
  <1>5. ASSUME NEW c \in Caller, RefreshFails(c) PROVE ConnTypeOK'
    BY <1>5 DEF RefreshFails
  <1>6. ASSUME NEW c \in Caller, Replied(c) PROVE ConnTypeOK'
    <2>1. held[c] \in Credential /\ held[c].grant \in Grant
      BY <1>6, ConnTyped DEF Replied, TokensInv, GrantsInv, Refreshing
    <2> QED
      BY <1>6, <2>1 DEF Replied, Store
  <1>7. ASSUME NEW c \in Caller, ReplyLost(c) PROVE ConnTypeOK'
    <2>1. held[c].grant \in Grant
      BY <1>7, ConnTyped DEF ReplyLost, TokensInv, GrantsInv, Refreshing
    <2> QED
      BY <1>7, <2>1 DEF ReplyLost, Burns
  <1>8. ASSUME NEW c \in Caller, Call(c) PROVE ConnTypeOK'
    BY <1>8 DEF Call, Accepted, Rejected, CallFails
  <1>9. ASSUME NEW g \in Grant, StartConnect(g) \/ Callback(g) \/ ConnectFails(g)
        PROVE  ConnTypeOK'
    BY <1>9 DEF StartConnect, Callback, ConnectFails
  <1>10. ASSUME NEW g \in Grant, Connected(g) PROVE ConnTypeOK'
    <2>1. PICK fresh \in BOOLEAN : cred' = [grant |-> g, gen |-> 0, fresh |-> fresh]
      BY <1>10 DEF Connected, Store
    <2>2. cred' \in Credential
      BY <2>1 DEF Credential
    <2> QED
      BY <1>10, <2>2 DEF Connected, Store, InRefresh
  <1>11. CASE Disconnect
    BY <1>11 DEF Disconnect, InRefresh
  <1>12. CASE Expires
    <2>1. cred # NoCred
      BY <1>12 DEF Expires, NoCred
    <2>2. cred' \in Credential
      BY <1>12, <2>1 DEF Expires, Credential
    <2> QED
      BY <1>12, <2>2 DEF Expires
  <1>13. CASE ConnDies
    <2>1. ASSUME NEW c \in Caller PROVE Burns(c) \subseteq Grant
      <3>1. phase[c] = "answered" => held[c].grant \in Grant
        BY ConnTyped DEF TokensInv, GrantsInv, Refreshing
      <3> QED
        BY <3>1 DEF Burns
    <2>2. lost' \subseteq Grant
      <3>1. UNION {Burns(c) : c \in Caller} \subseteq Grant
        BY <2>1
      <3>2. lost' = lost \cup UNION {Burns(c) : c \in Caller}
        BY <1>13 DEF ConnDies
      <3> QED
        BY <3>1, <3>2
    <2> QED
      BY <1>13, <2>2 DEF ConnDies
  <1>14. CASE UNCHANGED connVars
    BY <1>14 DEF connVars
  <1> QED
    BY <1>1, <1>2, <1>3, <1>4, <1>5, <1>6, <1>7, <1>8, <1>9, <1>10, <1>11, <1>12, <1>13, <1>14
       DEF ConnNext, CallerStep, Exchange, Reply, UserStep

-----------------------------------------------------------------------------
(* The tokens.                                                             *)

\* A step that touches neither what is stored nor what is refreshed.
LEMMA IdleKeepsTokens ==
  ASSUME ConnTypeOK, TokensInv, UNCHANGED <<cred, flow, honoured, wish, lost, raced>>,
         \A d \in Caller :
           \/ phase'[d] = phase[d] /\ held'[d] = held[d]
           \/ phase[d] # "answered" /\ phase'[d] \notin {"refreshing", "answered"}
  PROVE  TokensInv'
  <1>1. \A d \in Caller : Refreshing(d)' => Refreshing(d) /\ held'[d] = held[d]
    BY DEF Refreshing
  <1>2. \A d \in Caller : phase[d] = "answered" => phase'[d] = "answered" /\ held'[d] = held[d]
    OBVIOUS
  <1>3. GrantsInv'
    BY <1>1 DEF TokensInv, GrantsInv
  <1>4. HeldIsLive'
    BY <1>1 DEF TokensInv, HeldIsLive
  <1>5. StoredIsLive'
    BY <1>2 DEF TokensInv, StoredIsLive
  <1>6. HeldIsWished' /\ ConsentHolds'
    BY <1>1 DEF TokensInv, HeldIsWished, ConsentHolds
  <1> QED
    BY <1>3, <1>4, <1>5, <1>6 DEF TokensInv

\* rotating reads the secret while nobody else is at it, so it is the live one.
LEMMA WorkKeepsTokens ==
  ASSUME ConnTypeOK, TokensInv, NEW c \in Caller, Work(c), phase[c] # "answered",
         \A d \in Caller : phase[d] \notin Serving,
         UNCHANGED <<cred, flow, honoured, wish, lost, raced>>
  PROVE  TokensInv'
  <1>1. CASE cred = NoCred \/ cred.fresh
    BY <1>1, IdleKeepsTokens DEF Work, Settles, Goes, Holds, ConnTypeOK
  <1>2. CASE ~(cred = NoCred \/ cred.fresh)
    <2>1. /\ phase' = [phase EXCEPT ![c] = "refreshing"] /\ held' = [held EXCEPT ![c] = cred]
          /\ cred # NoCred
      BY <1>2 DEF Work, Goes, Holds
    <2>2. /\ phase'[c] = "refreshing" /\ held'[c] = cred
          /\ \A d \in Caller : d # c => phase'[d] = phase[d] /\ held'[d] = held[d]
      BY <2>1 DEF ConnTypeOK
    <2>3. \A d \in Caller : Refreshing(d)' => d = c
      BY <2>2 DEF Refreshing, Serving
    <2>4. cred.grant \notin lost => cred.gen = honoured[cred.grant]
      BY <2>1 DEF TokensInv, StoredIsLive, Serving
    <2>5. GrantsInv'
      BY <2>1, <2>2, <2>3 DEF TokensInv, GrantsInv
    <2>6. HeldIsLive'
      BY <2>2, <2>3, <2>4 DEF HeldIsLive
    <2>7. StoredIsLive'
      BY <2>4 DEF StoredIsLive
    <2>8. HeldIsWished' /\ ConsentHolds'
      BY <2>2, <2>3 DEF TokensInv, HeldIsWished, ConsentHolds
    <2> QED
      BY <2>5, <2>6, <2>7, <2>8 DEF TokensInv
  <1> QED
    BY <1>1, <1>2

LEMMA RefreshedKeepsTokens ==
  ASSUME ConnTypeOK, LineInv, TokensInv, NEW c \in Caller, Refreshed(c)
  PROVE  TokensInv'
  <1> DEFINE g == held[c].grant
  <1>1. /\ phase[c] = "refreshing" /\ held[c] \in Credential /\ g \in Grant
        /\ flow[g] = "done"
    BY ConnTyped DEF Refreshed, TokensInv, GrantsInv, Refreshing
  <1>2. PICK gen \in Generation :
          /\ honoured' = [honoured EXCEPT ![g] = gen]
          /\ held' = [held EXCEPT ![c] = [held[c] EXCEPT !.gen = gen, !.fresh = TRUE]]
    BY DEF Refreshed, Holds
  <1>3. /\ phase' = [phase EXCEPT ![c] = "answered"]
        /\ UNCHANGED <<cred, flow, wish, raced, lost>>
    BY DEF Refreshed, Goes, user, faults
  <1>4. /\ held'[c].grant = g /\ held'[c].gen = gen /\ held'[c] # NoCred
        /\ honoured'[g] = gen /\ phase'[c] = "answered"
        /\ \A d \in Caller : d # c => phase'[d] = phase[d] /\ held'[d] = held[d]
        /\ \A f \in Grant : f # g => honoured'[f] = honoured[f]
    BY <1>1, <1>2, <1>3 DEF ConnTypeOK, Credential, NoCred
  <1>5. \A d \in Caller : Refreshing(d)' => d = c
    BY <1>1, <1>4, OneWorks DEF Refreshing, Serving
  <1>6. GrantsInv'
    BY <1>1, <1>3, <1>4, <1>5 DEF TokensInv, GrantsInv
  <1>7. HeldIsLive'
    BY <1>4, <1>5 DEF HeldIsLive
  <1>8. StoredIsLive'
    <2> SUFFICES ASSUME cred # NoCred, cred.grant \notin lost, cred.grant # g
                 PROVE  cred.gen = honoured'[cred.grant]
      BY <1>3, <1>4 DEF StoredIsLive
    <2>1. cred.grant \in Grant /\ ~ \E d \in Caller : phase[d] = "answered"
      BY <1>1, ConnTyped, OneWorks DEF Serving
    <2> QED
      BY <2>1, <1>4 DEF TokensInv, StoredIsLive
  <1>9. HeldIsWished' /\ ConsentHolds'
    BY <1>1, <1>3, <1>4, <1>5 DEF TokensInv, HeldIsWished, ConsentHolds, Refreshing
  <1> QED
    BY <1>6, <1>7, <1>8, <1>9 DEF TokensInv

LEMMA RepliedKeepsTokens ==
  ASSUME ConnTypeOK, LineInv, TokensInv, NEW c \in Caller, Replied(c)
  PROVE  TokensInv'
  <1>1. /\ phase[c] = "answered" /\ held[c] \in Credential /\ held[c].grant \in Grant
        /\ flow[held[c].grant] = "done"
    BY ConnTyped DEF Replied, TokensInv, GrantsInv, Refreshing
  <1>2. /\ phase' = [phase EXCEPT ![c] = "settled"] /\ cred' = held[c]
        /\ UNCHANGED <<honoured, flow, wish, raced, lost>>
    BY DEF Replied, Settles, Goes, Store, user, faults
  <1>3. \A d \in Caller : ~Refreshing(d)'
    BY <1>1, <1>2, OneWorks DEF Refreshing, Serving, ConnTypeOK
  <1>4. GrantsInv' /\ HeldIsLive' /\ HeldIsWished'
    BY <1>1, <1>2, <1>3 DEF TokensInv, GrantsInv, HeldIsLive, HeldIsWished
  <1>5. StoredIsLive' /\ ConsentHolds'
    BY <1>1, <1>2 DEF TokensInv, HeldIsLive, HeldIsWished, StoredIsLive, ConsentHolds, Refreshing
  <1> QED
    BY <1>4, <1>5 DEF TokensInv

LEMMA ReplyLostKeepsTokens ==
  ASSUME ConnTypeOK, LineInv, TokensInv, NEW c \in Caller, ReplyLost(c)
  PROVE  TokensInv'
  <1>1. /\ phase[c] = "answered" /\ phase' = [phase EXCEPT ![c] = "settled"]
        /\ lost' = lost \cup {held[c].grant}
        /\ UNCHANGED <<cred, honoured, flow, wish, raced>>
    BY DEF ReplyLost, Settles, Goes, Burns, user
  <1>2. \A d \in Caller : ~Refreshing(d)'
    BY <1>1, OneWorks DEF Refreshing, Serving, ConnTypeOK
  <1>3. \A d \in Caller : phase[d] = "answered" => d = c
    BY <1>1, OneWorks DEF Serving
  <1>4. GrantsInv' /\ HeldIsLive' /\ HeldIsWished' /\ ConsentHolds'
    BY <1>1, <1>2 DEF TokensInv, GrantsInv, HeldIsLive, HeldIsWished, ConsentHolds
  <1>5. StoredIsLive'
    BY <1>1, <1>3 DEF TokensInv, StoredIsLive
  <1> QED
    BY <1>4, <1>5 DEF TokensInv

\* The user connects a grant nobody has refreshed yet.
LEMMA ConnectKeepsTokens ==
  ASSUME ConnTypeOK, TokensInv, NEW g \in Grant, Connected(g)
  PROVE  TokensInv'
  <1>1. PICK fresh \in BOOLEAN : cred' = [grant |-> g, gen |-> 0, fresh |-> fresh]
    BY DEF Connected, Store
  <1>2. /\ flow[g] = "exchanging" /\ flow' = [flow EXCEPT ![g] = "done"] /\ wish' = g
        /\ raced' = (raced \/ InRefresh)
        /\ UNCHANGED <<honoured, phase, held, lost>>
    BY DEF Connected, locks, faults
  <1>3. /\ honoured[g] = 0
        /\ flow'[g] = "done" /\ \A f \in Grant : f # g => flow'[f] = flow[f]
    BY <1>2 DEF TokensInv, GrantsInv, ConnTypeOK
  <1>4. \A d \in Caller : Refreshing(d)' <=> Refreshing(d)
    BY <1>2 DEF Refreshing
  <1>5. GrantsInv'
    BY <1>1, <1>2, <1>3, <1>4, ConnTyped DEF TokensInv, GrantsInv
  <1>6. HeldIsLive'
    BY <1>2, <1>4 DEF TokensInv, HeldIsLive
  <1>7. StoredIsLive' /\ ConsentHolds'
    BY <1>1, <1>2, <1>3 DEF StoredIsLive, ConsentHolds
  <1>8. HeldIsWished'
    BY <1>2, <1>4 DEF HeldIsWished, InRefresh, Refreshing
  <1> QED
    BY <1>5, <1>6, <1>7, <1>8 DEF TokensInv

LEMMA UserKeepsTokens ==
  ASSUME ConnTypeOK, TokensInv, UserStep \/ Expires
  PROVE  TokensInv'
  <1>1. ASSUME NEW g \in Grant, StartConnect(g) \/ Callback(g) \/ ConnectFails(g)
        PROVE  TokensInv'
    <2>1. UNCHANGED <<cred, honoured, wish, raced, phase, held, lost>>
      BY <1>1 DEF StartConnect, Callback, ConnectFails, locks, faults
    <2>2. \A f \in Grant : /\ flow[f] = "done" => flow'[f] = "done"
                           /\ flow'[f] # "done" => flow[f] # "done"
      BY <1>1 DEF StartConnect, Callback, ConnectFails, ConnTypeOK
    <2>3. GrantsInv'
      BY <2>1, <2>2, ConnTyped DEF TokensInv, GrantsInv, Refreshing
    <2>4. HeldIsLive' /\ StoredIsLive' /\ HeldIsWished' /\ ConsentHolds'
      BY <2>1 DEF TokensInv, HeldIsLive, StoredIsLive, HeldIsWished, ConsentHolds, Refreshing
    <2> QED
      BY <2>3, <2>4 DEF TokensInv
  <1>2. CASE Disconnect
    <2>1. /\ cred' = NoCred /\ wish' = NoGrant /\ raced' = (raced \/ InRefresh)
          /\ UNCHANGED <<flow, honoured, phase, held, lost>>
      BY <1>2 DEF Disconnect, locks, faults
    <2>2. GrantsInv' /\ HeldIsLive'
      BY <2>1 DEF TokensInv, GrantsInv, HeldIsLive, Refreshing
    <2>3. StoredIsLive' /\ HeldIsWished' /\ ConsentHolds'
      BY <2>1 DEF StoredIsLive, HeldIsWished, ConsentHolds, InRefresh, Refreshing, NoCred
    <2> QED
      BY <2>2, <2>3 DEF TokensInv
  <1>3. CASE Expires
    <2>1. /\ cred # NoCred /\ cred' = [cred EXCEPT !.fresh = FALSE]
          /\ UNCHANGED <<honoured, flow, wish, raced, phase, held, lost>>
      BY <1>3 DEF Expires, NoCred, user, locks, faults
    <2>2. cred'.grant = cred.grant /\ cred'.gen = cred.gen
      BY <2>1, ConnTyped DEF Credential
    <2>3. GrantsInv' /\ HeldIsLive' /\ HeldIsWished'
      BY <2>1, <2>2 DEF TokensInv, GrantsInv, HeldIsLive, HeldIsWished, Refreshing
    <2>4. StoredIsLive' /\ ConsentHolds'
      BY <2>1, <2>2 DEF TokensInv, StoredIsLive, ConsentHolds
    <2> QED
      BY <2>3, <2>4 DEF TokensInv
  <1>4. ASSUME NEW g \in Grant, Connected(g) PROVE TokensInv'
    BY <1>4, ConnectKeepsTokens
  <1> QED
    BY <1>1, <1>2, <1>3, <1>4 DEF UserStep

LEMMA DieKeepsTokens ==
  ASSUME ConnTypeOK, TokensInv, ConnDies
  PROVE  TokensInv'
  <1>1. /\ UNCHANGED <<cred, honoured, wish, raced>>
        /\ lost' = lost \cup UNION {Burns(c) : c \in Caller}
        /\ flow' = [g \in Grant |-> IF flow[g] = "none" THEN "none" ELSE "done"]
        /\ phase' = [c \in Caller |-> "idle"]
    BY DEF ConnDies
  <1>2. \A d \in Caller : ~Refreshing(d)'
    BY <1>1 DEF Refreshing
  <1>3. \A d \in Caller : phase[d] = "answered" => held[d].grant \in lost'
    <2>1. ASSUME NEW d \in Caller, phase[d] = "answered" PROVE held[d].grant \in lost'
      <3>1. held[d].grant \in Burns(d)
        BY <2>1 DEF Burns
      <3> QED
        BY <3>1, <1>1
    <2> QED
      BY <2>1
  <1>4. lost \subseteq lost'
    BY <1>1
  <1>5. GrantsInv'
    BY <1>1, <1>2, ConnTyped DEF TokensInv, GrantsInv, ConnTypeOK
  <1>6. HeldIsLive' /\ HeldIsWished' /\ ConsentHolds'
    BY <1>1, <1>2 DEF TokensInv, HeldIsLive, HeldIsWished, ConsentHolds
  <1>7. StoredIsLive'
    BY <1>1, <1>3, <1>4 DEF TokensInv, StoredIsLive
  <1> QED
    BY <1>5, <1>6, <1>7 DEF TokensInv

-----------------------------------------------------------------------------
(* The invariant.                                                          *)

ConnInv == ConnTypeOK /\ LineInv /\ TokensInv

LEMMA ConnStart == ConnInit => ConnInv
  <1> SUFFICES ASSUME ConnInit PROVE ConnInv
    OBVIOUS
  <1> USE DEF ConnInit
  <1>1. ConnTypeOK
    <2>1. /\ honoured \in [Grant -> Generation] /\ line \in Seq(Caller) /\ kills \in 0 .. MaxKills
          /\ phase \in [Caller -> Phase] /\ flow \in [Grant -> {"none", "asked", "exchanging", "done"}]
      BY DEF Phase
    <2> QED
      BY <2>1 DEF ConnTypeOK
  <1>2. LineInv
    BY DEF LineInv, Serving
  <1>3. TokensInv
    BY DEF TokensInv, GrantsInv, HeldIsLive, StoredIsLive, HeldIsWished, ConsentHolds, Refreshing,
       NoCred
  <1> QED
    BY <1>1, <1>2, <1>3 DEF ConnInv

\* While the line is empty, or its first still waits, nobody works.
LEMMA NobodyWorks ==
  ASSUME ConnTypeOK, LineInv, line # <<>> => phase[line[1]] = "queued"
  PROVE  \A d \in Caller : phase[d] \notin Serving
  <1>1. ASSUME NEW d \in Caller, phase[d] \in Serving PROVE FALSE
    BY <1>1, FirstWorks DEF Serving
  <1> QED
    BY <1>1

LEMMA ConnKeepsTokens ==
  ASSUME ConnInv, [ConnNext]_connVars PROVE TokensInv'
  <1> USE DEF ConnInv
  <1>1. ASSUME NEW c \in Caller, Ask(c) PROVE TokensInv'
    <2>1. phase[c] = "idle" /\ UNCHANGED <<cred, flow, honoured, wish, lost, raced>>
      BY <1>1 DEF Ask, user, faults
    <2>2. CASE tail = NoCaller
      <3>1. line = <<>>
        BY <2>2 DEF LineInv, ConnTypeOK
      <3>2. Work(c)
        BY <1>1, <2>2 DEF Ask
      <3> QED
        BY <2>1, <3>1, <3>2, NobodyWorks, WorkKeepsTokens
    <2>3. CASE tail # NoCaller
      BY <1>1, <2>1, <2>3, IdleKeepsTokens DEF Ask, Goes, ConnTypeOK
    <2> QED
      BY <2>2, <2>3
  <1>2. ASSUME NEW c \in Caller, Enter(c) PROVE TokensInv'
    <2>1. c = line[1] /\ phase[c] = "queued"
      BY <1>2, EnterKeepsLine
    <2>2. Work(c) /\ UNCHANGED <<cred, flow, honoured, wish, lost, raced>>
      BY <1>2 DEF Enter, user, faults
    <2> QED
      BY <2>1, <2>2, NobodyWorks, WorkKeepsTokens
  <1>3. ASSUME NEW c \in Caller, LinkSettles(c) PROVE TokensInv'
    BY <1>3, IdleKeepsTokens DEF LinkSettles, Goes, user, faults, ConnTypeOK
  <1>4. ASSUME NEW c \in Caller, RefreshFails(c) PROVE TokensInv'
    BY <1>4, IdleKeepsTokens DEF RefreshFails, Settles, Goes, Holds, user, faults, ConnTypeOK
  <1>5. ASSUME NEW c \in Caller, Call(c) PROVE TokensInv'
    BY <1>5, IdleKeepsTokens
       DEF Call, Accepted, Rejected, CallFails, Goes, user, faults, ConnTypeOK
  <1>6. CASE UNCHANGED connVars
    BY <1>6, IdleKeepsTokens DEF connVars
  <1> QED
    BY <1>1, <1>2, <1>3, <1>4, <1>5, <1>6, RefreshedKeepsTokens, RepliedKeepsTokens,
       ReplyLostKeepsTokens, UserKeepsTokens, DieKeepsTokens
       DEF ConnNext, CallerStep, Exchange, Reply

LEMMA ConnKeepsLine ==
  ASSUME ConnInv, [ConnNext]_connVars PROVE LineInv'
  <1> USE DEF ConnInv
  <1>1. ASSUME Stays PROVE LineInv'
    BY <1>1, StayKeepsLine DEF Stays
  <1> QED
    BY <1>1, OthersStay, AskKeepsLine, EnterKeepsLine, SettleKeepsLine, DieKeepsLine
       DEF ConnNext, CallerStep

LEMMA ConnStep == ConnInv /\ [ConnNext]_connVars => ConnInv'
  BY ConnTypes, ConnKeepsLine, ConnKeepsTokens DEF ConnInv

THEOREM ConnKeepsInv == ConnSpec => []ConnInv
  BY ConnStart, ConnStep, PTL DEF ConnSpec

-----------------------------------------------------------------------------
(* The lock is a queue.                                                    *)

LEMMA QueueStep == ConnInv /\ [ConnNext]_connVars => [Lock!QueueNext]_(Lock!queueVars)
  <1> SUFFICES ASSUME ConnInv, [ConnNext]_connVars PROVE [Lock!QueueNext]_(Lock!queueVars)
    OBVIOUS
  <1> USE DEF ConnInv, Lock!queueVars, Lock!QueueNext
  <1>t. phase \in [Caller -> Phase] /\ line \in Seq(Caller)
    BY DEF ConnTypeOK
  <1>1. ASSUME NEW c \in Caller, Ask(c) PROVE Lock!Join(c)
    <2>1. /\ \A i \in 1 .. Len(line) : line[i] # c
          /\ line = <<>> => phase'[c] \in Serving
          /\ line # <<>> => phase'[c] = "queued"
          /\ \A d \in Caller : d # c => phase'[d] = phase[d]
          /\ line' = Append(line, c)
      BY <1>1, AskKeepsLine
    <2>2. phase[c] = "idle"
      BY <1>1 DEF Ask
    <2>3. InWork' = IF line = <<>> THEN {c} ELSE InWork
      <3>1. CASE line = <<>>
        BY <2>1, <3>1, NobodyWorks DEF InWork
      <3>2. CASE line # <<>>
        BY <2>1, <2>2, <3>2 DEF InWork, Serving
      <3> QED
        BY <3>1, <3>2
    <2>4. c \notin Lock!Waiting
      BY <2>1, <1>t DEF Lock!Waiting
    <2> QED
      BY <2>1, <2>3, <2>4 DEF Lock!Join
  <1>2. ASSUME NEW c \in Caller, Enter(c) PROVE Lock!Serve
    <2>1. /\ line # <<>> /\ c = line[1] /\ phase[c] = "queued"
          /\ phase'[c] \in Serving /\ UNCHANGED line
          /\ \A d \in Caller : d # c => phase'[d] = phase[d]
      BY <1>2, EnterKeepsLine
    <2>2. InWork = {} /\ InWork' = {c}
      BY <2>1, NobodyWorks DEF InWork
    <2>3. Head(line) = c
      BY <2>1, <1>t
    <2> QED
      BY <2>1, <2>2, <2>3 DEF Lock!Serve
  <1>3. ASSUME NEW c \in Caller, LinkSettles(c) PROVE Lock!Leave
    <2>1. /\ line # <<>> /\ c = line[1] /\ phase[c] \in Serving
          /\ phase'[c] \notin Serving /\ line' = Tail(line)
          /\ \A d \in Caller : d # c => phase'[d] = phase[d]
      BY <1>3, SettleKeepsLine
    <2>2. \A d \in Caller : phase[d] \in Serving => d = c
      BY <2>1, OneWorks
    <2>3. InWork = {c} /\ InWork' = {}
      BY <2>1, <2>2 DEF InWork
    <2>4. Head(line) = c
      BY <2>1, <1>t
    <2> QED
      BY <2>1, <2>3, <2>4 DEF Lock!Leave
  <1>4. CASE ConnDies
    BY <1>4, DieKeepsLine DEF Lock!Clear
  <1>5. ASSUME Stays PROVE UNCHANGED <<line, InWork>>
    BY <1>5, StayKeepsLine DEF Stays
  <1> QED
    BY <1>1, <1>2, <1>3, <1>4, <1>5, OthersStay DEF ConnNext, CallerStep

\* The promise chain of refresh-lock.ts is a first-come first-served queue with one
\* place at the counter.
THEOREM LockImplementsQueue == ConnSpec => LockIsAQueue
  <1>1. ConnInit => Lock!QueueInit
    BY DEF ConnInit, Lock!QueueInit, InWork, Serving
  <1> QED
    BY <1>1, QueueStep, ConnKeepsInv, PTL DEF ConnSpec, LockIsAQueue, Lock!QueueSpec

-----------------------------------------------------------------------------
(* What else follows.                                                      *)

\* The connection's variables keep to their types.
THEOREM ConnIsTyped == ConnSpec => []ConnTypeOK
  <1>1. ConnInv => ConnTypeOK
    BY DEF ConnInv
  <1> QED
    BY <1>1, ConnKeepsInv, PTL

\* No refresh is made with a refresh token that another one used up (integrations.ts).
THEOREM RefreshTokensAreLive == ConnSpec => []RefreshTokenIsLive
  <1>1. ConnInv => RefreshTokenIsLive
    BY DEF ConnInv, TokensInv, StoredIsLive, HeldIsLive, Refreshing, RefreshTokenIsLive
  <1> QED
    BY <1>1, ConnKeepsInv, PTL

\* The store holds what the user connected last, or nothing (tool-credentials.ts).
THEOREM ConsentIsKept == ConnSpec => []ConsentHolds
  <1>1. ConnInv => ConsentHolds
    BY DEF ConnInv, TokensInv
  <1> QED
    BY <1>1, ConnKeepsInv, PTL

\* A refresh lock is let go of from wherever its holder is.  While anybody waits for a
\* bearer, the first in line either works, and its exchange, its reply or its link can
\* end, or waits for nobody and can enter (refresh-lock.ts).
HeadGoesOn ==
  \A c \in Caller : phase[c] = "queued" =>
    line # <<>> /\ \/ phase[line[1]] \in Serving
                   \/ phase[line[1]] = "queued" /\ prior[line[1]] = NoCaller

\* The chain of promises never jams, whatever fails and whoever asks meanwhile: with
\* LockIsAQueue, by which the line moves in order, the safety half of CallersServed.
THEOREM ChainNeverJams == ConnSpec => []HeadGoesOn
  <1>1. ConnInv => HeadGoesOn
    <2> SUFFICES ASSUME ConnInv, NEW c \in Caller, phase[c] = "queued"
                 PROVE  line # <<>> /\ \/ phase[line[1]] \in Serving
                                       \/ phase[line[1]] = "queued" /\ prior[line[1]] = NoCaller
      BY DEF HeadGoesOn
    <2>1. ConnTypeOK /\ LineInv /\ line \in Seq(Caller)
      BY DEF ConnInv, ConnTypeOK
    <2>2. line # <<>> /\ 1 \in 1 .. Len(line)
      BY <2>1 DEF LineInv
    <2>3. line[1] \in Caller
      BY <2>1, <2>2
    <2>4. phase[line[1]] \in Serving \cup {"queued"} /\ prior[line[1]] = NoCaller
      BY <2>1, <2>2, <2>3 DEF LineInv
    <2> QED
      BY <2>2, <2>4
  <1> QED
    BY <1>1, ConnKeepsInv, PTL
=============================================================================
