---------------------------- MODULE Connections -----------------------------
(***************************************************************************)
(* The connection of one user to one integration whose provider rotates    *)
(* refresh tokens: the stored credential and its stale mark                *)
(* (tool-credentials.ts), the tool calls that need a bearer and queue for  *)
(* it under the refresh lock (integrations.ts, refresh-lock.ts), the calls *)
(* they make with it (toolset-types.ts), and the connects and disconnects  *)
(* of the user (oauth-routes.ts, integration-routes.ts), which do not take *)
(* the lock.  Every consent of the user is a grant of its own.             *)
(***************************************************************************)
EXTENDS Naturals, Sequences

CONSTANTS
  Caller,        \* tool calls
  NoCaller,
  MaxGrants,     \* bound: consents
  MaxRotations,  \* bound: refresh tokens issued after the first one of a grant
  MaxKills       \* bound: deaths of the process

ASSUME ConnAssumption ==
  NoCaller \notin Caller /\ MaxGrants \in Nat /\ MaxRotations \in Nat /\ MaxKills \in Nat

VARIABLES
  cred,      \* the stored credential
  stale,     \* stale_at is set
  flow,      \* pending consents: where each is
  honoured,  \* provider: the refresh token that is good now, one for each grant
  phase,     \* of each caller
  prior,     \* link it waits for
  tail,      \* chains: the last link
  held,      \* credential its work has read
  token,     \* grant of the bearer it got, or NoGrant
  wish,      \* what the user did last: the grant connected, or NoGrant
  lost,      \* grants whose newest refresh token never reached the store
  raced,     \* a connect or disconnect came in the middle of a refresh
  line,      \* history: callers whose link is not resolved, in order of asking
  kills

links    == <<prior, tail, line>>
connVars == <<cred, stale, flow, honoured, phase, links, held, token, wish, lost, raced, kills>>

Grant == 1 .. MaxGrants
NoGrant == 0
Generation == 0 .. MaxRotations

\* `fresh`: the cached access token is good for a while.
Credential == [grant : Grant, gen : Generation, fresh : BOOLEAN]
NoCred == [grant |-> NoGrant, gen |-> 0, fresh |-> FALSE]

\* The lock: the link of a "settled" caller is still to resolve.
Serving == {"refreshing", "answered", "settled"}
Phase == {"idle", "queued", "calling"} \cup Serving

ConnTypeOK ==
  /\ cred \in Credential \cup {NoCred}
  /\ stale \in BOOLEAN
  /\ flow \in [Grant -> {"none", "asked", "exchanging", "done"}]
  /\ honoured \in [Grant -> Generation]
  /\ phase \in [Caller -> Phase]
  /\ prior \in [Caller -> Caller \cup {NoCaller}]
  /\ tail \in Caller \cup {NoCaller}
  /\ line \in Seq(Caller)
  /\ held \in [Caller -> Credential \cup {NoCred}]
  /\ token \in [Caller -> Grant \cup {NoGrant}]
  /\ wish \in Grant \cup {NoGrant}
  /\ lost \subseteq Grant
  /\ raced \in BOOLEAN
  /\ kills \in 0 .. MaxKills

ConnInit ==
  /\ cred = NoCred /\ stale = FALSE
  /\ flow = [g \in Grant |-> "none"]
  /\ honoured = [g \in Grant |-> 0]
  /\ phase = [c \in Caller |-> "idle"]
  /\ prior = [c \in Caller |-> NoCaller]
  /\ tail = NoCaller /\ line = <<>>
  /\ held = [c \in Caller |-> NoCred]
  /\ token = [c \in Caller |-> NoGrant]
  /\ wish = NoGrant
  /\ lost = {} /\ raced = FALSE
  /\ kills = 0

user     == <<flow, wish, raced>>
faults   == <<lost, kills>>

-----------------------------------------------------------------------------
(* The lock, and the work under it.                                        *)

Goes(c, to) == phase' = [phase EXCEPT ![c] = to]
Holds(c, secret) == held' = [held EXCEPT ![c] = secret]
Gets(c, g) == token' = [token EXCEPT ![c] = g]
Settles(c, g) == Goes(c, "settled") /\ Gets(c, g) /\ Holds(c, NoCred)

\* rotating: the secret is read, and refreshed unless the cached access token will do.
Work(c) ==
  IF cred = NoCred \/ cred.fresh
  THEN Settles(c, cred.grant)
  ELSE Goes(c, "refreshing") /\ Holds(c, cred) /\ UNCHANGED token

\* withRefreshLock: behind the last link, or at once when there is none.
Ask(c) ==
  /\ phase[c] = "idle"
  /\ tail' = c /\ line' = Append(line, c)
  /\ IF tail = NoCaller
     THEN Work(c) /\ UNCHANGED prior
     ELSE /\ prior' = [prior EXCEPT ![c] = tail]
          /\ Goes(c, "queued")
          /\ UNCHANGED <<held, token>>
  /\ UNCHANGED <<cred, stale, honoured, user, faults>>

Enter(c) ==
  /\ phase[c] = "queued" /\ prior[c] = NoCaller
  /\ Work(c)
  /\ UNCHANGED <<cred, stale, honoured, user, links, faults>>

\* Mutant: the link of a work that failed rejects, and nobody goes on from it.
LinkSettlesDeaf(c) ==
  /\ phase[c] = "settled"
  /\ Goes(c, IF token[c] = NoGrant THEN "idle" ELSE "calling")
  /\ prior' = [d \in Caller |->
                 IF prior[d] = c /\ token[c] # NoGrant THEN NoCaller ELSE prior[d]]
  /\ tail' = IF tail = c THEN NoCaller ELSE tail
  /\ line' = Tail(line)
  /\ UNCHANGED <<cred, stale, honoured, user, held, token, faults>>

\* Mutant: any link clears the chain.
LinkSettlesAny(c) ==
  /\ phase[c] = "settled"
  /\ Goes(c, IF token[c] = NoGrant THEN "idle" ELSE "calling")
  /\ prior' = [d \in Caller |-> IF prior[d] = c THEN NoCaller ELSE prior[d]]
  /\ tail' = NoCaller
  /\ line' = Tail(line)
  /\ UNCHANGED <<cred, stale, honoured, user, held, token, faults>>

\* The link resolves: who waits for it may go on, and the last one clears the chain.
LinkSettles(c) ==
  /\ phase[c] = "settled"
  /\ Goes(c, IF token[c] = NoGrant THEN "idle" ELSE "calling")
  /\ prior' = [d \in Caller |-> IF prior[d] = c THEN NoCaller ELSE prior[d]]
  /\ tail' = IF tail = c THEN NoCaller ELSE tail
  /\ line' = Tail(line)
  /\ UNCHANGED <<cred, stale, honoured, user, held, token, faults>>

-----------------------------------------------------------------------------
(* The refresh.                                                            *)

Honours(secret) == secret.gen = honoured[secret.grant]

\* The provider takes the refresh token.  Most give a new one and revoke this one.
Refreshed(c) ==
  /\ phase[c] = "refreshing" /\ Honours(held[c])
  /\ \E gen \in Generation :
       /\ gen \in {held[c].gen, held[c].gen + 1}
       /\ honoured' = [honoured EXCEPT ![held[c].grant] = gen]
       /\ Holds(c, [held[c] EXCEPT !.gen = gen, !.fresh = TRUE])
  /\ Goes(c, "answered")
  /\ UNCHANGED <<cred, stale, user, links, token, faults>>

\* The request fails on its way, or is refused: the exchange throws.
RefreshFails(c) ==
  /\ phase[c] = "refreshing"
  /\ Settles(c, NoGrant)
  /\ UNCHANGED <<cred, stale, honoured, user, links, faults>>

\* Mutant: a row that is there is kept.
StoreNew(secret) == cred' = (IF cred = NoCred THEN secret ELSE cred) /\ stale' = FALSE

\* put writes the row, whether or not it is still the one that was read.
Store(secret) == cred' = secret /\ stale' = FALSE

\* Mutant: the rotated secret is not persisted.
RepliedUnsaved(c) ==
  /\ phase[c] = "answered"
  /\ Settles(c, held[c].grant)
  /\ UNCHANGED <<cred, stale, honoured, user, links, faults>>

Replied(c) ==
  /\ phase[c] = "answered"
  /\ Store(held[c])
  /\ Settles(c, held[c].grant)
  /\ UNCHANGED <<honoured, user, links, faults>>

Burns(c) == IF phase[c] = "answered" THEN {held[c].grant} ELSE {}

ReplyLost(c) ==
  /\ phase[c] = "answered"
  /\ lost' = lost \cup Burns(c)
  /\ Settles(c, NoGrant)
  /\ UNCHANGED <<cred, stale, honoured, user, links, kills>>

-----------------------------------------------------------------------------
(* The call with the bearer.                                               *)

\* A tool call that goes through clears the mark, a look at the tool's schema does not.
Accepted(c) ==
  /\ phase[c] = "calling"
  /\ stale' \in {stale, FALSE}
  /\ Goes(c, "idle") /\ Gets(c, NoGrant)
  /\ UNCHANGED <<cred, honoured, user, links, held, faults>>

\* A 401, also a passing one, marks the row there is, which may be a newer one.
Rejected(c) ==
  /\ phase[c] = "calling"
  /\ stale' = (cred # NoCred)
  /\ Goes(c, "idle") /\ Gets(c, NoGrant)
  /\ UNCHANGED <<cred, honoured, user, links, held, faults>>

CallFails(c) ==
  /\ phase[c] = "calling"
  /\ Goes(c, "idle") /\ Gets(c, NoGrant)
  /\ UNCHANGED <<cred, stale, honoured, user, links, held, faults>>

-----------------------------------------------------------------------------
(* The user, the clock and the process.                                    *)

locks == <<phase, links, held, token>>

InRefresh == \E c \in Caller : phase[c] \in {"refreshing", "answered"}

\* The connect route mints a one-shot state.
StartConnect(g) ==
  /\ flow[g] = "none" /\ \A f \in Grant : f < g => flow[f] # "none"
  /\ flow' = [flow EXCEPT ![g] = "asked"]
  /\ UNCHANGED <<cred, stale, honoured, wish, raced, locks, faults>>

\* The callback takes it and exchanges the code.
Callback(g) ==
  /\ flow[g] = "asked"
  /\ flow' = [flow EXCEPT ![g] = "exchanging"]
  /\ UNCHANGED <<cred, stale, honoured, wish, raced, locks, faults>>

Connected(g) ==
  /\ flow[g] = "exchanging"
  /\ \E fresh \in BOOLEAN : Store([grant |-> g, gen |-> 0, fresh |-> fresh])
  /\ flow' = [flow EXCEPT ![g] = "done"]
  /\ wish' = g
  /\ raced' = (raced \/ InRefresh)
  /\ UNCHANGED <<honoured, locks, faults>>

\* The state expires, consent is refused, or the exchange fails.
ConnectFails(g) ==
  /\ flow[g] \in {"asked", "exchanging"}
  /\ flow' = [flow EXCEPT ![g] = "done"]
  /\ UNCHANGED <<cred, stale, honoured, wish, raced, locks, faults>>

Disconnect ==
  /\ cred # NoCred
  /\ cred' = NoCred /\ stale' = FALSE
  /\ wish' = NoGrant
  /\ raced' = (raced \/ InRefresh)
  /\ UNCHANGED <<flow, honoured, locks, faults>>

\* The access token runs out.
Expires ==
  /\ cred.fresh
  /\ cred' = [cred EXCEPT !.fresh = FALSE]
  /\ UNCHANGED <<stale, honoured, user, locks, faults>>

\* Locks and flows are in memory; a reply on its way has nobody to come to.
ConnDies ==
  /\ kills < MaxKills
  /\ kills' = kills + 1
  /\ lost' = lost \cup UNION {Burns(c) : c \in Caller}
  /\ flow' = [g \in Grant |-> IF flow[g] = "none" THEN "none" ELSE "done"]
  /\ phase' = [c \in Caller |-> "idle"]
  /\ prior' = [c \in Caller |-> NoCaller]
  /\ tail' = NoCaller /\ line' = <<>>
  /\ held' = [c \in Caller |-> NoCred]
  /\ token' = [c \in Caller |-> NoGrant]
  /\ UNCHANGED <<cred, stale, honoured, wish, raced>>

Exchange(c) == Refreshed(c) \/ RefreshFails(c)
Reply(c)    == Replied(c) \/ ReplyLost(c)
Call(c)     == Accepted(c) \/ Rejected(c) \/ CallFails(c)

CallerStep(c) == Ask(c) \/ Enter(c) \/ LinkSettles(c) \/ Exchange(c) \/ Reply(c) \/ Call(c)

UserStep ==
  \/ \E g \in Grant : StartConnect(g) \/ Callback(g) \/ Connected(g) \/ ConnectFails(g)
  \/ Disconnect

ConnNext ==
  \/ \E c \in Caller : CallerStep(c)
  \/ UserStep
  \/ Expires \/ ConnDies

ConnSpec == ConnInit /\ [][ConnNext]_connVars

\* Promises that are settled run what waits for them; the runtime's fetch gives up on an
\* exchange or a call that gets no answer.
ConnFairness ==
  \A c \in Caller :
    /\ WF_connVars(Enter(c)) /\ WF_connVars(LinkSettles(c))
    /\ WF_connVars(Exchange(c)) /\ WF_connVars(Reply(c)) /\ WF_connVars(Call(c))

FairConnSpec == ConnSpec /\ ConnFairness

-----------------------------------------------------------------------------
(* Properties.                                                             *)

InWork == {c \in Caller : phase[c] \in Serving}

Lock == INSTANCE TokenQueue WITH Member <- Caller, line <- line, serving <- InWork

\* The promise chain of refresh-lock.ts is a queue: one caller works at a time, in the
\* order of asking, whatever links resolve and clear themselves in between.
LockIsAQueue == Lock!QueueSpec

\* "two concurrent tool calls must not both refresh from the same stored credential"
\* (integrations.ts): the refresh token that is stored, and any that is on its way to the
\* provider, is the one the provider honours, unless the answer that replaced it was lost.
RefreshTokenIsLive ==
  /\ cred # NoCred /\ cred.grant \notin lost =>
       \/ cred.gen = honoured[cred.grant]
       \/ \E c \in Caller : phase[c] = "answered" /\ held[c].grant = cred.grant
  /\ \A c \in Caller :
       phase[c] = "refreshing" /\ held[c].grant \notin lost =>
         held[c].gen = honoured[held[c].grant]

\* What is stored is what the user last connected, and nothing after a disconnect: a
\* refresh puts another credential back only if the change came in the middle of it.
ConsentHolds == ~raced => cred.grant = wish

\* Nobody waits for a bearer for ever, though any refresh may fail and any turn end.
CallersServed == \A c \in Caller : phase[c] = "queued" ~> phase[c] = "idle"
=============================================================================
