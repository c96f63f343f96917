------------------------------ MODULE OneShot ------------------------------
(***************************************************************************)
(* What the confirm-gate promises of each gated call, that is of each      *)
(* (session, tool, arguments): the call is made only after the operator    *)
(* granted it, a grant is good for one call and for that call alone, and   *)
(* while one is asked for or granted nothing more is asked.                *)
(***************************************************************************)
EXTENDS Naturals

CONSTANT Call  \* the gated calls

VARIABLES
  phase,  \* of each call: idle, asked or granted
  made    \* how often each call has been made

TypeOK ==
  /\ phase \in [Call -> {"idle", "asked", "granted"}]
  /\ made \in [Call -> Nat]

Init ==
  /\ phase = [c \in Call |-> "idle"]
  /\ made = [c \in Call |-> 0]

Ask(c) ==
  /\ phase[c] = "idle"
  /\ phase' = [phase EXCEPT ![c] = "asked"]
  /\ UNCHANGED made

Grant(c) ==
  /\ phase[c] = "asked"
  /\ phase' = [phase EXCEPT ![c] = "granted"]
  /\ UNCHANGED made

\* The operator refuses one, or what they were asked for is over.
Withdraw(cs) ==
  /\ \A c \in cs : phase[c] = "asked"
  /\ phase' = [c \in Call |-> IF c \in cs THEN "idle" ELSE phase[c]]
  /\ UNCHANGED made

Make(c) ==
  /\ phase[c] = "granted"
  /\ phase' = [phase EXCEPT ![c] = "idle"]
  /\ made' = [made EXCEPT ![c] = @ + 1]

\* A crash can lose a grant, never keep one that was used.
Lose(c) ==
  /\ phase[c] = "granted"
  /\ phase' = [phase EXCEPT ![c] = "idle"]
  /\ UNCHANGED made

Next ==
  \/ \E c \in Call : Ask(c) \/ Grant(c) \/ Make(c) \/ Lose(c)
  \/ \E cs \in SUBSET Call : Withdraw(cs)

Spec == Init /\ [][Next]_<<phase, made>>
=============================================================================
