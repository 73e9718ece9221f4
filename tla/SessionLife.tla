---------------------------- MODULE SessionLife ----------------------------
(***************************************************************************)
(* What the session store promises its users: a session is granted once    *)
(* with a lifetime, can be used until the lifetime has passed or somebody  *)
(* asked to end it, whichever comes first, and never comes back.           *)
(***************************************************************************)
EXTENDS Integers

CONSTANTS Tokens, Lifetimes

VARIABLES left,  \* ticks a token is still good for: -1 never granted, 0 over
          asked  \* tokens whose end has been requested

lifeVars == <<left, asked>>

LifeInit == left = [k \in Tokens |-> -1] /\ asked = {}

Grant(k, t) ==
  /\ left[k] = -1
  /\ left' = [left EXCEPT ![k] = t]
  /\ UNCHANGED asked

\* Ending a token that was never granted uses the token up.
AskEnd(ks) ==
  /\ asked' = asked \cup ks
  /\ left' = [k \in Tokens |-> IF k \in ks /\ left[k] = -1 THEN 0 ELSE left[k]]

EndSession(k) ==
  /\ k \in asked
  /\ left' = [left EXCEPT ![k] = 0]
  /\ UNCHANGED asked

LifeTick ==
  /\ left' = [k \in Tokens |-> IF left[k] > 0 THEN left[k] - 1 ELSE left[k]]
  /\ UNCHANGED asked

LifeNext ==
  \/ \E k \in Tokens, t \in Lifetimes : Grant(k, t)
  \/ \E ks \in SUBSET Tokens : AskEnd(ks)
  \/ \E k \in Tokens : EndSession(k)
  \/ LifeTick

LifeSpec == LifeInit /\ [][LifeNext]_lifeVars
=============================================================================
