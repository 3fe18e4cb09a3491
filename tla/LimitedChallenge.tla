-------------------------- MODULE LimitedChallenge --------------------------
(***************************************************************************)
(* What the development authority promises of a challenge, whoever answers *)
(* it and however many at once: it is open from its issue until it is      *)
(* closed, takes no more than Limit answers and those only while it is     *)
(* open, gives a session for right answers only, one for each, and is      *)
(* closed for a reason: a session was given, the answers are used up, or   *)
(* it has expired.                                                         *)
(***************************************************************************)
EXTENDS Naturals

CONSTANTS Attempts, Limit

VARIABLES
  state,    \* "none", "open" or "closed"
  expired,  \* those whose time has passed
  answers,  \* how many were taken, those included that cannot be compared
  right,    \* how many of them were right
  issued    \* how many sessions were given for them

challengeVars == <<state, expired, answers, right, issued>>

Nothing == [a \in Attempts |-> 0]

Init ==
  /\ state = [a \in Attempts |-> "none"] /\ expired = {}
  /\ answers = Nothing /\ right = Nothing /\ issued = Nothing

Open(a) ==
  /\ state[a] = "none"
  /\ state' = [state EXCEPT ![a] = "open"]
  /\ UNCHANGED <<expired, answers, right, issued>>

Expire(a) ==
  /\ state[a] = "open"
  /\ expired' = expired \cup {a}
  /\ UNCHANGED <<state, answers, right, issued>>

Answer(a) ==
  /\ state[a] = "open" /\ answers[a] < Limit
  /\ answers' = [answers EXCEPT ![a] = @ + 1]
  /\ right' \in {right, [right EXCEPT ![a] = @ + 1]}
  /\ UNCHANGED <<state, expired, issued>>

Issue(a) ==
  /\ issued[a] < right[a]
  /\ issued' = [issued EXCEPT ![a] = @ + 1]
  /\ UNCHANGED <<state, expired, answers, right>>

Close(a) ==
  /\ state[a] = "open"
  /\ issued[a] > 0 \/ answers[a] = Limit \/ a \in expired
  /\ state' = [state EXCEPT ![a] = "closed"]
  /\ UNCHANGED <<expired, answers, right, issued>>

Next ==
  \E a \in Attempts : Open(a) \/ Expire(a) \/ Answer(a) \/ Issue(a) \/ Close(a)

Spec == Init /\ [][Next]_challengeVars
=============================================================================
