----------------------------- MODULE TabSession -----------------------------
(* What a browser tab promises about the session it is in: it signs in to a  *)
(* new one, asks for the one it kept when it is reopened, and loses what it  *)
(* keeps together with what it is in.  A session comes back only as the      *)
(* answer to that question, which is answered once; none is signed out of    *)
(* while the question is open for it, so that none comes back after it was.  *)
EXTENDS Naturals

CONSTANT None       \* no session

VARIABLES
    current,        \* the session the tab is in
    kept,           \* the one it asks for when it is reopened
    asked,          \* those it has asked for, without an answer yet
    ended,          \* those the user has signed out of
    issued          \* the identity of the last session

tabVars == <<current, kept, asked, ended, issued>>

Init ==
    /\ current = None /\ kept = None
    /\ asked = {} /\ ended = {} /\ issued = 0

Hold(s) == current' = s /\ kept' = s

Lose == Hold(None)

\* A session that may not be used where the tab is by then is lost.
SignIn ==
    /\ issued' = issued + 1
    /\ \/ current' # None /\ current'.id = issued' /\ kept' = current'
       \/ Lose
    /\ UNCHANGED <<asked, ended>>

Forget == Lose /\ UNCHANGED <<asked, ended, issued>>

Reopen ==
    /\ kept # None
    /\ current' = None /\ asked' = {kept}
    /\ UNCHANGED <<kept, ended, issued>>

Resume(s) ==
    /\ Hold(s) \/ Lose
    /\ asked' = asked \ {s}
    /\ UNCHANGED <<ended, issued>>

SignOut(s) ==
    /\ Lose
    /\ ended' = ended \cup {s}
    /\ s # None /\ s.id \in 1 .. issued /\ s \notin asked
    /\ UNCHANGED <<asked, issued>>

Next ==
    \/ SignIn \/ Forget \/ Reopen
    \/ \E s \in asked : Resume(s)
    \/ \E s \in ended' : SignOut(s)

Spec == Init /\ [][Next]_tabVars

-----------------------------------------------------------------------------

\* What a user relies on: a session that was signed out of is not in the tab,
\* is not what the tab asks for when it is reopened, and is not asked for.
NeverBack ==
    /\ current \notin ended /\ kept \notin ended
    /\ asked \cap ended = {}
=============================================================================
