---------------------- MODULE DevelopmentAuthentication ----------------------
(***************************************************************************)
(* The development authentication authority (backend/auth): the service of *)
(* development_service.py over the store of sessions.py, which holds       *)
(* attempts and sessions in memory.  ThreadingHTTPServer gives every       *)
(* request a thread of its own (the Requests; a finished one stands for    *)
(* the next request).  A call of the store holds its lock; the service     *)
(* makes several calls for one request.                                    *)
(*                                                                         *)
(* Time is abstract: a challenge expires, and a session expires, at some   *)
(* moment after it is issued.  A response is right, wrong or unreadable,    *)
(* which hmac.compare_digest raises at.  A request that is rejected without *)
(* touching the store is not a step.                                       *)
(***************************************************************************)
EXTENDS Integers, FiniteSets

CONSTANTS
  Requests,              \* threads that handle requests
  Attempts,              \* tokens of authentication attempts
  Guests,                \* tokens of guest sessions
  MAX_ENIGMA_ATTEMPTS    \* 3 in the code

(* Tokens of developer sessions, numbered for each attempt.                *)
DeveloperSessions == Attempts \X (1..MAX_ENIGMA_ATTEMPTS)
Sessions == Guests \cup DeveloperSessions

Answers == {"right", "wrong", "unreadable"}

ASSUME AuthenticationAssumption ==
  /\ IsFiniteSet(Requests)
  /\ MAX_ENIGMA_ATTEMPTS \in Nat \ {0}
  /\ Guests \cap DeveloperSessions = {}

VARIABLES
  attempt,    \* "unused", "unbound" (no challenge yet), "bound", "gone"
  expired,    \* attempts whose challenge has expired
  count,      \* challenge_attempts
  session,    \* "unused", "live", "expired" (not yet removed), "gone"
  evaluated,  \* history: responses compared with the signature, by attempt
  right,      \* history: those that were right
  pc,         \* where the request is
  target,     \* the attempt it is about
  answer      \* what its response is

storeVars   == <<attempt, expired, count>>
historyVars == <<evaluated, right>>
vars == <<storeVars, session, historyVars, pc, target, answer>>

Pcs == {"idle", "issuing", "counting", "creating", "consuming"}

TypeOK ==
  /\ attempt \in [Attempts -> {"unused", "unbound", "bound", "gone"}]
  /\ expired \subseteq Attempts
  /\ count \in [Attempts -> Nat]
  /\ session \in [Sessions -> {"unused", "live", "expired", "gone"}]
  /\ evaluated \in [Attempts -> Nat] /\ right \in [Attempts -> Nat]
  /\ pc \in [Requests -> Pcs]
  /\ target \in [Requests -> Attempts]
  /\ answer \in [Requests -> Answers]

Init ==
  /\ attempt = [a \in Attempts |-> "unused"]
  /\ expired = {}
  /\ count = [a \in Attempts |-> 0]
  /\ session = [s \in Sessions |-> "unused"]
  /\ evaluated = [a \in Attempts |-> 0] /\ right = [a \in Attempts |-> 0]
  /\ pc = [r \in Requests |-> "idle"]
  /\ target \in [Requests -> Attempts]
  /\ answer = [r \in Requests |-> "wrong"]

Goto(r, label) == pc' = [pc EXCEPT ![r] = label]

-----------------------------------------------------------------------------
(* start_developer: the attempt is stored, then the challenge is issued    *)
(* and bound to it.  If it cannot be issued the attempt stays unbound.     *)

CreateAttempt(r, a) ==
  /\ pc[r] = "idle"
  /\ attempt[a] = "unused"
  /\ attempt' = [attempt EXCEPT ![a] = "unbound"]
  /\ target' = [target EXCEPT ![r] = a]
  /\ Goto(r, "issuing")
  /\ UNCHANGED <<expired, count, session, historyVars, answer>>

BindChallenge(r) ==
  /\ pc[r] = "issuing"
  /\ attempt' = [attempt EXCEPT ![target[r]] = "bound"]
  /\ Goto(r, "idle")
  /\ UNCHANGED <<expired, count, session, historyVars, target, answer>>

IssueFails(r) ==
  /\ pc[r] = "issuing"
  /\ Goto(r, "idle")
  /\ UNCHANGED <<storeVars, session, historyVars, target, answer>>

ChallengeExpires(a) ==
  /\ attempt[a] = "bound"
  /\ a \notin expired
  /\ expired' = expired \cup {a}
  /\ UNCHANGED <<attempt, count, session, historyVars, pc, target, answer>>

-----------------------------------------------------------------------------
(* verify_developer                                                        *)

(* attempt_record and the expiry check.                                    *)
ReadAttempt(r, a, given) ==
  /\ pc[r] = "idle"
  /\ attempt[a] = "bound"
  /\ target' = [target EXCEPT ![r] = a]
  /\ answer' = [answer EXCEPT ![r] = given]
  /\ Goto(r, IF a \in expired THEN "consuming" ELSE "counting")
  /\ UNCHANGED <<storeVars, session, historyVars>>

(* Mutated forms of the definitions that follow.                           *)
ExceedsLimitLate(n) == n > MAX_ENIGMA_ATTEMPTS + 1
NeverAtLimit(n)     == n > MAX_ENIGMA_ATTEMPTS
TrustsItsCopy(a)    == FALSE

ExceedsLimit(n) == n > MAX_ENIGMA_ATTEMPTS
AtLimit(n)      == n >= MAX_ENIGMA_ATTEMPTS
Counted(a)      == count[a] + 1
Removed(a)      == attempt[a] = "gone"

(* increment_challenge_attempts raises KeyError if another request has     *)
(* consumed the attempt meanwhile.  Otherwise the response is compared     *)
(* with the signature unless the new count exceeds the limit.  What is not *)
(* ASCII makes the comparison raise TypeError: the response is counted,    *)
(* and the request ends without an answer, at the limit too.               *)
CountAndVerify(r) ==
  /\ pc[r] = "counting"
  /\ LET a == target[r]
         n == Counted(a) IN
       \/ /\ Removed(a)
          /\ Goto(r, "idle")
          /\ UNCHANGED <<count, historyVars>>
       \/ /\ ~ Removed(a) /\ ExceedsLimit(n)
          /\ count' = [count EXCEPT ![a] = n]
          /\ Goto(r, "consuming")
          /\ UNCHANGED historyVars
       \/ /\ ~ Removed(a) /\ ~ ExceedsLimit(n) /\ answer[r] = "unreadable"
          /\ count' = [count EXCEPT ![a] = n]
          /\ Goto(r, "idle")
          /\ UNCHANGED historyVars
       \/ /\ ~ Removed(a) /\ ~ ExceedsLimit(n) /\ answer[r] # "unreadable"
          /\ count' = [count EXCEPT ![a] = n]
          /\ evaluated' = [evaluated EXCEPT ![a] = @ + 1]
          /\ right' = [right EXCEPT ![a] = IF answer[r] = "right" THEN @ + 1 ELSE @]
          /\ Goto(r, IF answer[r] = "right" THEN "creating"
                      ELSE IF AtLimit(n) THEN "consuming" ELSE "idle")
  /\ UNCHANGED <<attempt, expired, session, target, answer>>

SessionsOf(a) == {s \in DeveloperSessions : s[1] = a /\ session[s] # "unused"}

(* Mutated form: the session is stored under a token of the attempt.       *)
SessionPerAttempt(a) == <<a, 1>>
NewSession(a) == <<a, Cardinality(SessionsOf(a)) + 1>>

CreateSession(r) ==
  /\ pc[r] = "creating"
  /\ session' = [session EXCEPT ![NewSession(target[r])] = "live"]
  /\ Goto(r, "consuming")
  /\ UNCHANGED <<storeVars, historyVars, target, answer>>

ConsumeAttempt(r) ==
  /\ pc[r] = "consuming"
  /\ attempt' = [attempt EXCEPT ![target[r]] = "gone"]
  /\ Goto(r, "idle")
  /\ UNCHANGED <<expired, count, session, historyVars, target, answer>>

-----------------------------------------------------------------------------
(* Sessions: a guest logs in, time passes, a request reads or revokes one. *)

SessionStep(s, from, to) ==
  /\ session[s] = from
  /\ session' = [session EXCEPT ![s] = to]
  /\ UNCHANGED <<storeVars, historyVars, pc, target, answer>>

LoginGuest(s)     == s \in Guests /\ SessionStep(s, "unused", "live")
SessionExpires(s) == SessionStep(s, "live", "expired")
GetSession(s)     == SessionStep(s, "expired", "gone")
RevokeSession(s)  == SessionStep(s, "live", "gone") \/ SessionStep(s, "expired", "gone")

-----------------------------------------------------------------------------
RequestStep(r) ==
  \/ BindChallenge(r) \/ IssueFails(r) \/ CountAndVerify(r) \/ CreateSession(r) \/ ConsumeAttempt(r)

Next ==
  \/ \E r \in Requests :
       \/ \E a \in Attempts :
            \/ CreateAttempt(r, a)
            \/ \E given \in Answers : ReadAttempt(r, a, given)
       \/ RequestStep(r)
  \/ \E a \in Attempts : ChallengeExpires(a)
  \/ \E s \in Sessions :
       LoginGuest(s) \/ SessionExpires(s) \/ GetSession(s) \/ RevokeSession(s)

Spec == Init /\ [][Next]_vars

(* A thread that handles a request runs to its end; nobody has to send one.*)
Fairness == \A r \in Requests : WF_vars(RequestStep(r))

FairSpec == Spec /\ Fairness

-----------------------------------------------------------------------------
(* However many requests answer a challenge at once, no more than          *)
(* MAX_ENIGMA_ATTEMPTS responses are ever compared with its signature, and *)
(* no session exists that was not earned by one of them                    *)
(* (development_service.py, verify_developer).                             *)
AnswersBounded ==
  \A a \in Attempts :
    /\ evaluated[a] <= MAX_ENIGMA_ATTEMPTS
    /\ Cardinality(SessionsOf(a)) <= right[a]
    /\ right[a] <= evaluated[a]

(* An attempt is spent by a right answer, by as many compared ones as are  *)
(* allowed, or by one more than that.  An unreadable last answer alone     *)
(* does not spend it: the next request does.                               *)
Spent(a) ==
  right[a] > 0 \/ evaluated[a] = MAX_ENIGMA_ATTEMPTS \/ count[a] > MAX_ENIGMA_ATTEMPTS

(* A spent attempt is gone, or a request is on its way to remove it (the   *)
(* calls of consume_attempt in verify_developer).                          *)
AnsweredIsConsumed ==
  \A a \in Attempts : Spent(a) =>
    attempt[a] = "gone" \/ \E r \in Requests : target[r] = a /\ pc[r] \in {"creating", "consuming"}

(* What every state keeps: an attempt whose challenge is being issued has  *)
(* one issuer, one that is being verified has its challenge, every right   *)
(* answer has made its session or is about to, and no answer goes          *)
(* uncounted (start_developer, verify_developer).                          *)
IssuedOnce ==
  /\ \A r \in Requests :
       /\ pc[r] = "issuing" => attempt[target[r]] = "unbound"
       /\ pc[r] \in {"counting", "creating", "consuming"} => attempt[target[r]] \in {"bound", "gone"}
  /\ \A q, r \in Requests :
       pc[q] = "issuing" /\ pc[r] = "issuing" /\ target[q] = target[r] => q = r

Creating(a) == {r \in Requests : pc[r] = "creating" /\ target[r] = a}

AnswersCounted ==
  \A a \in Attempts :
    /\ right[a] <= evaluated[a]
    /\ evaluated[a] <= count[a]
    /\ evaluated[a] <= MAX_ENIGMA_ATTEMPTS
    /\ SessionsOf(a) = {a} \X (1..Cardinality(SessionsOf(a)))
    /\ Cardinality(SessionsOf(a)) + Cardinality(Creating(a)) = right[a]

(* The answers that were taken within the limit, compared or unreadable.   *)
Taken(a) == IF count[a] < MAX_ENIGMA_ATTEMPTS THEN count[a] ELSE MAX_ENIGMA_ATTEMPTS

(* A request that is about to remove an attempt has a reason: a session    *)
(* was made of it, its answers are used up, or it has expired              *)
(* (verify_developer, consume_attempt).                                    *)
Cause(a) == SessionsOf(a) # {} \/ Taken(a) = MAX_ENIGMA_ATTEMPTS \/ a \in expired

RemovedForCause == \A r \in Requests : pc[r] = "consuming" => Cause(target[r])

Inv == IssuedOnce /\ AnswersCounted /\ AnsweredIsConsumed /\ RemovedForCause

(* An attempt that is consumed is never bound again and takes no other     *)
(* answer, whatever copies of its record requests still hold               *)
(* (sessions.py, attempt_record and increment_challenge_attempts).         *)
ConsumedTakesNoAnswer ==
  [][\A a \in Attempts : attempt[a] = "gone" =>
       attempt'[a] = "gone" /\ count'[a] = count[a] /\ evaluated'[a] = evaluated[a]]_vars

(* What requests do to one attempt with copies of its record, one store    *)
(* call after the other, is what could happen to one challenge that is     *)
(* answered, and closed, in single steps.                                  *)
Challenge == INSTANCE LimitedChallenge WITH
  Limit   <- MAX_ENIGMA_ATTEMPTS,
  state   <- [a \in Attempts |-> IF attempt[a] = "bound" THEN "open"
                                 ELSE IF attempt[a] = "gone" THEN "closed" ELSE "none"],
  answers <- [a \in Attempts |-> Taken(a)],
  issued  <- [a \in Attempts |-> Cardinality(SessionsOf(a))]

ImplementsChallenge == Challenge!Spec

(* A spent attempt is removed in the end (verify_developer runs to its     *)
(* consume_attempt).                                                       *)
AnsweredIsRemoved == \A a \in Attempts : Spent(a) ~> attempt[a] = "gone"
=============================================================================
