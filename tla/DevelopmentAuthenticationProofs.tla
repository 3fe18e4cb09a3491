------------------- MODULE DevelopmentAuthenticationProofs -------------------
(***************************************************************************)
(* Proofs about DevelopmentAuthentication, for any number of requests that *)
(* verify one attempt at the same time.                                    *)
(***************************************************************************)
EXTENDS DevelopmentAuthentication, FiniteSetTheorems, TLAPS

(* What no part of the invariant is about.                                 *)
LEMMA TypeStep ==
  ASSUME TypeOK, [Next]_vars
  PROVE  TypeOK'
<1> USE DEF TypeOK, Pcs
<1>1. ASSUME NEW r \in Requests, NEW a \in Attempts, CreateAttempt(r, a) PROVE TypeOK'
  BY <1>1 DEF CreateAttempt, Goto, historyVars
<1>2. ASSUME NEW r \in Requests, NEW a \in Attempts, NEW given \in Answers, ReadAttempt(r, a, given)
      PROVE  TypeOK'
  BY <1>2 DEF ReadAttempt, Goto, historyVars, storeVars
<1>3. ASSUME NEW r \in Requests, BindChallenge(r) PROVE TypeOK'
  BY <1>3 DEF BindChallenge, Goto, historyVars
<1>4. ASSUME NEW r \in Requests, IssueFails(r) PROVE TypeOK'
  BY <1>4 DEF IssueFails, Goto, historyVars, storeVars
<1>5. ASSUME NEW r \in Requests, CountAndVerify(r) PROVE TypeOK'
  <2>1. target[r] \in Attempts /\ Counted(target[r]) \in Nat
    BY DEF Counted
  <2>2. QED
    BY <1>5, <2>1 DEF CountAndVerify, Goto, historyVars
<1>6. ASSUME NEW r \in Requests, CreateSession(r) PROVE TypeOK'
  BY <1>6 DEF CreateSession, Goto, historyVars, storeVars
<1>7. ASSUME NEW r \in Requests, ConsumeAttempt(r) PROVE TypeOK'
  BY <1>7 DEF ConsumeAttempt, Goto, historyVars
<1>8. ASSUME NEW a \in Attempts, ChallengeExpires(a) PROVE TypeOK'
  BY <1>8 DEF ChallengeExpires, historyVars
<1>9. ASSUME NEW s \in Sessions, LoginGuest(s) \/ SessionExpires(s) \/ GetSession(s) \/ RevokeSession(s)
      PROVE  TypeOK'
  BY <1>9 DEF LoginGuest, SessionExpires, GetSession, RevokeSession, SessionStep, storeVars, historyVars
<1>10. CASE UNCHANGED vars
  BY <1>10 DEF vars, storeVars, historyVars
<1>11. QED
  BY <1>1, <1>2, <1>3, <1>4, <1>5, <1>6, <1>7, <1>8, <1>9, <1>10 DEF Next, RequestStep

(* The two sets that are counted are finite.                               *)
LEMMA CountedSetsAreFinite ==
  ASSUME NEW a \in Attempts
  PROVE  /\ IsFiniteSet(SessionsOf(a)) /\ Cardinality(SessionsOf(a)) \in Nat
         /\ IsFiniteSet(Creating(a)) /\ Cardinality(Creating(a)) \in Nat
<1>1. IsFiniteSet({a} \X (1..MAX_ENIGMA_ATTEMPTS))
  <2>1. IsFiniteSet({a})
    BY FS_Singleton
  <2>2. IsFiniteSet(1..MAX_ENIGMA_ATTEMPTS)
    <3>1. 1 \in Int /\ MAX_ENIGMA_ATTEMPTS \in Int
      BY AuthenticationAssumption
    <3>2. QED
      BY <3>1, FS_Interval
  <2>3. QED
    BY <2>1, <2>2, FS_Product
<1>2. SessionsOf(a) \subseteq {a} \X (1..MAX_ENIGMA_ATTEMPTS)
  BY DEF SessionsOf, DeveloperSessions
<1>3. IsFiniteSet(SessionsOf(a))
  BY <1>1, <1>2, FS_Subset
<1>4. Creating(a) \subseteq Requests
  BY DEF Creating
<1>5. IsFiniteSet(Creating(a))
  BY <1>4, FS_Subset, AuthenticationAssumption
<1>6. QED
  BY <1>3, <1>5, FS_CardinalityType

(* A step that makes no session of an attempt and lets no request begin or *)
(* end to make one leaves what was answered as it was.                     *)
LEMMA NothingCounted ==
  ASSUME TypeOK, AnswersCounted, UNCHANGED <<count, evaluated, right>>,
         \A s \in DeveloperSessions : session'[s] = "unused" <=> session[s] = "unused",
         \A r \in Requests :
           \/ pc'[r] = pc[r] /\ target'[r] = target[r]
           \/ pc[r] # "creating" /\ pc'[r] # "creating"
  PROVE  AnswersCounted'
<1>1. ASSUME NEW a \in Attempts PROVE SessionsOf(a)' = SessionsOf(a)
  BY DEF SessionsOf
<1>2. ASSUME NEW a \in Attempts PROVE Creating(a)' = Creating(a)
  BY DEF Creating
<1>3. QED
  BY <1>1, <1>2 DEF AnswersCounted

-----------------------------------------------------------------------------
LEMMA IssuedOnceStep ==
  ASSUME TypeOK, IssuedOnce, [Next]_vars
  PROVE  IssuedOnce'
<1> USE DEF TypeOK, IssuedOnce, Pcs
<1>1. ASSUME NEW r \in Requests, NEW a \in Attempts, CreateAttempt(r, a) PROVE IssuedOnce'
  <2>1. \A q \in Requests : q # r => pc'[q] = pc[q] /\ target'[q] = target[q]
    BY <1>1 DEF CreateAttempt, Goto
  <2>2. pc'[r] = "issuing" /\ target'[r] = a /\ attempt'[a] = "unbound" /\ attempt[a] = "unused"
    BY <1>1 DEF CreateAttempt, Goto
  <2>3. \A b \in Attempts : b # a => attempt'[b] = attempt[b]
    BY <1>1 DEF CreateAttempt
  <2>4. QED
    BY <2>1, <2>2, <2>3
<1>2. ASSUME NEW r \in Requests, NEW a \in Attempts, NEW given \in Answers, ReadAttempt(r, a, given)
      PROVE  IssuedOnce'
  BY <1>2 DEF ReadAttempt, Goto, storeVars
<1>3. ASSUME NEW r \in Requests, BindChallenge(r) PROVE IssuedOnce'
  BY <1>3 DEF BindChallenge, Goto
<1>4. ASSUME NEW r \in Requests, IssueFails(r) PROVE IssuedOnce'
  BY <1>4 DEF IssueFails, Goto, storeVars
<1>5. ASSUME NEW r \in Requests, CountAndVerify(r) PROVE IssuedOnce'
  <2>1. UNCHANGED <<attempt, target>> /\ pc[r] = "counting"
    BY <1>5 DEF CountAndVerify
  <2>2. \E label \in {"idle", "creating", "consuming"} : pc' = [pc EXCEPT ![r] = label]
    BY <1>5 DEF CountAndVerify, Goto
  <2>3. QED
    BY <2>1, <2>2
<1>6. ASSUME NEW r \in Requests, CreateSession(r) PROVE IssuedOnce'
  BY <1>6 DEF CreateSession, Goto, storeVars
<1>7. ASSUME NEW r \in Requests, ConsumeAttempt(r) PROVE IssuedOnce'
  BY <1>7 DEF ConsumeAttempt, Goto
<1>8. ASSUME NEW a \in Attempts, ChallengeExpires(a) PROVE IssuedOnce'
  BY <1>8 DEF ChallengeExpires
<1>9. ASSUME NEW s \in Sessions, LoginGuest(s) \/ SessionExpires(s) \/ GetSession(s) \/ RevokeSession(s)
      PROVE  IssuedOnce'
  BY <1>9 DEF LoginGuest, SessionExpires, GetSession, RevokeSession, SessionStep, storeVars
<1>10. CASE UNCHANGED vars
  BY <1>10 DEF vars, storeVars
<1>11. QED
  BY <1>1, <1>2, <1>3, <1>4, <1>5, <1>6, <1>7, <1>8, <1>9, <1>10 DEF Next, RequestStep

-----------------------------------------------------------------------------
(* Counting an answer: it is compared only while the count is within the   *)
(* limit, so no more comparisons than the limit allows; a right answer has *)
(* its session to make.                                                    *)
LEMMA AnswersCountedVerify ==
  ASSUME TypeOK, AnswersCounted, NEW r \in Requests, CountAndVerify(r)
  PROVE  AnswersCounted'
<1> DEFINE a == target[r]
<1>1. a \in Attempts /\ pc[r] = "counting" /\ UNCHANGED <<session, target>>
  BY DEF TypeOK, CountAndVerify
<1>2. ASSUME NEW b \in Attempts PROVE SessionsOf(b)' = SessionsOf(b)
  BY <1>1 DEF SessionsOf
<1>3. ASSUME NEW b \in Attempts, b # a PROVE Creating(b)' = Creating(b)
  <2>1. \A q \in Requests : q # r => pc'[q] = pc[q]
    BY DEF CountAndVerify, Goto, TypeOK
  <2>2. QED
    BY <1>1, <1>3, <2>1 DEF Creating
<1>4. CASE evaluated' = evaluated
  <2>1. right' = right /\ pc'[r] # "creating" /\ \A q \in Requests : q # r => pc'[q] = pc[q]
    BY <1>1, <1>4, AuthenticationAssumption DEF CountAndVerify, Goto, TypeOK, historyVars
  <2>2. ASSUME NEW b \in Attempts PROVE count'[b] \in Nat /\ count'[b] >= count[b]
    BY <1>1 DEF CountAndVerify, Counted, TypeOK
  <2>3. ASSUME NEW b \in Attempts PROVE Creating(b)' = Creating(b)
    BY <1>1, <2>1 DEF Creating
  <2>4. QED
    BY <1>2, <1>4, <2>1, <2>2, <2>3 DEF AnswersCounted, TypeOK
<1>5. CASE evaluated' # evaluated
  <2>1. /\ count' = [count EXCEPT ![a] = @ + 1] /\ count[a] + 1 <= MAX_ENIGMA_ATTEMPTS
        /\ evaluated' = [evaluated EXCEPT ![a] = @ + 1]
        /\ right' = [right EXCEPT ![a] = IF answer[r] = "right" THEN @ + 1 ELSE @]
    BY <1>1, <1>5, AuthenticationAssumption
    DEF CountAndVerify, Counted, ExceedsLimit, TypeOK, historyVars
  <2>2. pc'[r] = "creating" <=> answer[r] = "right"
    BY <1>1, <1>5 DEF CountAndVerify, Goto, TypeOK, historyVars
  <2>3. \A q \in Requests : q # r => pc'[q] = pc[q]
    BY DEF CountAndVerify, Goto, TypeOK
  <2>4. Cardinality(Creating(a)') =
          IF answer[r] = "right" THEN Cardinality(Creating(a)) + 1 ELSE Cardinality(Creating(a))
    <3>1. r \notin Creating(a) /\ IsFiniteSet(Creating(a))
      BY <1>1, CountedSetsAreFinite DEF Creating
    <3>2. Creating(a)' = IF answer[r] = "right" THEN Creating(a) \cup {r} ELSE Creating(a)
      BY <1>1, <2>2, <2>3 DEF Creating
    <3>3. QED
      BY <3>1, <3>2, FS_AddElement
  <2>5. ASSUME NEW b \in Attempts
        PROVE  /\ right'[b] <= evaluated'[b] /\ evaluated'[b] <= count'[b]
               /\ evaluated'[b] <= MAX_ENIGMA_ATTEMPTS
    <3>1. /\ right[b] \in Nat /\ evaluated[b] \in Nat /\ count[b] \in Nat
          /\ right[b] <= evaluated[b] /\ evaluated[b] <= count[b] /\ evaluated[b] <= MAX_ENIGMA_ATTEMPTS
      BY DEF AnswersCounted, TypeOK
    <3>2. QED
      BY <2>1, <3>1, <1>1, AuthenticationAssumption DEF TypeOK
  <2>6. ASSUME NEW b \in Attempts
        PROVE  /\ SessionsOf(b)' = {b} \X (1..Cardinality(SessionsOf(b)'))
               /\ Cardinality(SessionsOf(b)') + Cardinality(Creating(b)') = right'[b]
    <3>1. /\ SessionsOf(b) = {b} \X (1..Cardinality(SessionsOf(b)))
          /\ Cardinality(SessionsOf(b)) + Cardinality(Creating(b)) = right[b]
          /\ Cardinality(SessionsOf(b)) \in Nat /\ Cardinality(Creating(b)) \in Nat
      BY CountedSetsAreFinite DEF AnswersCounted
    <3>2. CASE b = a
      BY <1>2, <2>1, <2>4, <3>1, <3>2, <1>1 DEF TypeOK
    <3>3. CASE b # a
      BY <1>2, <1>3, <2>1, <3>1, <3>3, <1>1 DEF TypeOK
    <3>4. QED
      BY <3>2, <3>3
  <2>7. QED
    BY <2>5, <2>6 DEF AnswersCounted
<1>6. QED
  BY <1>4, <1>5

(* Making a session: its token is a new one.                               *)
(* A session that is created is a new one of its attempt.                  *)
LEMMA SessionCreated ==
  ASSUME TypeOK, AnswersCounted, NEW r \in Requests, CreateSession(r)
  PROVE  /\ Cardinality(SessionsOf(target[r])') = Cardinality(SessionsOf(target[r])) + 1
         /\ SessionsOf(target[r])' = {target[r]} \X (1..Cardinality(SessionsOf(target[r])'))
         /\ \A b \in Attempts : b # target[r] => SessionsOf(b)' = SessionsOf(b)
         /\ Cardinality(SessionsOf(target[r])) < right[target[r]]
<1> DEFINE a == target[r]
           n == Cardinality(SessionsOf(a))
<1>1. a \in Attempts /\ pc[r] = "creating" /\ UNCHANGED <<right, evaluated, target>>
  BY DEF TypeOK, CreateSession, storeVars, historyVars
<1>2. /\ n \in Nat /\ SessionsOf(a) = {a} \X (1..n)
      /\ IsFiniteSet(SessionsOf(a)) /\ IsFiniteSet(Creating(a)) /\ r \in Creating(a)
  BY <1>1, CountedSetsAreFinite DEF AnswersCounted, Creating
<1>3. n + 1 <= MAX_ENIGMA_ATTEMPTS /\ n < right[a]
  <2>1. Cardinality(Creating(a)) \in Nat /\ Cardinality(Creating(a)) # 0
    BY <1>1, <1>2, CountedSetsAreFinite, FS_EmptySet
  <2>2. n + Cardinality(Creating(a)) = right[a] /\ right[a] <= MAX_ENIGMA_ATTEMPTS
    BY <1>1, AuthenticationAssumption DEF AnswersCounted, TypeOK
  <2>3. QED
    BY <1>2, <2>1, <2>2, AuthenticationAssumption
<1>4. <<a, n + 1>> \in DeveloperSessions
  BY <1>1, <1>2, <1>3, AuthenticationAssumption DEF DeveloperSessions
<1>5. /\ session'[<<a, n + 1>>] = "live"
      /\ \A s \in DeveloperSessions : s # <<a, n + 1>> => session'[s] = session[s]
  BY <1>4 DEF CreateSession, NewSession, TypeOK, Sessions
<1>6. SessionsOf(a)' = SessionsOf(a) \cup {<<a, n + 1>>}
  <2>1. SessionsOf(a)' = {s \in DeveloperSessions : s[1] = a /\ session'[s] # "unused"}
    BY <1>1 DEF SessionsOf
  <2>2. SessionsOf(a) = {s \in DeveloperSessions : s[1] = a /\ session[s] # "unused"}
    BY DEF SessionsOf
  <2>3. <<a, n + 1>>[1] = a
    OBVIOUS
  <2> HIDE DEF a, n
  <2>4. QED
    BY <1>4, <1>5, <2>1, <2>2, <2>3
<1>7. <<a, n + 1>> \notin SessionsOf(a)
  BY <1>2
<1>8. Cardinality(SessionsOf(a)') = n + 1
  BY <1>2, <1>6, <1>7, FS_AddElement
<1>9. SessionsOf(a)' = {a} \X (1..(n + 1))
  BY <1>2, <1>6
<1>10. ASSUME NEW b \in Attempts, b # a PROVE SessionsOf(b)' = SessionsOf(b)
  BY <1>5, <1>10 DEF SessionsOf
<1>11. QED
  BY <1>3, <1>8, <1>9, <1>10

LEMMA AnswersCountedCreate ==
  ASSUME TypeOK, AnswersCounted, NEW r \in Requests, CreateSession(r)
  PROVE  AnswersCounted'
<1> DEFINE a == target[r]
           n == Cardinality(SessionsOf(a))
<1>1. a \in Attempts /\ pc[r] = "creating" /\ UNCHANGED <<count, evaluated, right, target>>
  BY DEF TypeOK, CreateSession, storeVars, historyVars
<1>2. n \in Nat /\ IsFiniteSet(Creating(a)) /\ r \in Creating(a)
  BY <1>1, CountedSetsAreFinite DEF Creating
<1>3. /\ Cardinality(SessionsOf(a)') = n + 1
      /\ SessionsOf(a)' = {a} \X (1..Cardinality(SessionsOf(a)'))
      /\ \A b \in Attempts : b # a => SessionsOf(b)' = SessionsOf(b)
  BY SessionCreated
<1>4. Creating(a)' = Creating(a) \ {r}
  BY <1>1 DEF Creating, CreateSession, Goto, TypeOK
<1>5. Cardinality(Creating(a)') = Cardinality(Creating(a)) - 1
  BY <1>2, <1>4, FS_RemoveElement
<1>6. ASSUME NEW b \in Attempts, b # a PROVE Creating(b)' = Creating(b)
  BY <1>1, <1>6 DEF Creating, CreateSession, Goto, TypeOK
<1>7. Cardinality(SessionsOf(a)') + Cardinality(Creating(a)') = right'[a]
  BY <1>1, <1>2, <1>3, <1>5, CountedSetsAreFinite DEF AnswersCounted
<1>8. ASSUME NEW b \in Attempts
      PROVE  /\ SessionsOf(b)' = {b} \X (1..Cardinality(SessionsOf(b)'))
             /\ Cardinality(SessionsOf(b)') + Cardinality(Creating(b)') = right'[b]
  BY <1>1, <1>3, <1>6, <1>7 DEF AnswersCounted
<1>9. QED
  BY <1>1, <1>8 DEF AnswersCounted

LEMMA AnswersCountedStep ==
  ASSUME TypeOK, AnswersCounted, [Next]_vars
  PROVE  AnswersCounted'
<1> USE DEF TypeOK, historyVars, storeVars
<1>1. ASSUME NEW r \in Requests, NEW a \in Attempts, CreateAttempt(r, a) PROVE AnswersCounted'
  BY <1>1, NothingCounted DEF CreateAttempt, Goto
<1>2. ASSUME NEW r \in Requests, NEW a \in Attempts, NEW given \in Answers, ReadAttempt(r, a, given)
      PROVE  AnswersCounted'
  BY <1>2, NothingCounted DEF ReadAttempt, Goto
<1>3. ASSUME NEW r \in Requests, BindChallenge(r) \/ IssueFails(r) \/ ConsumeAttempt(r) PROVE AnswersCounted'
  BY <1>3, NothingCounted DEF BindChallenge, IssueFails, ConsumeAttempt, Goto
<1>4. ASSUME NEW a \in Attempts, ChallengeExpires(a) PROVE AnswersCounted'
  BY <1>4, NothingCounted DEF ChallengeExpires
<1>5. ASSUME NEW s \in Sessions, LoginGuest(s) \/ SessionExpires(s) \/ GetSession(s) \/ RevokeSession(s)
      PROVE  AnswersCounted'
  <2>1. UNCHANGED <<count, evaluated, right, pc, target>>
    BY <1>5 DEF LoginGuest, SessionExpires, GetSession, RevokeSession, SessionStep
  <2>2. \A d \in DeveloperSessions : session'[d] = "unused" <=> session[d] = "unused"
    BY <1>5, AuthenticationAssumption
    DEF LoginGuest, SessionExpires, GetSession, RevokeSession, SessionStep, Sessions
  <2>3. QED
    BY <2>1, <2>2, NothingCounted
<1>6. CASE UNCHANGED vars
  BY <1>6, NothingCounted DEF vars
<1>7. QED
  BY <1>1, <1>2, <1>3, <1>4, <1>5, <1>6, AnswersCountedVerify, AnswersCountedCreate DEF Next, RequestStep

-----------------------------------------------------------------------------
(* Whoever uses up the answers of an attempt, or answers rightly, goes on  *)
(* to remove it.                                                           *)
LEMMA AnsweredIsConsumedStep ==
  ASSUME TypeOK, IssuedOnce, AnswersCounted, AnsweredIsConsumed, [Next]_vars
  PROVE  AnsweredIsConsumed'
<1> USE DEF TypeOK, historyVars, storeVars
<1>1. ASSUME NEW r \in Requests, NEW a \in Attempts, CreateAttempt(r, a) PROVE AnsweredIsConsumed'
  BY <1>1 DEF CreateAttempt, Goto, AnsweredIsConsumed, Spent
<1>2. ASSUME NEW r \in Requests, NEW a \in Attempts, NEW given \in Answers, ReadAttempt(r, a, given)
      PROVE  AnsweredIsConsumed'
  BY <1>2 DEF ReadAttempt, Goto, AnsweredIsConsumed, Spent
<1>3. ASSUME NEW r \in Requests, BindChallenge(r) \/ IssueFails(r) PROVE AnsweredIsConsumed'
  <2>1. UNCHANGED <<count, evaluated, right, target>> /\ pc[r] = "issuing"
    BY <1>3 DEF BindChallenge, IssueFails
  <2>2. \A q \in Requests : q # r => pc'[q] = pc[q]
    BY <1>3 DEF BindChallenge, IssueFails, Goto
  <2>3. \A a \in Attempts : attempt[a] = "gone" => attempt'[a] = "gone"
    BY <1>3 DEF BindChallenge, IssueFails, IssuedOnce
  <2>4. QED
    BY <2>1, <2>2, <2>3 DEF AnsweredIsConsumed, Spent
<1>4. ASSUME NEW r \in Requests, CountAndVerify(r) PROVE AnsweredIsConsumed'
  <2>1. target[r] \in Attempts /\ pc[r] = "counting" /\ UNCHANGED <<attempt, target>>
    BY <1>4 DEF CountAndVerify
  <2>2. \A q \in Requests : q # r => pc'[q] = pc[q]
    BY <1>4 DEF CountAndVerify, Goto
  <2> DEFINE a == target[r]
             Going(b) == \/ attempt[b] = "gone"
                         \/ \E q \in Requests : target[q] = b /\ pc'[q] \in {"creating", "consuming"}
  <2>3. ASSUME NEW b \in Attempts, b # a, Spent(b)' PROVE Going(b)
    <3>1. count'[b] = count[b] /\ evaluated'[b] = evaluated[b] /\ right'[b] = right[b]
      BY <1>4, <2>1, <2>3 DEF CountAndVerify
    <3>2. QED
      BY <2>1, <2>2, <2>3, <3>1 DEF AnsweredIsConsumed, Spent
  <2>4. ASSUME Spent(a), attempt[a] # "gone"
        PROVE  \E q \in Requests : target[q] = a /\ pc'[q] \in {"creating", "consuming"}
    BY <2>1, <2>2, <2>4 DEF AnsweredIsConsumed
  <2>5. ASSUME Spent(a)', attempt[a] # "gone" PROVE Going(a)
    <3>1. CASE ExceedsLimit(Counted(a))
      BY <1>4, <2>1, <2>5, <3>1 DEF CountAndVerify, Removed, Goto
    <3>2. CASE ~ ExceedsLimit(Counted(a)) /\ answer[r] = "unreadable"
      <4>1. /\ UNCHANGED <<evaluated, right>> /\ count' = [count EXCEPT ![a] = @ + 1]
            /\ ~ (count[a] + 1 > MAX_ENIGMA_ATTEMPTS)
        BY <1>4, <2>1, <2>5, <3>2 DEF CountAndVerify, Removed, Counted, ExceedsLimit
      <4>2. Spent(a)
        BY <2>1, <2>5, <4>1 DEF Spent
      <4>3. QED
        BY <2>4, <2>5, <4>2
    <3>3. CASE ~ ExceedsLimit(Counted(a)) /\ answer[r] # "unreadable"
      <4>1. /\ count' = [count EXCEPT ![a] = @ + 1] /\ ~ (count[a] + 1 > MAX_ENIGMA_ATTEMPTS)
            /\ evaluated' = [evaluated EXCEPT ![a] = @ + 1]
            /\ right' = [right EXCEPT ![a] = IF answer[r] = "right" THEN @ + 1 ELSE @]
            /\ pc' = [pc EXCEPT ![r] = IF answer[r] = "right" THEN "creating"
                                       ELSE IF AtLimit(Counted(a)) THEN "consuming" ELSE "idle"]
        BY <1>4, <2>1, <2>5, <3>3 DEF CountAndVerify, Removed, Counted, ExceedsLimit, Goto
      <4>2. CASE answer[r] = "right"
        BY <2>1, <4>1, <4>2
      <4>3. CASE answer[r] # "right" /\ evaluated'[a] = MAX_ENIGMA_ATTEMPTS
        <5>1. evaluated[a] <= count[a] /\ evaluated[a] + 1 = MAX_ENIGMA_ATTEMPTS
          BY <2>1, <4>1, <4>3 DEF AnswersCounted
        <5>2. AtLimit(Counted(a))
          BY <2>1, <5>1, AuthenticationAssumption DEF AtLimit, Counted
        <5>3. QED
          BY <2>1, <4>1, <4>3, <5>2
      <4>4. CASE answer[r] # "right" /\ evaluated'[a] # MAX_ENIGMA_ATTEMPTS
        <5>1. right[a] > 0
          BY <2>1, <2>5, <4>1, <4>4, AuthenticationAssumption DEF Spent
        <5>2. QED
          BY <2>4, <2>5, <5>1 DEF Spent
      <4>5. QED
        BY <4>2, <4>3, <4>4
    <3>4. QED
      BY <3>1, <3>2, <3>3
  <2>6. QED
    BY <2>1, <2>3, <2>5 DEF AnsweredIsConsumed
<1>5. ASSUME NEW r \in Requests, CreateSession(r) PROVE AnsweredIsConsumed'
  BY <1>5 DEF CreateSession, Goto, AnsweredIsConsumed, Spent
<1>6. ASSUME NEW r \in Requests, ConsumeAttempt(r) PROVE AnsweredIsConsumed'
  BY <1>6 DEF ConsumeAttempt, Goto, AnsweredIsConsumed, Spent
<1>7. ASSUME NEW a \in Attempts, ChallengeExpires(a) PROVE AnsweredIsConsumed'
  BY <1>7 DEF ChallengeExpires, AnsweredIsConsumed, Spent
<1>8. ASSUME NEW s \in Sessions, LoginGuest(s) \/ SessionExpires(s) \/ GetSession(s) \/ RevokeSession(s)
      PROVE  AnsweredIsConsumed'
  BY <1>8 DEF LoginGuest, SessionExpires, GetSession, RevokeSession, SessionStep, AnsweredIsConsumed, Spent
<1>9. CASE UNCHANGED vars
  BY <1>9 DEF vars, AnsweredIsConsumed, Spent
<1>10. QED
  BY <1>1, <1>2, <1>3, <1>4, <1>5, <1>6, <1>7, <1>8, <1>9 DEF Next, RequestStep

-----------------------------------------------------------------------------
(* A reason to remove an attempt stays one.                                *)
LEMMA CauseStays ==
  ASSUME TypeOK, expired \subseteq expired',
         \A s \in DeveloperSessions : session[s] # "unused" => session'[s] # "unused",
         NEW a \in Attempts, count'[a] \in Nat, count[a] <= count'[a], Cause(a)
  PROVE  Cause(a)'
<1>1. SessionsOf(a) # {} => SessionsOf(a)' # {}
  BY DEF SessionsOf
<1>2. Taken(a) = MAX_ENIGMA_ATTEMPTS => Taken(a)' = MAX_ENIGMA_ATTEMPTS
  BY AuthenticationAssumption DEF Taken, TypeOK
<1>3. QED
  BY <1>1, <1>2 DEF Cause

(* Nobody goes to remove an attempt without one.                           *)
LEMMA RemovedForCauseStep ==
  ASSUME TypeOK, AnswersCounted, RemovedForCause, [Next]_vars
  PROVE  RemovedForCause'
<1> USE DEF TypeOK, historyVars, storeVars
<1>a. ASSUME \A a \in Attempts : count'[a] \in Nat /\ count[a] <= count'[a], expired \subseteq expired',
             \A s \in DeveloperSessions : session[s] # "unused" => session'[s] # "unused",
             \A r \in Requests :
               pc'[r] = "consuming" =>
                 (pc[r] = "consuming" /\ target'[r] = target[r]) \/ Cause(target[r])'
      PROVE  RemovedForCause'
  <2>1. ASSUME NEW r \in Requests, pc'[r] = "consuming" PROVE Cause(target[r])'
    <3>1. CASE pc[r] = "consuming" /\ target'[r] = target[r]
      <4>1. Cause(target[r])
        BY <3>1 DEF RemovedForCause
      <4>2. \A a \in Attempts : Cause(a) => Cause(a)'
        BY <1>a, CauseStays
      <4>3. QED
        BY <3>1, <4>1, <4>2 DEF Cause, SessionsOf, Taken
    <3>2. QED
      BY <1>a, <2>1, <3>1
  <2>2. QED
    BY <2>1 DEF RemovedForCause
<1>b. ASSUME UNCHANGED count PROVE \A a \in Attempts : count'[a] \in Nat /\ count[a] <= count'[a]
  BY <1>b
<1>1. ASSUME NEW r \in Requests, NEW a \in Attempts, CreateAttempt(r, a) PROVE RemovedForCause'
  BY <1>1, <1>a, <1>b DEF CreateAttempt, Goto
<1>2. ASSUME NEW r \in Requests, NEW a \in Attempts, NEW given \in Answers, ReadAttempt(r, a, given)
      PROVE  RemovedForCause'
  <2>1. UNCHANGED <<count, expired, session>> /\ target' = [target EXCEPT ![r] = a]
        /\ pc' = [pc EXCEPT ![r] = IF a \in expired THEN "consuming" ELSE "counting"]
    BY <1>2 DEF ReadAttempt, Goto
  <2>2. pc'[r] = "consuming" => Cause(target[r])'
    BY <2>1 DEF Cause
  <2>3. QED
    BY <2>1, <2>2, <1>a, <1>b
<1>3. ASSUME NEW r \in Requests, BindChallenge(r) \/ IssueFails(r) \/ ConsumeAttempt(r)
      PROVE  RemovedForCause'
  BY <1>3, <1>a, <1>b DEF BindChallenge, IssueFails, ConsumeAttempt, Goto
<1>4. ASSUME NEW r \in Requests, CountAndVerify(r) PROVE RemovedForCause'
  <2> DEFINE a == target[r]
  <2>1. a \in Attempts /\ UNCHANGED <<expired, session, target>>
        /\ \A q \in Requests : q # r => pc'[q] = pc[q]
    BY <1>4 DEF CountAndVerify, Goto
  <2>2. \A b \in Attempts : count'[b] \in Nat /\ count[b] <= count'[b]
    BY <1>4, <2>1 DEF CountAndVerify, Counted
  <2>3. ASSUME pc'[r] = "consuming" PROVE Cause(a)'
    <3>1. count' = [count EXCEPT ![a] = @ + 1] /\ count[a] + 1 >= MAX_ENIGMA_ATTEMPTS
      BY <1>4, <2>1, <2>3, AuthenticationAssumption
      DEF CountAndVerify, Goto, Counted, ExceedsLimit, AtLimit
    <3>2. Taken(a)' = MAX_ENIGMA_ATTEMPTS
      BY <2>1, <3>1, AuthenticationAssumption DEF Taken
    <3>3. QED
      BY <3>2 DEF Cause
  <2>4. QED
    BY <2>1, <2>2, <2>3, <1>a
<1>5. ASSUME NEW r \in Requests, CreateSession(r) PROVE RemovedForCause'
  <2>1. UNCHANGED <<count, expired, target>> /\ target[r] \in Attempts
        /\ pc' = [pc EXCEPT ![r] = "consuming"]
    BY <1>5 DEF CreateSession, Goto
  <2>2. \A s \in DeveloperSessions : session[s] # "unused" => session'[s] # "unused"
    BY <1>5 DEF CreateSession
  <2>3. SessionsOf(target[r])' # {}
    <3>1. Cardinality(SessionsOf(target[r])') # 0
      BY <1>5, <2>1, SessionCreated, CountedSetsAreFinite
    <3>2. QED
      BY <3>1, FS_EmptySet
  <2>4. Cause(target[r])'
    BY <2>1, <2>3 DEF Cause
  <2>5. QED
    BY <2>1, <2>2, <2>4, <1>a, <1>b
<1>6. ASSUME NEW a \in Attempts, ChallengeExpires(a) PROVE RemovedForCause'
  BY <1>6, <1>a, <1>b DEF ChallengeExpires
<1>7. ASSUME NEW s \in Sessions, LoginGuest(s) \/ SessionExpires(s) \/ GetSession(s) \/ RevokeSession(s)
      PROVE  RemovedForCause'
  <2>1. UNCHANGED <<count, expired, pc, target>>
    BY <1>7 DEF LoginGuest, SessionExpires, GetSession, RevokeSession, SessionStep
  <2>2. \A d \in DeveloperSessions : session[d] # "unused" => session'[d] # "unused"
    BY <1>7 DEF LoginGuest, SessionExpires, GetSession, RevokeSession, SessionStep, Sessions
  <2>3. QED
    BY <2>1, <2>2, <1>a, <1>b
<1>8. CASE UNCHANGED vars
  BY <1>8, <1>a, <1>b DEF vars
<1>9. QED
  BY <1>1, <1>2, <1>3, <1>4, <1>5, <1>6, <1>7, <1>8 DEF Next, RequestStep

-----------------------------------------------------------------------------
LEMMA InitInv ==
  ASSUME Init
  PROVE  TypeOK /\ Inv
<1>1. TypeOK
  BY DEF Init, TypeOK, Pcs, Answers
<1>2. IssuedOnce
  BY DEF Init, IssuedOnce
<1>3. AnswersCounted
  <2>1. ASSUME NEW a \in Attempts PROVE SessionsOf(a) = {} /\ Creating(a) = {}
    BY DEF Init, SessionsOf, Creating, Sessions
  <2>2. ASSUME NEW a \in Attempts PROVE {} = {a} \X (1..0)
    OBVIOUS
  <2>3. Cardinality({}) = 0
    BY FS_EmptySet
  <2>4. ASSUME NEW a \in Attempts
        PROVE  /\ right[a] <= evaluated[a] /\ evaluated[a] <= count[a] /\ evaluated[a] <= MAX_ENIGMA_ATTEMPTS
               /\ right[a] = 0
    BY AuthenticationAssumption DEF Init
  <2>5. ASSUME NEW a \in Attempts
        PROVE  /\ SessionsOf(a) = {a} \X (1..Cardinality(SessionsOf(a)))
               /\ Cardinality(SessionsOf(a)) + Cardinality(Creating(a)) = 0
    BY <2>1, <2>2, <2>3
  <2>6. QED
    BY <2>4, <2>5 DEF AnswersCounted
<1>4. AnsweredIsConsumed
  BY AuthenticationAssumption DEF Init, AnsweredIsConsumed, Spent
<1>5. RemovedForCause
  BY AuthenticationAssumption DEF Init, RemovedForCause
<1>6. QED
  BY <1>1, <1>2, <1>3, <1>4, <1>5 DEF Inv

(* The inductive invariant of the attempts (development_service.py):       *)
(* every answer that is compared is counted first, every right one has its *)
(* own session or is about to, every spent attempt is removed or about to  *)
(* be, and no attempt is removed without a session, a used-up limit        *)
(* (unreadable answers use it up too) or its expiry.                       *)
THEOREM InvHolds == Spec => [](TypeOK /\ Inv)
<1>1. Init => TypeOK /\ Inv
  BY InitInv
<1>2. TypeOK /\ Inv /\ [Next]_vars => (TypeOK /\ Inv)'
  BY TypeStep, IssuedOnceStep, AnswersCountedStep, AnsweredIsConsumedStep, RemovedForCauseStep
  DEF Inv
<1>3. QED
  BY <1>1, <1>2, PTL DEF Spec

(* No more than MAX_ENIGMA_ATTEMPTS responses are compared with the        *)
(* signature of one challenge, however many requests come at once, and no  *)
(* session is made that none of them earned (verify_developer).            *)
THEOREM AnswersBoundedHolds == Spec => []AnswersBounded
<1>1. TypeOK /\ Inv => AnswersBounded
  <2> SUFFICES ASSUME TypeOK, Inv, NEW a \in Attempts
               PROVE  Cardinality(SessionsOf(a)) <= right[a]
    BY DEF Inv, AnswersCounted, AnswersBounded
  <2>1. Cardinality(SessionsOf(a)) + Cardinality(Creating(a)) = right[a]
    BY DEF Inv, AnswersCounted
  <2>2. QED
    BY <2>1, CountedSetsAreFinite
<1>2. QED
  BY <1>1, InvHolds, PTL

(* An attempt that was answered rightly, whose limit of compared answers   *)
(* is reached, or that was answered once more than allowed is removed or   *)
(* about to be (verify_developer, consume_attempt).                        *)
THEOREM AnsweredIsConsumedHolds == Spec => []AnsweredIsConsumed
<1>1. Inv => AnsweredIsConsumed
  BY DEF Inv
<1>2. QED
  BY <1>1, InvHolds, PTL

(* A request that still holds a copy of a removed attempt cannot have its  *)
(* answer counted or compared, and no request brings the attempt back                 *)
(* (increment_challenge_attempts, bind_challenge).                         *)
THEOREM ConsumedTakesNoAnswerHolds == Spec => ConsumedTakesNoAnswer
<1>1. (TypeOK /\ Inv) /\ [Next]_vars =>
        [\A a \in Attempts :
           attempt[a] = "gone" =>
             attempt'[a] = "gone" /\ count'[a] = count[a] /\ evaluated'[a] = evaluated[a]]_vars
  <2> DEFINE Stays == \A a \in Attempts :
                      attempt[a] = "gone" =>
                        attempt'[a] = "gone" /\ count'[a] = count[a] /\ evaluated'[a] = evaluated[a]
  <2> SUFFICES ASSUME TypeOK, IssuedOnce, Next PROVE Stays
    BY DEF Inv
  <2> USE DEF TypeOK, historyVars, storeVars
  <2>1. ASSUME NEW r \in Requests, NEW a \in Attempts, CreateAttempt(r, a) PROVE Stays
    BY <2>1 DEF CreateAttempt
  <2>2. ASSUME NEW r \in Requests, NEW a \in Attempts, NEW given \in Answers, ReadAttempt(r, a, given)
        PROVE  Stays
    BY <2>2 DEF ReadAttempt
  <2>3. ASSUME NEW r \in Requests, BindChallenge(r) \/ IssueFails(r) PROVE Stays
    BY <2>3 DEF BindChallenge, IssueFails, IssuedOnce
  <2>4. ASSUME NEW r \in Requests, CountAndVerify(r) PROVE Stays
    BY <2>4 DEF CountAndVerify, Removed
  <2>5. ASSUME NEW r \in Requests, CreateSession(r) \/ ConsumeAttempt(r) PROVE Stays
    BY <2>5 DEF CreateSession, ConsumeAttempt
  <2>6. ASSUME NEW a \in Attempts, ChallengeExpires(a) PROVE Stays
    BY <2>6 DEF ChallengeExpires
  <2>7. ASSUME NEW s \in Sessions, LoginGuest(s) \/ SessionExpires(s) \/ GetSession(s) \/ RevokeSession(s)
        PROVE  Stays
    BY <2>7 DEF LoginGuest, SessionExpires, GetSession, RevokeSession, SessionStep
  <2>8. QED
    BY <2>1, <2>2, <2>3, <2>4, <2>5, <2>6, <2>7 DEF Next, RequestStep
<1>2. QED
  BY <1>1, InvHolds, PTL DEF Spec, ConsumedTakesNoAnswer

-----------------------------------------------------------------------------
(* The authority implements LimitedChallenge.                              *)

State == [a \in Attempts |-> IF attempt[a] = "bound" THEN "open"
                             ELSE IF attempt[a] = "gone" THEN "closed" ELSE "none"]
AnswersTaken == [a \in Attempts |-> Taken(a)]
Given == [a \in Attempts |-> Cardinality(SessionsOf(a))]

(* Before anything happens there is no challenge.                          *)
LEMMA ChallengeInit == Init => Challenge!Init
<1> SUFFICES ASSUME Init PROVE Challenge!Init
  OBVIOUS
<1>1. \A a \in Attempts : SessionsOf(a) = {}
  BY DEF Init, SessionsOf, Sessions
<1>2. \A a \in Attempts : Cardinality(SessionsOf(a)) = 0
  BY <1>1, FS_EmptySet
<1>3. State = [a \in Attempts |-> "none"]
  BY DEF Init, State
<1>4. \A a \in Attempts : Taken(a) = 0
  BY AuthenticationAssumption DEF Init, Taken
<1>5. QED
  BY <1>2, <1>3, <1>4 DEF Init, State, Challenge!Init, Challenge!Nothing

(* A step that leaves the mapped variables alone.                          *)
LEMMA SameSessions ==
  ASSUME \A s \in DeveloperSessions : session'[s] = "unused" <=> session[s] = "unused"
  PROVE  Given' = Given
<1>1. ASSUME NEW a \in Attempts PROVE SessionsOf(a)' = SessionsOf(a)
  BY DEF SessionsOf
<1>2. QED
  BY <1>1 DEF Given

(* Each store call of a request is a step of the one challenge, or none.   *)
LEMMA ChallengeStep ==
  TypeOK /\ Inv /\ [Next]_vars => [Challenge!Next]_(Challenge!challengeVars)
<1> SUFFICES ASSUME TypeOK, Inv, [Next]_vars PROVE [Challenge!Next]_(Challenge!challengeVars)
  OBVIOUS
<1> USE DEF TypeOK, historyVars, storeVars
<1>0. IssuedOnce /\ AnswersCounted /\ RemovedForCause
  BY DEF Inv
<1> DEFINE Same == State' = State /\ Given' = Given /\ UNCHANGED <<expired, right>>
                  /\ AnswersTaken' = AnswersTaken
<1>a. ASSUME Same PROVE UNCHANGED Challenge!challengeVars
  BY <1>a DEF Challenge!challengeVars, State, AnswersTaken, Given
<1>b. ASSUME UNCHANGED count PROVE AnswersTaken' = AnswersTaken
  BY <1>b DEF AnswersTaken, Taken
<1>1. ASSUME NEW r \in Requests, NEW a \in Attempts, CreateAttempt(r, a) PROVE Same
  BY <1>1, <1>b, SameSessions DEF CreateAttempt, State
<1>2. ASSUME NEW r \in Requests, NEW a \in Attempts, NEW given \in Answers, ReadAttempt(r, a, given)
      PROVE  Same
  BY <1>2, <1>b, SameSessions DEF ReadAttempt, State
<1>3. ASSUME NEW r \in Requests, BindChallenge(r) PROVE \E a \in Attempts : Challenge!Open(a)
  <2>1. PICK a \in Attempts :
           /\ attempt[a] = "unbound" /\ attempt' = [attempt EXCEPT ![a] = "bound"]
           /\ UNCHANGED <<session, expired, count, right>>
    BY <1>0, <1>3 DEF BindChallenge, IssuedOnce
  <2>2. State[a] = "none" /\ State' = [State EXCEPT ![a] = "open"]
    BY <2>1 DEF State
  <2>3. Given' = Given /\ AnswersTaken' = AnswersTaken
    BY <2>1, <1>b, SameSessions
  <2>4. Challenge!Open(a)
    BY <2>1, <2>2, <2>3 DEF Challenge!Open, State, AnswersTaken, Given
  <2>5. QED
    BY <2>1, <2>4
<1>4. ASSUME NEW r \in Requests, IssueFails(r) PROVE Same
  BY <1>4, <1>b, SameSessions DEF IssueFails, State
<1>5. ASSUME NEW a \in Attempts, ChallengeExpires(a) PROVE Challenge!Expire(a)
  <2>1. attempt[a] = "bound" /\ expired' = expired \cup {a}
        /\ UNCHANGED <<attempt, session, count, right>>
    BY <1>5 DEF ChallengeExpires
  <2>2. State[a] = "open" /\ State' = State /\ Given' = Given /\ AnswersTaken' = AnswersTaken
    BY <2>1, <1>b, SameSessions DEF State
  <2>3. QED
    BY <2>1, <2>2 DEF Challenge!Expire, State, AnswersTaken, Given
<1>6. ASSUME NEW r \in Requests, CountAndVerify(r)
      PROVE  Same \/ \E a \in Attempts : Challenge!Answer(a)
  <2> DEFINE a == target[r]
  <2>1. a \in Attempts /\ pc[r] = "counting" /\ UNCHANGED <<attempt, expired, session, target>>
    BY <1>6 DEF CountAndVerify
  <2>2. State' = State /\ Given' = Given
    BY <2>1, SameSessions DEF State
  <2>3. CASE attempt[a] = "gone"
    BY <1>6, <2>1, <2>2, <2>3, <1>b DEF CountAndVerify, Removed
  <2>4. CASE attempt[a] # "gone" /\ count[a] + 1 > MAX_ENIGMA_ATTEMPTS
    <3>1. UNCHANGED right /\ count' = [count EXCEPT ![a] = @ + 1]
      BY <1>6, <2>1, <2>4 DEF CountAndVerify, Removed, ExceedsLimit, Counted
    <3>2. AnswersTaken' = AnswersTaken
      BY <2>1, <2>4, <3>1, AuthenticationAssumption DEF AnswersTaken, Taken
    <3>3. QED
      BY <2>1, <2>2, <3>1, <3>2
  <2>5. CASE attempt[a] # "gone" /\ ~ (count[a] + 1 > MAX_ENIGMA_ATTEMPTS)
    <3>1. /\ count' = [count EXCEPT ![a] = @ + 1]
          /\ right' \in {right, [right EXCEPT ![a] = @ + 1]}
      BY <1>6, <2>1, <2>5 DEF CountAndVerify, Removed, ExceedsLimit, Counted
    <3>2. State[a] = "open"
      BY <1>0, <2>1, <2>5 DEF IssuedOnce, State
    <3>3. AnswersTaken[a] < MAX_ENIGMA_ATTEMPTS /\ AnswersTaken' = [AnswersTaken EXCEPT ![a] = @ + 1]
      <4>1. Taken(a) = count[a] /\ count[a] < MAX_ENIGMA_ATTEMPTS /\ Taken(a)' = count[a] + 1
        BY <2>1, <2>5, <3>1, AuthenticationAssumption DEF Taken
      <4>2. \A b \in Attempts : b # a => Taken(b)' = Taken(b)
        BY <2>1, <3>1 DEF Taken
      <4>3. AnswersTaken' = [b \in Attempts |-> Taken(b)']
        BY DEF AnswersTaken
      <4>4. QED
        BY <2>1, <4>1, <4>2, <4>3 DEF AnswersTaken
    <3>4. Challenge!Answer(a)
      BY <2>1, <2>2, <3>1, <3>2, <3>3 DEF Challenge!Answer, State, AnswersTaken, Given
    <3>5. QED
      BY <2>1, <3>4
  <2>6. QED
    BY <2>3, <2>4, <2>5
<1>7. ASSUME NEW r \in Requests, CreateSession(r) PROVE \E a \in Attempts : Challenge!Issue(a)
  <2>1. PICK a \in Attempts : a = target[r] /\ UNCHANGED <<target, attempt, expired, count, right>>
    BY <1>7 DEF CreateSession
  <2>2. /\ Cardinality(SessionsOf(a)') = Cardinality(SessionsOf(a)) + 1
        /\ Cardinality(SessionsOf(a)) < right[a]
        /\ \A b \in Attempts : b # a => SessionsOf(b)' = SessionsOf(b)
    <3>1. /\ Cardinality(SessionsOf(target[r])') = Cardinality(SessionsOf(target[r])) + 1
          /\ Cardinality(SessionsOf(target[r])) < right[target[r]]
          /\ \A b \in Attempts : b # target[r] => SessionsOf(b)' = SessionsOf(b)
      BY <1>0, <1>7, SessionCreated
    <3>2. SessionsOf(target[r])' = SessionsOf(a)' /\ SessionsOf(target[r]) = SessionsOf(a)
      BY <2>1 DEF SessionsOf
    <3>3. QED
      BY <2>1, <3>1, <3>2
  <2>3. Given' = [Given EXCEPT ![a] = @ + 1] /\ Given[a] < right[a]
    <3>1. \A b \in Attempts : b # a => Cardinality(SessionsOf(b)') = Cardinality(SessionsOf(b))
      BY <2>2
    <3>2. Given' = [b \in Attempts |-> Cardinality(SessionsOf(b)')]
      BY DEF Given
    <3>3. QED
      BY <2>1, <2>2, <3>1, <3>2 DEF Given
  <2>4. State' = State /\ AnswersTaken' = AnswersTaken
    BY <2>1, <1>b DEF State
  <2>5. Challenge!Issue(a)
    BY <2>1, <2>3, <2>4 DEF Challenge!Issue, State, AnswersTaken, Given
  <2>6. QED
    BY <2>1, <2>5
<1>8. ASSUME NEW r \in Requests, ConsumeAttempt(r)
      PROVE  Same \/ \E a \in Attempts : Challenge!Close(a)
  <2>1. PICK a \in Attempts :
           /\ attempt[a] \in {"bound", "gone"} /\ Cause(a)
           /\ attempt' = [attempt EXCEPT ![a] = "gone"]
           /\ UNCHANGED <<session, expired, count, right>>
    BY <1>0, <1>8 DEF ConsumeAttempt, IssuedOnce, RemovedForCause
  <2>2. Given' = Given /\ AnswersTaken' = AnswersTaken
    BY <2>1, <1>b, SameSessions
  <2>3. CASE attempt[a] = "gone"
    BY <2>1, <2>2, <2>3 DEF State
  <2>4. CASE attempt[a] = "bound"
    <3>1. State[a] = "open" /\ State' = [State EXCEPT ![a] = "closed"]
      BY <2>1, <2>4 DEF State
    <3>2. Given[a] > 0 \/ AnswersTaken[a] = MAX_ENIGMA_ATTEMPTS \/ a \in expired
      <4>1. SessionsOf(a) # {} => Cardinality(SessionsOf(a)) # 0
        BY <2>1, CountedSetsAreFinite, FS_EmptySet
      <4>2. QED
        BY <2>1, <4>1, CountedSetsAreFinite DEF Cause, AnswersTaken, Given
    <3>3. Challenge!Close(a)
      BY <2>1, <2>2, <3>1, <3>2 DEF Challenge!Close, State, AnswersTaken, Given
    <3>4. QED
      BY <2>1, <3>3
  <2>5. QED
    BY <2>1, <2>3, <2>4
<1>9. ASSUME NEW s \in Sessions, LoginGuest(s) \/ SessionExpires(s) \/ GetSession(s) \/ RevokeSession(s)
      PROVE  Same
  <2>1. \A d \in DeveloperSessions : session'[d] = "unused" <=> session[d] = "unused"
    BY <1>9, AuthenticationAssumption
    DEF LoginGuest, SessionExpires, GetSession, RevokeSession, SessionStep, Sessions
  <2>2. QED
    BY <1>9, <2>1, <1>b, SameSessions
    DEF LoginGuest, SessionExpires, GetSession, RevokeSession, SessionStep, State
<1>10. CASE UNCHANGED vars
  <2>1. Same
    BY <1>10, <1>b, SameSessions DEF vars, State
  <2>2. QED
    BY <2>1, <1>a
<1>11. QED
  BY <1>1, <1>2, <1>3, <1>4, <1>5, <1>6, <1>7, <1>8, <1>9, <1>10, <1>a
  DEF Next, RequestStep, Challenge!Next

(* Answering a challenge over copies of its record, one store call after   *)
(* the other, implements a challenge that is answered and closed in single *)
(* steps, answers that cannot be compared included (verify_developer over  *)
(* increment_challenge_attempts and consume_attempt).                      *)
THEOREM Refinement == Spec => ImplementsChallenge
<1>1. QED
  BY InvHolds, ChallengeInit, ChallengeStep, PTL DEF Spec, ImplementsChallenge, Challenge!Spec
=============================================================================
